------------------------ MODULE StateManagerProofs -------------------------
(***************************************************************************)
(* Proofs about StateManager, for any blocks: the snapshots, the state and *)
(* the undo data describe one chain, and a manager that rolls back to      *)
(* heights implements SnapshotChain.                                       *)
(***************************************************************************)
EXTENDS StateManager, FiniteInduction, SequenceTheorems

(* The loops of apply_block, disconnect_block and execute_pruning_cycle.   *)
Spending == INSTANCE Folding WITH Step <- LAMBDA a, s, e : SpendInput(s, e)
Creating == INSTANCE Folding WITH Step <- LAMBDA a, s, e : CreateOutput(s, e)
Applying == INSTANCE Folding WITH Step <- LAMBDA a, s, e : ApplyTransaction(s, e)
Writing == INSTANCE Folding WITH Step <- LAMBDA a, s, e : WriteUpdate(s, e)
Undoing == INSTANCE Folding WITH Step <- LAMBDA a, s, e : PutBack(s, e)
Rekeying == INSTANCE Folding WITH Step <- LAMBDA a, s, e : Rekey(s, e)
Unwriting == INSTANCE Folding WITH Step <- LAMBDA a, s, e : Unwrite(s, e)
Pruning == INSTANCE Folding WITH Step <- LAMBDA a, s, e : PruneDue(s, e)

IsSeq(s) == Len(s) \in Nat /\ s = [i \in 1 .. Len(s) |-> s[i]]
IsFun(f) == f = [x \in DOMAIN f |-> f[x]]
IsMarkers(f) == IsFun(f) /\ IsFiniteSet(DOMAIN f)

(* The fields of the struct, and the UTXO set. *)
Fields == {"tree", "height", "supply", "gas_fees", "pending_updates", "prune_markers",
           "outpoint_to_key", "utxo", "block_hash", "block_undo_data", "snapshots",
           "snapshot_storages", "panicked"}
IsManager(m) == IsFun(m) /\ DOMAIN m = Fields /\ DOMAIN m.tree = {"leaves", "pruned"}

(* The types of the fields the steps rely on.                              *)
FieldsOK(m) ==
    /\ IsManager(m) /\ ~m.panicked
    /\ IsFun(m.tree.leaves)
    /\ m.height \in Nat /\ m.supply \in Nat
    /\ m.block_hash \in Block \cup {NoBlock}
    /\ IsFun(m.block_undo_data) /\ DOMAIN m.block_undo_data \subseteq Block
    /\ IsFun(m.utxo) /\ IsFun(m.outpoint_to_key) /\ IsMarkers(m.prune_markers)
    /\ \A op \in DOMAIN m.utxo : m.utxo[op] \in TxOutput

(* Leaves that blocks can have written, and the supply committed with them. *)
Committed(leaves, supply) ==
    /\ supply \in 0 .. MAX_GLOBAL_SUPPLY_NANO_SLUG
    /\ SUPPLY_KEY \in DOMAIN leaves /\ leaves[SUPPLY_KEY] = <<"supply", supply>>
LeavesOK(leaves) == IsFun(leaves) /\ DOMAIN leaves \subseteq Keys /\ \A k \in DOMAIN leaves : leaves[k] \in Values

(* One snapshot and one storage of the same tree per height, one block per *)
(* height above the first.                                                 *)
SnapshotOK(m, i) ==
    LET snap == m.snapshots[i]
    IN  /\ snap.height = i - 1 /\ snap.root = m.snapshot_storages[i] /\ IsFun(snap.root)
        /\ i = 1 => /\ snap.total_supply = 0 /\ snap.root = [x \in {} |-> <<>>]
                    /\ snap.last_block_hash = NoBlock
        /\ i > 1 => snap.last_block_hash \in Block /\ Committed(snap.root, snap.total_supply)
SnapshotsOK(m) ==
    /\ IsSeq(m.snapshots) /\ IsSeq(m.snapshot_storages)
    /\ Len(m.snapshots) = m.height + 1 /\ Len(m.snapshot_storages) = m.height + 1
    /\ \A i \in 1 .. m.height + 1 : SnapshotOK(m, i)
    /\ \A i, j \in 1 .. m.height : Chain(m)[i] = Chain(m)[j] => i = j

(* What each way back keeps in step with the last snapshot.                *)
Top(m) == m.snapshots[m.height + 1]
RollOK(m) ==
    /\ FieldsOK(m) /\ SnapshotsOK(m)
    /\ m.tree.leaves = Top(m).root /\ m.supply = Top(m).total_supply
    /\ \A i \in 1 .. m.height + 1 : LeavesOK(m.snapshots[i].root)
RestoreOK(m) == m.tree.leaves = Top(m).root /\ m.block_hash = Top(m).last_block_hash

(* Outputs and their worth.                                                *)
AllOutputs == UNION {CreatedBy(b) : b \in Block}
Worth == [op \in AllOutputs |-> OutputOf(op).value]
CreatedUpTo(m, n) == UNION {CreatedBy(Chain(m)[i]) : i \in 1 .. n}
SpentUpTo(m, n) == UNION {SpentBy(Chain(m)[i]) : i \in 1 .. n}

(* The UTXO set holds outputs of the chain, which the supply covers.       *)
UtxoOK(m) ==
    /\ IsFiniteSet(DOMAIN m.utxo) /\ DOMAIN m.utxo \subseteq CreatedUpTo(m, m.height)
    /\ \A op \in DOMAIN m.utxo : m.utxo[op] = OutputOf(op)
    /\ Sum(Worth, DOMAIN m.utxo) <= m.supply
    /\ DOMAIN m.block_undo_data = ToSet(Chain(m))

(* The undo data u takes a block back that created C and spent S.          *)
UndoOK(u, C, S) ==
    /\ IsSeq(u.created) /\ ToSet(u.created) = C /\ IsSeq(u.verkle)
    /\ IsSeq(u.spent) /\ {u.spent[i][1] : i \in 1 .. Len(u.spent)} = S
    /\ \A i \in 1 .. Len(u.spent) : u.spent[i][2] = OutputOf(u.spent[i][1])
    /\ u.delta = Sum(Worth, C) - Sum(Worth, S)

(* A chain that only grows and shrinks at its tip: every block in it spent *)
(* outputs of the blocks below it, and can be taken back.                  *)
UndoneOK(m) ==
    /\ UtxoOK(m)
    /\ DOMAIN m.utxo = CreatedUpTo(m, m.height) \ SpentUpTo(m, m.height)
    /\ Sum(Worth, DOMAIN m.utxo) = m.supply
    /\ \A k \in 1 .. m.height :
        /\ SpentBy(Chain(m)[k]) \subseteq CreatedUpTo(m, k - 1) \ SpentUpTo(m, k - 1)
        /\ UndoOK(m.block_undo_data[Chain(m)[k]], CreatedBy(Chain(m)[k]), SpentBy(Chain(m)[k]))

(* While nothing is disconnected, an output is in the tree under its key.  *)
Identity(D) == [op \in D |-> op]
BackedOK(m) ==
    /\ UtxoOK(m) /\ m.outpoint_to_key = Identity(DOMAIN m.utxo)
    /\ \A op \in DOMAIN m.utxo :
        op \in DOMAIN m.tree.leaves /\ m.tree.leaves[op] = OutputValue(m.utxo[op])
    /\ m.supply <= MAX_GLOBAL_SUPPLY_NANO_SLUG
    /\ m.height > 0 => Committed(m.tree.leaves, m.supply)

(* The inductive invariant. *)
StateInv ==
    /\ FieldsOK(sm) /\ SnapshotsOK(sm)
    /\ usage \in {"undo", "rollback", "restore", "prune"}
    /\ usage = "rollback" => RollOK(sm)
    /\ usage = "restore" => RestoreOK(sm)
    /\ usage = "undo" => UndoneOK(sm)
    /\ usage = "prune" => BackedOK(sm)

----------------------------------------------------------------------------
(* Sequences and functions of any values. *)

(* Sequences, as functions on their positions. *)
LEMMA SeqIs ==
  ASSUME NEW s
  PROVE  /\ IsSeq(s) => s \in Seq(ToSet(s)) /\ DOMAIN s = 1 .. Len(s) /\ Len(s) \in Nat
         /\ \A S : s \in Seq(S) => IsSeq(s)
<1>1. ASSUME IsSeq(s) PROVE s \in Seq(ToSet(s)) /\ DOMAIN s = 1 .. Len(s) /\ Len(s) \in Nat
  <2>1. DOMAIN s = 1 .. Len(s) /\ Len(s) \in Nat
    BY <1>1 DEF IsSeq
  <2>2. \A i \in 1 .. Len(s) : s[i] \in ToSet(s)
    BY <2>1 DEF ToSet
  <2>3. s \in Seq(ToSet(s))
    BY <1>1, <2>1, <2>2 DEF IsSeq
  <2> QED
    BY <2>1, <2>3
<1>2. ASSUME NEW S, s \in Seq(S) PROVE IsSeq(s)
  BY <1>2 DEF IsSeq
<1> QED
  BY <1>1, <1>2

(* A sequence with one more element. *)
LEMMA AppendIs ==
  ASSUME NEW s, NEW e, IsSeq(s)
  PROVE  /\ IsSeq(Append(s, e)) /\ Len(Append(s, e)) = Len(s) + 1
         /\ Append(s, e)[Len(s) + 1] = e
         /\ \A i \in 1 .. Len(s) : Append(s, e)[i] = s[i]
<1> DEFINE S == ToSet(s) \cup {e}
<1>1. Len(s) \in Nat /\ DOMAIN s = 1 .. Len(s) /\ s \in Seq(ToSet(s))
  BY SeqIs
<1>2. s \in Seq(S) /\ e \in S
  BY <1>1
<1> HIDE DEF S
<1>3. /\ Append(s, e) \in Seq(S) /\ Len(Append(s, e)) = Len(s) + 1
      /\ \A i \in 1 .. Len(s) : Append(s, e)[i] = s[i]
      /\ Append(s, e)[Len(s) + 1] = e
  BY <1>1, <1>2, AppendProperties
<1>4. IsSeq(Append(s, e))
  BY <1>3, SeqIs, Zenon
<1> QED
  BY <1>3, <1>4

(* The first n elements of a sequence. *)
LEMMA PrefixIs ==
  ASSUME NEW s, IsSeq(s), NEW n \in Nat, n <= Len(s)
  PROVE  /\ IsSeq(Prefix(s, n)) /\ Len(Prefix(s, n)) = n
         /\ \A i \in 1 .. n : Prefix(s, n)[i] = s[i]
         /\ n = Len(s) => Prefix(s, n) = s
<1>1. Len(s) \in Nat /\ DOMAIN s = 1 .. Len(s) /\ s \in Seq(ToSet(s))
  BY SeqIs
<1>2. Prefix(s, n) = SubSeq(s, 1, n)
  <2>1. ASSUME NEW k \in Nat, n <= k PROVE (IF n < k THEN n ELSE k) = n
    BY <2>1
  <2>2. (IF n < Len(s) THEN n ELSE Len(s)) = n
    BY <1>1, <2>1, Zenon
  <2> QED
    BY <2>2, Zenon DEF Prefix
<1>3. \A i \in 1 .. n : s[i] \in ToSet(s)
  BY <1>1 DEF ToSet
<1>4. /\ SubSeq(s, 1, n) \in Seq(ToSet(s)) /\ Len(SubSeq(s, 1, n)) = n
      /\ \A i \in 1 .. n : SubSeq(s, 1, n)[i] = s[1 + i - 1]
  BY <1>1, <1>3, SubSeqProperties
<1>5. n = Len(s) => SubSeq(s, 1, n) = s
  BY <1>1, SubSeqFull
<1>6. \A i \in 1 .. n : 1 + i - 1 = i
  OBVIOUS
<1> QED
  BY <1>2, <1>4, <1>5, <1>6, SeqIs

(* Without one of its markers it is still a map of markers. *)
LEMMA DropMarkers ==
  ASSUME NEW f, IsMarkers(f), NEW x
  PROVE  IsMarkers(Drop(f, x))
<1>1. DOMAIN Drop(f, x) \subseteq DOMAIN f /\ IsFun(Drop(f, x))
  BY DEF Drop, IsFun
<1>2. IsFiniteSet(DOMAIN f)
  BY DEF IsMarkers
<1> QED
  BY <1>1, <1>2, FS_Subset DEF IsMarkers

----------------------------------------------------------------------------
(* The steps of the loops of apply_block, field by field. *)
IsLoop(s) ==
    /\ DOMAIN s = {"ok", "m", "undo"} /\ s.ok \in BOOLEAN /\ IsManager(s.m)
    /\ DOMAIN s.undo = {"spent", "created", "verkle", "delta", "gas"}

(* The fields of the manager none of them touches. *)
SameChain(m, n) ==
    /\ n.height = m.height /\ n.block_hash = m.block_hash /\ n.block_undo_data = m.block_undo_data
    /\ n.snapshots = m.snapshots /\ n.snapshot_storages = m.snapshot_storages
    /\ n.panicked = m.panicked

(* What apply_block does for one input. *)
LEMMA SpendIs ==
  ASSUME NEW s, NEW op, IsLoop(s), s.ok, op \in DOMAIN s.m.utxo
  PROVE  LET r == SpendInput(s, op)
             o == s.m.utxo[op]
         IN  /\ IsLoop(r) /\ r.ok = s.ok /\ SameChain(s.m, r.m)
             /\ r.undo.spent = Append(s.undo.spent, <<op, o>>) /\ r.undo.delta = s.undo.delta - o.value
             /\ r.undo.created = s.undo.created /\ r.undo.verkle = s.undo.verkle
             /\ r.m.supply = SaturatingSub(s.m.supply, o.value)
             /\ r.m.utxo = Drop(s.m.utxo, op)
             /\ r.m.outpoint_to_key = Drop(s.m.outpoint_to_key, op)
             /\ r.m.prune_markers = Drop(s.m.prune_markers, op)
             /\ r.m.tree = s.m.tree /\ r.m.pending_updates = s.m.pending_updates
             /\ r.m.gas_fees = s.m.gas_fees
<1> DEFINE o == s.m.utxo[op]
           u == [s.undo EXCEPT !.spent = Append(s.undo.spent, <<op, o>>), !.delta = s.undo.delta - o.value]
           n == [s.m EXCEPT !.supply = SaturatingSub(s.m.supply, o.value), !.utxo = Drop(s.m.utxo, op),
                            !.outpoint_to_key = Drop(s.m.outpoint_to_key, op),
                            !.prune_markers = Drop(s.m.prune_markers, op)]
           r == SpendInput(s, op)
<1>1. r = [s EXCEPT !.undo = u, !.m = n]
  BY Zenon DEF SpendInput
<1>2. /\ DOMAIN u = {"spent", "created", "verkle", "delta", "gas"} /\ u.created = s.undo.created
      /\ u.spent = Append(s.undo.spent, <<op, o>>) /\ u.delta = s.undo.delta - o.value
      /\ u.verkle = s.undo.verkle
  BY DEF IsLoop
<1>3. IsManager(n) /\ SameChain(s.m, n) /\ n.supply = SaturatingSub(s.m.supply, o.value)
      /\ n.utxo = Drop(s.m.utxo, op) /\ n.outpoint_to_key = Drop(s.m.outpoint_to_key, op)
      /\ n.prune_markers = Drop(s.m.prune_markers, op)
      /\ n.tree = s.m.tree /\ n.pending_updates = s.m.pending_updates /\ n.gas_fees = s.m.gas_fees
  BY DEF IsLoop, IsManager, IsFun, Fields, SameChain
<1> HIDE DEF u, n, r
<1>4. DOMAIN r = DOMAIN s /\ r.ok = s.ok /\ r.m = n /\ r.undo = u
  BY <1>1 DEF IsLoop
<1>5. IsLoop(r)
  BY <1>2, <1>3, <1>4 DEF IsLoop
<1> QED
  BY <1>2, <1>3, <1>4, <1>5, Zenon DEF r

(* What it does for one output. *)
LEMMA CreateIs ==
  ASSUME NEW s, NEW e, IsLoop(s)
  PROVE  LET r == CreateOutput(s, e)
         IN  /\ IsLoop(r) /\ r.ok = s.ok /\ SameChain(s.m, r.m)
             /\ r.undo.created = Append(s.undo.created, e[1]) /\ r.undo.delta = s.undo.delta + e[2].value
             /\ r.undo.spent = s.undo.spent
             /\ r.undo.verkle = Append(s.undo.verkle, <<e[1], TreeGet(s.m.tree, e[1])>>)
             /\ r.m.supply = s.m.supply + e[2].value
             /\ r.m.utxo = Put(s.m.utxo, e[1], e[2])
             /\ r.m.outpoint_to_key = Put(s.m.outpoint_to_key, e[1], e[1])
             /\ r.m.prune_markers = s.m.prune_markers
             /\ r.m.tree = s.m.tree /\ r.m.pending_updates = Append(s.m.pending_updates, <<e[1], e[2]>>)
             /\ r.m.gas_fees = s.m.gas_fees
<1> DEFINE u == [s.undo EXCEPT !.verkle = Append(s.undo.verkle, <<e[1], TreeGet(s.m.tree, e[1])>>),
                               !.created = Append(s.undo.created, e[1]), !.delta = s.undo.delta + e[2].value]
           n == [s.m EXCEPT !.utxo = Put(s.m.utxo, e[1], e[2]),
                            !.pending_updates = Append(s.m.pending_updates, <<e[1], e[2]>>),
                            !.outpoint_to_key = Put(s.m.outpoint_to_key, e[1], e[1]),
                            !.supply = s.m.supply + e[2].value]
           r == CreateOutput(s, e)
<1>1. r = [s EXCEPT !.undo = u, !.m = n]
  BY Zenon DEF CreateOutput, HashWithIndex
<1>2. /\ DOMAIN u = {"spent", "created", "verkle", "delta", "gas"} /\ u.spent = s.undo.spent
      /\ u.created = Append(s.undo.created, e[1]) /\ u.delta = s.undo.delta + e[2].value
      /\ u.verkle = Append(s.undo.verkle, <<e[1], TreeGet(s.m.tree, e[1])>>)
  BY DEF IsLoop
<1>3. IsManager(n) /\ SameChain(s.m, n) /\ n.supply = s.m.supply + e[2].value
      /\ n.utxo = Put(s.m.utxo, e[1], e[2]) /\ n.outpoint_to_key = Put(s.m.outpoint_to_key, e[1], e[1])
      /\ n.prune_markers = s.m.prune_markers /\ n.tree = s.m.tree
      /\ n.pending_updates = Append(s.m.pending_updates, <<e[1], e[2]>>) /\ n.gas_fees = s.m.gas_fees
  BY DEF IsLoop, IsManager, IsFun, Fields, SameChain
<1> HIDE DEF u, n, r
<1>4. DOMAIN r = DOMAIN s /\ r.ok = s.ok /\ r.m = n /\ r.undo = u
  BY <1>1 DEF IsLoop
<1>5. IsLoop(r)
  BY <1>2, <1>3, <1>4 DEF IsLoop
<1> QED
  BY <1>2, <1>3, <1>4, <1>5, Zenon DEF r

(* What it does for a contract call. *)
LEMMA ContractIs ==
  ASSUME NEW s, NEW tx, IsLoop(s)
  PROVE  LET r == ApplyContractTransition(s, tx)
         IN  /\ IsLoop(r) /\ r.ok = s.ok /\ SameChain(s.m, r.m)
             /\ r.undo.created = s.undo.created /\ r.undo.delta = s.undo.delta
             /\ r.undo.spent = s.undo.spent /\ r.undo.verkle = s.undo.verkle
             /\ r.m.supply = s.m.supply /\ r.m.utxo = s.m.utxo
             /\ r.m.outpoint_to_key = s.m.outpoint_to_key /\ r.m.prune_markers = s.m.prune_markers
             /\ r.m.tree.leaves = PutAll(s.m.tree.leaves, tx.writes)
             /\ r.m.tree.pruned = s.m.tree.pruned /\ r.m.pending_updates = s.m.pending_updates
<1> DEFINE w == CreateGasFeeWitness(tx.gas_fee)
           t == [s.m.tree EXCEPT !.leaves = PutAll(s.m.tree.leaves, tx.writes)]
           u == [s.undo EXCEPT !.gas = Append(s.undo.gas, w)]
           n == [s.m EXCEPT !.tree = t, !.gas_fees = Append(s.m.gas_fees, w)]
           r == ApplyContractTransition(s, tx)
<1>1. r = [s EXCEPT !.m = n, !.undo = u]
  BY Zenon DEF ApplyContractTransition
<1>2. /\ DOMAIN u = {"spent", "created", "verkle", "delta", "gas"} /\ u.spent = s.undo.spent
      /\ u.created = s.undo.created /\ u.delta = s.undo.delta /\ u.verkle = s.undo.verkle
  BY DEF IsLoop
<1>3. DOMAIN t = {"leaves", "pruned"} /\ t.pruned = s.m.tree.pruned
      /\ t.leaves = PutAll(s.m.tree.leaves, tx.writes)
  BY DEF IsLoop, IsManager
<1> HIDE DEF t
<1>4. IsManager(n) /\ SameChain(s.m, n) /\ n.supply = s.m.supply /\ n.utxo = s.m.utxo
      /\ n.outpoint_to_key = s.m.outpoint_to_key /\ n.prune_markers = s.m.prune_markers
      /\ n.tree = t /\ n.pending_updates = s.m.pending_updates
  BY <1>3 DEF IsLoop, IsManager, IsFun, Fields, SameChain
<1> HIDE DEF u, n, r
<1>5. DOMAIN r = DOMAIN s /\ r.ok = s.ok /\ r.m = n /\ r.undo = u
  BY <1>1 DEF IsLoop
<1>6. IsLoop(r)
  BY <1>2, <1>4, <1>5 DEF IsLoop
<1> QED
  BY <1>2, <1>3, <1>4, <1>5, <1>6, Zenon DEF r

(* A refused step only notes that it failed. *)
LEMMA FailIs ==
  ASSUME NEW s, IsLoop(s)
  PROVE  LET r == [s EXCEPT !.ok = FALSE]
         IN  IsLoop(r) /\ ~r.ok /\ r.m = s.m /\ r.undo = s.undo
  BY DEF IsLoop

----------------------------------------------------------------------------
(* What holds of any block, whatever its transactions do. *)
UpdatesOK(q) ==
    IsSeq(q) /\ \A i \in 1 .. Len(q) : q[i][1] \in Keys /\ OutputValue(q[i][2]) \in Values

TypesOK(n) ==
    /\ n.supply \in Nat /\ IsFun(n.utxo) /\ IsFun(n.outpoint_to_key) /\ IsMarkers(n.prune_markers)
    /\ IsFun(n.tree.leaves)
    /\ \A op \in DOMAIN n.utxo : n.utxo[op] \in TxOutput

Frame(m, s) ==
    /\ IsLoop(s) /\ SameChain(m, s.m) /\ TypesOK(s.m) /\ UpdatesOK(s.m.pending_updates)
    /\ LeavesOK(m.tree.leaves) => LeavesOK(s.m.tree.leaves)

(* Spending an input keeps chain, snapshots and types. *)
LEMMA FrameSpend ==
  ASSUME NEW m, NEW s, NEW op, Frame(m, s)
  PROVE  Frame(m, SpendInput(s, op))
<1> DEFINE r == SpendInput(s, op)
           o == s.m.utxo[op]
<1>0. IsLoop(s) /\ SameChain(m, s.m) /\ TypesOK(s.m)
  BY DEF Frame
<1>1. CASE ~s.ok \/ op \notin DOMAIN s.m.utxo
  <2>1. IsLoop(r) /\ r.m = s.m
    BY <1>0, <1>1, FailIs, Zenon DEF SpendInput
  <2> HIDE DEF r
  <2> QED
    BY <2>1, Zenon DEF Frame, r
<1>2. CASE s.ok /\ op \in DOMAIN s.m.utxo
  <2>1. /\ IsLoop(r) /\ SameChain(s.m, r.m) /\ r.m.supply = SaturatingSub(s.m.supply, o.value)
        /\ r.m.utxo = Drop(s.m.utxo, op)
        /\ r.m.outpoint_to_key = Drop(s.m.outpoint_to_key, op)
        /\ r.m.prune_markers = Drop(s.m.prune_markers, op)
        /\ r.m.tree = s.m.tree /\ r.m.pending_updates = s.m.pending_updates
    BY <1>0, <1>2, SpendIs
  <2> HIDE DEF r
  <2>2. o.value \in Nat
    BY <1>0, <1>2 DEF TypesOK, TxOutput
  <2>3. SaturatingSub(s.m.supply, o.value) \in Nat
    BY <1>0, <2>2 DEF TypesOK, SaturatingSub
  <2>4. SameChain(m, r.m)
    BY <1>0, <2>1 DEF SameChain
  <2>5. TypesOK(r.m)
    <3> HIDE DEF o
    <3>1. IsFun(r.m.utxo) /\ IsFun(r.m.outpoint_to_key) /\ IsMarkers(r.m.prune_markers)
      <4>1. IsMarkers(s.m.prune_markers)
        BY <1>0 DEF TypesOK
      <4>2. IsMarkers(r.m.prune_markers)
        BY <2>1, <4>1, DropMarkers
      <4> QED
        BY <2>1, <4>2 DEF IsFun, Drop
    <3>2. \A x \in DOMAIN r.m.utxo : r.m.utxo[x] \in TxOutput
      BY <1>0, <2>1 DEF Drop, TypesOK
    <3> QED
      BY <1>0, <2>1, <2>3, <3>1, <3>2 DEF TypesOK
  <2> QED
    BY <2>1, <2>4, <2>5, Zenon DEF Frame, r
<1> QED
  BY <1>0, <1>1, <1>2 DEF IsLoop

(* Creating an output does. *)
LEMMA FrameCreate ==
  ASSUME NEW m, NEW s, NEW e, Frame(m, s),
         e[1] \in Keys, e[2] \in TxOutput, OutputValue(e[2]) \in Values
  PROVE  Frame(m, CreateOutput(s, e))
<1> DEFINE r == CreateOutput(s, e)
<1>0. IsLoop(s) /\ SameChain(m, s.m) /\ TypesOK(s.m) /\ UpdatesOK(s.m.pending_updates)
  BY DEF Frame
<1>1. /\ IsLoop(r) /\ SameChain(s.m, r.m) /\ r.m.supply = s.m.supply + e[2].value
      /\ r.m.utxo = Put(s.m.utxo, e[1], e[2])
      /\ r.m.outpoint_to_key = Put(s.m.outpoint_to_key, e[1], e[1])
      /\ r.m.prune_markers = s.m.prune_markers
      /\ r.m.tree = s.m.tree /\ r.m.pending_updates = Append(s.m.pending_updates, <<e[1], e[2]>>)
  BY <1>0, CreateIs, Zenon
<1> HIDE DEF r
<1>2. SameChain(m, r.m)
  BY <1>0, <1>1 DEF SameChain
<1>3. TypesOK(r.m)
  <2>1. e[2].value \in Nat
    BY DEF TxOutput
  <2>2. IsFun(r.m.utxo) /\ IsFun(r.m.outpoint_to_key)
    BY <1>1 DEF IsFun, Put
  <2>3. \A x \in DOMAIN r.m.utxo : r.m.utxo[x] \in TxOutput
    BY <1>0, <1>1 DEF Put, TypesOK
  <2> QED
    BY <1>0, <1>1, <2>1, <2>2, <2>3 DEF TypesOK
<1>4. UpdatesOK(r.m.pending_updates)
  <2> DEFINE q == s.m.pending_updates
             p == Append(q, <<e[1], e[2]>>)
  <2>1. IsSeq(q) /\ \A i \in 1 .. Len(q) : q[i][1] \in Keys /\ OutputValue(q[i][2]) \in Values
    BY <1>0 DEF UpdatesOK
  <2>2. /\ IsSeq(p) /\ Len(p) = Len(q) + 1 /\ p[Len(q) + 1] = <<e[1], e[2]>> /\ Len(q) \in Nat
        /\ \A i \in 1 .. Len(q) : p[i] = q[i]
    BY <2>1, AppendIs DEF IsSeq
  <2> HIDE DEF p, q
  <2>3. \A i \in 1 .. Len(p) : i \in 1 .. Len(q) \/ i = Len(q) + 1
    BY <2>2
  <2>4. <<e[1], e[2]>>[1] = e[1] /\ <<e[1], e[2]>>[2] = e[2]
    OBVIOUS
  <2>5. ASSUME NEW i \in 1 .. Len(p) PROVE p[i][1] \in Keys /\ OutputValue(p[i][2]) \in Values
    BY <2>1, <2>2, <2>3, <2>4, Zenon
  <2> QED
    BY <1>1, <2>2, <2>5, Zenon DEF UpdatesOK, p, q
<1> QED
  BY <1>1, <1>2, <1>3, <1>4, Zenon DEF Frame, r

(* A contract call does. *)
LEMMA FrameContract ==
  ASSUME NEW m, NEW s, NEW tx \in Transactions, Frame(m, s)
  PROVE  Frame(m, ApplyContractTransition(s, tx))
<1> DEFINE r == ApplyContractTransition(s, tx)
<1>0. IsLoop(s) /\ SameChain(m, s.m) /\ TypesOK(s.m)
  BY DEF Frame
<1>1. /\ IsLoop(r) /\ SameChain(s.m, r.m) /\ r.m.supply = s.m.supply /\ r.m.utxo = s.m.utxo
      /\ r.m.outpoint_to_key = s.m.outpoint_to_key /\ r.m.prune_markers = s.m.prune_markers
      /\ r.m.tree.leaves = PutAll(s.m.tree.leaves, tx.writes)
      /\ r.m.pending_updates = s.m.pending_updates
  BY <1>0, ContractIs, Zenon
<1> HIDE DEF r
<1>2. SameChain(m, r.m)
  BY <1>0, <1>1 DEF SameChain
<1>3. IsFun(r.m.tree.leaves)
  BY <1>1 DEF IsFun, PutAll
<1>4. TypesOK(r.m)
  BY <1>0, <1>1, <1>3 DEF TypesOK
<1>5. ASSUME LeavesOK(s.m.tree.leaves) PROVE LeavesOK(r.m.tree.leaves)
  <2>1. DOMAIN tx.writes \subseteq Keys
    BY DEF Keys
  <2>2. ASSUME NEW k \in DOMAIN tx.writes PROVE tx.writes[k] \in Values
    <3>1. tx.writes[k] \in Range(tx.writes)
      BY DEF Range
    <3> QED
      BY <3>1 DEF Values
  <2>3. DOMAIN r.m.tree.leaves = DOMAIN s.m.tree.leaves \cup DOMAIN tx.writes
    BY <1>1 DEF PutAll
  <2>4. ASSUME NEW k \in DOMAIN r.m.tree.leaves PROVE r.m.tree.leaves[k] \in Values
    BY <1>1, <1>5, <2>2, <2>3 DEF PutAll, LeavesOK
  <2> QED
    BY <1>3, <1>5, <2>1, <2>3, <2>4 DEF LeavesOK
<1> QED
  BY <1>1, <1>2, <1>4, <1>5, Zenon DEF Frame, r

(* FoldLeft as the folds of these loops; the instances of Folding have a   *)
(* copy of its definitions.                                                *)
LEMMA LoopsAre ==
  ASSUME NEW s, NEW q
  PROVE  /\ FoldLeft(SpendInput, s, q) = Spending!Fold(<<>>, s, q)
         /\ FoldLeft(CreateOutput, s, q) = Creating!Fold(<<>>, s, q)
         /\ FoldLeft(ApplyTransaction, s, q) = Applying!Fold(<<>>, s, q)
         /\ FoldLeft(WriteUpdate, s, q) = Writing!Fold(<<>>, s, q)
         /\ FoldLeft(PutBack, s, q) = Undoing!Fold(<<>>, s, q)
         /\ FoldLeft(Rekey, s, q) = Rekeying!Fold(<<>>, s, q)
         /\ FoldLeft(Unwrite, s, q) = Unwriting!Fold(<<>>, s, q)
         /\ FoldLeft(PruneDue, s, q) = Pruning!Fold(<<>>, s, q)
<1>1. FoldLeft(SpendInput, s, q) = Spending!Fold(<<>>, s, q)
  BY Zenon DEF FoldLeft, MapThenFoldSet, Max, Spending!Fold, Spending!IsIter, Spending!Latest
<1>2. FoldLeft(CreateOutput, s, q) = Creating!Fold(<<>>, s, q)
  BY Zenon DEF FoldLeft, MapThenFoldSet, Max, Creating!Fold, Creating!IsIter, Creating!Latest
<1>3. FoldLeft(ApplyTransaction, s, q) = Applying!Fold(<<>>, s, q)
  BY Zenon DEF FoldLeft, MapThenFoldSet, Max, Applying!Fold, Applying!IsIter, Applying!Latest
<1>4. FoldLeft(WriteUpdate, s, q) = Writing!Fold(<<>>, s, q)
  BY Zenon DEF FoldLeft, MapThenFoldSet, Max, Writing!Fold, Writing!IsIter, Writing!Latest
<1>5. FoldLeft(PutBack, s, q) = Undoing!Fold(<<>>, s, q)
  BY Zenon DEF FoldLeft, MapThenFoldSet, Max, Undoing!Fold, Undoing!IsIter, Undoing!Latest
<1>6. FoldLeft(PruneDue, s, q) = Pruning!Fold(<<>>, s, q)
  BY Zenon DEF FoldLeft, MapThenFoldSet, Max, Pruning!Fold, Pruning!IsIter, Pruning!Latest
<1>7. FoldLeft(Rekey, s, q) = Rekeying!Fold(<<>>, s, q)
  BY Zenon DEF FoldLeft, MapThenFoldSet, Max, Rekeying!Fold, Rekeying!IsIter, Rekeying!Latest
<1>8. FoldLeft(Unwrite, s, q) = Unwriting!Fold(<<>>, s, q)
  BY Zenon DEF FoldLeft, MapThenFoldSet, Max, Unwriting!Fold, Unwriting!IsIter, Unwriting!Latest
<1> QED
  BY <1>1, <1>2, <1>3, <1>4, <1>5, <1>6, <1>7, <1>8

(* All inputs of a transaction do. *)
LEMMA FrameSpends ==
  ASSUME NEW m, NEW s, NEW q, IsSeq(q), Frame(m, s)
  PROVE  Frame(m, FoldLeft(SpendInput, s, q))
<1>0. Len(q) \in Nat /\ DOMAIN q = 1 .. Len(q)
  BY SeqIs
<1>1. PICK f : Spending!IsTrace(<<>>, f, s, q) /\ Spending!Fold(<<>>, s, q) = f[Len(q)]
  BY <1>0, Leasts, Spending!FoldTrace, Zenon
<1>2. f[0] = s /\ \A i \in 1 .. Len(q) : f[i] = SpendInput(f[i - 1], q[i])
  BY <1>0, <1>1, Spending!TraceStep
<1> DEFINE G == {i \in 0 .. Len(q) : Frame(m, f[i])}
<1>3. 0 \in G
  BY <1>0, <1>2
<1>4. ASSUME NEW i \in 0 .. Len(q) - 1, i \in G PROVE i + 1 \in G
  <2>1. i + 1 \in 1 .. Len(q) /\ (i + 1) - 1 = i /\ i + 1 \in 0 .. Len(q)
    BY <1>0
  <2>2. f[i + 1] = SpendInput(f[i], q[i + 1]) /\ Frame(m, f[i])
    BY <1>2, <1>4, <2>1
  <2>3. Frame(m, f[i + 1])
    BY <2>2, FrameSpend
  <2> QED
    BY <2>1, <2>3
<1>5. Len(q) \in G
  <2>1. \A i \in 0 .. Len(q) - 1 : i \in G => i + 1 \in G
    BY <1>4
  <2>2. Len(q) \in 0 .. Len(q)
    BY <1>0
  <2> HIDE DEF G
  <2>3. \A i \in 0 .. Len(q) : i \in G
    BY <1>0, <1>3, <2>1, UpTo
  <2> QED
    BY <2>2, <2>3
<1> QED
  BY <1>1, <1>5, LoopsAre

(* The outputs of a transaction, as the loop takes them. *)
LEMMA NewOutputsAre ==
  ASSUME NEW tx \in Transactions
  PROVE  /\ IsSeq(tx.inputs) /\ IsSeq(tx.outputs) /\ IsSeq(NewOutputs(tx))
         /\ Len(NewOutputs(tx)) = Len(tx.outputs)
         /\ \A i \in 1 .. Len(tx.outputs) :
                /\ NewOutputs(tx)[i][1] = <<tx.id, i - 1>> /\ NewOutputs(tx)[i][2] = tx.outputs[i]
                /\ <<tx.id, i - 1>> \in CreatedIn(tx) /\ <<tx.id, i - 1>> \in Keys
                /\ tx.outputs[i] \in TxOutput /\ OutputValue(tx.outputs[i]) \in Values
<1> DEFINE q == NewOutputs(tx)
           n == Len(tx.outputs)
<1>1. tx.inputs \in Seq(ToSet(tx.inputs)) /\ tx.outputs \in Seq(TxOutput)
  BY StateAssumption
<1>2. IsSeq(tx.inputs) /\ IsSeq(tx.outputs) /\ n \in Nat /\ DOMAIN tx.outputs = 1 .. n
  BY <1>1, SeqIs
<1>3. q = [i \in 1 .. n |-> <<<<tx.id, i - 1>>, tx.outputs[i]>>]
  BY <1>2, Zenon DEF NewOutputs
<1> HIDE DEF q, n
<1>4. IsSeq(q) /\ Len(q) = n
  BY <1>2, <1>3 DEF IsSeq
<1>5. ASSUME NEW i \in 1 .. n PROVE q[i] = <<<<tx.id, i - 1>>, tx.outputs[i]>>
  BY <1>3
<1>6. ASSUME NEW i \in 1 .. n PROVE q[i][1] = <<tx.id, i - 1>> /\ q[i][2] = tx.outputs[i]
  BY <1>5
<1>7. ASSUME NEW i \in 1 .. n PROVE <<tx.id, i - 1>> \in CreatedIn(tx) /\ <<tx.id, i - 1>> \in Keys
  <2>1. <<tx.id, i - 1>> \in CreatedIn(tx)
    BY <1>2, Zenon DEF CreatedIn
  <2> QED
    BY <2>1, Zenon DEF Keys
<1>8. ASSUME NEW i \in 1 .. n PROVE tx.outputs[i] \in TxOutput /\ OutputValue(tx.outputs[i]) \in Values
  <2>1. tx.outputs[i] \in TxOutput
    BY <1>1 DEF n
  <2>2. tx.outputs[i] \in ToSet(tx.outputs)
    BY <1>2 DEF ToSet
  <2>3. OutputValue(tx.outputs[i]) \in {OutputValue(o) : o \in ToSet(tx.outputs)}
    BY <2>2, Zenon
  <2> DEFINE W(ty) == Range(ty.writes) \cup {OutputValue(o) : o \in ToSet(ty.outputs)}
  <2>4. OutputValue(tx.outputs[i]) \in W(tx)
    BY <2>3, Zenon
  <2>5. OutputValue(tx.outputs[i]) \in UNION {W(ty) : ty \in Transactions}
    <3> HIDE DEF W
    <3> QED
      BY <2>4, Zenon
  <2> QED
    BY <2>1, <2>5, Zenon DEF Values
<1> QED
  BY <1>2, <1>4, <1>6, <1>7, <1>8 DEF q, n

(* All its outputs do. *)
LEMMA FrameCreates ==
  ASSUME NEW m, NEW s, NEW tx \in Transactions, Frame(m, s)
  PROVE  Frame(m, FoldLeft(CreateOutput, s, NewOutputs(tx)))
<1> DEFINE q == NewOutputs(tx)
<1>0. IsSeq(q) /\ Len(q) = Len(tx.outputs) /\ Len(q) \in Nat /\ DOMAIN q = 1 .. Len(q)
  BY NewOutputsAre, SeqIs
<1>a. \A i \in 1 .. Len(q) : q[i][1] \in Keys /\ q[i][2] \in TxOutput /\ OutputValue(q[i][2]) \in Values
  BY <1>0, NewOutputsAre
<1> HIDE DEF q
<1>1. PICK f : Creating!IsTrace(<<>>, f, s, q) /\ Creating!Fold(<<>>, s, q) = f[Len(q)]
  BY <1>0, Leasts, Creating!FoldTrace, Zenon
<1>2. f[0] = s /\ \A i \in 1 .. Len(q) : f[i] = CreateOutput(f[i - 1], q[i])
  BY <1>0, <1>1, Creating!TraceStep
<1> DEFINE G == {i \in 0 .. Len(q) : Frame(m, f[i])}
<1>3. 0 \in G
  BY <1>0, <1>2
<1>4. ASSUME NEW i \in 0 .. Len(q) - 1, i \in G PROVE i + 1 \in G
  <2>1. i + 1 \in 1 .. Len(q) /\ (i + 1) - 1 = i /\ i + 1 \in 0 .. Len(q)
    BY <1>0
  <2>2. f[i + 1] = CreateOutput(f[i], q[i + 1]) /\ Frame(m, f[i])
    BY <1>2, <1>4, <2>1
  <2>3. Frame(m, f[i + 1])
    BY <1>a, <2>1, <2>2, FrameCreate
  <2> QED
    BY <2>1, <2>3
<1>5. Len(q) \in G
  <2>1. \A i \in 0 .. Len(q) - 1 : i \in G => i + 1 \in G
    BY <1>4
  <2>2. Len(q) \in 0 .. Len(q)
    BY <1>0
  <2> HIDE DEF G
  <2>3. \A i \in 0 .. Len(q) : i \in G
    BY <1>0, <1>3, <2>1, UpTo
  <2> QED
    BY <2>2, <2>3
<1> QED
  BY <1>1, <1>5, LoopsAre DEF q

(* A transaction does. *)
LEMMA FrameTransaction ==
  ASSUME NEW m, NEW s, NEW tx \in Transactions, Frame(m, s)
  PROVE  Frame(m, ApplyTransaction(s, tx))
<1>1. CASE ~s.ok \/ tx.exec = "fails"
  <2> DEFINE r == [s EXCEPT !.ok = FALSE]
  <2>1. IsLoop(r) /\ r.m = s.m /\ ApplyTransaction(s, tx) = r
    BY <1>1, FailIs DEF ApplyTransaction, Frame
  <2> HIDE DEF r
  <2> QED
    BY <2>1, Zenon DEF Frame
<1>2. CASE ~(~s.ok \/ tx.exec = "fails")
  <2> DEFINE a == IF tx.exec = "none" THEN s ELSE ApplyContractTransition(s, tx)
             c == FoldLeft(SpendInput, a, tx.inputs)
  <2>1. Frame(m, a)
    BY FrameContract
  <2> HIDE DEF a
  <2>2. Frame(m, c)
    BY <2>1, FrameSpends, NewOutputsAre
  <2> HIDE DEF c
  <2>3. Frame(m, FoldLeft(CreateOutput, c, NewOutputs(tx)))
    BY <2>2, FrameCreates
  <2>4. ApplyTransaction(s, tx) = IF c.ok THEN FoldLeft(CreateOutput, c, NewOutputs(tx)) ELSE c
    BY <1>2, Zenon DEF ApplyTransaction, ApplyUtxoTransaction, a, c
  <2> QED
    BY <2>2, <2>3, <2>4, Zenon
<1> QED
  BY <1>1, <1>2

(* The tree after a list of updates: each key holds what it held, or what  *)
(* one of the updates wrote.                                               *)
Written(t, q, n, r) ==
    /\ DOMAIN r = {"leaves", "pruned"} /\ IsFun(r.leaves)
    /\ DOMAIN r.leaves = DOMAIN t.leaves \cup {q[i][1] : i \in 1 .. n}
    /\ \A k \in DOMAIN r.leaves :
        \/ k \in DOMAIN t.leaves /\ r.leaves[k] = t.leaves[k] /\ \A i \in 1 .. n : q[i][1] # k
        \/ \E i \in 1 .. n : q[i][1] = k /\ r.leaves[k] = OutputValue(q[i][2])

(* The pending updates, written to the tree one by one. *)
LEMMA WritesAre ==
  ASSUME NEW t, DOMAIN t = {"leaves", "pruned"}, IsFun(t.leaves), NEW q, IsSeq(q)
  PROVE  Written(t, q, Len(q), FoldLeft(WriteUpdate, t, q))
<1>0. Len(q) \in Nat /\ DOMAIN q = 1 .. Len(q)
  BY SeqIs
<1>1. PICK f : Writing!IsTrace(<<>>, f, t, q) /\ Writing!Fold(<<>>, t, q) = f[Len(q)]
  BY <1>0, Leasts, Writing!FoldTrace, Zenon
<1>2. f[0] = t /\ \A i \in 1 .. Len(q) : f[i] = WriteUpdate(f[i - 1], q[i])
  BY <1>0, <1>1, Writing!TraceStep
<1> DEFINE G == {i \in 0 .. Len(q) : Written(t, q, i, f[i])}
<1>3. 0 \in G
  <2>1. Written(t, q, 0, t)
    BY DEF Written
  <2> QED
    BY <1>0, <1>2, <2>1
<1>4. ASSUME NEW i \in 0 .. Len(q) - 1, i \in G PROVE i + 1 \in G
  <2>1. i + 1 \in 1 .. Len(q) /\ (i + 1) - 1 = i /\ i + 1 \in 0 .. Len(q)
    BY <1>0
  <2> DEFINE a == f[i]
             c == f[i + 1]
             e == q[i + 1]
             v == OutputValue(e[2])
  <2>2. c = WriteUpdate(a, e)
    BY <1>2, <2>1
  <2>3. Written(t, q, i, a)
    BY <1>4
  <2> HIDE DEF a, c, v
  <2>4. c = [a EXCEPT !.leaves = Put(a.leaves, e[1], v)]
    BY <2>2, Zenon DEF WriteUpdate, Insert, v
  <2> HIDE DEF e
  <2>5. DOMAIN c = {"leaves", "pruned"} /\ c.leaves = Put(a.leaves, e[1], v)
    BY <2>3, <2>4 DEF Written
  <2>6. /\ IsFun(c.leaves) /\ DOMAIN c.leaves = DOMAIN a.leaves \cup {e[1]} /\ c.leaves[e[1]] = v
        /\ \A k \in DOMAIN a.leaves : k # e[1] => c.leaves[k] = a.leaves[k]
    BY <2>5 DEF Put, IsFun
  <2>7. \A j : j \in 1 .. i + 1 <=> j \in 1 .. i \/ j = i + 1
    BY <1>0
  <2>8. DOMAIN c.leaves = DOMAIN t.leaves \cup {q[j][1] : j \in 1 .. i + 1}
    <3>1. DOMAIN a.leaves = DOMAIN t.leaves \cup {q[j][1] : j \in 1 .. i}
      BY <2>3, Zenon DEF Written
    <3>2. {q[j][1] : j \in 1 .. i + 1} = {q[j][1] : j \in 1 .. i} \cup {e[1]}
      BY <2>7 DEF e
    <3> QED
      BY <2>6, <3>1, <3>2, Zenon
  <2>9. ASSUME NEW k \in DOMAIN c.leaves
        PROVE  \/ k \in DOMAIN t.leaves /\ c.leaves[k] = t.leaves[k] /\ \A j \in 1 .. i + 1 : q[j][1] # k
               \/ \E j \in 1 .. i + 1 : q[j][1] = k /\ c.leaves[k] = OutputValue(q[j][2])
    <3>1. CASE k = e[1]
      BY <2>6, <2>7, <3>1, Zenon DEF e, v
    <3>2. CASE k # e[1]
      <4>1. k \in DOMAIN a.leaves /\ c.leaves[k] = a.leaves[k]
        BY <2>6, <3>2, Zenon
      <4>2. \/ k \in DOMAIN t.leaves /\ a.leaves[k] = t.leaves[k] /\ \A j \in 1 .. i : q[j][1] # k
            \/ \E j \in 1 .. i : q[j][1] = k /\ a.leaves[k] = OutputValue(q[j][2])
        BY <2>3, <4>1, Zenon DEF Written
      <4> QED
        BY <2>7, <3>2, <4>1, <4>2, Zenon DEF e
    <3> QED
      BY <3>1, <3>2
  <2>10. Written(t, q, i + 1, c)
    BY <2>5, <2>6, <2>8, <2>9, Zenon DEF Written
  <2> QED
    BY <2>1, <2>10 DEF c
<1>5. Len(q) \in G
  <2>1. \A i \in 0 .. Len(q) - 1 : i \in G => i + 1 \in G
    BY <1>4
  <2>2. Len(q) \in 0 .. Len(q)
    BY <1>0
  <2> HIDE DEF G
  <2>3. \A i \in 0 .. Len(q) : i \in G
    BY <1>0, <1>3, <2>1, UpTo
  <2> QED
    BY <2>2, <2>3
<1> QED
  BY <1>1, <1>5, LoopsAre

(* The state transition of a block that came this far. *)
LEMMA CommitIs ==
  ASSUME NEW s, IsLoop(s), IsFun(s.m.tree.leaves), IsSeq(s.m.pending_updates), s.m.supply \in Nat
  PROVE  LET r == CommitTree(s)
             q == s.m.pending_updates
         IN  /\ IsLoop(r) /\ SameChain(s.m, r.m) /\ r.undo = s.undo
             /\ r.m.supply = s.m.supply /\ r.m.utxo = s.m.utxo
             /\ r.m.outpoint_to_key = s.m.outpoint_to_key /\ r.m.prune_markers = s.m.prune_markers
             /\ r.m.pending_updates = s.m.pending_updates
             /\ r.ok => s.ok /\ Committed(r.m.tree.leaves, r.m.supply)
             /\ \/ r.m = s.m /\ ~r.ok
                \/ \E t : /\ Written(s.m.tree, q, Len(q), t)
                          /\ r.m.tree.leaves = Put(t.leaves, SUPPLY_KEY, <<"supply", s.m.supply>>)
                          /\ r.ok = UnderCap(s.m.supply)
<1> DEFINE q == s.m.pending_updates
           t == FoldLeft(WriteUpdate, s.m.tree, q)
           v == <<"supply", s.m.supply>>
           w == Insert(t, SUPPLY_KEY, v)
           r == CommitTree(s)
<1>1. CASE ~s.ok
  <2>1. r = s
    BY <1>1, Zenon DEF CommitTree
  <2> HIDE DEF r
  <2> QED
    BY <1>1, <2>1, Zenon DEF SameChain, r
<1>2. CASE s.ok /\ SendsToBurn(q)
  <2>1. CommitTree(s) = [s EXCEPT !.ok = [ok |-> FALSE, tree |-> s.m.tree].ok,
                                  !.m = [s.m EXCEPT !.tree = [ok |-> FALSE, tree |-> s.m.tree].tree]]
    BY <1>2, Zenon DEF CommitTree, ApplyStateTransition
  <2>2. [ok |-> FALSE, tree |-> s.m.tree].ok = FALSE /\ [ok |-> FALSE, tree |-> s.m.tree].tree = s.m.tree
    OBVIOUS
  <2>3. r = [s EXCEPT !.ok = FALSE, !.m = [s.m EXCEPT !.tree = s.m.tree]]
    BY <2>1, <2>2, Zenon
  <2>4. [s.m EXCEPT !.tree = s.m.tree] = s.m
    BY DEF IsLoop, IsManager, IsFun, Fields
  <2> HIDE DEF r
  <2>5. r.ok = FALSE /\ r.m = s.m /\ r.undo = s.undo /\ DOMAIN r = {"ok", "m", "undo"}
    BY <2>3, <2>4 DEF IsLoop
  <2>6. IsLoop(r)
    BY <2>5 DEF IsLoop
  <2> QED
    BY <2>5, <2>6, Zenon DEF SameChain, r
<1>3. CASE s.ok /\ ~SendsToBurn(q)
  <2> DEFINE a == [ok |-> UnderCap(s.m.supply), tree |-> w]
             n == [s.m EXCEPT !.tree = w]
  <2>1. r = [s EXCEPT !.ok = a.ok, !.m = [s.m EXCEPT !.tree = a.tree]]
    BY <1>3, Zenon DEF CommitTree, ApplyStateTransition
  <2> HIDE DEF r, w
  <2>2. r = [s EXCEPT !.ok = UnderCap(s.m.supply), !.m = n]
    BY <2>1
  <2>3. Written(s.m.tree, q, Len(q), t)
    BY WritesAre DEF IsLoop, IsManager
  <2> HIDE DEF t, v
  <2>4. DOMAIN w = {"leaves", "pruned"} /\ w.leaves = Put(t.leaves, SUPPLY_KEY, v)
    BY <2>3 DEF w, Insert, Written
  <2>5. IsManager(n) /\ SameChain(s.m, n) /\ n.supply = s.m.supply /\ n.utxo = s.m.utxo
        /\ n.outpoint_to_key = s.m.outpoint_to_key /\ n.prune_markers = s.m.prune_markers
        /\ n.tree = w /\ n.pending_updates = s.m.pending_updates
    BY <2>4 DEF IsLoop, IsManager, IsFun, Fields, SameChain
  <2> HIDE DEF n
  <2>6. r.ok = UnderCap(s.m.supply) /\ r.m = n /\ r.undo = s.undo /\ DOMAIN r = {"ok", "m", "undo"}
    BY <2>2 DEF IsLoop
  <2>7. UnderCap(s.m.supply) \in BOOLEAN
    BY DEF UnderCap
  <2>8. IsLoop(r)
    BY <2>5, <2>6, <2>7 DEF IsLoop
  <2>9. r.ok => Committed(r.m.tree.leaves, r.m.supply)
    <3>1. SUPPLY_KEY \in DOMAIN w.leaves /\ w.leaves[SUPPLY_KEY] = v
      BY <2>4 DEF Put
    <3>2. r.ok => s.m.supply \in 0 .. MAX_GLOBAL_SUPPLY_NANO_SLUG
      <4>1. MAX_GLOBAL_SUPPLY_NANO_SLUG \in Nat
        BY StateAssumption, Zenon
      <4>2. UnderCap(s.m.supply) => s.m.supply \in 0 .. MAX_GLOBAL_SUPPLY_NANO_SLUG
        BY <4>1 DEF UnderCap
      <4> QED
        BY <2>6, <4>2, Zenon
    <3>3. r.m.tree.leaves = w.leaves /\ r.m.supply = s.m.supply
      BY <2>5, <2>6, Zenon
    <3> QED
      BY <3>1, <3>2, <3>3 DEF Committed, v
  <2>10. r.m.tree.leaves = Put(t.leaves, SUPPLY_KEY, v)
    BY <2>4, <2>5, <2>6, Zenon
  <2> QED
    BY <1>3, <2>3, <2>5, <2>6, <2>8, <2>9, <2>10, Zenon DEF r, v
<1> QED
  BY <1>1, <1>2, <1>3 DEF IsLoop

(* The state in which a block starts. *)
Start(m) ==
    [ok |-> TRUE, m |-> [m EXCEPT !.pending_updates = <<>>, !.gas_fees = <<>>], undo |-> NoUndo]

(* The state the loop over the transactions starts from. *)
LEMMA StartIs ==
  ASSUME NEW m, FieldsOK(m)
  PROVE  /\ Frame(m, Start(m)) /\ Start(m).ok
         /\ Start(m).m.supply = m.supply /\ Start(m).m.utxo = m.utxo
         /\ Start(m).m.outpoint_to_key = m.outpoint_to_key /\ Start(m).m.tree = m.tree
         /\ Start(m).m.pending_updates = <<>>
         /\ Start(m).undo.spent = <<>> /\ Start(m).undo.created = <<>> /\ Start(m).undo.delta = 0
         /\ Start(m).undo.verkle = <<>>
<1> DEFINE n == [m EXCEPT !.pending_updates = <<>>, !.gas_fees = <<>>]
           s == Start(m)
<1>1. IsManager(m)
  BY DEF FieldsOK
<1>2. /\ IsManager(n) /\ SameChain(m, n) /\ n.supply = m.supply /\ n.utxo = m.utxo
      /\ n.outpoint_to_key = m.outpoint_to_key /\ n.tree = m.tree /\ n.prune_markers = m.prune_markers
      /\ n.pending_updates = <<>>
  BY <1>1 DEF IsManager, IsFun, Fields, SameChain
<1> HIDE DEF n
<1>3. s.ok = TRUE /\ s.m = n /\ s.undo = NoUndo /\ DOMAIN s = {"ok", "m", "undo"}
  BY DEF Start, n
<1> HIDE DEF s
<1>4. IsLoop(s)
  BY <1>2, <1>3 DEF IsLoop, NoUndo
<1>5. TypesOK(s.m)
  BY <1>2, <1>3 DEF TypesOK, FieldsOK
<1>6. UpdatesOK(<<>>)
  BY DEF UpdatesOK, IsSeq
<1>7. NoUndo.spent = <<>> /\ NoUndo.created = <<>> /\ NoUndo.delta = 0 /\ NoUndo.verkle = <<>>
  BY DEF NoUndo
<1>8. Frame(m, s)
  BY <1>2, <1>3, <1>4, <1>5, <1>6, Zenon DEF Frame
<1> QED
  BY <1>2, <1>3, <1>7, <1>8 DEF s

(* What is left of it when the transactions are through and the tree is    *)
(* committed.                                                              *)
Executed(m, s) ==
    /\ IsLoop(s) /\ SameChain(m, s.m) /\ TypesOK(s.m)
    /\ s.ok => /\ Committed(s.m.tree.leaves, s.m.supply)
               /\ LeavesOK(m.tree.leaves) => LeavesOK(s.m.tree.leaves)

(* Writing the tree at the end of a block keeps chain and types. *)
LEMMA FrameCommit ==
  ASSUME NEW m, NEW s, Frame(m, s)
  PROVE  Executed(m, CommitTree(s))
<1>0. IsLoop(s) /\ SameChain(m, s.m) /\ TypesOK(s.m) /\ UpdatesOK(s.m.pending_updates)
  BY DEF Frame
<1>1. IsFun(s.m.tree.leaves) /\ IsSeq(s.m.pending_updates) /\ s.m.supply \in Nat
  BY <1>0 DEF TypesOK, UpdatesOK
<1> DEFINE r == CommitTree(s)
           q == s.m.pending_updates
           v == <<"supply", s.m.supply>>
<1>2. /\ IsLoop(r) /\ SameChain(s.m, r.m)
      /\ r.m.supply = s.m.supply /\ r.m.utxo = s.m.utxo
      /\ r.m.outpoint_to_key = s.m.outpoint_to_key /\ r.m.prune_markers = s.m.prune_markers
      /\ r.m.pending_updates = s.m.pending_updates
      /\ r.ok => Committed(r.m.tree.leaves, r.m.supply)
  BY <1>0, <1>1, CommitIs
<1>3. \/ r.m = s.m /\ ~r.ok
      \/ \E t : /\ Written(s.m.tree, q, Len(q), t)
                /\ r.m.tree.leaves = Put(t.leaves, SUPPLY_KEY, v)
                /\ r.ok = UnderCap(s.m.supply)
  BY <1>0, <1>1, CommitIs
<1> HIDE DEF r, v, q
<1>4. SameChain(m, r.m)
  BY <1>0, <1>2 DEF SameChain
<1>5. CASE r.m = s.m /\ ~r.ok
  BY <1>0, <1>2, <1>4, <1>5, Zenon DEF Executed, r
<1>6. ASSUME NEW t, Written(s.m.tree, q, Len(q), t), r.m.tree.leaves = Put(t.leaves, SUPPLY_KEY, v)
      PROVE  Executed(m, r)
  <2>1. IsFun(r.m.tree.leaves)
    BY <1>6 DEF Put, IsFun
  <2>2. TypesOK(r.m)
    BY <1>0, <1>2, <2>1 DEF TypesOK
  <2>3. ASSUME r.ok, LeavesOK(s.m.tree.leaves) PROVE LeavesOK(r.m.tree.leaves)
    <3>1. SUPPLY_KEY \in Keys
      BY DEF Keys
    <3>2. v \in Values
      BY <1>2, <2>3 DEF Committed, Values, v
    <3>3. \A i \in 1 .. Len(q) : q[i][1] \in Keys /\ OutputValue(q[i][2]) \in Values
      BY <1>0, Zenon DEF UpdatesOK, q
    <3>4. DOMAIN t.leaves = DOMAIN s.m.tree.leaves \cup {q[i][1] : i \in 1 .. Len(q)}
      BY <1>6, Zenon DEF Written
    <3>5. DOMAIN t.leaves \subseteq Keys
      BY <2>3, <3>3, <3>4 DEF LeavesOK
    <3>6. ASSUME NEW k \in DOMAIN t.leaves PROVE t.leaves[k] \in Values
      BY <1>6, <2>3, <3>3, <3>6, Zenon DEF Written, LeavesOK
    <3>7. DOMAIN r.m.tree.leaves = DOMAIN t.leaves \cup {SUPPLY_KEY}
      BY <1>6 DEF Put
    <3>8. ASSUME NEW k \in DOMAIN r.m.tree.leaves PROVE r.m.tree.leaves[k] \in Values
      BY <1>6, <3>2, <3>6, <3>7 DEF Put
    <3> QED
      BY <2>1, <3>1, <3>5, <3>7, <3>8 DEF LeavesOK
  <2>4. LeavesOK(m.tree.leaves) => LeavesOK(s.m.tree.leaves)
    BY DEF Frame
  <2> QED
    BY <1>2, <1>4, <2>2, <2>3, <2>4, Zenon DEF Executed
<1> QED
  BY <1>3, <1>5, <1>6, Zenon DEF r

(* A block is a sequence of transactions. *)
LEMMA BlocksAre ==
  ASSUME NEW b \in Block
  PROVE  /\ IsSeq(TxsOf[b]) /\ Len(TxsOf[b]) \in Nat /\ DOMAIN TxsOf[b] = 1 .. Len(TxsOf[b])
         /\ \A i \in 1 .. Len(TxsOf[b]) : TxsOf[b][i] \in Transactions
<1>1. TxsOf[b] \in Seq(Transactions)
  BY StateAssumption
<1>2. IsSeq(TxsOf[b])
  BY <1>1, SeqIs
<1> QED
  BY <1>1, <1>2, SeqIs

(* The loop over the transactions of a block keeps chain, snapshots and    *)
(* types.                                                                  *)
LEMMA FrameLoop ==
  ASSUME NEW m, FieldsOK(m), NEW b \in Block
  PROVE  Frame(m, FoldLeft(ApplyTransaction, Start(m), TxsOf[b]))
<1> DEFINE q == TxsOf[b]
           s == Start(m)
<1>0. Len(q) \in Nat /\ DOMAIN q = 1 .. Len(q) /\ \A i \in 1 .. Len(q) : q[i] \in Transactions
  BY BlocksAre
<1>a. Frame(m, s)
  BY StartIs
<1> HIDE DEF q, s
<1>1. PICK f : Applying!IsTrace(<<>>, f, s, q) /\ Applying!Fold(<<>>, s, q) = f[Len(q)]
  BY <1>0, Leasts, Applying!FoldTrace, Zenon
<1>2. f[0] = s /\ \A i \in 1 .. Len(q) : f[i] = ApplyTransaction(f[i - 1], q[i])
  BY <1>0, <1>1, Applying!TraceStep
<1> DEFINE G == {i \in 0 .. Len(q) : Frame(m, f[i])}
<1>3. 0 \in G
  BY <1>0, <1>a, <1>2
<1>4. ASSUME NEW i \in 0 .. Len(q) - 1, i \in G PROVE i + 1 \in G
  <2>1. i + 1 \in 1 .. Len(q) /\ (i + 1) - 1 = i /\ i + 1 \in 0 .. Len(q)
    BY <1>0
  <2>2. f[i + 1] = ApplyTransaction(f[i], q[i + 1]) /\ Frame(m, f[i])
    BY <1>2, <1>4, <2>1
  <2>3. Frame(m, f[i + 1])
    BY <1>0, <2>1, <2>2, FrameTransaction
  <2> QED
    BY <2>1, <2>3
<1>5. Len(q) \in G
  <2>1. \A i \in 0 .. Len(q) - 1 : i \in G => i + 1 \in G
    BY <1>4
  <2>2. Len(q) \in 0 .. Len(q)
    BY <1>0
  <2> HIDE DEF G
  <2>3. \A i \in 0 .. Len(q) : i \in G
    BY <1>0, <1>3, <2>1, UpTo
  <2> QED
    BY <2>2, <2>3
<1>6. Frame(m, FoldLeft(ApplyTransaction, s, q))
  BY <1>1, <1>5, LoopsAre
<1> QED
  BY <1>6, Zenon DEF s, q

(* So does the execution of the whole block. *)
LEMMA FrameBlock ==
  ASSUME NEW m, FieldsOK(m), NEW b \in Block
  PROVE  Executed(m, ExecuteBlock(m, b))
<1>1. ExecuteBlock(m, b) = CommitTree(FoldLeft(ApplyTransaction, Start(m), TxsOf[b]))
  BY Zenon DEF ExecuteBlock, Start
<1> QED
  BY <1>1, FrameLoop, FrameCommit

----------------------------------------------------------------------------
(* apply_block: a block that fails leaves the state as it was.  It never   *)
(* panics, since there is a snapshot of the current height.                *)
Applied(m, b, s, n) ==
    /\ IsManager(n) /\ n.tree = s.m.tree /\ n.height = m.height + 1 /\ n.supply = s.m.supply
    /\ n.outpoint_to_key = s.m.outpoint_to_key /\ n.prune_markers = s.m.prune_markers
    /\ n.utxo = s.m.utxo /\ n.block_hash = b /\ n.panicked = m.panicked
    /\ n.block_undo_data = Put(m.block_undo_data, b, s.undo)
    /\ n.snapshot_storages = Append(m.snapshot_storages, s.m.tree.leaves)
    /\ \E snap : /\ n.snapshots = Append(m.snapshots, snap)
                 /\ snap.height = m.height + 1 /\ snap.root = s.m.tree.leaves
                 /\ snap.total_supply = s.m.supply /\ snap.last_block_hash = b

(* apply_block either changes nothing, or commits what the block computed. *)
LEMMA ApplyCases ==
  ASSUME NEW m, FieldsOK(m), Len(m.snapshots) = m.height + 1, NEW b \in Block
  PROVE  LET s == ExecuteBlock(m, b)
             r == ApplyBlock(m, b)
         IN  \/ ~s.ok /\ r.ok = FALSE /\ r.m = m
             \/ s.ok /\ r.ok = TRUE /\ Applied(m, b, s, r.m)
<1> DEFINE s == ExecuteBlock(m, b)
           r == ApplyBlock(m, b)
<1>1. Executed(m, s)
  BY FrameBlock
<1>2. IsLoop(s) /\ SameChain(m, s.m)
  BY <1>1 DEF Executed
<1>3. IsManager(m)
  BY DEF FieldsOK
<1>4. r = FinishBlock(m, b, s)
  BY Zenon DEF ApplyBlock
<1> HIDE DEF s, r
<1>5. CASE ~s.ok
  <2> DEFINE n == RestoreFields(s.m, m)
  <2>1. r = [ok |-> FALSE, m |-> n]
    BY <1>4, <1>5, Zenon DEF FinishBlock
  <2>2. IsManager(n) /\ \A x \in Fields : n[x] = m[x]
    <3>0. IsFun(s.m) /\ DOMAIN s.m = Fields
      BY <1>2 DEF IsLoop, IsManager
    <3>1. DOMAIN n = Fields
      BY <3>0 DEF RestoreFields
    <3>2. IsFun(n)
      BY <3>0 DEF RestoreFields, IsFun
    <3>3. n.tree = m.tree /\ n.height = m.height /\ n.supply = m.supply
      BY <3>0 DEF RestoreFields, Fields
    <3>4. n.gas_fees = m.gas_fees /\ n.pending_updates = m.pending_updates
          /\ n.prune_markers = m.prune_markers
      BY <3>0 DEF RestoreFields, Fields
    <3>5. n.outpoint_to_key = m.outpoint_to_key /\ n.utxo = m.utxo /\ n.block_hash = m.block_hash
      BY <3>0 DEF RestoreFields, Fields
    <3>6. /\ n.block_undo_data = s.m.block_undo_data /\ n.snapshots = s.m.snapshots
          /\ n.snapshot_storages = s.m.snapshot_storages /\ n.panicked = s.m.panicked
      BY <3>0 DEF RestoreFields, Fields
    <3> HIDE DEF n
    <3> QED
      BY <1>2, <1>3, <3>1, <3>2, <3>3, <3>4, <3>5, <3>6 DEF Fields, IsManager, SameChain
  <2> HIDE DEF n
  <2>3. n = m
    BY <1>3, <2>2 DEF IsManager, IsFun
  <2>4. r.ok = FALSE /\ r.m = m
    BY <2>1, <2>3
  <2> QED
    BY <1>5, <2>4, Zenon DEF s, r
<1>6. CASE s.ok
  <2> DEFINE n == [s.m EXCEPT !.height = s.m.height + 1, !.block_hash = b]
             k == [n EXCEPT !.snapshots = Append(n.snapshots, Snapshot(n)),
                            !.snapshot_storages = Append(n.snapshot_storages, n.tree.leaves),
                            !.block_undo_data = Put(n.block_undo_data, b, s.undo)]
  <2>1. ~(m.height >= Len(m.snapshots))
    BY DEF FieldsOK
  <2>2. r = [ok |-> TRUE, m |-> k]
    BY <1>4, <1>6, <2>1, Zenon DEF FinishBlock
  <2>3. /\ IsManager(n) /\ n.height = m.height + 1 /\ n.block_hash = b /\ n.tree = s.m.tree
        /\ n.supply = s.m.supply /\ n.utxo = s.m.utxo /\ n.outpoint_to_key = s.m.outpoint_to_key
        /\ n.prune_markers = s.m.prune_markers /\ n.panicked = m.panicked
        /\ n.block_undo_data = m.block_undo_data /\ n.snapshots = m.snapshots
        /\ n.snapshot_storages = m.snapshot_storages
    BY <1>2 DEF IsLoop, IsManager, IsFun, Fields, SameChain
  <2> HIDE DEF n
  <2>4. /\ IsManager(k) /\ k.height = n.height /\ k.block_hash = n.block_hash /\ k.tree = n.tree
        /\ k.supply = n.supply /\ k.utxo = n.utxo /\ k.outpoint_to_key = n.outpoint_to_key
        /\ k.prune_markers = n.prune_markers /\ k.panicked = n.panicked
        /\ k.block_undo_data = Put(n.block_undo_data, b, s.undo)
        /\ k.snapshots = Append(n.snapshots, Snapshot(n))
        /\ k.snapshot_storages = Append(n.snapshot_storages, n.tree.leaves)
    BY <2>3 DEF IsManager, IsFun, Fields
  <2> HIDE DEF k
  <2>5. /\ Snapshot(n).height = n.height /\ Snapshot(n).root = n.tree.leaves
        /\ Snapshot(n).total_supply = n.supply /\ Snapshot(n).last_block_hash = n.block_hash
    BY DEF Snapshot
  <2>6. Applied(m, b, s, k)
    BY <2>3, <2>4, <2>5, Zenon DEF Applied
  <2>7. r.ok = TRUE /\ r.m = k
    BY <2>2
  <2> QED
    BY <1>6, <2>6, <2>7, Zenon DEF s, r
<1> QED
  BY <1>5, <1>6

(* The fields and the snapshots after a block was applied. *)
LEMMA ApplyFields ==
  ASSUME NEW m, FieldsOK(m), NEW b \in Block, NEW s, Executed(m, s), NEW n, Applied(m, b, s, n)
  PROVE  FieldsOK(n)
<1>1. TypesOK(n)
  BY DEF Executed, TypesOK, Applied
<1>2. IsFun(n.block_undo_data) /\ DOMAIN n.block_undo_data \subseteq Block
  BY DEF Applied, Put, IsFun, FieldsOK
<1>3. n.height \in Nat /\ n.block_hash \in Block \cup {NoBlock} /\ ~n.panicked /\ IsManager(n)
  BY DEF Applied, FieldsOK
<1> QED
  BY <1>1, <1>2, <1>3 DEF FieldsOK, TypesOK

(* A committed block extends chain, snapshots and storages by one. *)
LEMMA ApplySnapshots ==
  ASSUME NEW m, FieldsOK(m), SnapshotsOK(m), NEW b \in Block, b \notin ToSet(Chain(m)),
         NEW s, Executed(m, s), s.ok, NEW n, Applied(m, b, s, n)
  PROVE  /\ SnapshotsOK(n) /\ \A i \in 1 .. m.height : Chain(n)[i] = Chain(m)[i]
         /\ Chain(n)[n.height] = b /\ Top(n).root = n.tree.leaves /\ Top(n).total_supply = n.supply
         /\ Top(n).last_block_hash = b
         /\ \A i \in 1 .. m.height + 1 : n.snapshots[i] = m.snapshots[i]
<1>1. PICK snap : /\ n.snapshots = Append(m.snapshots, snap)
                  /\ snap.height = m.height + 1 /\ snap.root = s.m.tree.leaves
                  /\ snap.total_supply = s.m.supply /\ snap.last_block_hash = b
  BY Zenon DEF Applied
<1>2. /\ m.height \in Nat /\ IsSeq(m.snapshots) /\ IsSeq(m.snapshot_storages)
      /\ Len(m.snapshots) = m.height + 1 /\ Len(m.snapshot_storages) = m.height + 1
      /\ \A i \in 1 .. m.height + 1 : SnapshotOK(m, i)
      /\ \A i, j \in 1 .. m.height : Chain(m)[i] = Chain(m)[j] => i = j
  BY DEF FieldsOK, SnapshotsOK
<1>3. /\ n.height = m.height + 1 /\ n.snapshot_storages = Append(m.snapshot_storages, s.m.tree.leaves)
      /\ n.tree = s.m.tree /\ n.supply = s.m.supply
  BY DEF Applied
<1> DEFINE h == m.height
<1>4. /\ IsSeq(n.snapshots) /\ Len(n.snapshots) = h + 2 /\ n.snapshots[h + 2] = snap
      /\ \A i \in 1 .. h + 1 : n.snapshots[i] = m.snapshots[i]
  <2>1. IsSeq(n.snapshots) /\ Len(n.snapshots) = (h + 1) + 1 /\ n.snapshots[(h + 1) + 1] = snap
        /\ \A i \in 1 .. h + 1 : n.snapshots[i] = m.snapshots[i]
    BY <1>1, <1>2, AppendIs
  <2> QED
    BY <1>2, <2>1
<1>5. /\ IsSeq(n.snapshot_storages) /\ Len(n.snapshot_storages) = h + 2
      /\ n.snapshot_storages[h + 2] = s.m.tree.leaves
      /\ \A i \in 1 .. h + 1 : n.snapshot_storages[i] = m.snapshot_storages[i]
  <2>1. IsSeq(n.snapshot_storages) /\ Len(n.snapshot_storages) = (h + 1) + 1
        /\ n.snapshot_storages[(h + 1) + 1] = s.m.tree.leaves
        /\ \A i \in 1 .. h + 1 : n.snapshot_storages[i] = m.snapshot_storages[i]
    BY <1>2, <1>3, AppendIs
  <2> QED
    BY <1>2, <2>1
<1>6. ASSUME NEW i \in 1 .. h + 2 PROVE SnapshotOK(n, i)
  <2>1. CASE i \in 1 .. h + 1
    <3>1. /\ SnapshotOK(m, i) /\ n.snapshots[i] = m.snapshots[i]
          /\ n.snapshot_storages[i] = m.snapshot_storages[i]
      BY <1>2, <1>4, <1>5, <2>1
    <3> QED
      BY <3>1, Zenon DEF SnapshotOK
  <2>2. CASE i = h + 2
    <3>1. Committed(s.m.tree.leaves, s.m.supply) /\ IsFun(s.m.tree.leaves)
      BY DEF Executed, TypesOK
    <3>2. snap.height = i - 1 /\ i > 1 /\ ~(i = 1)
      BY <1>1, <1>2, <2>2
    <3> QED
      BY <1>1, <1>4, <1>5, <2>2, <3>1, <3>2 DEF SnapshotOK
  <2> QED
    BY <1>2, <2>1, <2>2
<1>7. Chain(m) = [i \in 1 .. h |-> m.snapshots[i + 1].last_block_hash]
  BY <1>2 DEF Chain
<1>8. Chain(n) = [i \in 1 .. h + 1 |-> n.snapshots[i + 1].last_block_hash]
  BY <1>2, <1>4 DEF Chain
<1> HIDE DEF h
<1>9. ASSUME NEW i \in 1 .. h PROVE Chain(n)[i] = Chain(m)[i]
  <2>1. i \in 1 .. h + 1 /\ i + 1 \in 1 .. h + 1
    BY <1>2 DEF h
  <2> QED
    BY <1>4, <1>7, <1>8, <2>1
<1>10. Chain(n)[h + 1] = b
  <2>1. h + 1 \in 1 .. h + 1 /\ (h + 1) + 1 = h + 2
    BY <1>2 DEF h
  <2>2. Chain(n)[h + 1] = n.snapshots[(h + 1) + 1].last_block_hash
    BY <1>8, <2>1
  <2> QED
    BY <1>1, <1>4, <2>1, <2>2
<1>11. \A i \in 1 .. h : Chain(m)[i] # b
  BY <1>7 DEF ToSet
<1>12. \A i, j \in 1 .. h + 1 : Chain(n)[i] = Chain(n)[j] => i = j
  <2>1. \A i \in 1 .. h + 1 : i \in 1 .. h \/ i = h + 1
    BY <1>2 DEF h
  <2> QED
    BY <1>2, <1>9, <1>10, <1>11, <2>1 DEF h
<1>13. Top(n) = snap
  <2>1. n.height + 1 = h + 2
    BY <1>2, <1>3 DEF h
  <2> QED
    BY <1>4, <2>1, Zenon DEF Top
<1>14. SnapshotsOK(n)
  <2>1. n.height + 1 = h + 2 /\ n.height = h + 1
    BY <1>2, <1>3 DEF h
  <2> QED
    BY <1>4, <1>5, <1>6, <1>12, <2>1, Zenon DEF SnapshotsOK
<1> QED
  BY <1>1, <1>3, <1>4, <1>9, <1>10, <1>13, <1>14, Zenon DEF h

----------------------------------------------------------------------------
(* The snapshots after the chain was cut at a height. *)
LEMMA CutSnapshots ==
  ASSUME NEW m, m.height \in Nat, SnapshotsOK(m), NEW h \in 0 .. m.height, NEW n, n.height = h,
         n.snapshots = Prefix(m.snapshots, h + 1),
         n.snapshot_storages = Prefix(m.snapshot_storages, h + 1)
  PROVE  /\ SnapshotsOK(n) /\ Top(n) = m.snapshots[h + 1]
         /\ \A i \in 1 .. h : Chain(n)[i] = Chain(m)[i]
         /\ \A i \in 1 .. h + 1 : n.snapshots[i] = m.snapshots[i]
<1>1. /\ IsSeq(m.snapshots) /\ IsSeq(m.snapshot_storages)
      /\ Len(m.snapshots) = m.height + 1 /\ Len(m.snapshot_storages) = m.height + 1
      /\ \A i \in 1 .. m.height + 1 : SnapshotOK(m, i)
      /\ \A i, j \in 1 .. m.height : Chain(m)[i] = Chain(m)[j] => i = j
  BY DEF SnapshotsOK
<1>2. h + 1 \in Nat /\ h + 1 <= m.height + 1 /\ \A i \in 1 .. h + 1 : i \in 1 .. m.height + 1
  OBVIOUS
<1>3. /\ IsSeq(n.snapshots) /\ Len(n.snapshots) = h + 1
      /\ \A i \in 1 .. h + 1 : n.snapshots[i] = m.snapshots[i]
  BY <1>1, <1>2, PrefixIs
<1>4. /\ IsSeq(n.snapshot_storages) /\ Len(n.snapshot_storages) = h + 1
      /\ \A i \in 1 .. h + 1 : n.snapshot_storages[i] = m.snapshot_storages[i]
  BY <1>1, <1>2, PrefixIs
<1>5. ASSUME NEW i \in 1 .. h + 1 PROVE SnapshotOK(n, i)
  BY <1>1, <1>2, <1>3, <1>4, Zenon DEF SnapshotOK
<1>6. Chain(m) = [i \in 1 .. m.height |-> m.snapshots[i + 1].last_block_hash]
  BY <1>1 DEF Chain
<1>7. Chain(n) = [i \in 1 .. h |-> n.snapshots[i + 1].last_block_hash]
  BY <1>3 DEF Chain
<1>8. ASSUME NEW i \in 1 .. h PROVE Chain(n)[i] = Chain(m)[i] /\ i \in 1 .. m.height
  <2>1. i \in 1 .. m.height /\ i + 1 \in 1 .. h + 1
    OBVIOUS
  <2>2. Chain(n)[i] = n.snapshots[i + 1].last_block_hash
    BY <1>7
  <2>3. Chain(m)[i] = m.snapshots[i + 1].last_block_hash
    BY <1>6, <2>1
  <2> QED
    BY <1>3, <2>1, <2>2, <2>3
<1>9. \A i, j \in 1 .. h : Chain(n)[i] = Chain(n)[j] => i = j
  BY <1>1, <1>8, Zenon
<1>10. Top(n) = m.snapshots[h + 1]
  BY <1>3 DEF Top
<1> QED
  BY <1>3, <1>4, <1>5, <1>8, <1>9, <1>10, Zenon DEF SnapshotsOK

(* What a snapshot holds. *)
LEMMA SnapshotTypes ==
  ASSUME NEW m, m.height \in Nat, SnapshotsOK(m), NEW i \in 1 .. m.height + 1
  PROVE  /\ m.snapshots[i].height = i - 1 /\ m.snapshots[i].root = m.snapshot_storages[i]
         /\ IsFun(m.snapshots[i].root) /\ m.snapshots[i].total_supply \in Nat
         /\ m.snapshots[i].total_supply <= MAX_GLOBAL_SUPPLY_NANO_SLUG
         /\ m.snapshots[i].last_block_hash \in Block \cup {NoBlock}
<1>1. SnapshotOK(m, i)
  BY DEF SnapshotsOK
<1>2. MAX_GLOBAL_SUPPLY_NANO_SLUG \in Nat
  BY StateAssumption, Zenon
<1>3. CASE i = 1
  BY <1>1, <1>2, <1>3 DEF SnapshotOK
<1>4. CASE i > 1
  BY <1>1, <1>2, <1>4 DEF SnapshotOK, Committed
<1> QED
  BY <1>3, <1>4

(* rollback_state and rollback succeed at every height up to the present   *)
(* one, and leave no trace at another.                                     *)
RolledBack(m, h, n) ==
    /\ IsManager(n) /\ n.height = h /\ n.snapshots = Prefix(m.snapshots, h + 1)
    /\ n.snapshot_storages = Prefix(m.snapshot_storages, h + 1)
    /\ n.tree.leaves = m.snapshots[h + 1].root /\ n.supply = m.snapshots[h + 1].total_supply
    /\ n.utxo = m.utxo /\ n.outpoint_to_key = m.outpoint_to_key /\ n.prune_markers = m.prune_markers
    /\ n.block_hash = m.block_hash /\ n.block_undo_data = m.block_undo_data /\ n.panicked = m.panicked

(* rollback_state refuses a height that is not there and otherwise cuts to *)
(* it.                                                                     *)
LEMMA RollbackStateIs ==
  ASSUME NEW m, FieldsOK(m), SnapshotsOK(m), NEW h \in Nat
  PROVE  LET r == RollbackState(m, h)
         IN  IF h > m.height THEN r.ok = FALSE /\ r.m = m ELSE r.ok = TRUE /\ RolledBack(m, h, r.m)
<1> DEFINE r == RollbackState(m, h)
           a == Prefix(m.snapshots, h + 1)
           c == Prefix(m.snapshot_storages, h + 1)
<1>0. /\ IsManager(m) /\ m.height \in Nat /\ IsSeq(m.snapshots) /\ IsSeq(m.snapshot_storages)
      /\ Len(m.snapshots) = m.height + 1 /\ Len(m.snapshot_storages) = m.height + 1
  BY DEF FieldsOK, SnapshotsOK
<1>1. CASE h > m.height
  <2>1. r = [ok |-> FALSE, m |-> m]
    BY <1>1, Zenon DEF RollbackState
  <2> QED
    BY <1>1, <2>1
<1>2. CASE ~(h > m.height)
  <2>1. h + 1 \in 1 .. m.height + 1 /\ h + 1 \in Nat /\ h + 1 <= m.height + 1 /\ h \in 0 .. m.height
    BY <1>0, <1>2
  <2>2. /\ m.snapshots[h + 1].height = (h + 1) - 1
        /\ m.snapshots[h + 1].root = m.snapshot_storages[h + 1]
    BY <1>0, <2>1, SnapshotTypes
  <2>3. ~ \A i \in DOMAIN m.snapshots : m.snapshots[i].height # h
    <3>1. (h + 1) - 1 = h /\ h + 1 \in DOMAIN m.snapshots
      BY <1>0, <2>1, SeqIs
    <3> QED
      BY <2>2, <3>1, Zenon
  <2>4. a[h + 1] = m.snapshots[h + 1] /\ c[h + 1] = m.snapshot_storages[h + 1] /\ Len(c) = h + 1
    <3>1. h + 1 \in 1 .. h + 1
      BY <2>1
    <3> QED
      BY <1>0, <2>1, <3>1, PrefixIs
  <2> HIDE DEF a, c
  <2> DEFINE d == [m EXCEPT !.snapshots = a, !.snapshot_storages = c, !.height = h]
             snap == d.snapshots[h + 1]
             n == [d EXCEPT !.tree = NewTree(d.snapshot_storages[h + 1]),
                            !.supply = snap.total_supply, !.gas_fees = snap.gas_fees]
  <2>5. /\ IsManager(d) /\ d.snapshots = a /\ d.snapshot_storages = c /\ d.height = h
        /\ d.utxo = m.utxo /\ d.outpoint_to_key = m.outpoint_to_key
        /\ d.prune_markers = m.prune_markers /\ d.block_hash = m.block_hash
        /\ d.block_undo_data = m.block_undo_data /\ d.panicked = m.panicked
    BY <1>0 DEF IsManager, IsFun, Fields
  <2>6. ~(h >= Len(d.snapshot_storages))
    BY <2>4, <2>5
  <2>7. r = [ok |-> n.tree.leaves = snap.root, m |-> n]
    BY <1>2, <2>3, <2>6, Zenon DEF RollbackState, StorageAt, a, c
  <2> HIDE DEF d
  <2>8. DOMAIN NewTree(c[h + 1]) = {"leaves", "pruned"} /\ NewTree(c[h + 1]).leaves = c[h + 1]
    BY DEF NewTree
  <2>9. /\ IsManager(n) /\ n.snapshots = a /\ n.snapshot_storages = c /\ n.height = h
        /\ n.utxo = d.utxo /\ n.outpoint_to_key = d.outpoint_to_key
        /\ n.prune_markers = d.prune_markers /\ n.block_hash = d.block_hash
        /\ n.block_undo_data = d.block_undo_data /\ n.panicked = d.panicked
        /\ n.tree = NewTree(c[h + 1]) /\ n.supply = a[h + 1].total_supply
    BY <2>5, <2>8 DEF IsManager, IsFun, Fields
  <2> HIDE DEF n
  <2>10. n.tree.leaves = m.snapshots[h + 1].root /\ n.supply = m.snapshots[h + 1].total_supply
         /\ snap.root = m.snapshots[h + 1].root
    BY <2>2, <2>4, <2>5, <2>8, <2>9, Zenon
  <2>11. RolledBack(m, h, n)
    BY <2>5, <2>9, <2>10, Zenon DEF RolledBack, a, c
  <2>12. r.m = n /\ r.ok = TRUE
    <3> HIDE DEF r, snap
    <3>1. n.tree.leaves = snap.root
      BY <2>10, Zenon
    <3>2. ASSUME NEW x, NEW y, x = y, r = [ok |-> x = y, m |-> n] PROVE r.m = n /\ r.ok = TRUE
      BY <3>2
    <3> QED
      BY <2>7, <3>1, <3>2, Zenon
  <2> QED
    BY <1>2, <2>11, <2>12, Zenon
<1> QED
  BY <1>1, <1>2

(* rollback does the same as rollback_state, since every snapshot it wants *)
(* is there.                                                               *)
LEMMA RollbackIs ==
  ASSUME NEW m, FieldsOK(m), SnapshotsOK(m), NEW h \in Nat
  PROVE  Rollback(m, h).m = RollbackState(m, h).m
<1> DEFINE r == RollbackState(m, h)
<1>1. IF h > m.height THEN r.ok = FALSE /\ r.m = m ELSE r.ok = TRUE
  BY RollbackStateIs, Zenon
<1>2. CASE r.ok = TRUE
  BY <1>2, Zenon DEF Rollback
<1>3. CASE r.ok = FALSE /\ r.m = m
  <2> DEFINE n == [m EXCEPT !.tree = m.tree, !.height = m.height, !.snapshots = m.snapshots,
                            !.snapshot_storages = m.snapshot_storages,
                            !.supply = m.supply, !.gas_fees = m.gas_fees]
  <2>1. Rollback(m, h) = [ok |-> FALSE, m |-> n]
    BY <1>3, Zenon DEF Rollback
  <2>2. n = m
    BY DEF FieldsOK, IsManager, IsFun, Fields
  <2> HIDE DEF n
  <2> QED
    BY <1>3, <2>1, <2>2
<1> QED
  BY <1>1, <1>2, <1>3

----------------------------------------------------------------------------
(* A manager that rolls back to heights. *)
LEMMA ApplyRolls ==
  ASSUME NEW m, RollOK(m), NEW b \in Block, b \notin ToSet(Chain(m))
  PROVE  LET n == ApplyBlock(m, b).m
         IN  /\ RollOK(n)
             /\ \/ n = m
                \/ /\ n.height = m.height + 1 /\ n.supply \in 0 .. MAX_GLOBAL_SUPPLY_NANO_SLUG
                   /\ \A i \in 1 .. m.height + 1 : n.snapshots[i] = m.snapshots[i]
<1> DEFINE s == ExecuteBlock(m, b)
           n == ApplyBlock(m, b).m
<1>0. FieldsOK(m) /\ SnapshotsOK(m) /\ Len(m.snapshots) = m.height + 1 /\ m.height \in Nat
  BY DEF RollOK, SnapshotsOK, FieldsOK
<1>1. Executed(m, s)
  BY <1>0, FrameBlock
<1>2. (~s.ok /\ n = m) \/ (s.ok /\ Applied(m, b, s, n))
  BY <1>0, ApplyCases, Zenon
<1> HIDE DEF s, n
<1>3. ASSUME s.ok, Applied(m, b, s, n)
      PROVE  /\ RollOK(n) /\ n.height = m.height + 1 /\ n.supply \in 0 .. MAX_GLOBAL_SUPPLY_NANO_SLUG
             /\ \A i \in 1 .. m.height + 1 : n.snapshots[i] = m.snapshots[i]
  <2>1. FieldsOK(n)
    BY <1>0, <1>1, <1>3, ApplyFields
  <2>2. /\ SnapshotsOK(n) /\ Top(n).root = n.tree.leaves /\ Top(n).total_supply = n.supply
        /\ \A i \in 1 .. m.height + 1 : n.snapshots[i] = m.snapshots[i]
    BY <1>0, <1>1, <1>3, ApplySnapshots
  <2>3. n.height = m.height + 1 /\ n.tree = s.m.tree /\ n.supply = s.m.supply
    BY <1>3 DEF Applied
  <2>4. m.height + 1 \in 1 .. m.height + 1
    BY <1>0
  <2>5. LeavesOK(m.tree.leaves)
    BY <2>4, Zenon DEF RollOK, Top
  <2>6. Committed(n.tree.leaves, n.supply) /\ LeavesOK(n.tree.leaves)
    BY <1>1, <1>3, <2>3, <2>5, Zenon DEF Executed
  <2>7. ASSUME NEW i \in 1 .. n.height + 1 PROVE LeavesOK(n.snapshots[i].root)
    <3>1. i \in 1 .. m.height + 1 \/ i = n.height + 1
      BY <1>0, <2>3
    <3> QED
      BY <2>2, <2>6, <3>1, Zenon DEF RollOK, Top
  <2> QED
    BY <2>1, <2>2, <2>3, <2>6, <2>7, Zenon DEF RollOK, Committed
<1> QED
  BY <1>2, <1>3, Zenon DEF n

(* A rollback leaves a manager whose state is that of its last snapshot. *)
LEMMA RollbackRolls ==
  ASSUME NEW m, RollOK(m), NEW h \in Nat
  PROVE  LET n == RollbackState(m, h).m
         IN  /\ Rollback(m, h).m = n /\ RollOK(n)
             /\ \/ n = m
                \/ /\ h \in 0 .. m.height /\ n.height = h
                   /\ \A i \in 1 .. h + 1 : n.snapshots[i] = m.snapshots[i]
<1> DEFINE n == RollbackState(m, h).m
<1>0. FieldsOK(m) /\ SnapshotsOK(m) /\ m.height \in Nat
  BY DEF RollOK, FieldsOK
<1>1. Rollback(m, h).m = n
  BY <1>0, RollbackIs
<1>2. IF h > m.height THEN n = m ELSE RolledBack(m, h, n)
  BY <1>0, RollbackStateIs, Zenon
<1> HIDE DEF n
<1>3. ASSUME ~(h > m.height), RolledBack(m, h, n)
      PROVE  RollOK(n) /\ h \in 0 .. m.height /\ n.height = h
             /\ \A i \in 1 .. h + 1 : n.snapshots[i] = m.snapshots[i]
  <2>1. h \in 0 .. m.height /\ h + 1 \in 1 .. m.height + 1
    BY <1>0, <1>3
  <2>2. /\ n.height = h /\ n.snapshots = Prefix(m.snapshots, h + 1)
        /\ n.snapshot_storages = Prefix(m.snapshot_storages, h + 1)
    BY <1>3 DEF RolledBack
  <2>3. /\ SnapshotsOK(n) /\ Top(n) = m.snapshots[h + 1]
        /\ \A i \in 1 .. h + 1 : n.snapshots[i] = m.snapshots[i]
    BY <1>0, <2>1, <2>2, CutSnapshots
  <2>4. /\ IsFun(m.snapshots[h + 1].root) /\ m.snapshots[h + 1].total_supply \in Nat
    BY <1>0, <2>1, SnapshotTypes
  <2>5. FieldsOK(n)
    BY <1>0, <1>3, <2>4 DEF RolledBack, FieldsOK
  <2>6. \A i \in 1 .. h + 1 : i \in 1 .. m.height + 1
    BY <1>0, <2>1
  <2> QED
    BY <1>3, <2>1, <2>2, <2>3, <2>5, <2>6, Zenon DEF RollOK, RolledBack
<1> QED
  BY <1>0, <1>1, <1>2, <1>3, Zenon DEF n, RollOK

(* The fields of a new manager. *)
LEMMA NewManagerIs ==
  /\ FieldsOK(NewManager) /\ SnapshotsOK(NewManager) /\ NewManager.height = 0
  /\ NewManager.supply = 0 /\ NewManager.utxo = [x \in {} |-> <<>>]
  /\ NewManager.outpoint_to_key = [x \in {} |-> <<>>] /\ NewManager.tree.leaves = [x \in {} |-> <<>>]
  /\ NewManager.block_undo_data = [x \in {} |-> <<>>] /\ NewManager.block_hash = NoBlock
  /\ Top(NewManager).root = [x \in {} |-> <<>>] /\ Top(NewManager).total_supply = 0
  /\ Top(NewManager).last_block_hash = NoBlock /\ Len(NewManager.snapshots) = 1
<1> DEFINE e == [x \in {} |-> <<>>]
           m == [tree |-> NewTree(e), height |-> 0, supply |-> 0, gas_fees |-> <<>>,
                 pending_updates |-> <<>>, prune_markers |-> e, outpoint_to_key |-> e,
                 utxo |-> e, block_hash |-> NoBlock, block_undo_data |-> e,
                 snapshots |-> <<>>, snapshot_storages |-> <<e>>, panicked |-> FALSE]
           n == [m EXCEPT !.snapshots = <<Snapshot(m)>>]
<1>1. NewManager = n
  BY Zenon DEF NewManager
<1>2. /\ DOMAIN NewTree(e) = {"leaves", "pruned"} /\ NewTree(e).leaves = e
      /\ IsFun(e) /\ DOMAIN e = {}
  BY DEF NewTree, IsFun
<1> HIDE DEF e
<1>3. /\ IsManager(n) /\ n.tree = NewTree(e) /\ n.height = 0 /\ n.supply = 0 /\ n.prune_markers = e
      /\ n.outpoint_to_key = e /\ n.utxo = e /\ n.block_hash = NoBlock /\ n.block_undo_data = e
      /\ n.snapshots = <<Snapshot(m)>> /\ n.snapshot_storages = <<e>> /\ n.panicked = FALSE
  BY <1>2 DEF IsManager, IsFun, Fields
<1>4. /\ Snapshot(m).height = 0 /\ Snapshot(m).root = e /\ Snapshot(m).total_supply = 0
      /\ Snapshot(m).last_block_hash = NoBlock
  BY <1>2 DEF Snapshot
<1> HIDE DEF n, m
<1>5. FieldsOK(n)
  <2>1. IsMarkers(e)
    BY <1>2, FS_EmptySet DEF IsMarkers
  <2> QED
    BY <1>2, <1>3, <2>1 DEF FieldsOK
<1>6. IsSeq(n.snapshots) /\ IsSeq(n.snapshot_storages) /\ Len(n.snapshots) = 1
      /\ Len(n.snapshot_storages) = 1 /\ n.snapshots[1] = Snapshot(m) /\ n.snapshot_storages[1] = e
  BY <1>3 DEF IsSeq
<1>7. SnapshotOK(n, 1)
  BY <1>2, <1>4, <1>6 DEF SnapshotOK, e
<1>8. \A i : (i \in 1 .. n.height + 1 <=> i = 1) /\ i \notin 1 .. n.height /\ n.height + 1 = 1
  BY <1>3
<1>9. SnapshotsOK(n)
  BY <1>6, <1>7, <1>8, Zenon DEF SnapshotsOK
<1>10. Top(n) = Snapshot(m)
  BY <1>6, <1>8, Zenon DEF Top
<1> QED
  BY <1>1, <1>2, <1>3, <1>4, <1>5, <1>6, <1>9, <1>10, Zenon DEF e

----------------------------------------------------------------------------
(* What SnapshotChain sees of a manager. *)
StateOf(m) == [root |-> RootOf(m.tree.leaves), supply |-> m.supply]
Entry(snap) == [root |-> RootOf(snap.root), supply |-> snap.total_supply]
LogOf(m) == [i \in DOMAIN m.snapshots |-> Entry(m.snapshots[i])]

(* The log of SnapshotChain that a manager stands for. *)
LEMMA LogIs ==
  ASSUME NEW m, RollOK(m)
  PROVE  /\ m.height \in Nat /\ IsSeq(LogOf(m)) /\ Len(LogOf(m)) = m.height + 1
         /\ \A i \in 1 .. m.height + 1 : LogOf(m)[i] = Entry(m.snapshots[i])
         /\ StateOf(m) = LogOf(m)[m.height + 1]
<1>1. m.height \in Nat /\ DOMAIN m.snapshots = 1 .. m.height + 1
  BY SeqIs DEF RollOK, SnapshotsOK, FieldsOK
<1>2. LogOf(m) = [i \in 1 .. m.height + 1 |-> Entry(m.snapshots[i])]
  BY <1>1, Zenon DEF LogOf
<1>3. \A i \in 1 .. m.height + 1 : LogOf(m)[i] = Entry(m.snapshots[i])
  BY <1>2, Zenon
<1>4. IsSeq(LogOf(m)) /\ Len(LogOf(m)) = m.height + 1
  BY <1>1, <1>2 DEF IsSeq
<1>5. StateOf(m) = Entry(m.snapshots[m.height + 1])
  BY Zenon DEF RollOK, Top, StateOf, Entry
<1> QED
  BY <1>1, <1>3, <1>4, <1>5

(* Sequences with equal elements are equal. *)
LEMMA SameSeq ==
  ASSUME NEW s, NEW t, IsSeq(s), IsSeq(t), Len(s) = Len(t), \A i \in 1 .. Len(s) : s[i] = t[i]
  PROVE  s = t
  BY DEF IsSeq

(* A block applied is a commit, a rollback gives back a committed state.   *)
LEMMA CommitView ==
  ASSUME NEW m, NEW n, RollOK(m), RollOK(n), n.height = m.height + 1,
         n.supply \in 0 .. MAX_GLOBAL_SUPPLY_NANO_SLUG,
         \A i \in 1 .. m.height + 1 : n.snapshots[i] = m.snapshots[i]
  PROVE  /\ StateOf(n) \in [root : [Keys -> Values], supply : 0 .. MAX_GLOBAL_SUPPLY_NANO_SLUG]
         /\ LogOf(n) = Append(LogOf(m), StateOf(n))
<1>1. /\ m.height \in Nat /\ IsSeq(LogOf(m)) /\ Len(LogOf(m)) = m.height + 1
      /\ \A i \in 1 .. m.height + 1 : LogOf(m)[i] = Entry(m.snapshots[i])
  BY LogIs
<1>2. /\ n.height \in Nat /\ IsSeq(LogOf(n)) /\ Len(LogOf(n)) = n.height + 1
      /\ \A i \in 1 .. n.height + 1 : LogOf(n)[i] = Entry(n.snapshots[i])
      /\ StateOf(n) = LogOf(n)[n.height + 1]
  BY LogIs
<1>3. RootOf(n.tree.leaves) \in [Keys -> Values]
  <2>1. n.height + 1 \in 1 .. n.height + 1
    BY <1>2
  <2>2. LeavesOK(n.tree.leaves)
    BY <2>1, Zenon DEF RollOK, Top
  <2>3. <<"absent">> \in Values
    BY DEF Values
  <2> QED
    BY <2>2, <2>3 DEF LeavesOK, RootOf
<1> DEFINE p == Append(LogOf(m), StateOf(n))
<1>4. /\ IsSeq(p) /\ Len(p) = (m.height + 1) + 1 /\ p[(m.height + 1) + 1] = StateOf(n)
      /\ \A i \in 1 .. m.height + 1 : p[i] = LogOf(m)[i]
  BY <1>1, AppendIs
<1> HIDE DEF p
<1>5. ASSUME NEW i \in 1 .. Len(p) PROVE LogOf(n)[i] = p[i]
  <2>1. i \in 1 .. n.height + 1 /\ (i \in 1 .. m.height + 1 \/ i = n.height + 1)
    BY <1>1, <1>4
  <2>2. CASE i \in 1 .. m.height + 1
    BY <1>1, <1>2, <1>4, <2>1, <2>2, Zenon
  <2>3. CASE i = n.height + 1
    BY <1>2, <1>4, <2>3, Zenon
  <2> QED
    BY <2>1, <2>2, <2>3
<1>6. LogOf(n) = p
  <2>1. Len(LogOf(n)) = Len(p) /\ IsSeq(LogOf(n)) /\ IsSeq(p)
    BY <1>1, <1>2, <1>4
  <2> QED
    BY <1>5, <2>1, SameSeq
<1> QED
  BY <1>3, <1>6 DEF p, StateOf

(* A rollback, seen as a log: its beginning. *)
LEMMA RollView ==
  ASSUME NEW m, NEW n, RollOK(m), RollOK(n), NEW h \in 0 .. m.height, n.height = h,
         \A i \in 1 .. h + 1 : n.snapshots[i] = m.snapshots[i]
  PROVE  StateOf(n) = LogOf(m)[h + 1] /\ LogOf(n) = SubSeq(LogOf(m), 1, h + 1)
<1>1. /\ m.height \in Nat /\ IsSeq(LogOf(m)) /\ Len(LogOf(m)) = m.height + 1
      /\ \A i \in 1 .. m.height + 1 : LogOf(m)[i] = Entry(m.snapshots[i])
  BY LogIs
<1>2. /\ n.height \in Nat /\ IsSeq(LogOf(n)) /\ Len(LogOf(n)) = h + 1
      /\ \A i \in 1 .. h + 1 : LogOf(n)[i] = Entry(n.snapshots[i])
      /\ StateOf(n) = LogOf(n)[h + 1]
  BY LogIs
<1>3. h + 1 \in Nat /\ h + 1 \in 1 .. h + 1 /\ \A i \in 1 .. h + 1 : i \in 1 .. m.height + 1 /\ 1 + i - 1 = i
  BY <1>1
<1>4. \A i \in 1 .. h + 1 : LogOf(n)[i] = LogOf(m)[i]
  BY <1>1, <1>2, <1>3, Zenon
<1> DEFINE p == SubSeq(LogOf(m), 1, h + 1)
           S == ToSet(LogOf(m))
<1>5. IsSeq(p) /\ Len(p) = h + 1 /\ \A i \in 1 .. h + 1 : p[i] = LogOf(m)[i]
  <2>1. \A i \in 1 .. h + 1 : LogOf(m)[i] \in S
    <3>1. DOMAIN LogOf(m) = 1 .. m.height + 1
      BY <1>1, SeqIs
    <3> QED
      BY <1>3, <3>1 DEF ToSet
  <2> HIDE DEF S
  <2>2. p \in Seq(S) /\ Len(p) = h + 1 /\ \A i \in 1 .. h + 1 : p[i] = LogOf(m)[1 + i - 1]
    BY <1>3, <2>1, SubSeqProperties
  <2>3. IsSeq(p)
    BY <2>2, SeqIs
  <2> QED
    BY <1>3, <2>2, <2>3
<1> HIDE DEF p
<1>6. LogOf(n) = p
  BY <1>2, <1>4, <1>5, SameSeq
<1> QED
  BY <1>2, <1>3, <1>4, <1>6, Zenon DEF p

RollInv == usage = "rollback" => RollOK(sm)

(* connect_block either changes nothing or applies the block. *)
LEMMA ConnectIs ==
  ASSUME NEW m, NEW b
  PROVE  ConnectBlock(m, b).m = m \/ ConnectBlock(m, b) = ApplyBlock(m, b)
<1>1. CASE ValidateBlockStateful(m, b)
  BY <1>1, Zenon DEF ConnectBlock
<1>2. CASE ~ValidateBlockStateful(m, b)
  <2>1. ConnectBlock(m, b) = [ok |-> FALSE, m |-> m]
    BY <1>2, Zenon DEF ConnectBlock
  <2> QED
    BY <2>1
<1> QED
  BY <1>1, <1>2

(* A step of a manager that rolls back to heights. *)
LEMMA RollStep ==
  ASSUME usage = "rollback", RollOK(sm), StateNext
  PROVE  /\ RollOK(sm') /\ usage' = usage
         /\ \/ sm' = sm
            \/ /\ sm'.height = sm.height + 1 /\ sm'.supply \in 0 .. MAX_GLOBAL_SUPPLY_NANO_SLUG
               /\ \A i \in 1 .. sm.height + 1 : sm'.snapshots[i] = sm.snapshots[i]
            \/ \E h \in 0 .. sm.height : /\ sm'.height = h
                                         /\ \A i \in 1 .. h + 1 : sm'.snapshots[i] = sm.snapshots[i]
<1> PICK m : m = sm
  OBVIOUS
<1> PICK n : n = sm'
  OBVIOUS
<1>1. ASSUME NEW b \in Block, Apply(b) \/ Connect(b)
      PROVE  /\ RollOK(n) /\ usage' = usage
             /\ \/ n = m
                \/ /\ n.height = m.height + 1 /\ n.supply \in 0 .. MAX_GLOBAL_SUPPLY_NANO_SLUG
                   /\ \A i \in 1 .. m.height + 1 : n.snapshots[i] = m.snapshots[i]
  <2>1. b \notin ToSet(Chain(m)) /\ usage' = usage /\ (n = ApplyBlock(m, b).m \/ n = ConnectBlock(m, b).m)
    BY <1>1, Zenon DEF Apply, Connect, Offered
  <2>2. n = m \/ n = ApplyBlock(m, b).m
    BY <2>1, ConnectIs, Zenon
  <2> QED
    BY <2>1, <2>2, ApplyRolls, Zenon
<1>2. ASSUME NEW h \in 0 .. (sm.height + 1), RollBackTo(h)
      PROVE  /\ RollOK(n) /\ usage' = usage
             /\ \/ n = m
                \/ /\ h \in 0 .. m.height /\ n.height = h
                   /\ \A i \in 1 .. h + 1 : n.snapshots[i] = m.snapshots[i]
  <2>1. h \in Nat
    BY DEF RollOK, FieldsOK
  <2>2. usage' = usage /\ (n = RollbackState(m, h).m \/ n = Rollback(m, h).m)
    BY <1>2 DEF RollBackTo
  <2> DEFINE k == RollbackState(m, h).m
  <2>3. /\ Rollback(m, h).m = k /\ RollOK(k)
        /\ \/ k = m
           \/ /\ h \in 0 .. m.height /\ k.height = h
              /\ \A i \in 1 .. h + 1 : k.snapshots[i] = m.snapshots[i]
    BY <2>1, RollbackRolls
  <2> QED
    BY <2>2, <2>3, Zenon
<1>3. \/ \E b \in Block : Apply(b) \/ Connect(b)
      \/ \E h \in 0 .. (sm.height + 1) : RollBackTo(h)
  BY DEF StateNext, DisconnectTip, RestoreSnapshot, Mark, PruneCycle
<1> QED
  BY <1>1, <1>2, <1>3, Zenon

(* Every step keeps what the refinement needs. *)
LEMMA RollInductive ==
  ASSUME RollInv, [StateNext]_stateVars
  PROVE  RollInv'
<1>1. CASE UNCHANGED stateVars
  BY <1>1 DEF RollInv, stateVars
<1>2. CASE StateNext
  <2>1. usage' = usage
    BY <1>2 DEF StateNext, Apply, Connect, DisconnectTip, RollBackTo, RestoreSnapshot, Mark, PruneCycle
  <2> QED
    BY <1>2, <2>1, RollStep, Zenon DEF RollInv
<1> QED
  BY <1>1, <1>2

(* Every step of the manager is a step of SnapshotChain, or none. *)
LEMMA RefinementStep ==
  ASSUME RollInv, [StateNext]_stateVars
  PROVE  [SC!ChainNext]_(SC!chainVars)
<1>1. CASE shown' = shown
  <2>1. UNCHANGED SC!chainVars
    BY <1>1, Zenon DEF SC!chainVars
  <2> QED
    BY <2>1
<1>2. CASE UNCHANGED stateVars
  <2>1. shown' = shown
    BY <1>2 DEF stateVars, shown
  <2> QED
    BY <1>1, <2>1
<1>3. CASE StateNext
  <2>1. usage' = usage
    BY <1>3 DEF StateNext, Apply, Connect, DisconnectTip, RollBackTo, RestoreSnapshot, Mark, PruneCycle
  <2>2. CASE usage # "rollback"
    <3>1. shown = NewManager /\ shown' = NewManager
      BY <2>1, <2>2, Zenon DEF shown
    <3> QED
      BY <1>1, <3>1
  <2>3. CASE usage = "rollback"
    <3>1. shown = sm /\ shown' = sm'
      BY <2>1, <2>3, Zenon DEF shown
    <3>2. RollOK(sm)
      BY <2>3 DEF RollInv
    <3>3. /\ RollOK(sm')
          /\ \/ sm' = sm
             \/ /\ sm'.height = sm.height + 1 /\ sm'.supply \in 0 .. MAX_GLOBAL_SUPPLY_NANO_SLUG
                /\ \A i \in 1 .. sm.height + 1 : sm'.snapshots[i] = sm.snapshots[i]
             \/ \E h \in 0 .. sm.height : /\ sm'.height = h
                                          /\ \A i \in 1 .. h + 1 : sm'.snapshots[i] = sm.snapshots[i]
      BY <1>3, <2>3, <3>2, RollStep, Zenon
    <3>4. CASE sm' = sm
      BY <1>1, <3>1, <3>4
    <3>5. CASE /\ sm'.height = sm.height + 1 /\ sm'.supply \in 0 .. MAX_GLOBAL_SUPPLY_NANO_SLUG
               /\ \A i \in 1 .. sm.height + 1 : sm'.snapshots[i] = sm.snapshots[i]
      <4>1. /\ StateOf(sm') \in [root : [Keys -> Values], supply : 0 .. MAX_GLOBAL_SUPPLY_NANO_SLUG]
            /\ LogOf(sm') = Append(LogOf(sm), StateOf(sm'))
        BY <3>2, <3>3, <3>5, CommitView, Zenon
      <4>2. SC!Commit
        BY <3>1, <3>5, <4>1, Zenon DEF SC!Commit, SC!Committable, StateOf, LogOf, Entry
      <4> QED
        BY <4>2 DEF SC!ChainNext
    <3>6. ASSUME NEW h \in 0 .. sm.height, sm'.height = h,
                 \A i \in 1 .. h + 1 : sm'.snapshots[i] = sm.snapshots[i]
          PROVE  SC!ChainNext
      <4>1. StateOf(sm') = LogOf(sm)[h + 1] /\ LogOf(sm') = SubSeq(LogOf(sm), 1, h + 1)
        BY <3>2, <3>3, <3>6, RollView, Zenon
      <4>2. h <= shown.height /\ h \in 0 .. shown.height
        BY <3>1, <3>2 DEF RollOK, FieldsOK
      <4>3. SC!RollTo(h)
        BY <3>1, <3>6, <4>1, <4>2, Zenon DEF SC!RollTo, StateOf, LogOf, Entry
      <4> QED
        BY <4>2, <4>3, Zenon DEF SC!ChainNext
    <3> QED
      BY <3>3, <3>4, <3>5, <3>6
  <2> QED
    BY <2>2, <2>3
<1> QED
  BY <1>2, <1>3

(* RefinesSnapshotChain for any blocks: in every behaviour of a manager    *)
(* that applies and connects blocks and rolls back to heights, every       *)
(* committed state is under the cap and is what a rollback to its height   *)
(* gives back, whichever blocks fail in between.                           *)
THEOREM ImplementsSnapshotChain == StateSpec => RefinesSnapshotChain
<1>1. StateInit => RollInv
  <2>1. RollOK(NewManager)
    <3>1. /\ FieldsOK(NewManager) /\ SnapshotsOK(NewManager) /\ NewManager.height = 0
          /\ NewManager.supply = 0 /\ NewManager.tree.leaves = [x \in {} |-> <<>>]
          /\ Top(NewManager).root = [x \in {} |-> <<>>] /\ Top(NewManager).total_supply = 0
      BY NewManagerIs
    <3>2. LeavesOK([x \in {} |-> <<>>])
      BY DEF LeavesOK, IsFun
    <3>3. \A i \in 1 .. NewManager.height + 1 : i = NewManager.height + 1
      BY <3>1
    <3>4. \A i \in 1 .. NewManager.height + 1 : LeavesOK(NewManager.snapshots[i].root)
      BY <3>1, <3>2, <3>3, Zenon DEF Top
    <3> QED
      BY <3>1, <3>4 DEF RollOK
  <2> QED
    BY <2>1, Zenon DEF StateInit, RollInv
<1>2. StateInit => SC!ChainInit
  <2> SUFFICES ASSUME StateInit PROVE SC!ChainInit
    OBVIOUS
  <2> DEFINE m == NewManager
             e == [x \in {} |-> <<>>]
             r == [key \in Keys |-> <<"absent">>]
  <2>1. shown = m
    BY Zenon DEF StateInit, shown
  <2>2. /\ m.height = 0 /\ m.supply = 0 /\ m.tree.leaves = e
        /\ Top(m).root = e /\ Top(m).total_supply = 0 /\ Len(m.snapshots) = 1
    BY NewManagerIs, Zenon
  <2>3. DOMAIN m.snapshots = 1 .. 1
    BY <2>2, NewManagerIs, SeqIs DEF SnapshotsOK
  <2>4. RootOf(e) = r
    BY DEF RootOf
  <2> HIDE DEF m, e, r
  <2>5. StateOf(m) = [root |-> r, supply |-> 0]
    BY <2>2, <2>4, Zenon DEF StateOf
  <2>6. LogOf(m) = <<[root |-> r, supply |-> 0]>>
    <3>1. Top(m) = m.snapshots[1]
      BY <2>2 DEF Top
    <3>2. Entry(m.snapshots[1]) = [root |-> r, supply |-> 0]
      BY <2>2, <2>4, <3>1, Zenon DEF Entry
    <3>3. LogOf(m) = [i \in 1 .. 1 |-> Entry(m.snapshots[i])]
      BY <2>3, Zenon DEF LogOf
    <3>4. [i \in 1 .. 1 |-> Entry(m.snapshots[i])] = <<Entry(m.snapshots[1])>>
      OBVIOUS
    <3> QED
      BY <3>2, <3>3, <3>4, Zenon
  <2> QED
    BY <2>1, <2>2, <2>5, <2>6, Zenon DEF SC!ChainInit, StateOf, LogOf, Entry, r
<1>3. RollInv /\ [StateNext]_stateVars => RollInv'
  BY RollInductive
<1>4. RollInv /\ [StateNext]_stateVars => [SC!ChainNext]_(SC!chainVars)
  BY RefinementStep
<1> QED
  BY <1>1, <1>2, <1>3, <1>4, PTL DEF StateSpec, RefinesSnapshotChain, SC!ChainSpec

----------------------------------------------------------------------------
(* The outputs of the blocks, when ids are unique. *)
LEMMA OutputsAre ==
  ASSUME BlocksDistinct
  PROVE  /\ \A tx, ty \in Transactions : tx.id = ty.id => tx = ty
         /\ \A tx \in Transactions : \A i \in 1 .. Len(tx.outputs) :
                OutputOf(<<tx.id, i - 1>>) = tx.outputs[i]
         /\ \A tx, ty \in Transactions : tx # ty => CreatedIn(tx) \cap CreatedIn(ty) = {}
<1>1. ASSUME NEW tx \in Transactions
      PROVE  \E b \in Block : \E i \in DOMAIN TxsOf[b] : TxsOf[b][i] = tx
  <2>1. PICK b \in Block : tx \in ToSet(TxsOf[b])
    BY DEF Transactions
  <2> QED
    BY <2>1 DEF ToSet
<1>2. ASSUME NEW tx \in Transactions, NEW ty \in Transactions, tx.id = ty.id PROVE tx = ty
  <2>1. PICK b \in Block : \E i \in DOMAIN TxsOf[b] : TxsOf[b][i] = tx
    BY <1>1
  <2>2. PICK i \in DOMAIN TxsOf[b] : TxsOf[b][i] = tx
    BY <2>1
  <2>3. PICK c \in Block : \E j \in DOMAIN TxsOf[c] : TxsOf[c][j] = ty
    BY <1>1
  <2>4. PICK j \in DOMAIN TxsOf[c] : TxsOf[c][j] = ty
    BY <2>3
  <2>5. b = c /\ i = j
    <3>1. TxsOf[b][i].id = TxsOf[c][j].id
      BY <1>2, <2>2, <2>4
    <3> QED
      BY <3>1, Zenon DEF BlocksDistinct
  <2> QED
    BY <2>2, <2>4, <2>5
<1>3. ASSUME NEW tx \in Transactions, NEW i \in 1 .. Len(tx.outputs)
      PROVE  OutputOf(<<tx.id, i - 1>>) = tx.outputs[i]
  <2> DEFINE op == <<tx.id, i - 1>>
             ty == CHOOSE ty \in Transactions : ty.id = op[1]
  <2>0. op[1] = tx.id /\ op[2] = i - 1
    OBVIOUS
  <2> HIDE DEF op
  <2>1. ty \in Transactions /\ ty.id = op[1]
    BY <2>0, Zenon
  <2>2. ty = tx
    BY <1>2, <2>0, <2>1, Zenon
  <2>3. OutputOf(op) = ty.outputs[op[2] + 1]
    BY Zenon DEF OutputOf
  <2>4. op[2] + 1 = i
    <3>1. Len(tx.outputs) \in Nat
      BY NewOutputsAre DEF IsSeq
    <3> QED
      BY <2>0, <3>1
  <2> QED
    BY <2>2, <2>3, <2>4, Zenon DEF op
<1>4. ASSUME NEW tx \in Transactions, NEW ty \in Transactions, NEW op, op \in CreatedIn(tx), op \in CreatedIn(ty)
      PROVE  tx = ty
  <2>1. PICK i \in DOMAIN tx.outputs : op = <<tx.id, i - 1>>
    BY <1>4, Zenon DEF CreatedIn
  <2>2. PICK j \in DOMAIN ty.outputs : op = <<ty.id, j - 1>>
    BY <1>4, Zenon DEF CreatedIn
  <2>3. tx.id = ty.id
    BY <2>1, <2>2
  <2> QED
    BY <1>2, <2>3
<1>5. ASSUME NEW tx \in Transactions, NEW ty \in Transactions, tx # ty PROVE CreatedIn(tx) \cap CreatedIn(ty) = {}
  BY <1>4, <1>5
<1> QED
  BY <1>2, <1>3, <1>5, Zenon

(* When ids are distinct, an outpoint determines its output and the block  *)
(* that creates it.                                                        *)
LEMMA WorthIs ==
  ASSUME BlocksDistinct
  PROVE  /\ \A op \in AllOutputs : /\ OutputOf(op) \in TxOutput /\ Worth[op] \in Nat
                                   /\ OutputOf(op).value = Worth[op]
         /\ \A b \in Block : CreatedBy(b) \subseteq AllOutputs
         /\ \A b, c \in Block : b # c => CreatedBy(b) \cap CreatedBy(c) = {}
         /\ SUPPLY_KEY \notin AllOutputs
         /\ \A tx \in Transactions : CreatedIn(tx) \subseteq AllOutputs /\ DOMAIN tx.writes \cap AllOutputs = {}
<1>1. ASSUME NEW op \in AllOutputs PROVE \E tx \in Transactions : op \in CreatedIn(tx)
  <2>1. PICK b \in Block : op \in CreatedBy(b)
    BY DEF AllOutputs
  <2>2. PICK tx \in ToSet(TxsOf[b]) : op \in CreatedIn(tx)
    BY <2>1 DEF CreatedBy
  <2>3. tx \in Transactions
    BY <2>2 DEF Transactions
  <2> QED
    BY <2>2, <2>3
<1>2. ASSUME NEW op \in AllOutputs
      PROVE  OutputOf(op) \in TxOutput /\ Worth[op] \in Nat /\ OutputOf(op).value = Worth[op]
  <2>1. PICK tx \in Transactions : op \in CreatedIn(tx)
    BY <1>1
  <2>2. PICK i \in DOMAIN tx.outputs : op = <<tx.id, i - 1>>
    BY <2>1, Zenon DEF CreatedIn
  <2>3. DOMAIN tx.outputs = 1 .. Len(tx.outputs)
    BY NewOutputsAre, SeqIs
  <2>4. OutputOf(op) = tx.outputs[i] /\ tx.outputs[i] \in TxOutput
    BY <2>2, <2>3, OutputsAre, NewOutputsAre
  <2>5. OutputOf(op) \in TxOutput
    BY <2>4
  <2>6. Worth[op] = OutputOf(op).value
    BY DEF Worth
  <2>7. \A o \in TxOutput : o.value \in Nat
    BY DEF TxOutput
  <2> QED
    BY <2>5, <2>6, <2>7, Zenon
<1>3. ASSUME NEW b \in Block PROVE CreatedBy(b) \subseteq AllOutputs
  BY DEF AllOutputs
<1>4. ASSUME NEW tx \in Transactions PROVE CreatedIn(tx) \subseteq AllOutputs
  <2>1. PICK b \in Block : tx \in ToSet(TxsOf[b])
    BY DEF Transactions
  <2>2. CreatedIn(tx) \subseteq CreatedBy(b)
    BY <2>1 DEF CreatedBy
  <2> QED
    BY <1>3, <2>2
<1>5. ASSUME NEW b \in Block, NEW c \in Block, b # c PROVE CreatedBy(b) \cap CreatedBy(c) = {}
  <2>1. ASSUME NEW op, op \in CreatedBy(b), op \in CreatedBy(c) PROVE FALSE
    <3>1. PICK tx \in ToSet(TxsOf[b]) : op \in CreatedIn(tx)
      BY <2>1 DEF CreatedBy
    <3>2. PICK ty \in ToSet(TxsOf[c]) : op \in CreatedIn(ty)
      BY <2>1 DEF CreatedBy
    <3>3. tx \in Transactions /\ ty \in Transactions
      BY DEF Transactions
    <3>4. tx = ty
      BY <3>1, <3>2, <3>3, OutputsAre
    <3>5. PICK i \in DOMAIN TxsOf[b] : tx = TxsOf[b][i]
      BY DEF ToSet
    <3>6. PICK j \in DOMAIN TxsOf[c] : ty = TxsOf[c][j]
      BY DEF ToSet
    <3>7. b = c
      BY <3>4, <3>5, <3>6, Zenon DEF BlocksDistinct
    <3> QED
      BY <1>5, <3>7
  <2> QED
    BY <2>1
<1>6. ASSUME NEW ty \in Transactions, NEW k \in DOMAIN ty.writes \cup {SUPPLY_KEY} PROVE k \notin AllOutputs
  <2>1. ASSUME k \in AllOutputs PROVE FALSE
    <3>1. PICK tx \in Transactions : k \in CreatedIn(tx)
      BY <1>1, <2>1
    <3>2. CreatedIn(tx) \cap (DOMAIN ty.writes \cup {SUPPLY_KEY}) = {}
      BY Zenon DEF BlocksDistinct
    <3> QED
      BY <3>1, <3>2
  <2> QED
    BY <2>1
<1>7. SUPPLY_KEY \notin AllOutputs
  <2>1. CASE Transactions = {}
    BY <1>1, <2>1
  <2>2. CASE Transactions # {}
    BY <1>6, <2>2
  <2> QED
    BY <2>1, <2>2
<1>8. ASSUME NEW tx \in Transactions PROVE DOMAIN tx.writes \cap AllOutputs = {}
  BY <1>6
<1> QED
  BY <1>2, <1>3, <1>4, <1>5, <1>7, <1>8, Zenon

----------------------------------------------------------------------------
(* The UTXO set, the supply and the undo data of a block that has created  *)
(* the outputs C and spent the outputs S so far.                           *)
Covered(m) ==
    /\ m.supply \in Nat /\ IsFiniteSet(DOMAIN m.utxo) /\ DOMAIN m.utxo \subseteq AllOutputs
    /\ \A op \in DOMAIN m.utxo : m.utxo[op] = OutputOf(op)
    /\ Sum(Worth, DOMAIN m.utxo) <= m.supply

Money(m, s, C, S) ==
    /\ IsFiniteSet(C) /\ C \subseteq AllOutputs /\ S \subseteq DOMAIN m.utxo
    /\ C \cap DOMAIN m.utxo = {}
    /\ DOMAIN s.m.utxo = (DOMAIN m.utxo \ S) \cup C
    /\ \A op \in DOMAIN s.m.utxo : s.m.utxo[op] = OutputOf(op)
    /\ UndoOK(s.undo, C, S)
    /\ s.m.supply = m.supply + s.undo.delta

(* The worth of a set of outputs, and the change with one more. *)
LEMMA SetWorth ==
  ASSUME BlocksDistinct, NEW D, IsFiniteSet(D), D \subseteq AllOutputs
  PROVE  /\ Sum(Worth, D) \in Nat /\ Sum(Worth, {}) = 0
         /\ \A op \in AllOutputs \ D : Sum(Worth, D \cup {op}) = Sum(Worth, D) + Worth[op]
         /\ \A P \in SUBSET D : /\ Sum(Worth, P) \in Nat /\ Sum(Worth, D \ P) \in Nat
                                /\ Sum(Worth, D) = Sum(Worth, D \ P) + Sum(Worth, P)
<1>1. \A op \in AllOutputs : Worth[op] \in Nat
  BY WorthIs
<1>2. \A op \in D : Worth[op] \in Nat
  BY <1>1
<1>3. Sum(Worth, D) \in Nat /\ Sum(Worth, {}) = 0
  BY <1>2, SumRemove
<1>4. \A op \in AllOutputs \ D : Sum(Worth, D \cup {op}) = Sum(Worth, D) + Worth[op]
  BY <1>1, <1>2, SumAdd
<1>5. \A P \in SUBSET D : /\ Sum(Worth, P) \in Nat /\ Sum(Worth, D \ P) \in Nat
                          /\ Sum(Worth, D) = Sum(Worth, D \ P) + Sum(Worth, P)
  BY <1>2, SumPart
<1> QED
  BY <1>3, <1>4, <1>5, Zenon

(* Spending an input takes its value from the UTXO set, from the supply    *)
(* and from the balance of the undo data.                                  *)
LEMMA MoneySpend ==
  ASSUME BlocksDistinct, NEW m, Covered(m), NEW s, IsLoop(s), s.ok, NEW C, NEW S, Money(m, s, C, S),
         NEW op, op \in DOMAIN s.m.utxo, op \notin C
  PROVE  Money(m, SpendInput(s, op), C, S \cup {op})
<1> DEFINE r == SpendInput(s, op)
           o == s.m.utxo[op]
           D == DOMAIN m.utxo
           T == S \cup {op}
<1>1. /\ r.undo.spent = Append(s.undo.spent, <<op, o>>) /\ r.undo.delta = s.undo.delta - o.value
      /\ r.undo.created = s.undo.created /\ r.undo.verkle = s.undo.verkle
      /\ r.m.supply = SaturatingSub(s.m.supply, o.value) /\ r.m.utxo = Drop(s.m.utxo, op)
  BY SpendIs
<1>2. /\ m.supply \in Nat /\ IsFiniteSet(D) /\ D \subseteq AllOutputs
      /\ Sum(Worth, D) <= m.supply
  BY DEF Covered
<1>3. /\ IsFiniteSet(C) /\ C \subseteq AllOutputs /\ S \subseteq D /\ C \cap D = {}
      /\ DOMAIN s.m.utxo = (D \ S) \cup C /\ \A x \in DOMAIN s.m.utxo : s.m.utxo[x] = OutputOf(x)
      /\ UndoOK(s.undo, C, S) /\ s.m.supply = m.supply + s.undo.delta
  BY DEF Money
<1> HIDE DEF r, D
<1>4. op \in D /\ op \notin S /\ op \in AllOutputs /\ o = OutputOf(op) /\ T \subseteq D
  BY <1>2, <1>3
<1>5. o.value = Worth[op] /\ Worth[op] \in Nat
  BY <1>4, WorthIs
<1> HIDE DEF o
<1>6. /\ Sum(Worth, C) \in Nat /\ Sum(Worth, D) \in Nat /\ Sum(Worth, S) \in Nat
      /\ Sum(Worth, T) = Sum(Worth, S) + Worth[op]
      /\ Sum(Worth, D \ T) \in Nat /\ Sum(Worth, D) = Sum(Worth, D \ T) + Sum(Worth, T)
  <2>1. IsFiniteSet(S) /\ S \subseteq AllOutputs
    BY <1>2, <1>3, FS_Subset
  <2>2. op \in AllOutputs \ S
    BY <1>4
  <2> HIDE DEF T
  <2>3. Sum(Worth, C) \in Nat
    BY <1>3, SetWorth
  <2>4. Sum(Worth, S) \in Nat /\ Sum(Worth, S \cup {op}) = Sum(Worth, S) + Worth[op]
    BY <2>1, <2>2, SetWorth
  <2>5. Sum(Worth, D) \in Nat /\ Sum(Worth, D \ T) \in Nat /\ Sum(Worth, D) = Sum(Worth, D \ T) + Sum(Worth, T)
    BY <1>2, <1>4, SetWorth
  <2> QED
    BY <2>3, <2>4, <2>5 DEF T
<1>7. s.undo.delta = Sum(Worth, C) - Sum(Worth, S)
  BY <1>3 DEF UndoOK
<1>8. r.m.supply = m.supply + r.undo.delta /\ r.undo.delta = Sum(Worth, C) - Sum(Worth, T)
  BY <1>1, <1>2, <1>3, <1>5, <1>6, <1>7 DEF SaturatingSub
<1>9. DOMAIN r.m.utxo = (D \ T) \cup C
  BY <1>1, <1>3 DEF Drop
<1>10. \A x \in DOMAIN r.m.utxo : r.m.utxo[x] = OutputOf(x)
  BY <1>1, <1>3 DEF Drop
<1>11. UndoOK(r.undo, C, T)
  <2> DEFINE p == s.undo.spent
             q == r.undo.spent
  <2>1. /\ IsSeq(s.undo.created) /\ ToSet(s.undo.created) = C /\ IsSeq(p) /\ IsSeq(s.undo.verkle)
        /\ {p[i][1] : i \in 1 .. Len(p)} = S /\ \A i \in 1 .. Len(p) : p[i][2] = OutputOf(p[i][1])
    BY <1>3 DEF UndoOK
  <2>2. /\ IsSeq(q) /\ Len(q) = Len(p) + 1 /\ q[Len(p) + 1] = <<op, o>> /\ Len(p) \in Nat
        /\ \A i \in 1 .. Len(p) : q[i] = p[i]
    BY <1>1, <2>1, AppendIs DEF IsSeq
  <2> HIDE DEF p, q
  <2>3. \A i : i \in 1 .. Len(q) <=> i \in 1 .. Len(p) \/ i = Len(p) + 1
    BY <2>2
  <2>4. <<op, o>>[1] = op /\ <<op, o>>[2] = o
    OBVIOUS
  <2>5. {q[i][1] : i \in 1 .. Len(q)} = T
    <3>1. {q[i][1] : i \in 1 .. Len(q)} = {p[i][1] : i \in 1 .. Len(p)} \cup {op}
      BY <2>2, <2>3, <2>4
    <3> QED
      BY <2>1, <3>1
  <2>6. \A i \in 1 .. Len(q) : q[i][2] = OutputOf(q[i][1])
    BY <1>4, <2>1, <2>2, <2>3, <2>4, Zenon
  <2> QED
    BY <1>1, <1>8, <2>1, <2>2, <2>5, <2>6, Zenon DEF UndoOK, q
<1> QED
  BY <1>3, <1>4, <1>8, <1>9, <1>10, <1>11, Zenon DEF Money, r, D

(* Creating an output adds it to all three. *)
LEMMA MoneyCreate ==
  ASSUME BlocksDistinct, NEW m, Covered(m), NEW s, IsLoop(s), NEW C, NEW S, Money(m, s, C, S),
         NEW e, e[1] \in AllOutputs, e[1] \notin C, e[1] \notin DOMAIN m.utxo, e[2] = OutputOf(e[1])
  PROVE  Money(m, CreateOutput(s, e), C \cup {e[1]}, S)
<1> DEFINE r == CreateOutput(s, e)
           D == DOMAIN m.utxo
           op == e[1]
           E == C \cup {op}
<1>1. /\ r.undo.created = Append(s.undo.created, op) /\ r.undo.delta = s.undo.delta + e[2].value
      /\ r.undo.spent = s.undo.spent
      /\ r.undo.verkle = Append(s.undo.verkle, <<op, TreeGet(s.m.tree, op)>>)
      /\ r.m.supply = s.m.supply + e[2].value /\ r.m.utxo = Put(s.m.utxo, op, e[2])
  BY CreateIs
<1>2. /\ m.supply \in Nat /\ IsFiniteSet(D) /\ D \subseteq AllOutputs
  BY DEF Covered
<1>3. /\ IsFiniteSet(C) /\ C \subseteq AllOutputs /\ S \subseteq D /\ C \cap D = {}
      /\ DOMAIN s.m.utxo = (D \ S) \cup C /\ \A x \in DOMAIN s.m.utxo : s.m.utxo[x] = OutputOf(x)
      /\ UndoOK(s.undo, C, S) /\ s.m.supply = m.supply + s.undo.delta
  BY DEF Money
<1>4. e[2].value = Worth[op] /\ Worth[op] \in Nat
  BY WorthIs
<1> HIDE DEF r, D, op
<1>5. op \in AllOutputs \ C /\ op \notin D /\ e[2] = OutputOf(op)
  BY DEF op, D
<1>6. IsFiniteSet(E) /\ E \subseteq AllOutputs /\ E \cap D = {}
  BY <1>3, <1>5, FS_AddElement
<1>7. Sum(Worth, E) = Sum(Worth, C) + Worth[op] /\ Sum(Worth, C) \in Nat
  BY <1>3, <1>5, SetWorth
<1>8. Sum(Worth, S) \in Nat
  <2>1. IsFiniteSet(S) /\ S \subseteq AllOutputs
    BY <1>2, <1>3, FS_Subset
  <2> QED
    BY <2>1, SetWorth
<1>9. s.undo.delta = Sum(Worth, C) - Sum(Worth, S)
  BY <1>3 DEF UndoOK
<1>10. r.m.supply = m.supply + r.undo.delta /\ r.undo.delta = Sum(Worth, E) - Sum(Worth, S)
  BY <1>1, <1>2, <1>3, <1>4, <1>7, <1>8, <1>9
<1>11. DOMAIN r.m.utxo = (D \ S) \cup E
  BY <1>1, <1>3 DEF Put
<1>12. \A x \in DOMAIN r.m.utxo : r.m.utxo[x] = OutputOf(x)
  BY <1>1, <1>3, <1>5 DEF Put
<1>13. UndoOK(r.undo, E, S)
  <2> DEFINE p == s.undo.created
             q == r.undo.created
  <2>0. IsSeq(r.undo.verkle)
    BY <1>1, <1>3, AppendIs DEF UndoOK
  <2>1. /\ IsSeq(p) /\ ToSet(p) = C /\ IsSeq(s.undo.spent)
        /\ {s.undo.spent[i][1] : i \in 1 .. Len(s.undo.spent)} = S
        /\ \A i \in 1 .. Len(s.undo.spent) : s.undo.spent[i][2] = OutputOf(s.undo.spent[i][1])
    BY <1>3 DEF UndoOK
  <2>2. /\ IsSeq(q) /\ Len(q) = Len(p) + 1 /\ q[Len(p) + 1] = op /\ Len(p) \in Nat
        /\ \A i \in 1 .. Len(p) : q[i] = p[i]
    BY <1>1, <2>1, AppendIs DEF IsSeq
  <2>3. DOMAIN p = 1 .. Len(p) /\ DOMAIN q = 1 .. Len(q)
    BY <2>1, <2>2, SeqIs
  <2> HIDE DEF p, q
  <2>4. \A i : i \in 1 .. Len(q) <=> i \in 1 .. Len(p) \/ i = Len(p) + 1
    BY <2>2
  <2>5. ToSet(q) = E
    <3>1. ToSet(q) = ToSet(p) \cup {op}
      BY <2>2, <2>3, <2>4 DEF ToSet
    <3> QED
      BY <2>1, <3>1
  <2>6. IsSeq(r.undo.spent) /\ IsSeq(r.undo.created) /\ IsSeq(r.undo.verkle) /\ ToSet(r.undo.created) = E
    BY <1>1, <2>0, <2>1, <2>2, <2>5, Zenon DEF q
  <2>7. {r.undo.spent[i][1] : i \in 1 .. Len(r.undo.spent)} = S
    BY <1>1, <2>1, Zenon
  <2>8. \A i \in 1 .. Len(r.undo.spent) : r.undo.spent[i][2] = OutputOf(r.undo.spent[i][1])
    BY <1>1, <2>1, Zenon
  <2> QED
    BY <1>10, <2>6, <2>7, <2>8, Zenon DEF UndoOK
<1> QED
  BY <1>3, <1>6, <1>10, <1>11, <1>12, <1>13, Zenon DEF Money, r, D, op

(* The keys, the pending updates and the tree along with them. *)
SameOutputs(t, u) ==
    \A op \in AllOutputs : /\ op \in DOMAIN u <=> op \in DOMAIN t
                           /\ op \in DOMAIN t => u[op] = t[op]

Keyed(m, s, C) ==
    /\ m.outpoint_to_key = Identity(DOMAIN m.utxo) => s.m.outpoint_to_key = Identity(DOMAIN s.m.utxo)
    /\ LET q == s.m.pending_updates
       IN  /\ IsSeq(q) /\ {q[i][1] : i \in 1 .. Len(q)} = C
           /\ \A i \in 1 .. Len(q) : q[i][2] = OutputOf(q[i][1])
    /\ SameOutputs(m.tree.leaves, s.m.tree.leaves)

(* Spending an input leaves tree and keys as they are. *)
LEMMA KeyedSpend ==
  ASSUME NEW m, NEW s, IsLoop(s), s.ok, NEW C, Keyed(m, s, C), NEW op, op \in DOMAIN s.m.utxo
  PROVE  Keyed(m, SpendInput(s, op), C)
<1> DEFINE r == SpendInput(s, op)
<1>1. /\ r.m.utxo = Drop(s.m.utxo, op) /\ r.m.outpoint_to_key = Drop(s.m.outpoint_to_key, op)
      /\ r.m.tree = s.m.tree /\ r.m.pending_updates = s.m.pending_updates
  BY SpendIs
<1> HIDE DEF r
<1>2. ASSUME s.m.outpoint_to_key = Identity(DOMAIN s.m.utxo)
      PROVE  r.m.outpoint_to_key = Identity(DOMAIN r.m.utxo)
  BY <1>1, <1>2 DEF Drop, Identity
<1> QED
  BY <1>1, <1>2, Zenon DEF Keyed, r

(* Creating an output writes it under its key. *)
LEMMA KeyedCreate ==
  ASSUME NEW m, NEW s, IsLoop(s), NEW C, Keyed(m, s, C), NEW e, e[2] = OutputOf(e[1])
  PROVE  Keyed(m, CreateOutput(s, e), C \cup {e[1]})
<1> DEFINE r == CreateOutput(s, e)
           p == s.m.pending_updates
           q == r.m.pending_updates
<1>1. /\ r.m.utxo = Put(s.m.utxo, e[1], e[2])
      /\ r.m.outpoint_to_key = Put(s.m.outpoint_to_key, e[1], e[1])
      /\ r.m.tree = s.m.tree /\ q = Append(p, <<e[1], e[2]>>)
  BY CreateIs
<1>2. /\ IsSeq(p) /\ {p[i][1] : i \in 1 .. Len(p)} = C
      /\ \A i \in 1 .. Len(p) : p[i][2] = OutputOf(p[i][1])
  BY Zenon DEF Keyed
<1>3. /\ IsSeq(q) /\ Len(q) = Len(p) + 1 /\ q[Len(p) + 1] = <<e[1], e[2]>> /\ Len(p) \in Nat
      /\ \A i \in 1 .. Len(p) : q[i] = p[i]
  BY <1>1, <1>2, AppendIs DEF IsSeq
<1> HIDE DEF r, p, q
<1>4. \A i : i \in 1 .. Len(q) <=> i \in 1 .. Len(p) \/ i = Len(p) + 1
  BY <1>3
<1>5. <<e[1], e[2]>>[1] = e[1] /\ <<e[1], e[2]>>[2] = e[2]
  OBVIOUS
<1>6. {q[i][1] : i \in 1 .. Len(q)} = C \cup {e[1]}
  <2>1. {q[i][1] : i \in 1 .. Len(q)} = {p[i][1] : i \in 1 .. Len(p)} \cup {e[1]}
    BY <1>3, <1>4, <1>5
  <2> QED
    BY <1>2, <2>1
<1>7. \A i \in 1 .. Len(q) : q[i][2] = OutputOf(q[i][1])
  BY <1>2, <1>3, <1>4, <1>5, Zenon
<1>8. ASSUME s.m.outpoint_to_key = Identity(DOMAIN s.m.utxo)
      PROVE  r.m.outpoint_to_key = Identity(DOMAIN r.m.utxo)
  BY <1>1, <1>8 DEF Put, Identity
<1> QED
  BY <1>1, <1>3, <1>6, <1>7, <1>8, Zenon DEF Keyed, r, q

(* A contract writes no key of an output. *)
LEMMA KeyedContract ==
  ASSUME BlocksDistinct, NEW m, NEW s, IsLoop(s), NEW C, Keyed(m, s, C), NEW tx \in Transactions
  PROVE  Keyed(m, ApplyContractTransition(s, tx), C)
<1> DEFINE r == ApplyContractTransition(s, tx)
<1>1. /\ r.m.utxo = s.m.utxo /\ r.m.outpoint_to_key = s.m.outpoint_to_key
      /\ r.m.tree.leaves = PutAll(s.m.tree.leaves, tx.writes)
      /\ r.m.pending_updates = s.m.pending_updates
  BY ContractIs, Zenon
<1> HIDE DEF r
<1>2. DOMAIN tx.writes \cap AllOutputs = {}
  BY WorthIs
<1>3. SameOutputs(m.tree.leaves, s.m.tree.leaves)
  BY Zenon DEF Keyed
<1>4. SameOutputs(m.tree.leaves, r.m.tree.leaves)
  BY <1>1, <1>2, <1>3 DEF SameOutputs, PutAll
<1> QED
  BY <1>1, <1>4, Zenon DEF Keyed, r

----------------------------------------------------------------------------
(* A whole block. *)
Account(m, s, C, S) == IsLoop(s) /\ (s.ok => Money(m, s, C, S) /\ Keyed(m, s, C))

(* The loop over the inputs, with its account of what was spent. *)
LEMMA AccountSpends ==
  ASSUME BlocksDistinct, NEW m, Covered(m), NEW s, NEW C, NEW S, Account(m, s, C, S),
         NEW q, IsSeq(q), ToSet(q) \cap C = {}
  PROVE  Account(m, FoldLeft(SpendInput, s, q), C, S \cup ToSet(q))
<1>0. Len(q) \in Nat /\ DOMAIN q = 1 .. Len(q)
  BY SeqIs
<1>1. PICK f : Spending!IsTrace(<<>>, f, s, q) /\ Spending!Fold(<<>>, s, q) = f[Len(q)]
  BY <1>0, Leasts, Spending!FoldTrace, Zenon
<1>2. f[0] = s /\ \A i \in 1 .. Len(q) : f[i] = SpendInput(f[i - 1], q[i])
  BY <1>0, <1>1, Spending!TraceStep
<1> DEFINE T(i) == S \cup {q[j] : j \in 1 .. i}
           G == {i \in 0 .. Len(q) : Account(m, f[i], C, T(i))}
<1>3. 0 \in G
  <2>1. T(0) = S
    OBVIOUS
  <2> HIDE DEF T
  <2>2. Account(m, f[0], C, T(0))
    BY <1>2, <2>1
  <2> QED
    BY <1>0, <2>2
<1>4. ASSUME NEW i \in 0 .. Len(q) - 1, i \in G PROVE i + 1 \in G
  <2>1. i + 1 \in 1 .. Len(q) /\ (i + 1) - 1 = i /\ i + 1 \in 0 .. Len(q)
    BY <1>0
  <2> DEFINE a == f[i]
             c == f[i + 1]
             op == q[i + 1]
  <2>2. c = SpendInput(a, op) /\ Account(m, a, C, T(i))
    BY <1>2, <1>4, <2>1
  <2>3. op \notin C
    BY <1>0, <2>1 DEF ToSet
  <2>4. T(i + 1) = T(i) \cup {op}
    BY <2>1
  <2> HIDE DEF a, c, op, T
  <2>5. IsLoop(a) /\ (a.ok => Money(m, a, C, T(i)) /\ Keyed(m, a, C))
    BY <2>2, Zenon DEF Account
  <2>6. CASE ~a.ok \/ op \notin DOMAIN a.m.utxo
    <3>1. c = [a EXCEPT !.ok = FALSE]
      BY <2>2, <2>6, Zenon DEF SpendInput
    <3>2. IsLoop(c) /\ ~c.ok
      BY <2>5, <3>1, FailIs, Zenon
    <3> QED
      BY <2>1, <3>2 DEF Account, c
  <2>7. CASE a.ok /\ op \in DOMAIN a.m.utxo
    <3>1. IsLoop(c) /\ c.ok
      BY <2>2, <2>5, <2>7, SpendIs
    <3>2. Money(m, c, C, T(i) \cup {op})
      BY <2>2, <2>3, <2>5, <2>7, MoneySpend
    <3>3. Keyed(m, c, C)
      BY <2>2, <2>5, <2>7, KeyedSpend
    <3>4. Account(m, c, C, T(i + 1))
      BY <2>4, <3>1, <3>2, <3>3, Zenon DEF Account
    <3> QED
      BY <2>1, <3>4 DEF c
  <2> QED
    BY <2>5, <2>6, <2>7
<1>5. Len(q) \in G
  <2>1. \A i \in 0 .. Len(q) - 1 : i \in G => i + 1 \in G
    BY <1>4
  <2>2. Len(q) \in 0 .. Len(q)
    BY <1>0
  <2> HIDE DEF G
  <2>3. \A i \in 0 .. Len(q) : i \in G
    BY <1>0, <1>3, <2>1, UpTo
  <2> QED
    BY <2>2, <2>3
<1>6. T(Len(q)) = S \cup ToSet(q)
  BY <1>0 DEF ToSet
<1> HIDE DEF T
<1> QED
  BY <1>1, <1>5, <1>6, LoopsAre

(* The loop over the outputs, with its account of what was created. *)
LEMMA AccountCreates ==
  ASSUME BlocksDistinct, NEW m, Covered(m), NEW s, s.ok, NEW C, NEW S, Account(m, s, C, S),
         NEW tx \in Transactions, CreatedIn(tx) \cap C = {}, CreatedIn(tx) \cap DOMAIN m.utxo = {}
  PROVE  Account(m, FoldLeft(CreateOutput, s, NewOutputs(tx)), C \cup CreatedIn(tx), S)
<1> DEFINE q == NewOutputs(tx)
           n == Len(q)
<1>0. n \in Nat /\ DOMAIN q = 1 .. n /\ n = Len(tx.outputs)
  BY NewOutputsAre, SeqIs
<1>a. \A i \in 1 .. n : /\ q[i][1] = <<tx.id, i - 1>> /\ q[i][2] = OutputOf(q[i][1])
                        /\ q[i][1] \in CreatedIn(tx) /\ q[i][1] \in AllOutputs
  <2>1. ASSUME NEW i \in 1 .. n
        PROVE  /\ q[i][1] = <<tx.id, i - 1>> /\ q[i][2] = tx.outputs[i] /\ q[i][1] \in CreatedIn(tx)
               /\ OutputOf(<<tx.id, i - 1>>) = tx.outputs[i]
    BY <1>0, NewOutputsAre, OutputsAre
  <2>2. CreatedIn(tx) \subseteq AllOutputs
    BY WorthIs
  <2> HIDE DEF q
  <2> QED
    BY <2>1, <2>2
<1>b. CreatedIn(tx) = {q[i][1] : i \in 1 .. n}
  <2>1. DOMAIN tx.outputs = 1 .. n
    BY <1>0, NewOutputsAre, SeqIs
  <2>2. CreatedIn(tx) = {<<tx.id, i - 1>> : i \in 1 .. n}
    BY <2>1, Zenon DEF CreatedIn
  <2> HIDE DEF q, n
  <2> QED
    BY <1>a, <2>2
<1> HIDE DEF q, n
<1>1. PICK f : Creating!IsTrace(<<>>, f, s, q) /\ Creating!Fold(<<>>, s, q) = f[n]
  BY <1>0, Leasts, Creating!FoldTrace, Zenon DEF n
<1>2. f[0] = s /\ \A i \in 1 .. n : f[i] = CreateOutput(f[i - 1], q[i])
  BY <1>0, <1>1, Creating!TraceStep DEF n
<1> DEFINE T(i) == C \cup {q[j][1] : j \in 1 .. i}
           G == {i \in 0 .. n : f[i].ok /\ Account(m, f[i], T(i), S)}
<1>3. 0 \in G
  <2>1. T(0) = C
    OBVIOUS
  <2> HIDE DEF T
  <2>2. f[0].ok /\ Account(m, f[0], T(0), S)
    BY <1>2, <2>1
  <2> QED
    BY <1>0, <2>2
<1>4. ASSUME NEW i \in 0 .. n - 1, i \in G PROVE i + 1 \in G
  <2>1. i + 1 \in 1 .. n /\ (i + 1) - 1 = i /\ i + 1 \in 0 .. n /\ \A j \in 1 .. i : j \in 1 .. n /\ j - 1 # i
    BY <1>0
  <2> DEFINE a == f[i]
             c == f[i + 1]
             e == q[i + 1]
  <2>2. c = CreateOutput(a, e) /\ a.ok /\ Account(m, a, T(i), S)
    BY <1>2, <1>4, <2>1
  <2>3. e[1] \in CreatedIn(tx) /\ e[1] \in AllOutputs /\ e[2] = OutputOf(e[1]) /\ e[1] = <<tx.id, i>>
    BY <1>a, <2>1
  <2>4. e[1] \notin T(i)
    <3>1. ASSUME NEW j \in 1 .. i PROVE q[j][1] # e[1]
      <4>1. q[j][1] = <<tx.id, j - 1>> /\ j - 1 # i
        BY <1>a, <2>1
      <4> HIDE DEF e
      <4> QED
        BY <2>3, <4>1
    <3> HIDE DEF e
    <3> QED
      BY <2>3, <3>1
  <2>5. T(i + 1) = T(i) \cup {e[1]}
    BY <2>1
  <2> HIDE DEF a, c, e, T
  <2>6. IsLoop(a) /\ Money(m, a, T(i), S) /\ Keyed(m, a, T(i))
    BY <2>2 DEF Account
  <2>7. IsLoop(c) /\ c.ok = a.ok
    BY <2>2, <2>6, CreateIs, Zenon
  <2>8. e[1] \notin DOMAIN m.utxo
    BY <2>3
  <2>9. Money(m, c, T(i) \cup {e[1]}, S)
    BY <2>2, <2>3, <2>4, <2>6, <2>8, MoneyCreate, Zenon
  <2>10. Keyed(m, c, T(i) \cup {e[1]})
    BY <2>2, <2>3, <2>6, KeyedCreate, Zenon
  <2>11. Account(m, c, T(i + 1), S)
    BY <2>5, <2>7, <2>9, <2>10, Zenon DEF Account
  <2> QED
    BY <2>1, <2>2, <2>7, <2>11 DEF c
<1>5. n \in G
  <2>1. \A i \in 0 .. n - 1 : i \in G => i + 1 \in G
    BY <1>4
  <2>2. n \in 0 .. n
    BY <1>0
  <2> HIDE DEF G
  <2>3. \A i \in 0 .. n : i \in G
    BY <1>0, <1>3, <2>1, UpTo
  <2> QED
    BY <2>2, <2>3
<1>6. T(n) = C \cup CreatedIn(tx)
  BY <1>b
<1> HIDE DEF T
<1> QED
  BY <1>1, <1>5, <1>6, LoopsAre DEF q

(* Both, for a transaction. *)
LEMMA AccountTransaction ==
  ASSUME BlocksDistinct, NEW m, Covered(m), NEW s, NEW C, NEW S, Account(m, s, C, S),
         NEW tx \in Transactions, CreatedIn(tx) \cap C = {}, CreatedIn(tx) \cap DOMAIN m.utxo = {},
         ToSet(tx.inputs) \cap C = {}
  PROVE  Account(m, ApplyTransaction(s, tx), C \cup CreatedIn(tx), S \cup ToSet(tx.inputs))
<1>0. IsLoop(s) /\ (s.ok => Money(m, s, C, S) /\ Keyed(m, s, C))
  BY Zenon DEF Account
<1>1. CASE ~s.ok \/ tx.exec = "fails"
  <2> DEFINE r == [s EXCEPT !.ok = FALSE]
  <2>1. ApplyTransaction(s, tx) = r
    BY <1>1, Zenon DEF ApplyTransaction
  <2>2. IsLoop(r) /\ ~r.ok
    BY <1>0, FailIs, Zenon
  <2> HIDE DEF r
  <2> QED
    BY <2>1, <2>2 DEF Account
<1>2. CASE ~(~s.ok \/ tx.exec = "fails")
  <2> DEFINE a == IF tx.exec = "none" THEN s ELSE ApplyContractTransition(s, tx)
             c == FoldLeft(SpendInput, a, tx.inputs)
  <2>1. Account(m, a, C, S)
    <3>1. CASE tx.exec = "none"
      BY <3>1
    <3>2. CASE tx.exec # "none"
      <4> DEFINE r == ApplyContractTransition(s, tx)
      <4>1. a = r
        BY <3>2
      <4>2. /\ IsLoop(r) /\ r.ok = s.ok /\ r.m.supply = s.m.supply /\ r.m.utxo = s.m.utxo
            /\ r.undo.created = s.undo.created /\ r.undo.delta = s.undo.delta
            /\ r.undo.spent = s.undo.spent /\ r.undo.verkle = s.undo.verkle
        BY <1>0, ContractIs, Zenon
      <4>3. Keyed(m, r, C)
        BY <1>0, <1>2, KeyedContract
      <4> HIDE DEF r
      <4>4. Money(m, r, C, S)
        BY <1>0, <1>2, <4>2 DEF Money, UndoOK
      <4> QED
        BY <4>1, <4>2, <4>3, <4>4, Zenon DEF Account
    <3> QED
      BY <3>1, <3>2
  <2> HIDE DEF a
  <2>2. Account(m, c, C, S \cup ToSet(tx.inputs))
    BY <2>1, AccountSpends, NewOutputsAre
  <2> HIDE DEF c
  <2>3. ApplyTransaction(s, tx) = IF c.ok THEN FoldLeft(CreateOutput, c, NewOutputs(tx)) ELSE c
    BY <1>2, Zenon DEF ApplyTransaction, ApplyUtxoTransaction, a, c
  <2>4. CASE c.ok
    BY <2>2, <2>3, <2>4, AccountCreates
  <2>5. CASE ~c.ok
    BY <2>2, <2>3, <2>5 DEF Account
  <2> QED
    BY <2>4, <2>5
<1> QED
  BY <1>1, <1>2

(* The transactions of a block, when none of its outputs exists yet. *)
LEMMA AccountBlock ==
  ASSUME BlocksDistinct, NEW m, FieldsOK(m), Covered(m), NEW b \in Block,
         CreatedBy(b) \cap DOMAIN m.utxo = {}
  PROVE  Account(m, FoldLeft(ApplyTransaction, Start(m), TxsOf[b]), CreatedBy(b), SpentBy(b))
<1> DEFINE q == TxsOf[b]
           n == Len(q)
           s == Start(m)
<1>0. n \in Nat /\ DOMAIN q = 1 .. n /\ \A i \in 1 .. n : q[i] \in Transactions
  BY BlocksAre
<1>1. PICK f : Applying!IsTrace(<<>>, f, s, q) /\ Applying!Fold(<<>>, s, q) = f[n]
  <2> HIDE DEF s, q
  <2> QED
    BY <1>0, Leasts, Applying!FoldTrace, Zenon
<1>2. f[0] = s /\ \A i \in 1 .. n : f[i] = ApplyTransaction(f[i - 1], q[i])
  <2> HIDE DEF s, q
  <2> QED
    BY <1>0, <1>1, Applying!TraceStep
<1> DEFINE C(i) == UNION {CreatedIn(q[j]) : j \in 1 .. i}
           S(i) == UNION {ToSet(q[j].inputs) : j \in 1 .. i}
           G == {i \in 0 .. n : Account(m, f[i], C(i), S(i))}
<1>3. /\ C(n) = CreatedBy(b) /\ S(n) = SpentBy(b)
  <2>1. ToSet(q) = {q[j] : j \in 1 .. n}
    BY <1>0 DEF ToSet
  <2> HIDE DEF q, n
  <2>2. C(n) = UNION {CreatedIn(tx) : tx \in ToSet(q)}
    BY <2>1
  <2>3. S(n) = UNION {ToSet(tx.inputs) : tx \in ToSet(q)}
    BY <2>1
  <2> QED
    BY <2>2, <2>3, Zenon DEF CreatedBy, SpentBy, q
<1>4. 0 \in G
  <2>1. C(0) = {} /\ S(0) = {}
    OBVIOUS
  <2>2. /\ Frame(m, s) /\ s.ok /\ s.m.supply = m.supply /\ s.m.utxo = m.utxo
        /\ s.m.outpoint_to_key = m.outpoint_to_key /\ s.m.tree = m.tree
        /\ s.m.pending_updates = <<>> /\ s.undo.spent = <<>> /\ s.undo.created = <<>> /\ s.undo.delta = 0
        /\ s.undo.verkle = <<>>
    BY StartIs
  <2> HIDE DEF C, S, s
  <2>3. IsLoop(s)
    BY <2>2 DEF Frame
  <2>4. IsSeq(<<>>) /\ Len(<<>>) = 0 /\ ToSet(<<>>) = {}
    BY DEF IsSeq, ToSet
  <2>5. Sum(Worth, {}) = 0
    <3>1. IsFiniteSet({}) /\ {} \subseteq AllOutputs
      BY FS_EmptySet
    <3> QED
      BY <3>1, SetWorth
  <2>6. UndoOK(s.undo, {}, {})
    BY <2>2, <2>4, <2>5 DEF UndoOK
  <2>7. Money(m, s, {}, {})
    <3>1. IsFiniteSet({})
      BY FS_EmptySet
    <3> QED
      BY <2>2, <2>6, <3>1 DEF Money, Covered
  <2>8. Keyed(m, s, {})
    <3>1. SameOutputs(m.tree.leaves, s.m.tree.leaves)
      BY <2>2 DEF SameOutputs
    <3>2. {<<>>[i][1] : i \in 1 .. Len(<<>>)} = {} /\ \A i \in 1 .. Len(<<>>) : FALSE
      BY <2>4
    <3> QED
      BY <2>2, <2>4, <3>1, <3>2, Zenon DEF Keyed
  <2>9. Account(m, s, C(0), S(0))
    BY <2>1, <2>3, <2>7, <2>8 DEF Account
  <2> QED
    BY <1>0, <1>2, <2>9
<1>5. ASSUME NEW i \in 0 .. n - 1, i \in G PROVE i + 1 \in G
  <2>1. i + 1 \in 1 .. n /\ (i + 1) - 1 = i /\ i + 1 \in 0 .. n /\ \A j \in 1 .. i : j \in 1 .. n /\ j # i + 1
    BY <1>0
  <2> DEFINE tx == q[i + 1]
  <2>2. f[i + 1] = ApplyTransaction(f[i], tx) /\ Account(m, f[i], C(i), S(i)) /\ tx \in Transactions
    BY <1>0, <1>2, <1>5, <2>1
  <2>3. C(i + 1) = C(i) \cup CreatedIn(tx) /\ S(i + 1) = S(i) \cup ToSet(tx.inputs)
    <3>1. \A j : j \in 1 .. i + 1 <=> j \in 1 .. i \/ j = i + 1
      BY <2>1
    <3>2. C(i + 1) = C(i) \cup CreatedIn(tx)
      BY <3>1
    <3>3. S(i + 1) = S(i) \cup ToSet(tx.inputs)
      BY <3>1
    <3> QED
      BY <3>2, <3>3
  <2>4. tx \in ToSet(q) /\ \A j \in 1 .. i : q[j] \in ToSet(q) /\ q[j] \in Transactions
    BY <1>0, <2>1 DEF ToSet
  <2>5. CreatedIn(tx) \subseteq CreatedBy(b) /\ ToSet(tx.inputs) \subseteq SpentBy(b)
    BY <2>4 DEF CreatedBy, SpentBy
  <2>6. C(i) \subseteq CreatedBy(b)
    BY <2>4 DEF CreatedBy
  <2>7. ToSet(tx.inputs) \cap C(i) = {}
    <3>1. CreatedBy(b) \cap SpentBy(b) = {}
      BY Zenon DEF BlocksDistinct
    <3> QED
      BY <2>5, <2>6, <3>1
  <2>8. CreatedIn(tx) \cap C(i) = {}
    <3>1. ASSUME NEW j \in 1 .. i PROVE CreatedIn(tx) \cap CreatedIn(q[j]) = {}
      <4>1. j \in DOMAIN TxsOf[b] /\ i + 1 \in DOMAIN TxsOf[b] /\ j # i + 1
        BY <1>0, <2>1
      <4>2. q[j].id # tx.id
        BY <4>1, Zenon DEF BlocksDistinct
      <4>3. q[j] # tx
        BY <4>2
      <4> QED
        BY <2>2, <2>4, <4>3, OutputsAre
    <3> QED
      BY <3>1
  <2>9. CreatedIn(tx) \cap DOMAIN m.utxo = {}
    BY <2>5
  <2> HIDE DEF C, S, tx
  <2>10. Account(m, f[i + 1], C(i + 1), S(i + 1))
    BY <2>2, <2>3, <2>7, <2>8, <2>9, AccountTransaction
  <2> QED
    BY <2>1, <2>10
<1>6. n \in G
  <2>1. \A i \in 0 .. n - 1 : i \in G => i + 1 \in G
    BY <1>5
  <2>2. n \in 0 .. n
    BY <1>0
  <2> HIDE DEF G
  <2>3. \A i \in 0 .. n : i \in G
    BY <1>0, <1>4, <2>1, UpTo
  <2> QED
    BY <2>2, <2>3
<1> HIDE DEF C, S, s, n
<1>7. Account(m, f[n], CreatedBy(b), SpentBy(b))
  BY <1>3, <1>6, Zenon
<1>8. FoldLeft(ApplyTransaction, s, q) = f[n]
  BY <1>1, LoopsAre
<1> QED
  BY <1>7, <1>8, Zenon DEF s, q

(* The outcome of a block that went through. *)
Settled(m, s, C) ==
    /\ m.outpoint_to_key = Identity(DOMAIN m.utxo) => s.m.outpoint_to_key = Identity(DOMAIN s.m.utxo)
    /\ \A op \in C : op \in DOMAIN s.m.tree.leaves /\ s.m.tree.leaves[op] = OutputValue(OutputOf(op))
    /\ \A op \in AllOutputs \ C :
        op \in DOMAIN m.tree.leaves =>
            op \in DOMAIN s.m.tree.leaves /\ s.m.tree.leaves[op] = m.tree.leaves[op]

(* After a block: the account of the whole block, and every created output *)
(* in the tree.                                                            *)
LEMMA SettledBlock ==
  ASSUME BlocksDistinct, NEW m, FieldsOK(m), Covered(m), NEW b \in Block,
         CreatedBy(b) \cap DOMAIN m.utxo = {}, ExecuteBlock(m, b).ok
  PROVE  Money(m, ExecuteBlock(m, b), CreatedBy(b), SpentBy(b)) /\ Settled(m, ExecuteBlock(m, b), CreatedBy(b))
<1> DEFINE s == FoldLeft(ApplyTransaction, Start(m), TxsOf[b])
           C == CreatedBy(b)
           S == SpentBy(b)
<1>1. ExecuteBlock(m, b) = CommitTree(s)
  BY Zenon DEF ExecuteBlock, Start, s
<1>2. Account(m, s, C, S)
  BY AccountBlock
<1>3. Frame(m, s)
  BY FrameLoop
<1> HIDE DEF s, C, S
<1>4. PICK r : r = CommitTree(s)
  OBVIOUS
<1> DEFINE q == s.m.pending_updates
           v == <<"supply", s.m.supply>>
<1>5. IsLoop(s) /\ IsFun(s.m.tree.leaves) /\ IsSeq(q) /\ s.m.supply \in Nat
  BY <1>3 DEF Frame, TypesOK, UpdatesOK
<1>6. /\ r.undo = s.undo /\ r.m.supply = s.m.supply /\ r.m.utxo = s.m.utxo
      /\ r.m.outpoint_to_key = s.m.outpoint_to_key
      /\ r.ok => s.ok
      /\ r.ok => \E t : /\ Written(s.m.tree, q, Len(q), t)
                        /\ r.m.tree.leaves = Put(t.leaves, SUPPLY_KEY, v)
  <2> HIDE DEF q, v
  <2>1. /\ r.undo = s.undo /\ r.m.supply = s.m.supply /\ r.m.utxo = s.m.utxo
        /\ r.m.outpoint_to_key = s.m.outpoint_to_key /\ (r.ok => s.ok)
    BY <1>4, <1>5, CommitIs DEF q
  <2>2. r.ok => \E t : /\ Written(s.m.tree, q, Len(q), t)
                       /\ r.m.tree.leaves = Put(t.leaves, SUPPLY_KEY, v)
    BY <1>4, <1>5, CommitIs DEF q, v
  <2> QED
    BY <2>1, <2>2
<1>7. r.ok /\ s.ok
  BY <1>1, <1>4, <1>6
<1>8. Money(m, s, C, S) /\ Keyed(m, s, C)
  BY <1>2, <1>7 DEF Account
<1>9. Money(m, r, C, S)
  BY <1>6, <1>8, Zenon DEF Money
<1>10. PICK t : Written(s.m.tree, q, Len(q), t) /\ r.m.tree.leaves = Put(t.leaves, SUPPLY_KEY, v)
  BY <1>6, <1>7
<1>11. /\ {q[i][1] : i \in 1 .. Len(q)} = C /\ \A i \in 1 .. Len(q) : q[i][2] = OutputOf(q[i][1])
       /\ SameOutputs(m.tree.leaves, s.m.tree.leaves)
  BY <1>8 DEF Keyed
<1> HIDE DEF q, v
<1>12. DOMAIN t.leaves = DOMAIN s.m.tree.leaves \cup C
  BY <1>10, <1>11 DEF Written
<1>13. \A k \in C : t.leaves[k] = OutputValue(OutputOf(k))
  BY <1>10, <1>11, <1>12 DEF Written
<1>14. \A k \in DOMAIN s.m.tree.leaves \ C : t.leaves[k] = s.m.tree.leaves[k]
  BY <1>10, <1>11, <1>12 DEF Written
<1>15. /\ DOMAIN r.m.tree.leaves = DOMAIN t.leaves \cup {SUPPLY_KEY}
       /\ \A k \in DOMAIN t.leaves \ {SUPPLY_KEY} : r.m.tree.leaves[k] = t.leaves[k]
  BY <1>10 DEF Put
<1>16. SUPPLY_KEY \notin AllOutputs /\ C \subseteq AllOutputs
  BY WorthIs DEF C
<1>17. \A op \in C : op \in DOMAIN r.m.tree.leaves /\ r.m.tree.leaves[op] = OutputValue(OutputOf(op))
  BY <1>12, <1>13, <1>15, <1>16
<1>18. \A op \in AllOutputs \ C :
        op \in DOMAIN m.tree.leaves =>
            op \in DOMAIN r.m.tree.leaves /\ r.m.tree.leaves[op] = m.tree.leaves[op]
  BY <1>11, <1>12, <1>14, <1>15, <1>16 DEF SameOutputs
<1>19. m.outpoint_to_key = Identity(DOMAIN m.utxo) => r.m.outpoint_to_key = Identity(DOMAIN r.m.utxo)
  BY <1>6, <1>8, Zenon DEF Keyed
<1> QED
  BY <1>1, <1>4, <1>9, <1>17, <1>18, <1>19, Zenon DEF Settled, C, S

----------------------------------------------------------------------------
(* The loops of disconnect_block. *)
Returned(f, q, n, r) ==
    /\ IsFun(r) /\ DOMAIN r = DOMAIN f \cup {q[i][1] : i \in 1 .. n}
    /\ \A op \in DOMAIN r :
        r[op] = IF \E i \in 1 .. n : q[i][1] = op THEN OutputOf(op) ELSE f[op]

(* The loop of disconnect_block that puts spent outputs back. *)
LEMMA PutBackAll ==
  ASSUME NEW f, IsFun(f), NEW q, IsSeq(q), \A i \in 1 .. Len(q) : q[i][2] = OutputOf(q[i][1])
  PROVE  Returned(f, q, Len(q), FoldLeft(PutBack, f, q))
<1>0. Len(q) \in Nat /\ DOMAIN q = 1 .. Len(q)
  BY SeqIs
<1>1. PICK g : Undoing!IsTrace(<<>>, g, f, q) /\ Undoing!Fold(<<>>, f, q) = g[Len(q)]
  BY <1>0, Leasts, Undoing!FoldTrace, Zenon
<1>2. g[0] = f /\ \A i \in 1 .. Len(q) : g[i] = PutBack(g[i - 1], q[i])
  BY <1>0, <1>1, Undoing!TraceStep
<1> DEFINE G == {i \in 0 .. Len(q) : Returned(f, q, i, g[i])}
<1>3. 0 \in G
  <2>0. {q[i][1] : i \in 1 .. 0} = {} /\ \A op : ~ (\E i \in 1 .. 0 : q[i][1] = op)
    OBVIOUS
  <2>1. Returned(f, q, 0, f)
    BY <2>0 DEF Returned
  <2> QED
    BY <1>0, <1>2, <2>1
<1>4. ASSUME NEW i \in 0 .. Len(q) - 1, i \in G PROVE i + 1 \in G
  <2>1. i + 1 \in 1 .. Len(q) /\ (i + 1) - 1 = i /\ i + 1 \in 0 .. Len(q)
    BY <1>0
  <2>2. g[i + 1] = Put(g[i], q[i + 1][1], OutputOf(q[i + 1][1])) /\ Returned(f, q, i, g[i])
    BY <1>2, <1>4, <2>1 DEF PutBack
  <2>3. \A j : j \in 1 .. i + 1 <=> j \in 1 .. i \/ j = i + 1
    BY <2>1
  <2> DEFINE op == q[i + 1][1]
             r == g[i + 1]
  <2>4. /\ IsFun(r) /\ DOMAIN r = DOMAIN g[i] \cup {op}
        /\ \A x \in DOMAIN r : r[x] = IF x = op THEN OutputOf(op) ELSE g[i][x]
    BY <2>2 DEF Put, IsFun
  <2> HIDE DEF op, r
  <2>5. {q[j][1] : j \in 1 .. i + 1} = {q[j][1] : j \in 1 .. i} \cup {op}
    BY <2>3 DEF op
  <2>6. DOMAIN r = DOMAIN f \cup {q[j][1] : j \in 1 .. i + 1}
    BY <2>2, <2>4, <2>5 DEF Returned
  <2>7. ASSUME NEW x \in DOMAIN r
        PROVE  r[x] = IF \E j \in 1 .. i + 1 : q[j][1] = x THEN OutputOf(x) ELSE f[x]
    <3>1. CASE x = op
      BY <2>3, <2>4, <3>1 DEF op
    <3>2. CASE x # op
      <4>1. x \in DOMAIN g[i] /\ r[x] = g[i][x]
        BY <2>4, <3>2
      <4>2. (\E j \in 1 .. i + 1 : q[j][1] = x) <=> (\E j \in 1 .. i : q[j][1] = x)
        BY <2>3, <3>2 DEF op
      <4> QED
        BY <2>2, <4>1, <4>2 DEF Returned
    <3> QED
      BY <3>1, <3>2
  <2>8. Returned(f, q, i + 1, r)
    BY <2>4, <2>6, <2>7 DEF Returned
  <2> QED
    BY <2>1, <2>8 DEF r
<1>5. Len(q) \in G
  <2>1. \A i \in 0 .. Len(q) - 1 : i \in G => i + 1 \in G
    BY <1>4
  <2>2. Len(q) \in 0 .. Len(q)
    BY <1>0
  <2> HIDE DEF G
  <2>3. \A i \in 0 .. Len(q) : i \in G
    BY <1>0, <1>3, <2>1, UpTo
  <2> QED
    BY <2>2, <2>3
<1> QED
  BY <1>1, <1>5, LoopsAre

(* Its loop over the keys of these outputs gives a map. *)
LEMMA RekeyAll ==
  ASSUME NEW f, IsFun(f), NEW q, IsSeq(q)
  PROVE  IsFun(FoldLeft(Rekey, f, q))
<1>0. Len(q) \in Nat /\ DOMAIN q = 1 .. Len(q)
  BY SeqIs
<1>1. PICK g : Rekeying!IsTrace(<<>>, g, f, q) /\ Rekeying!Fold(<<>>, f, q) = g[Len(q)]
  BY <1>0, Leasts, Rekeying!FoldTrace, Zenon
<1>2. g[0] = f /\ \A i \in 1 .. Len(q) : g[i] = Rekey(g[i - 1], q[i])
  BY <1>0, <1>1, Rekeying!TraceStep
<1>3. Len(q) = 0 \/ \E x : \E k, v : g[Len(q)] = Put(x, k, v)
  <2>1. ASSUME Len(q) # 0 PROVE g[Len(q)] = Rekey(g[Len(q) - 1], q[Len(q)])
    <3>1. Len(q) \in 1 .. Len(q)
      BY <1>0, <2>1
    <3> QED
      BY <1>2, <3>1, Zenon
  <2>2. ASSUME Len(q) # 0 PROVE \E x : \E k, v : g[Len(q)] = Put(x, k, v)
    BY <2>1, <2>2, Zenon DEF Rekey
  <2> QED
    BY <2>2, Zenon
<1>4. IsFun(g[Len(q)])
  BY <1>2, <1>3 DEF Put, IsFun
<1> QED
  BY <1>1, <1>4, LoopsAre

(* Its loop over the tree leaves a tree. *)
LEMMA UnwriteAll ==
  ASSUME NEW t, DOMAIN t = {"leaves", "pruned"}, IsFun(t.leaves), NEW q, IsSeq(q)
  PROVE  DOMAIN FoldLeft(Unwrite, t, q) = {"leaves", "pruned"} /\ IsFun(FoldLeft(Unwrite, t, q).leaves)
<1>0. Len(q) \in Nat /\ DOMAIN q = 1 .. Len(q)
  BY SeqIs
<1>1. PICK g : Unwriting!IsTrace(<<>>, g, t, q) /\ Unwriting!Fold(<<>>, t, q) = g[Len(q)]
  BY <1>0, Leasts, Unwriting!FoldTrace, Zenon
<1>2. g[0] = t /\ \A i \in 1 .. Len(q) : g[i] = Unwrite(g[i - 1], q[i])
  BY <1>0, <1>1, Unwriting!TraceStep
<1> DEFINE G == {i \in 0 .. Len(q) : DOMAIN g[i] = {"leaves", "pruned"} /\ IsFun(g[i].leaves)}
<1>3. 0 \in G
  BY <1>0, <1>2
<1>4. ASSUME NEW i \in 0 .. Len(q) - 1, i \in G PROVE i + 1 \in G
  <2>1. i + 1 \in 1 .. Len(q) /\ (i + 1) - 1 = i /\ i + 1 \in 0 .. Len(q)
    BY <1>0
  <2>2. g[i + 1] = Unwrite(g[i], q[i + 1]) /\ DOMAIN g[i] = {"leaves", "pruned"}
    BY <1>2, <1>4, <2>1
  <2>3. PICK v : g[i + 1] = [g[i] EXCEPT !.leaves = Put(g[i].leaves, q[i + 1][1], v)]
    BY <2>2 DEF Unwrite, Insert
  <2>4. DOMAIN g[i + 1] = {"leaves", "pruned"} /\ g[i + 1].leaves = Put(g[i].leaves, q[i + 1][1], v)
    BY <2>2, <2>3
  <2>5. IsFun(g[i + 1].leaves)
    BY <2>4 DEF IsFun, Put
  <2> QED
    BY <2>1, <2>4, <2>5
<1>5. Len(q) \in G
  <2>1. \A i \in 0 .. Len(q) - 1 : i \in G => i + 1 \in G
    BY <1>4
  <2>2. Len(q) \in 0 .. Len(q)
    BY <1>0
  <2> HIDE DEF G
  <2>3. \A i \in 0 .. Len(q) : i \in G
    BY <1>0, <1>3, <2>1, UpTo
  <2> QED
    BY <2>2, <2>3
<1> QED
  BY <1>1, <1>5, LoopsAre

(* A sequence in reverse is a sequence. *)
LEMMA ReverseIs ==
  ASSUME NEW q, IsSeq(q)
  PROVE  IsSeq(Reverse(q))
<1>1. Len(q) \in Nat
  BY DEF IsSeq
<1>2. Reverse(q) = [i \in 1 .. Len(q) |-> q[(Len(q) - i) + 1]]
  BY DEF Reverse
<1>3. q \in Seq(ToSet(q)) /\ DOMAIN q = 1 .. Len(q)
  BY SeqIs
<1>4. \A i \in 1 .. Len(q) : (Len(q) - i) + 1 \in 1 .. Len(q)
  BY <1>1
<1>5. \A i \in 1 .. Len(q) : q[(Len(q) - i) + 1] \in ToSet(q)
  BY <1>3, <1>4 DEF ToSet
<1>6. Reverse(q) \in Seq(ToSet(q))
  BY <1>1, <1>2, <1>5
<1> QED
  BY <1>6, SeqIs

(* disconnect_block of a block with undo data. *)
Disconnected(m, b, u, C, S, n) ==
    /\ IsManager(n) /\ IsFun(n.tree.leaves)
    /\ n.height = m.height - 1 /\ n.snapshots = Prefix(m.snapshots, m.height)
    /\ n.snapshot_storages = Prefix(m.snapshot_storages, m.height)
    /\ n.block_undo_data = Drop(m.block_undo_data, b)
    /\ n.block_hash = m.block_hash /\ n.panicked = m.panicked /\ n.prune_markers = m.prune_markers
    /\ IsFun(n.outpoint_to_key) /\ IsFun(n.utxo)
    /\ DOMAIN n.utxo = (DOMAIN m.utxo \ C) \cup S
    /\ \A op \in DOMAIN n.utxo : n.utxo[op] = IF op \in S THEN OutputOf(op) ELSE m.utxo[op]
    /\ n.supply = UndoSupply(m.supply, u.delta)

(* What disconnect_block does with the undo data of the block at the tip. *)
LEMMA DisconnectIs ==
  ASSUME NEW m, FieldsOK(m), SnapshotsOK(m), m.height > 0, NEW b \in DOMAIN m.block_undo_data,
         NEW C, NEW S, UndoOK(m.block_undo_data[b], C, S)
  PROVE  Disconnected(m, b, m.block_undo_data[b], C, S, DisconnectBlock(m, b).m)
<1> DEFINE u == m.block_undo_data[b]
           n == DisconnectBlock(m, b).m
           gas == Prefix(m.gas_fees, SaturatingSub(Len(m.gas_fees), Len(u.gas)))
           keys == FoldLeft(Rekey, Without(m.outpoint_to_key, u.created), u.spent)
           tree == FoldLeft(Unwrite, m.tree, Reverse(u.verkle))
           utxo == UndoUtxo(m.utxo, u)
           supply == UndoSupply(m.supply, u.delta)
           height == UndoHeight(m.height)
           snaps == Prefix(m.snapshots, Len(m.snapshots) - 1)
           stores == Prefix(m.snapshot_storages, Len(m.snapshot_storages) - 1)
           undo == ForgetUndo(m.block_undo_data, b)
<1>1. n = [m EXCEPT !.utxo = utxo, !.outpoint_to_key = keys, !.tree = tree, !.supply = supply,
                    !.gas_fees = gas, !.height = height, !.snapshots = snaps,
                    !.snapshot_storages = stores, !.block_undo_data = undo]
  <2> HIDE DEF utxo, keys, tree, supply, gas, height, snaps, stores, undo
  <2> QED
    BY DEF DisconnectBlock, u, utxo, keys, tree, supply, gas, height, snaps, stores, undo
<1>2. /\ IsSeq(u.created) /\ ToSet(u.created) = C /\ IsSeq(u.verkle) /\ IsSeq(u.spent)
      /\ {u.spent[i][1] : i \in 1 .. Len(u.spent)} = S
      /\ \A i \in 1 .. Len(u.spent) : u.spent[i][2] = OutputOf(u.spent[i][1])
  BY DEF UndoOK
<1> HIDE DEF u
<1>3. /\ IsFun(utxo) /\ DOMAIN utxo = (DOMAIN m.utxo \ C) \cup S
      /\ \A op \in DOMAIN utxo : utxo[op] = IF op \in S THEN OutputOf(op) ELSE m.utxo[op]
  <2> DEFINE f == Without(m.utxo, u.created)
  <2>1. IsFun(f) /\ DOMAIN f = DOMAIN m.utxo \ C /\ \A op \in DOMAIN f : f[op] = m.utxo[op]
    BY <1>2 DEF Without, IsFun
  <2> HIDE DEF f
  <2>2. Returned(f, u.spent, Len(u.spent), FoldLeft(PutBack, f, u.spent))
    BY <1>2, <2>1, PutBackAll
  <2>3. utxo = FoldLeft(PutBack, f, u.spent)
    BY Zenon DEF UndoUtxo, f
  <2> HIDE DEF utxo
  <2>4. \A op : op \in S <=> \E i \in 1 .. Len(u.spent) : u.spent[i][1] = op
    BY <1>2
  <2>5. IsFun(utxo) /\ DOMAIN utxo = (DOMAIN m.utxo \ C) \cup S
    BY <1>2, <2>1, <2>2, <2>3 DEF Returned
  <2>6. ASSUME NEW op \in DOMAIN utxo PROVE utxo[op] = IF op \in S THEN OutputOf(op) ELSE m.utxo[op]
    BY <2>1, <2>2, <2>3, <2>4, <2>5 DEF Returned
  <2> QED
    BY <2>5, <2>6
<1>4. IsFun(keys)
  <2>1. IsFun(Without(m.outpoint_to_key, u.created))
    BY DEF Without, IsFun
  <2> QED
    BY <1>2, <2>1, RekeyAll
<1>5. DOMAIN tree = {"leaves", "pruned"} /\ IsFun(tree.leaves)
  <2>1. DOMAIN m.tree = {"leaves", "pruned"} /\ IsFun(m.tree.leaves)
    BY DEF FieldsOK, IsManager
  <2>2. IsSeq(Reverse(u.verkle))
    BY <1>2, ReverseIs
  <2> QED
    BY <2>1, <2>2, UnwriteAll
<1>6. /\ Len(m.snapshots) = m.height + 1 /\ Len(m.snapshot_storages) = m.height + 1 /\ m.height \in Nat
  BY DEF SnapshotsOK, FieldsOK
<1>7. height = m.height - 1
  BY <1>6 DEF UndoHeight, SaturatingSub
<1>8. snaps = Prefix(m.snapshots, m.height) /\ stores = Prefix(m.snapshot_storages, m.height)
  <2>1. Len(m.snapshots) - 1 = m.height /\ Len(m.snapshot_storages) - 1 = m.height
    BY <1>6
  <2> QED
    BY <2>1, Zenon
<1>9. undo = Drop(m.block_undo_data, b)
  BY DEF ForgetUndo
<1> HIDE DEF utxo, keys, tree, supply, gas, height, snaps, stores, undo
<1>10. IsManager(m)
  BY DEF FieldsOK
<1>11. /\ n.utxo = utxo /\ n.outpoint_to_key = keys /\ n.tree = tree /\ n.supply = supply
       /\ n.height = height /\ n.snapshots = snaps /\ n.snapshot_storages = stores
       /\ n.block_undo_data = undo
       /\ n.block_hash = m.block_hash /\ n.panicked = m.panicked /\ n.prune_markers = m.prune_markers
  <2> HIDE DEF n
  <2> QED
    BY <1>1, <1>10 DEF IsManager, Fields
<1>12. IsFun(n) /\ DOMAIN n = Fields
  <2> HIDE DEF n
  <2> QED
    BY <1>1, <1>10 DEF IsManager, Fields, IsFun
<1> HIDE DEF n
<1>13. IsManager(n) /\ IsFun(n.tree.leaves)
  BY <1>5, <1>11, <1>12 DEF IsManager
<1>14. n.supply = UndoSupply(m.supply, u.delta)
  BY <1>11, Zenon DEF supply
<1>15. /\ IsFun(n.outpoint_to_key) /\ IsFun(n.utxo) /\ DOMAIN n.utxo = (DOMAIN m.utxo \ C) \cup S
       /\ \A op \in DOMAIN n.utxo : n.utxo[op] = IF op \in S THEN OutputOf(op) ELSE m.utxo[op]
  BY <1>3, <1>4, <1>11, Zenon
<1>16. Disconnected(m, b, u, C, S, n)
  BY <1>7, <1>8, <1>9, <1>11, <1>13, <1>14, <1>15, Zenon DEF Disconnected
<1> QED
  BY <1>16, Zenon DEF u, n

----------------------------------------------------------------------------
(* Chains that differ by the block at the tip. *)
LEMMA ChainIs ==
  ASSUME NEW m, m.height \in Nat, SnapshotsOK(m)
  PROVE  /\ Len(Chain(m)) = m.height /\ DOMAIN Chain(m) = 1 .. m.height
         /\ ToSet(Chain(m)) = {Chain(m)[i] : i \in 1 .. m.height}
         /\ \A i \in 1 .. m.height : Chain(m)[i] \in Block /\ Chain(m)[i] = m.snapshots[i + 1].last_block_hash
         /\ Last(Chain(m)) = Chain(m)[m.height]
<1>1. Len(m.snapshots) - 1 = m.height
  BY DEF SnapshotsOK
<1>2. Chain(m) = [i \in 1 .. m.height |-> m.snapshots[i + 1].last_block_hash]
  BY <1>1 DEF Chain
<1>3. Len(Chain(m)) = m.height /\ DOMAIN Chain(m) = 1 .. m.height
  BY <1>2
<1>4. ASSUME NEW i \in 1 .. m.height PROVE Chain(m)[i] \in Block /\ Chain(m)[i] = m.snapshots[i + 1].last_block_hash
  <2>1. i + 1 \in 1 .. m.height + 1 /\ i + 1 > 1
    OBVIOUS
  <2>2. m.snapshots[i + 1].last_block_hash \in Block
    BY <2>1 DEF SnapshotsOK, SnapshotOK
  <2> QED
    BY <1>2, <2>2
<1>5. ToSet(Chain(m)) = {Chain(m)[i] : i \in 1 .. m.height}
  BY <1>3 DEF ToSet
<1>6. Last(Chain(m)) = Chain(m)[m.height]
  BY <1>3 DEF Last
<1> QED
  BY <1>3, <1>4, <1>5, <1>6

(* What a chain with one block more has created and spent. *)
LEMMA LongerChain ==
  ASSUME BlocksDistinct, NEW m, NEW n, m.height \in Nat, SnapshotsOK(m), SnapshotsOK(n), n.height = m.height + 1,
         \A i \in 1 .. m.height : Chain(n)[i] = Chain(m)[i], NEW b \in Block, Chain(n)[n.height] = b
  PROVE  /\ \A k \in 0 .. m.height : CreatedUpTo(n, k) = CreatedUpTo(m, k) /\ SpentUpTo(n, k) = SpentUpTo(m, k)
         /\ CreatedUpTo(n, n.height) = CreatedUpTo(m, m.height) \cup CreatedBy(b)
         /\ SpentUpTo(n, n.height) = SpentUpTo(m, m.height) \cup SpentBy(b)
         /\ ToSet(Chain(n)) = ToSet(Chain(m)) \cup {b}
         /\ b \notin ToSet(Chain(m))
         /\ CreatedUpTo(m, m.height) \cap CreatedBy(b) = {}
         /\ CreatedUpTo(m, m.height) \subseteq AllOutputs /\ CreatedBy(b) \subseteq AllOutputs
<1> DEFINE h == m.height
<1>1. \A i : i \in 1 .. n.height <=> i \in 1 .. h \/ i = h + 1
  OBVIOUS
<1>2. Chain(n)[h + 1] = b /\ \A i \in 1 .. h : Chain(n)[i] = Chain(m)[i]
  OBVIOUS
<1>3. /\ ToSet(Chain(m)) = {Chain(m)[i] : i \in 1 .. h}
      /\ \A i \in 1 .. h : Chain(m)[i] \in Block
  BY ChainIs
<1>4. ToSet(Chain(n)) = {Chain(n)[i] : i \in 1 .. n.height}
  <2>1. n.height \in Nat
    OBVIOUS
  <2> QED
    BY <2>1, ChainIs
<1>5. ASSUME NEW k \in 0 .. h PROVE CreatedUpTo(n, k) = CreatedUpTo(m, k) /\ SpentUpTo(n, k) = SpentUpTo(m, k)
  <2>1. \A i \in 1 .. k : Chain(n)[i] = Chain(m)[i]
    BY <1>2
  <2> QED
    BY <2>1 DEF CreatedUpTo, SpentUpTo
<1>6. CreatedUpTo(n, n.height) = CreatedUpTo(m, h) \cup CreatedBy(b)
  BY <1>1, <1>2 DEF CreatedUpTo
<1>7. SpentUpTo(n, n.height) = SpentUpTo(m, h) \cup SpentBy(b)
  BY <1>1, <1>2 DEF SpentUpTo
<1>8. ToSet(Chain(n)) = ToSet(Chain(m)) \cup {b}
  BY <1>1, <1>2, <1>3, <1>4
<1>9. \A i \in 1 .. h : Chain(m)[i] # b
  <2>1. ASSUME NEW i \in 1 .. h PROVE Chain(m)[i] # b
    <3>1. i \in 1 .. n.height /\ h + 1 \in 1 .. n.height /\ i # h + 1
      OBVIOUS
    <3>2. Chain(n)[i] = Chain(n)[h + 1] => i = h + 1
      BY <3>1 DEF SnapshotsOK
    <3> QED
      BY <1>2, <3>1, <3>2
  <2> QED
    BY <2>1
<1>10. b \notin ToSet(Chain(m))
  BY <1>3, <1>9
<1>11. /\ \A x \in Block : CreatedBy(x) \subseteq AllOutputs
       /\ \A x, y \in Block : x # y => CreatedBy(x) \cap CreatedBy(y) = {}
  BY WorthIs
<1>12. CreatedUpTo(m, h) \cap CreatedBy(b) = {}
  <2>1. \A i \in 1 .. h : CreatedBy(Chain(m)[i]) \cap CreatedBy(b) = {}
    BY <1>3, <1>9, <1>11
  <2> QED
    BY <2>1 DEF CreatedUpTo
<1>13. CreatedUpTo(m, h) \subseteq AllOutputs
  BY <1>3, <1>11 DEF CreatedUpTo
<1> QED
  BY <1>5, <1>6, <1>7, <1>8, <1>10, <1>11, <1>12, <1>13

(* The worth of what a block leaves of the outputs P. *)
LEMMA BlockWorth ==
  ASSUME BlocksDistinct, NEW P, IsFiniteSet(P), P \subseteq AllOutputs, NEW S, S \subseteq P,
         NEW C, IsFiniteSet(C), C \subseteq AllOutputs, C \cap P = {}
  PROVE  /\ IsFiniteSet((P \ S) \cup C) /\ Sum(Worth, P) \in Nat
         /\ Sum(Worth, C) - Sum(Worth, S) \in Int
         /\ Sum(Worth, (P \ S) \cup C) = Sum(Worth, P) + (Sum(Worth, C) - Sum(Worth, S))
<1> DEFINE T == (P \ S) \cup C
<1>1. IsFiniteSet(P \ S) /\ IsFiniteSet(T)
  BY FS_Subset, FS_Union
<1>2. /\ Sum(Worth, S) \in Nat /\ Sum(Worth, P \ S) \in Nat /\ Sum(Worth, P) \in Nat
      /\ Sum(Worth, P) = Sum(Worth, P \ S) + Sum(Worth, S)
  BY SetWorth
<1>3. T \subseteq AllOutputs /\ C \in SUBSET T /\ T \ C = P \ S
  OBVIOUS
<1>4. /\ Sum(Worth, C) \in Nat /\ Sum(Worth, T) = Sum(Worth, P \ S) + Sum(Worth, C)
  BY <1>1, <1>3, SetWorth
<1> HIDE DEF T
<1> QED
  BY <1>1, <1>2, <1>4 DEF T

(* The supply comes back whatever the sign of the change. *)
LEMMA SupplyBack ==
  ASSUME NEW x \in Nat, NEW d \in Int
  PROVE  UndoSupply(x + d, d) = x
<1>1. CASE d > 0
  BY <1>1 DEF UndoSupply, SaturatingSub
<1>2. CASE ~(d > 0)
  BY <1>2 DEF UndoSupply
<1> QED
  BY <1>1, <1>2

----------------------------------------------------------------------------
(* A block applied to the UTXO set of the chain. *)
LEMMA UtxoCovered ==
  ASSUME BlocksDistinct, NEW m, FieldsOK(m), SnapshotsOK(m), UtxoOK(m)
  PROVE  /\ Covered(m) /\ CreatedUpTo(m, m.height) \subseteq AllOutputs
         /\ \A b \in Block : b \notin ToSet(Chain(m)) =>
                CreatedBy(b) \cap CreatedUpTo(m, m.height) = {} /\ CreatedBy(b) \cap DOMAIN m.utxo = {}
<1>1. /\ \A x \in Block : CreatedBy(x) \subseteq AllOutputs
      /\ \A x, y \in Block : x # y => CreatedBy(x) \cap CreatedBy(y) = {}
  BY WorthIs
<1>2. m.height \in Nat /\ m.supply \in Nat
  BY DEF FieldsOK
<1>3. /\ ToSet(Chain(m)) = {Chain(m)[i] : i \in 1 .. m.height}
      /\ \A i \in 1 .. m.height : Chain(m)[i] \in Block
  BY <1>2, ChainIs
<1>4. CreatedUpTo(m, m.height) \subseteq AllOutputs
  BY <1>1, <1>3 DEF CreatedUpTo
<1>5. ASSUME NEW b \in Block, b \notin ToSet(Chain(m))
      PROVE  CreatedBy(b) \cap CreatedUpTo(m, m.height) = {} /\ CreatedBy(b) \cap DOMAIN m.utxo = {}
  <2>1. \A i \in 1 .. m.height : CreatedBy(Chain(m)[i]) \cap CreatedBy(b) = {}
    BY <1>1, <1>3, <1>5
  <2>2. CreatedBy(b) \cap CreatedUpTo(m, m.height) = {}
    BY <2>1 DEF CreatedUpTo
  <2> QED
    BY <2>2 DEF UtxoOK
<1>6. Covered(m)
  BY <1>2, <1>4 DEF Covered, UtxoOK
<1> QED
  BY <1>4, <1>5, <1>6

(* Applying a block keeps the UTXO set that of the chain. *)
LEMMA ApplyUtxo ==
  ASSUME BlocksDistinct, NEW m, FieldsOK(m), SnapshotsOK(m), UtxoOK(m), NEW b \in Block, b \notin ToSet(Chain(m)),
         NEW s, s = ExecuteBlock(m, b), s.ok, NEW n, Applied(m, b, s, n)
  PROVE  /\ Money(m, s, CreatedBy(b), SpentBy(b)) /\ Settled(m, s, CreatedBy(b))
         /\ FieldsOK(n) /\ SnapshotsOK(n) /\ UtxoOK(n)
         /\ n.height = m.height + 1 /\ Chain(n)[n.height] = b
         /\ \A i \in 1 .. m.height : Chain(n)[i] = Chain(m)[i]
         /\ s.undo.delta \in Int /\ n.supply = m.supply + s.undo.delta
         /\ Sum(Worth, DOMAIN n.utxo) = Sum(Worth, DOMAIN m.utxo) + s.undo.delta
<1> DEFINE C == CreatedBy(b)
           S == SpentBy(b)
           D == DOMAIN m.utxo
<1>1. /\ Covered(m) /\ CreatedUpTo(m, m.height) \subseteq AllOutputs
      /\ C \cap CreatedUpTo(m, m.height) = {} /\ C \cap D = {}
  BY UtxoCovered
<1>2. Money(m, s, C, S) /\ Settled(m, s, C)
  BY <1>1, SettledBlock
<1>3. Executed(m, s)
  BY FrameBlock
<1>4. FieldsOK(n)
  BY <1>3, ApplyFields
<1>5. SnapshotsOK(n) /\ Chain(n)[n.height] = b /\ \A i \in 1 .. m.height : Chain(n)[i] = Chain(m)[i]
  BY <1>3, ApplySnapshots
<1>6. /\ n.height = m.height + 1 /\ n.supply = s.m.supply /\ n.utxo = s.m.utxo
      /\ n.block_undo_data = Put(m.block_undo_data, b, s.undo)
  BY DEF Applied
<1>7. m.height \in Nat /\ m.supply \in Nat
  BY DEF FieldsOK
<1>8. /\ CreatedUpTo(n, n.height) = CreatedUpTo(m, m.height) \cup C
      /\ ToSet(Chain(n)) = ToSet(Chain(m)) \cup {b}
  BY <1>5, <1>6, <1>7, LongerChain
<1> HIDE DEF C, S
<1>9. /\ IsFiniteSet(C) /\ C \subseteq AllOutputs /\ S \subseteq D /\ DOMAIN s.m.utxo = (D \ S) \cup C
      /\ \A op \in DOMAIN s.m.utxo : s.m.utxo[op] = OutputOf(op)
      /\ s.undo.delta = Sum(Worth, C) - Sum(Worth, S) /\ s.m.supply = m.supply + s.undo.delta
  BY <1>2 DEF Money, UndoOK
<1>10. IsFiniteSet(D) /\ D \subseteq AllOutputs /\ Sum(Worth, D) <= m.supply
  BY <1>1 DEF Covered
<1> HIDE DEF D
<1>11. /\ IsFiniteSet((D \ S) \cup C) /\ Sum(Worth, D) \in Nat /\ Sum(Worth, C) - Sum(Worth, S) \in Int
       /\ Sum(Worth, (D \ S) \cup C) = Sum(Worth, D) + (Sum(Worth, C) - Sum(Worth, S))
  <2>1. /\ IsFiniteSet(D) /\ D \subseteq AllOutputs /\ S \subseteq D /\ IsFiniteSet(C)
        /\ C \subseteq AllOutputs /\ C \cap D = {}
    BY <1>1, <1>9, <1>10, Zenon
  <2> QED
    BY <2>1, BlockWorth, Zenon
<1>12. s.undo.delta \in Int /\ Sum(Worth, DOMAIN n.utxo) = Sum(Worth, D) + s.undo.delta
  BY <1>6, <1>9, <1>11
<1>13. Sum(Worth, DOMAIN n.utxo) <= n.supply
  BY <1>6, <1>7, <1>9, <1>10, <1>11, <1>12
<1>14. DOMAIN n.utxo \subseteq CreatedUpTo(n, n.height)
  <2>1. D \subseteq CreatedUpTo(m, m.height)
    BY DEF UtxoOK, D
  <2> QED
    BY <1>6, <1>8, <1>9, <2>1
<1>15. DOMAIN n.block_undo_data = ToSet(Chain(n))
  BY <1>6, <1>8 DEF Put, UtxoOK
<1>16. IsFiniteSet(DOMAIN n.utxo)
  BY <1>6, <1>9, <1>11
<1>17. UtxoOK(n)
  BY <1>6, <1>9, <1>13, <1>14, <1>15, <1>16 DEF UtxoOK
<1>18. n.supply = m.supply + s.undo.delta
  BY <1>6, <1>9
<1> QED
  BY <1>2, <1>4, <1>5, <1>6, <1>12, <1>17, <1>18, Zenon DEF C, S, D

(* A chain spends only what it has created. *)
LEMMA SpentCreated ==
  ASSUME NEW m, m.height \in Nat, UndoneOK(m)
  PROVE  SpentUpTo(m, m.height) \subseteq CreatedUpTo(m, m.height)
<1>1. ASSUME NEW k \in 1 .. m.height PROVE SpentBy(Chain(m)[k]) \subseteq CreatedUpTo(m, m.height)
  <2>1. SpentBy(Chain(m)[k]) \subseteq CreatedUpTo(m, k - 1)
    BY DEF UndoneOK
  <2>2. \A i \in 1 .. k - 1 : i \in 1 .. m.height
    OBVIOUS
  <2>3. CreatedUpTo(m, k - 1) \subseteq CreatedUpTo(m, m.height)
    BY <2>2 DEF CreatedUpTo
  <2> QED
    BY <2>1, <2>3
<1> QED
  BY <1>1 DEF SpentUpTo

(* Applying a block keeps the undo data of the whole chain right. *)
LEMMA ApplyUndone ==
  ASSUME BlocksDistinct, NEW m, FieldsOK(m), SnapshotsOK(m), UndoneOK(m), NEW b \in Block, b \notin ToSet(Chain(m)),
         NEW s, s = ExecuteBlock(m, b), s.ok, NEW n, Applied(m, b, s, n)
  PROVE  UndoneOK(n)
<1> DEFINE C == CreatedBy(b)
           S == SpentBy(b)
           D == DOMAIN m.utxo
           CU == CreatedUpTo(m, m.height)
           SU == SpentUpTo(m, m.height)
<1>0. UtxoOK(m)
  BY DEF UndoneOK
<1>1. /\ Money(m, s, C, S) /\ SnapshotsOK(n) /\ UtxoOK(n)
      /\ n.height = m.height + 1 /\ Chain(n)[n.height] = b
      /\ \A i \in 1 .. m.height : Chain(n)[i] = Chain(m)[i]
      /\ s.undo.delta \in Int /\ n.supply = m.supply + s.undo.delta
      /\ Sum(Worth, DOMAIN n.utxo) = Sum(Worth, D) + s.undo.delta
  BY <1>0, ApplyUtxo
<1>2. m.height \in Nat
  BY DEF FieldsOK
<1>3. /\ \A k \in 0 .. m.height : CreatedUpTo(n, k) = CreatedUpTo(m, k) /\ SpentUpTo(n, k) = SpentUpTo(m, k)
      /\ CreatedUpTo(n, n.height) = CU \cup C /\ SpentUpTo(n, n.height) = SU \cup S
      /\ CU \cap C = {}
  BY <1>1, <1>2, LongerChain
<1>4. SU \subseteq CU
  BY <1>2, SpentCreated
<1>5. C \cap S = {}
  BY Zenon DEF BlocksDistinct
<1>6. D = CU \ SU /\ Sum(Worth, D) = m.supply
  BY DEF UndoneOK
<1> HIDE DEF C, S, D, CU, SU
<1>7. S \subseteq D /\ DOMAIN s.m.utxo = (D \ S) \cup C /\ UndoOK(s.undo, C, S)
  BY <1>1 DEF Money, D
<1>8. n.utxo = s.m.utxo /\ n.block_undo_data = Put(m.block_undo_data, b, s.undo)
  BY DEF Applied
<1>9. DOMAIN n.utxo = CreatedUpTo(n, n.height) \ SpentUpTo(n, n.height)
  <2>1. DOMAIN n.utxo = (D \ S) \cup C
    BY <1>7, <1>8
  <2>2. (D \ S) \cup C = (CU \cup C) \ (SU \cup S)
    BY <1>3, <1>4, <1>5, <1>6
  <2> QED
    BY <1>3, <2>1, <2>2
<1>10. Sum(Worth, DOMAIN n.utxo) = n.supply
  BY <1>1, <1>6
<1>11. /\ \A i \in 1 .. m.height : Chain(m)[i] # b
       /\ ToSet(Chain(m)) = {Chain(m)[i] : i \in 1 .. m.height}
  BY <1>2, ChainIs
<1>12. ASSUME NEW k \in 1 .. n.height
       PROVE  /\ SpentBy(Chain(n)[k]) \subseteq CreatedUpTo(n, k - 1) \ SpentUpTo(n, k - 1)
              /\ UndoOK(n.block_undo_data[Chain(n)[k]], CreatedBy(Chain(n)[k]), SpentBy(Chain(n)[k]))
  <2>1. CASE k = m.height + 1
    <3>1. Chain(n)[k] = b /\ k - 1 = m.height /\ k - 1 \in 0 .. m.height
      BY <1>1, <1>2, <2>1
    <3>2. n.block_undo_data[b] = s.undo
      BY <1>8 DEF Put
    <3>3. CreatedUpTo(n, k - 1) = CU /\ SpentUpTo(n, k - 1) = SU
      BY <1>3, <3>1, Zenon DEF CU, SU
    <3> QED
      BY <1>6, <1>7, <3>1, <3>2, <3>3 DEF C, S
  <2>2. CASE k # m.height + 1
    <3>1. k \in 1 .. m.height /\ k - 1 \in 0 .. m.height
      BY <1>1, <1>2, <2>2
    <3>2. Chain(n)[k] = Chain(m)[k] /\ Chain(m)[k] # b /\ Chain(m)[k] \in DOMAIN m.block_undo_data
      BY <1>0, <1>1, <1>11, <3>1 DEF UtxoOK
    <3>3. n.block_undo_data[Chain(m)[k]] = m.block_undo_data[Chain(m)[k]]
      BY <1>8, <3>2 DEF Put
    <3>4. CreatedUpTo(n, k - 1) = CreatedUpTo(m, k - 1) /\ SpentUpTo(n, k - 1) = SpentUpTo(m, k - 1)
      BY <1>3, <3>1
    <3>5. /\ SpentBy(Chain(m)[k]) \subseteq CreatedUpTo(m, k - 1) \ SpentUpTo(m, k - 1)
          /\ UndoOK(m.block_undo_data[Chain(m)[k]], CreatedBy(Chain(m)[k]), SpentBy(Chain(m)[k]))
      BY <3>1 DEF UndoneOK
    <3> QED
      BY <3>2, <3>3, <3>4, <3>5, Zenon
  <2> QED
    BY <2>1, <2>2
<1> QED
  BY <1>1, <1>9, <1>10, <1>12, Zenon DEF UndoneOK

(* The block at the tip disconnected. *)
LEMMA DisconnectUndone ==
  ASSUME BlocksDistinct, NEW m, FieldsOK(m), SnapshotsOK(m), UndoneOK(m), m.height > 0,
         NEW b, Chain(m)[m.height] = b,
         NEW n, Disconnected(m, b, m.block_undo_data[b], CreatedBy(b), SpentBy(b), n)
  PROVE  FieldsOK(n) /\ SnapshotsOK(n) /\ UndoneOK(n)
<1> DEFINE C == CreatedBy(b)
           S == SpentBy(b)
           u == m.block_undo_data[b]
           h == m.height - 1
           P == CreatedUpTo(n, n.height) \ SpentUpTo(n, n.height)
<1>1. /\ m.height \in Nat /\ h \in Nat /\ m.height = h + 1 /\ h \in 0 .. m.height /\ m.height \in 1 .. m.height
      /\ IsManager(m) /\ m.block_hash \in Block \cup {NoBlock} /\ m.supply \in Nat
      /\ DOMAIN m.block_undo_data \subseteq Block /\ IsMarkers(m.prune_markers) /\ m.panicked = FALSE
  <2>1. m.height \in Nat /\ IsManager(m) /\ m.block_hash \in Block \cup {NoBlock} /\ m.supply \in Nat
    BY DEF FieldsOK
  <2>2. DOMAIN m.block_undo_data \subseteq Block /\ IsMarkers(m.prune_markers) /\ ~m.panicked
    BY DEF FieldsOK
  <2> QED
    BY <2>1, <2>2
<1>2. UtxoOK(m) /\ DOMAIN m.utxo = CreatedUpTo(m, m.height) \ SpentUpTo(m, m.height) /\ Sum(Worth, DOMAIN m.utxo) = m.supply
  BY DEF UndoneOK
<1>3. b \in Block /\ b \in DOMAIN m.block_undo_data
  <2>1. b \in Block /\ b \in ToSet(Chain(m))
    BY <1>1, ChainIs
  <2> QED
    BY <1>2, <2>1 DEF UtxoOK
<1>4. /\ S \subseteq CreatedUpTo(m, h) \ SpentUpTo(m, h) /\ UndoOK(u, C, S)
  BY <1>1 DEF UndoneOK
<1>5. Disconnected(m, b, u, C, S, n)
  OBVIOUS
<1>6. n.height = h
  BY <1>5 DEF Disconnected
<1>7. /\ SnapshotsOK(n) /\ \A i \in 1 .. h : Chain(n)[i] = Chain(m)[i]
  <2>1. n.snapshots = Prefix(m.snapshots, h + 1) /\ n.snapshot_storages = Prefix(m.snapshot_storages, h + 1)
    BY <1>1, <1>5 DEF Disconnected
  <2> HIDE DEF h
  <2> QED
    BY <1>1, <1>6, <2>1, CutSnapshots
<1>8. /\ \A k \in 0 .. h : CreatedUpTo(n, k) = CreatedUpTo(m, k) /\ SpentUpTo(n, k) = SpentUpTo(m, k)
      /\ CreatedUpTo(m, m.height) = CreatedUpTo(n, n.height) \cup C
      /\ SpentUpTo(m, m.height) = SpentUpTo(n, n.height) \cup S
      /\ ToSet(Chain(m)) = ToSet(Chain(n)) \cup {b}
      /\ b \notin ToSet(Chain(n))
      /\ CreatedUpTo(n, n.height) \cap C = {}
      /\ CreatedUpTo(n, n.height) \subseteq AllOutputs /\ C \subseteq AllOutputs
  <2>1. m.height = n.height + 1 /\ n.height \in Nat /\ \A i \in 1 .. n.height : Chain(m)[i] = Chain(n)[i]
    BY <1>1, <1>6, <1>7
  <2> HIDE DEF h, C, S
  <2>3. /\ \A k \in 0 .. n.height : CreatedUpTo(m, k) = CreatedUpTo(n, k) /\ SpentUpTo(m, k) = SpentUpTo(n, k)
        /\ CreatedUpTo(m, m.height) = CreatedUpTo(n, n.height) \cup CreatedBy(b)
        /\ SpentUpTo(m, m.height) = SpentUpTo(n, n.height) \cup SpentBy(b)
        /\ ToSet(Chain(m)) = ToSet(Chain(n)) \cup {b}
        /\ b \notin ToSet(Chain(n))
        /\ CreatedUpTo(n, n.height) \cap CreatedBy(b) = {}
        /\ CreatedUpTo(n, n.height) \subseteq AllOutputs /\ CreatedBy(b) \subseteq AllOutputs
    BY <1>3, <1>7, <2>1, LongerChain
  <2> QED
    BY <1>6, <2>3, Zenon DEF C, S
<1>9. \A k \in 1 .. h : SpentBy(Chain(m)[k]) \subseteq CreatedUpTo(m, k - 1) \ SpentUpTo(m, k - 1)
  BY <1>1 DEF UndoneOK
<1>10. SpentUpTo(n, n.height) \subseteq CreatedUpTo(n, n.height)
  <2>1. ASSUME NEW k \in 1 .. h PROVE SpentBy(Chain(n)[k]) \subseteq CreatedUpTo(n, n.height)
    <3>1. SpentBy(Chain(n)[k]) \subseteq CreatedUpTo(m, k - 1)
      BY <1>7, <1>9
    <3>2. k - 1 \in 0 .. h /\ \A i \in 1 .. k - 1 : i \in 1 .. h
      BY <1>1
    <3>3. CreatedUpTo(n, k - 1) = CreatedUpTo(m, k - 1)
      BY <1>8, <3>2
    <3>4. CreatedUpTo(n, k - 1) \subseteq CreatedUpTo(n, n.height)
      BY <1>6, <3>2 DEF CreatedUpTo
    <3> QED
      BY <3>1, <3>3, <3>4
  <2> HIDE DEF h
  <2> QED
    BY <1>6, <2>1 DEF SpentUpTo
<1>11. C \cap S = {}
  BY <1>3, Zenon DEF BlocksDistinct
<1>12. S \subseteq P /\ P \subseteq AllOutputs /\ C \cap P = {}
  <2>1. CreatedUpTo(n, n.height) = CreatedUpTo(m, h) /\ SpentUpTo(n, n.height) = SpentUpTo(m, h)
    BY <1>1, <1>6, <1>8
  <2> QED
    BY <1>4, <1>8, <2>1
<1>13. DOMAIN m.utxo = (P \ S) \cup C
  BY <1>2, <1>8, <1>10, <1>11, <1>12
<1>14. DOMAIN n.utxo = P
  <2>1. DOMAIN n.utxo = (DOMAIN m.utxo \ C) \cup S
    BY <1>5 DEF Disconnected
  <2> QED
    BY <1>12, <1>13, <2>1
<1> HIDE DEF P, C, S, u
<1>15. IsFiniteSet(P) /\ IsFiniteSet(C)
  <2>1. IsFiniteSet(DOMAIN m.utxo)
    BY <1>2 DEF UtxoOK
  <2>2. IsFiniteSet(S)
    <3>1. /\ IsSeq(u.spent) /\ {u.spent[i][1] : i \in 1 .. Len(u.spent)} = S /\ Len(u.spent) \in Nat
      BY <1>4 DEF UndoOK, IsSeq
    <3>2. IsFiniteSet(1 .. Len(u.spent))
      BY <3>1, FS_Interval
    <3> DEFINE g == [i \in 1 .. Len(u.spent) |-> u.spent[i][1]]
    <3>3. g \in Surjection(1 .. Len(u.spent), S)
      BY <3>1 DEF Surjection
    <3> QED
      BY <3>2, <3>3, FS_Surjection
  <2>3. IsFiniteSet(DOMAIN m.utxo \cup S)
    BY <2>1, <2>2, FS_Union
  <2>4. P \subseteq DOMAIN m.utxo \cup S /\ C \subseteq DOMAIN m.utxo
    BY <1>13
  <2> QED
    BY <2>1, <2>3, <2>4, FS_Subset
<1>16. /\ Sum(Worth, P) \in Nat /\ u.delta \in Int /\ m.supply = Sum(Worth, P) + u.delta
  <2>1. C \subseteq AllOutputs
    BY <1>8
  <2>2. /\ Sum(Worth, P) \in Nat /\ Sum(Worth, C) - Sum(Worth, S) \in Int
        /\ Sum(Worth, (P \ S) \cup C) = Sum(Worth, P) + (Sum(Worth, C) - Sum(Worth, S))
    BY <1>12, <1>15, <2>1, BlockWorth, Zenon
  <2>3. u.delta = Sum(Worth, C) - Sum(Worth, S)
    BY <1>4 DEF UndoOK
  <2> QED
    BY <1>2, <1>13, <2>2, <2>3
<1>17. n.supply = Sum(Worth, P)
  <2>1. n.supply = UndoSupply(Sum(Worth, P) + u.delta, u.delta)
    BY <1>5, <1>16 DEF Disconnected
  <2> QED
    BY <1>16, <2>1, SupplyBack
<1>18. \A op \in DOMAIN n.utxo : n.utxo[op] = OutputOf(op)
  <2>1. ASSUME NEW op \in DOMAIN n.utxo PROVE n.utxo[op] = OutputOf(op)
    <3>1. n.utxo[op] = IF op \in S THEN OutputOf(op) ELSE m.utxo[op]
      BY <1>5 DEF Disconnected
    <3>2. op \notin S => op \in DOMAIN m.utxo
      BY <1>13, <1>14
    <3> QED
      BY <1>2, <3>1, <3>2 DEF UtxoOK
  <2> QED
    BY <2>1
<1>19. DOMAIN n.block_undo_data = ToSet(Chain(n))
  <2>1. n.block_undo_data = Drop(m.block_undo_data, b)
    BY <1>5 DEF Disconnected
  <2>2. DOMAIN n.block_undo_data = DOMAIN m.block_undo_data \ {b}
    BY <2>1 DEF Drop
  <2>3. DOMAIN m.block_undo_data = ToSet(Chain(m))
    BY <1>2 DEF UtxoOK
  <2> QED
    BY <1>8, <2>2, <2>3
<1>20. UtxoOK(n)
  BY <1>14, <1>15, <1>16, <1>17, <1>18, <1>19 DEF UtxoOK, P
<1>21. ASSUME NEW k \in 1 .. n.height
       PROVE  /\ SpentBy(Chain(n)[k]) \subseteq CreatedUpTo(n, k - 1) \ SpentUpTo(n, k - 1)
              /\ UndoOK(n.block_undo_data[Chain(n)[k]], CreatedBy(Chain(n)[k]), SpentBy(Chain(n)[k]))
  <2>1. k \in 1 .. h /\ k \in 1 .. m.height /\ k - 1 \in 0 .. h /\ n.height \in Nat
    BY <1>1, <1>6
  <2>2. Chain(n)[k] = Chain(m)[k] /\ Chain(n)[k] # b /\ Chain(n)[k] \in ToSet(Chain(n))
    BY <1>7, <1>8, <2>1, ChainIs
  <2>3. n.block_undo_data[Chain(n)[k]] = m.block_undo_data[Chain(n)[k]]
    BY <1>5, <1>19, <2>2 DEF Disconnected, Drop
  <2>4. CreatedUpTo(n, k - 1) = CreatedUpTo(m, k - 1) /\ SpentUpTo(n, k - 1) = SpentUpTo(m, k - 1)
    BY <1>8, <2>1
  <2>5. /\ SpentBy(Chain(m)[k]) \subseteq CreatedUpTo(m, k - 1) \ SpentUpTo(m, k - 1)
        /\ UndoOK(m.block_undo_data[Chain(m)[k]], CreatedBy(Chain(m)[k]), SpentBy(Chain(m)[k]))
    BY <2>1 DEF UndoneOK
  <2> QED
    BY <2>2, <2>3, <2>4, <2>5, Zenon
<1>22. UndoneOK(n)
  BY <1>14, <1>17, <1>20, <1>21, Zenon DEF UndoneOK, P
<1>23. FieldsOK(n)
  <2>1. /\ IsManager(n) /\ IsFun(n.tree.leaves) /\ n.height = h /\ n.block_undo_data = Drop(m.block_undo_data, b)
        /\ n.block_hash = m.block_hash /\ n.panicked = m.panicked /\ n.prune_markers = m.prune_markers
        /\ IsFun(n.outpoint_to_key) /\ IsFun(n.utxo)
    BY <1>5 DEF Disconnected
  <2>2. IsFun(n.block_undo_data) /\ DOMAIN n.block_undo_data \subseteq Block
    BY <1>1, <2>1 DEF Drop, IsFun
  <2>3. ASSUME NEW op \in DOMAIN n.utxo PROVE n.utxo[op] \in TxOutput
    <3>1. op \in AllOutputs
      BY <1>12, <1>14
    <3> QED
      BY <1>18, <3>1, WorthIs
  <2>4. n.supply \in Nat /\ n.height \in Nat
    BY <1>1, <1>16, <1>17, <2>1
  <2> QED
    BY <1>1, <2>1, <2>2, <2>3, <2>4 DEF FieldsOK
<1> QED
  BY <1>7, <1>22, <1>23

----------------------------------------------------------------------------
(* Blocks applied while nothing is disconnected, and pruning. *)
LEMMA ApplyBacked ==
  ASSUME BlocksDistinct, NEW m, FieldsOK(m), SnapshotsOK(m), BackedOK(m), NEW b \in Block, b \notin ToSet(Chain(m)),
         NEW s, s = ExecuteBlock(m, b), s.ok, NEW n, Applied(m, b, s, n)
  PROVE  BackedOK(n)
<1> DEFINE C == CreatedBy(b)
           S == SpentBy(b)
           D == DOMAIN m.utxo
<1>0. UtxoOK(m)
  BY DEF BackedOK
<1>1. Money(m, s, C, S) /\ Settled(m, s, C) /\ UtxoOK(n)
  BY <1>0, ApplyUtxo
<1>2. n.utxo = s.m.utxo /\ n.outpoint_to_key = s.m.outpoint_to_key /\ n.tree = s.m.tree /\ n.supply = s.m.supply
  BY DEF Applied
<1>3. Committed(n.tree.leaves, n.supply)
  <2>1. Executed(m, s)
    BY FrameBlock
  <2> QED
    BY <1>2, <2>1 DEF Executed
<1>4. n.supply <= MAX_GLOBAL_SUPPLY_NANO_SLUG
  <2>1. MAX_GLOBAL_SUPPLY_NANO_SLUG \in Nat
    BY StateAssumption, Zenon
  <2> QED
    BY <1>3, <2>1 DEF Committed
<1>5. n.outpoint_to_key = Identity(DOMAIN n.utxo)
  BY <1>1, <1>2 DEF Settled, BackedOK
<1> HIDE DEF C, S
<1>6. ASSUME NEW op \in DOMAIN n.utxo
      PROVE  op \in DOMAIN n.tree.leaves /\ n.tree.leaves[op] = OutputValue(n.utxo[op])
  <2>1. n.utxo[op] = OutputOf(op) /\ (op \in C \/ (op \in D /\ op \notin C))
    <3>1. DOMAIN n.utxo = (D \ S) \cup C /\ C \cap D = {} /\ n.utxo[op] = OutputOf(op)
      BY <1>1, <1>2 DEF Money
    <3> QED
      BY <3>1
  <2>2. CASE op \in C
    BY <1>1, <1>2, <2>1, <2>2 DEF Settled
  <2>3. CASE op \in D /\ op \notin C
    <3>1. Covered(m)
      BY <1>0, UtxoCovered
    <3>2. op \in AllOutputs /\ m.utxo[op] = OutputOf(op)
      BY <2>3, <3>1 DEF Covered
    <3>3. op \in DOMAIN m.tree.leaves /\ m.tree.leaves[op] = OutputValue(m.utxo[op])
      BY <2>3 DEF BackedOK
    <3>4. op \in DOMAIN n.tree.leaves /\ n.tree.leaves[op] = m.tree.leaves[op]
      BY <1>1, <1>2, <2>3, <3>2, <3>3 DEF Settled
    <3> QED
      BY <2>1, <3>2, <3>3, <3>4
  <2> QED
    BY <2>1, <2>2, <2>3
<1> QED
  BY <1>1, <1>3, <1>4, <1>5, <1>6, Zenon DEF BackedOK

(* What depends on the snapshots alone. *)
LEMMA SameChainIs ==
  ASSUME NEW m, NEW n, SameChain(m, n), SnapshotsOK(m)
  PROVE  /\ SnapshotsOK(n) /\ Chain(n) = Chain(m) /\ Top(n) = Top(m)
         /\ \A k : CreatedUpTo(n, k) = CreatedUpTo(m, k)
<1>1. n.snapshots = m.snapshots /\ n.snapshot_storages = m.snapshot_storages /\ n.height = m.height
  BY DEF SameChain
<1>2. Chain(n) = Chain(m)
  BY <1>1 DEF Chain
<1>3. \A i : SnapshotOK(m, i) => SnapshotOK(n, i)
  BY <1>1, Zenon DEF SnapshotOK
<1>4. SnapshotsOK(n)
  BY <1>1, <1>2, <1>3, Zenon DEF SnapshotsOK
<1>5. Top(n) = Top(m)
  BY <1>1 DEF Top
<1>6. \A k : CreatedUpTo(n, k) = CreatedUpTo(m, k)
  BY <1>2 DEF CreatedUpTo
<1> QED
  BY <1>2, <1>4, <1>5, <1>6

(* Pruning an outpoint leaves every other output of the UTXO set in the    *)
(* tree.                                                                   *)
LEMMA PruneOne ==
  ASSUME BlocksDistinct, NEW m, FieldsOK(m), SnapshotsOK(m), BackedOK(m), NEW op \in DOMAIN m.outpoint_to_key,
         NEW n, n = Prune(m, op)
  PROVE  FieldsOK(n) /\ SameChain(m, n) /\ BackedOK(n)
<1>1. op \in DOMAIN m.utxo /\ m.outpoint_to_key[op] = op /\ m.outpoint_to_key = Identity(DOMAIN m.utxo)
  BY DEF BackedOK, Identity
<1>2. IsManager(m)
  BY DEF FieldsOK
<1> DEFINE t == [leaves |-> Drop(m.tree.leaves, op), pruned |-> m.tree.pruned \cup {op}]
           D == DOMAIN m.utxo
<1>3. n = [m EXCEPT !.tree = t, !.utxo = Drop(m.utxo, op), !.outpoint_to_key = Drop(m.outpoint_to_key, op),
                    !.prune_markers = Drop(m.prune_markers, op)]
  BY <1>1 DEF Prune
<1>4. DOMAIN t = {"leaves", "pruned"} /\ t.leaves = Drop(m.tree.leaves, op)
  OBVIOUS
<1> HIDE DEF t
<1>5. /\ n.tree = t /\ n.utxo = Drop(m.utxo, op) /\ n.outpoint_to_key = Drop(m.outpoint_to_key, op)
      /\ n.prune_markers = Drop(m.prune_markers, op) /\ n.supply = m.supply /\ SameChain(m, n)
  BY <1>2, <1>3 DEF IsManager, Fields, SameChain
<1>6. IsManager(n)
  <2>1. DOMAIN n = Fields
    BY <1>2, <1>3 DEF IsManager, Fields
  <2> DEFINE u == Drop(m.utxo, op)
             k == Drop(m.outpoint_to_key, op)
             p == Drop(m.prune_markers, op)
  <2> HIDE DEF u, k, p
  <2>2. IsFun([m EXCEPT !.tree = t, !.utxo = u, !.outpoint_to_key = k, !.prune_markers = p])
    BY <1>2 DEF IsManager, Fields, IsFun
  <2>3. IsFun(n)
    BY <1>3, <2>2, Zenon DEF u, k, p
  <2> QED
    BY <1>4, <1>5, <2>1, <2>3 DEF IsManager
<1>7. /\ n.height = m.height /\ n.block_hash = m.block_hash /\ n.block_undo_data = m.block_undo_data
      /\ n.panicked = m.panicked
  BY <1>5 DEF SameChain
<1>8. /\ DOMAIN n.utxo = D \ {op} /\ \A x \in DOMAIN n.utxo : n.utxo[x] = m.utxo[x]
      /\ IsFun(n.utxo) /\ IsFun(n.outpoint_to_key) /\ IsMarkers(n.prune_markers)
  <2>1. IsMarkers(m.prune_markers)
    BY DEF FieldsOK
  <2>2. IsMarkers(n.prune_markers)
    BY <1>5, <2>1, DropMarkers
  <2> QED
    BY <1>5, <2>2 DEF Drop, IsFun
<1>9. /\ DOMAIN n.tree.leaves = DOMAIN m.tree.leaves \ {op} /\ IsFun(n.tree.leaves)
      /\ \A x \in DOMAIN n.tree.leaves : n.tree.leaves[x] = m.tree.leaves[x]
  BY <1>4, <1>5 DEF Drop, IsFun
<1>10. FieldsOK(n)
  BY <1>5, <1>6, <1>7, <1>8, <1>9 DEF FieldsOK
<1>11. UtxoOK(m) /\ Covered(m)
  BY UtxoCovered DEF BackedOK
<1>12. D \subseteq AllOutputs /\ IsFiniteSet(D) /\ Sum(Worth, D) <= m.supply /\ m.supply \in Nat
  BY <1>11 DEF Covered
<1>13. IsFiniteSet(DOMAIN n.utxo) /\ Sum(Worth, DOMAIN n.utxo) <= n.supply
  <2> HIDE DEF D
  <2>1. IsFiniteSet(D \ {op})
    BY <1>12, FS_Subset
  <2>2. {op} \in SUBSET D
    BY <1>1 DEF D
  <2>3. /\ Sum(Worth, {op}) \in Nat /\ Sum(Worth, D \ {op}) \in Nat
        /\ Sum(Worth, D) = Sum(Worth, D \ {op}) + Sum(Worth, {op})
    BY <1>12, <2>2, SetWorth
  <2> QED
    BY <1>5, <1>8, <1>12, <2>1, <2>3
<1>14. Chain(n) = Chain(m) /\ \A k : CreatedUpTo(n, k) = CreatedUpTo(m, k)
  BY <1>5, SameChainIs
<1>15. UtxoOK(n)
  BY <1>7, <1>8, <1>11, <1>13, <1>14 DEF UtxoOK
<1>16. n.outpoint_to_key = Identity(DOMAIN n.utxo)
  BY <1>1, <1>5, <1>8 DEF Drop, Identity
<1>17. \A x \in DOMAIN n.utxo : x \in DOMAIN n.tree.leaves /\ n.tree.leaves[x] = OutputValue(n.utxo[x])
  BY <1>8, <1>9 DEF BackedOK
<1>18. n.supply <= MAX_GLOBAL_SUPPLY_NANO_SLUG
  BY <1>5 DEF BackedOK
<1>19. ASSUME n.height > 0 PROVE Committed(n.tree.leaves, n.supply)
  <2>1. Committed(m.tree.leaves, m.supply)
    BY <1>7, <1>19 DEF BackedOK
  <2>2. op # SUPPLY_KEY
    BY <1>1, <1>12, WorthIs
  <2> QED
    BY <1>5, <1>9, <2>1, <2>2 DEF Committed
<1> QED
  BY <1>5, <1>10, <1>15, <1>16, <1>17, <1>18, <1>19, Zenon DEF BackedOK

(* A pruning cycle, in whatever order it visits the markers. *)
Pruned(s) ==
    /\ DOMAIN s = {"ok", "m"} /\ FieldsOK(s.m) /\ SnapshotsOK(s.m) /\ BackedOK(s.m)

(* One turn of execute_pruning_cycle. *)
LEMMA PruneDuePruned ==
  ASSUME BlocksDistinct, NEW s, Pruned(s), NEW op
  PROVE  Pruned(PruneDue(s, op))
<1> DEFINE r == PruneDue(s, op)
           n == Prune(s.m, op)
<1>1. \/ r = s \/ r = [s EXCEPT !.ok = FALSE]
      \/ op \in DOMAIN s.m.outpoint_to_key /\ r = [s EXCEPT !.m = n]
  <2> HIDE DEF n
  <2> QED
    BY DEF PruneDue, n
<1>2. CASE r = s
  BY <1>2, Zenon
<1>3. CASE r = [s EXCEPT !.ok = FALSE]
  <2>1. DOMAIN r = {"ok", "m"} /\ r.m = s.m
    BY <1>3 DEF Pruned
  <2> QED
    BY <2>1, Zenon DEF Pruned
<1>4. CASE op \in DOMAIN s.m.outpoint_to_key /\ r = [s EXCEPT !.m = n]
  <2> HIDE DEF n
  <2>1. DOMAIN r = {"ok", "m"} /\ r.m = n
    BY <1>4 DEF Pruned
  <2>2. FieldsOK(s.m) /\ SnapshotsOK(s.m) /\ BackedOK(s.m)
    BY Zenon DEF Pruned
  <2>3. FieldsOK(n) /\ SameChain(s.m, n) /\ BackedOK(n)
    BY <1>4, <2>2, PruneOne DEF n
  <2>4. SnapshotsOK(n)
    BY <2>2, <2>3, SameChainIs
  <2> QED
    BY <2>1, <2>3, <2>4, Zenon DEF Pruned
<1> QED
  BY <1>1, <1>2, <1>3, <1>4

(* A pruning cycle, in any order of the due outpoints. *)
LEMMA PruneAll ==
  ASSUME BlocksDistinct, NEW m, FieldsOK(m), SnapshotsOK(m), BackedOK(m), NEW e,
         NEW order \in SetToSeqs(DueForPruning(m, e)), NEW n, n = ExecutePruningCycle(m, order).m
  PROVE  FieldsOK(n) /\ SnapshotsOK(n) /\ BackedOK(n)
<1> DEFINE s == [ok |-> TRUE, m |-> m]
           q == order
<1>0. Len(q) \in Nat /\ DOMAIN q = 1 .. Len(q)
  <2> DEFINE D == DueForPruning(m, e)
  <2>1. IsFiniteSet(D)
    <3>1. IsFiniteSet(DOMAIN m.prune_markers)
      BY DEF FieldsOK, IsMarkers
    <3>2. D \subseteq DOMAIN m.prune_markers
      BY DEF DueForPruning
    <3> QED
      BY <3>1, <3>2, FS_Subset
  <2>2. Cardinality(D) \in Nat
    BY <2>1, FS_CardinalityType
  <2>3. order \in [1 .. Cardinality(D) -> D]
    BY Zenon DEF SetToSeqs
  <2> HIDE DEF D
  <2> QED
    BY <2>2, <2>3
<1>1. Pruned(s)
  <2>1. DOMAIN s = {"ok", "m"} /\ s.m = m
    OBVIOUS
  <2> QED
    BY <2>1, Zenon DEF Pruned
<1>2. n = FoldLeft(PruneDue, s, q).m
  BY DEF ExecutePruningCycle
<1> HIDE DEF s, q
<1>3. PICK f : Pruning!IsTrace(<<>>, f, s, q) /\ Pruning!Fold(<<>>, s, q) = f[Len(q)]
  BY <1>0, Leasts, Pruning!FoldTrace, Zenon
<1>4. f[0] = s /\ \A i \in 1 .. Len(q) : f[i] = PruneDue(f[i - 1], q[i])
  BY <1>0, <1>3, Pruning!TraceStep
<1> DEFINE G == {i \in 0 .. Len(q) : Pruned(f[i])}
<1>5. 0 \in G
  BY <1>0, <1>1, <1>4
<1>6. ASSUME NEW i \in 0 .. Len(q) - 1, i \in G PROVE i + 1 \in G
  <2>1. i + 1 \in 1 .. Len(q) /\ (i + 1) - 1 = i /\ i + 1 \in 0 .. Len(q)
    BY <1>0
  <2>2. f[i + 1] = PruneDue(f[i], q[i + 1]) /\ Pruned(f[i])
    BY <1>4, <1>6, <2>1
  <2>3. Pruned(f[i + 1])
    BY <2>2, PruneDuePruned
  <2> QED
    BY <2>1, <2>3
<1>7. Len(q) \in G
  <2>1. \A i \in 0 .. Len(q) - 1 : i \in G => i + 1 \in G
    BY <1>6
  <2>2. Len(q) \in 0 .. Len(q)
    BY <1>0
  <2> HIDE DEF G
  <2>3. \A i \in 0 .. Len(q) : i \in G
    BY <1>0, <1>5, <2>1, UpTo
  <2> QED
    BY <2>2, <2>3
<1>8. Pruned(FoldLeft(PruneDue, s, q))
  BY <1>3, <1>7, LoopsAre
<1> QED
  BY <1>2, <1>8 DEF Pruned

(* Marking an outpoint. *)
LEMMA MarkIs ==
  ASSUME NEW m, FieldsOK(m), SnapshotsOK(m), BackedOK(m), NEW op, NEW e, NEW n, n = MarkOutpointForPruning(m, op, e)
  PROVE  FieldsOK(n) /\ SnapshotsOK(n) /\ BackedOK(n)
<1> DEFINE p == Put(m.prune_markers, op, e)
<1>1. n = [m EXCEPT !.prune_markers = p]
  BY DEF MarkOutpointForPruning
<1>2. IsMarkers(p)
  <2>1. IsFun(p) /\ DOMAIN p = DOMAIN m.prune_markers \cup {op}
    BY DEF Put, IsFun
  <2>2. IsFiniteSet(DOMAIN m.prune_markers)
    BY DEF FieldsOK, IsMarkers
  <2> QED
    BY <2>1, <2>2, FS_AddElement DEF IsMarkers
<1> HIDE DEF p
<1>3. IsManager(m)
  BY DEF FieldsOK
<1>4. /\ SameChain(m, n) /\ n.prune_markers = p /\ n.tree = m.tree /\ n.supply = m.supply
      /\ n.utxo = m.utxo /\ n.outpoint_to_key = m.outpoint_to_key
  BY <1>1, <1>3 DEF IsManager, Fields, SameChain
<1>5. IsManager(n)
  <2>1. IsFun([m EXCEPT !.prune_markers = p])
    BY <1>3 DEF IsManager, IsFun
  <2>2. DOMAIN n = Fields
    BY <1>1, <1>3 DEF IsManager, Fields
  <2> QED
    BY <1>1, <1>3, <1>4, <2>1, <2>2 DEF IsManager
<1>6. /\ n.height = m.height /\ n.block_hash = m.block_hash /\ n.block_undo_data = m.block_undo_data
      /\ n.panicked = m.panicked
  BY <1>4 DEF SameChain
<1>7. FieldsOK(n)
  BY <1>2, <1>4, <1>5, <1>6, Zenon DEF FieldsOK
<1>8. SnapshotsOK(n) /\ Chain(n) = Chain(m) /\ \A k : CreatedUpTo(n, k) = CreatedUpTo(m, k)
  BY <1>4, SameChainIs
<1>9. UtxoOK(m) /\ (UtxoOK(m) => UtxoOK(n))
  BY <1>4, <1>6, <1>8, Zenon DEF UtxoOK, BackedOK
<1>10. BackedOK(n)
  BY <1>4, <1>6, <1>9, Zenon DEF BackedOK
<1> QED
  BY <1>7, <1>8, <1>10

----------------------------------------------------------------------------
(* Restoring a snapshot. *)
LEMMA RestoreIs ==
  ASSUME NEW m, FieldsOK(m), SnapshotsOK(m), NEW i \in DOMAIN m.snapshots,
         NEW n, n = RestoreFromSnapshot(m, m.snapshots[i].root, m.snapshots[i].height).m
  PROVE  FieldsOK(n) /\ SnapshotsOK(n) /\ RestoreOK(n)
<1> DEFINE root == m.snapshots[i].root
           height == m.snapshots[i].height
           found == {j \in DOMAIN m.snapshots : m.snapshots[j].height = height /\ m.snapshots[j].root = root}
           t == NewTree(m.snapshot_storages[i])
           a == Prefix(m.snapshots, i)
           c == Prefix(m.snapshot_storages, i)
           b == BlockHashAt(m, i)
<1>1. /\ IsSeq(m.snapshots) /\ Len(m.snapshots) = m.height + 1 /\ Len(m.snapshot_storages) = m.height + 1
      /\ m.height \in Nat /\ IsManager(m)
  BY DEF SnapshotsOK, FieldsOK
<1>2. DOMAIN m.snapshots = 1 .. m.height + 1
  BY <1>1, SeqIs
<1>3. \A j \in 1 .. m.height + 1 : m.snapshots[j].height = j - 1
  BY <1>1, SnapshotTypes
<1>4. found = {i} /\ height = i - 1 /\ i \in 1 .. m.height + 1
  BY <1>1, <1>2, <1>3
<1>5. Min(found) = i
  <2>1. i \in Int
    BY <1>4
  <2>2. \E x \in {i} : \A y \in {i} : x <= y
    BY <2>1
  <2> HIDE DEF found
  <2> QED
    BY <1>4, <2>2 DEF Min
<1>6. n = [m EXCEPT !.tree = t, !.height = height, !.snapshots = a, !.snapshot_storages = c, !.block_hash = b]
  <2>1. ~ (found = {} \/ Min(found) > Len(m.snapshot_storages))
    BY <1>1, <1>4, <1>5
  <2> HIDE DEF height, root
  <2>2. RestoreFromSnapshot(m, root, height).m =
            [m EXCEPT !.tree = NewTree(m.snapshot_storages[Min(found)]), !.height = height,
                      !.snapshots = Prefix(m.snapshots, Min(found)),
                      !.snapshot_storages = Prefix(m.snapshot_storages, Min(found)),
                      !.block_hash = BlockHashAt(m, Min(found))]
    BY <2>1 DEF RestoreFromSnapshot
  <2>3. n = RestoreFromSnapshot(m, root, height).m
    BY Zenon DEF root, height
  <2> HIDE DEF found
  <2> QED
    BY <1>5, <2>2, <2>3, Zenon
<1>7. /\ m.snapshots[i].root = m.snapshot_storages[i] /\ IsFun(m.snapshots[i].root)
      /\ m.snapshots[i].last_block_hash \in Block \cup {NoBlock}
  BY <1>1, <1>4, SnapshotTypes
<1>8. DOMAIN t = {"leaves", "pruned"} /\ t.leaves = m.snapshot_storages[i]
  BY DEF NewTree
<1>9. b = m.snapshots[i].last_block_hash
  BY DEF BlockHashAt
<1> HIDE DEF t, a, c, b, height, root, found
<1>10. /\ n.tree = t /\ n.height = height /\ n.snapshots = a /\ n.snapshot_storages = c /\ n.block_hash = b
       /\ n.supply = m.supply /\ n.utxo = m.utxo /\ n.outpoint_to_key = m.outpoint_to_key
       /\ n.prune_markers = m.prune_markers /\ n.block_undo_data = m.block_undo_data
       /\ n.panicked = m.panicked
  BY <1>1, <1>6 DEF IsManager, Fields
<1>11. IsManager(n)
  <2>1. IsFun([m EXCEPT !.tree = t, !.height = height, !.snapshots = a, !.snapshot_storages = c, !.block_hash = b])
    BY <1>1 DEF IsManager, Fields, IsFun
  <2>2. DOMAIN n = Fields
    BY <1>1, <1>6 DEF IsManager, Fields
  <2>3. IsFun(n)
    BY <1>6, <2>1, Zenon
  <2> QED
    BY <1>8, <1>10, <2>2, <2>3 DEF IsManager
<1>12. FieldsOK(n)
  <2>1. n.height \in Nat
    BY <1>4, <1>10
  <2>2. IsFun(n.tree.leaves) /\ n.block_hash \in Block \cup {NoBlock}
    BY <1>7, <1>8, <1>9, <1>10
  <2> QED
    BY <1>10, <1>11, <2>1, <2>2, Zenon DEF FieldsOK
<1>13. SnapshotsOK(n) /\ Top(n) = m.snapshots[i]
  <2> DEFINE h == i - 1
  <2>1. h \in 0 .. m.height /\ h + 1 = i /\ n.height = h
    BY <1>1, <1>4, <1>10
  <2>2. n.snapshots = Prefix(m.snapshots, h + 1) /\ n.snapshot_storages = Prefix(m.snapshot_storages, h + 1)
    BY <1>10, <2>1 DEF a, c
  <2> HIDE DEF h
  <2>3. SnapshotsOK(n) /\ Top(n) = m.snapshots[h + 1]
    BY <1>1, <2>1, <2>2, CutSnapshots
  <2> QED
    BY <2>1, <2>3
<1>14. RestoreOK(n)
  BY <1>7, <1>8, <1>9, <1>10, <1>13 DEF RestoreOK
<1> QED
  BY <1>12, <1>13, <1>14

(* What a block that was offered leaves, with each way back. *)
LEMMA ApplyKeeps ==
  ASSUME BlocksDistinct, NEW m, FieldsOK(m), SnapshotsOK(m), NEW b \in Block, b \notin ToSet(Chain(m)),
         NEW n, n = ApplyBlock(m, b).m
  PROVE  /\ FieldsOK(n) /\ SnapshotsOK(n)
         /\ RestoreOK(m) => RestoreOK(n)
         /\ UndoneOK(m) => UndoneOK(n)
         /\ BackedOK(m) => BackedOK(n)
<1>1. PICK s : s = ExecuteBlock(m, b)
  OBVIOUS
<1>2. PICK r : r = ApplyBlock(m, b)
  OBVIOUS
<1>3. Len(m.snapshots) = m.height + 1
  BY DEF SnapshotsOK
<1>4. \/ ~s.ok /\ r.ok = FALSE /\ r.m = m
      \/ s.ok /\ r.ok = TRUE /\ Applied(m, b, s, r.m)
  BY <1>1, <1>2, <1>3, ApplyCases
<1>5. n = r.m
  BY <1>2
<1>6. CASE n = m
  BY <1>6
<1>7. CASE s.ok /\ Applied(m, b, s, n)
  <2>1. Executed(m, s)
    BY <1>1, FrameBlock
  <2>2. FieldsOK(n)
    BY <1>7, <2>1, ApplyFields
  <2>3. SnapshotsOK(n) /\ Top(n).root = n.tree.leaves /\ Top(n).last_block_hash = b
    BY <1>7, <2>1, ApplySnapshots
  <2>4. n.block_hash = b
    BY <1>7 DEF Applied
  <2>5. RestoreOK(n)
    BY <2>3, <2>4 DEF RestoreOK
  <2>6. UndoneOK(m) => UndoneOK(n)
    BY <1>1, <1>7, ApplyUndone
  <2>7. BackedOK(m) => BackedOK(n)
    BY <1>1, <1>7, ApplyBacked
  <2> QED
    BY <2>2, <2>3, <2>5, <2>6, <2>7
<1> QED
  BY <1>4, <1>5, <1>6, <1>7

----------------------------------------------------------------------------
(* The invariant is inductive: one step per operation. *)
LEMMA NewManagerSound ==
  FieldsOK(NewManager) /\ SnapshotsOK(NewManager) /\ RollOK(NewManager) /\ RestoreOK(NewManager)
    /\ UndoneOK(NewManager) /\ BackedOK(NewManager)
<1> DEFINE m == NewManager
           e == [x \in {} |-> <<>>]
<1>1. /\ FieldsOK(m) /\ SnapshotsOK(m) /\ m.height = 0 /\ m.supply = 0 /\ m.utxo = e
      /\ m.outpoint_to_key = e /\ m.tree.leaves = e /\ m.block_undo_data = e /\ m.block_hash = NoBlock
      /\ Top(m).root = e /\ Top(m).total_supply = 0 /\ Top(m).last_block_hash = NoBlock
  BY NewManagerIs
<1>2. DOMAIN e = {} /\ LeavesOK(e) /\ e = Identity({})
  BY DEF LeavesOK, IsFun, Identity
<1> HIDE DEF m, e
<1>3. RollOK(m)
  <2>1. \A i \in 1 .. m.height + 1 : i = m.height + 1
    BY <1>1
  <2>2. \A i \in 1 .. m.height + 1 : LeavesOK(m.snapshots[i].root)
    BY <1>1, <1>2, <2>1, Zenon DEF Top
  <2> QED
    BY <1>1, <2>2 DEF RollOK
<1>4. RestoreOK(m)
  BY <1>1 DEF RestoreOK
<1>5. 1 .. m.height = {} /\ ~ (m.height > 0)
  BY <1>1
<1>6. CreatedUpTo(m, m.height) = {} /\ SpentUpTo(m, m.height) = {}
  BY <1>5 DEF CreatedUpTo, SpentUpTo
<1>7. UtxoOK(m) /\ Sum(Worth, DOMAIN m.utxo) = m.supply
  <2>1. IsFiniteSet({}) /\ Sum(Worth, {}) = 0
    BY FS_EmptySet, SumRemove
  <2>2. ToSet(Chain(m)) = {}
    <3>1. m.height \in Nat
      BY <1>1
    <3>2. ToSet(Chain(m)) = {Chain(m)[i] : i \in 1 .. m.height}
      BY <1>1, <3>1, ChainIs
    <3> QED
      BY <1>5, <3>2
  <2> QED
    BY <1>1, <1>2, <1>6, <2>1, <2>2 DEF UtxoOK
<1>8. UndoneOK(m)
  BY <1>1, <1>2, <1>5, <1>6, <1>7 DEF UndoneOK
<1>9. BackedOK(m)
  <2>1. m.supply <= MAX_GLOBAL_SUPPLY_NANO_SLUG
    <3>1. MAX_GLOBAL_SUPPLY_NANO_SLUG \in Nat
      BY StateAssumption, Zenon
    <3> QED
      BY <1>1, <3>1
  <2> QED
    BY <1>1, <1>2, <1>5, <1>7, <2>1 DEF BackedOK
<1> QED
  BY <1>1, <1>3, <1>4, <1>8, <1>9, Zenon DEF m

(* Every step, in every use of the manager, keeps the invariant. *)
LEMMA StateInductive ==
  ASSUME BlocksDistinct, StateInv, [StateNext]_stateVars
  PROVE  StateInv'
<1> PICK m : m = sm
  OBVIOUS
<1> PICK n : n = sm'
  OBVIOUS
<1> DEFINE Keeps(k) == /\ FieldsOK(k) /\ SnapshotsOK(k)
                       /\ usage = "rollback" => RollOK(k)
                       /\ usage = "restore" => RestoreOK(k)
                       /\ usage = "undo" => UndoneOK(k)
                       /\ usage = "prune" => BackedOK(k)
<1>1. Keeps(m)
  BY Zenon DEF StateInv
<1>2. usage \in {"undo", "rollback", "restore", "prune"}
  BY DEF StateInv
<1>3. ASSUME NEW b \in Block, Apply(b) \/ Connect(b) PROVE Keeps(n)
  <2>1. b \notin ToSet(Chain(m)) /\ (n = ApplyBlock(m, b).m \/ n = ConnectBlock(m, b).m)
    BY <1>3, Zenon DEF Apply, Connect, Offered
  <2>2. n = m \/ n = ApplyBlock(m, b).m
    BY <2>1, ConnectIs, Zenon
  <2>3. CASE n = m
    BY <1>1, <2>3, Zenon
  <2>4. CASE n = ApplyBlock(m, b).m
    <3>1. /\ FieldsOK(n) /\ SnapshotsOK(n) /\ (RestoreOK(m) => RestoreOK(n))
          /\ (UndoneOK(m) => UndoneOK(n)) /\ (BackedOK(m) => BackedOK(n))
      BY <1>1, <2>1, <2>4, ApplyKeeps
    <3>2. RollOK(m) => RollOK(n)
      BY <2>1, <2>4, ApplyRolls, Zenon
    <3> QED
      BY <1>1, <3>1, <3>2
  <2> QED
    BY <2>2, <2>3, <2>4
<1>4. ASSUME DisconnectTip PROVE Keeps(n)
  <2> DEFINE b == Chain(m)[m.height]
             k == DisconnectBlock(m, b).m
  <2>1. usage = "undo" /\ Chain(m) # <<>> /\ n = DisconnectBlock(m, Last(Chain(m))).m
    BY <1>4 DEF DisconnectTip
  <2>2. m.height \in Nat
    BY <1>1 DEF FieldsOK
  <2>3. /\ Last(Chain(m)) = b /\ DOMAIN Chain(m) = 1 .. m.height
        /\ ToSet(Chain(m)) = {Chain(m)[i] : i \in 1 .. m.height}
    BY <1>1, <2>2, ChainIs
  <2>4. m.height > 0
    <3>1. Len(m.snapshots) - 1 = m.height
      BY <1>1, <2>2 DEF SnapshotsOK
    <3>2. m.height = 0 => Chain(m) = <<>>
      <4>1. ASSUME m.height = 0 PROVE Chain(m) = <<>>
        <5>1. Len(m.snapshots) - 1 = 0
          BY <3>1, <4>1
        <5>2. Chain(m) = [i \in 1 .. 0 |-> m.snapshots[i + 1].last_block_hash]
          BY <5>1, Zenon DEF Chain
        <5> QED
          BY <5>2
      <4> QED
        BY <4>1
    <3> QED
      BY <2>1, <2>2, <3>2
  <2>5. UndoneOK(m) /\ n = k
    BY <1>1, <2>1, <2>3, Zenon
  <2>6. m.height \in 1 .. m.height
    BY <2>2, <2>4
  <2>7. b \in DOMAIN m.block_undo_data /\ UndoOK(m.block_undo_data[b], CreatedBy(b), SpentBy(b))
    BY <2>3, <2>5, <2>6 DEF UndoneOK, UtxoOK
  <2> HIDE DEF b
  <2>8. Disconnected(m, b, m.block_undo_data[b], CreatedBy(b), SpentBy(b), k)
    BY <1>1, <2>4, <2>7, DisconnectIs
  <2> HIDE DEF k
  <2>9. FieldsOK(k) /\ SnapshotsOK(k) /\ UndoneOK(k)
    <3>1. Chain(m)[m.height] = b
      BY DEF b
    <3> QED
      BY <1>1, <2>4, <2>5, <2>8, <3>1, DisconnectUndone
  <2> QED
    BY <2>1, <2>5, <2>9
<1>5. ASSUME NEW h \in 0 .. (sm.height + 1), RollBackTo(h) PROVE Keeps(n)
  <2>1. usage = "rollback" /\ (n = RollbackState(m, h).m \/ n = Rollback(m, h).m)
    BY <1>5 DEF RollBackTo
  <2>2. h \in Nat /\ RollOK(m)
    BY <1>1, <2>1 DEF RollOK, FieldsOK
  <2>3. RollOK(n)
    <3> DEFINE k == RollbackState(m, h).m
    <3>1. Rollback(m, h).m = k /\ RollOK(k)
      BY <2>2, RollbackRolls
    <3> QED
      BY <2>1, <3>1, Zenon
  <2>4. FieldsOK(n) /\ SnapshotsOK(n)
    BY <2>3 DEF RollOK
  <2> QED
    BY <2>1, <2>3, <2>4
<1>6. ASSUME NEW i \in DOMAIN sm.snapshots, RestoreSnapshot(i) PROVE Keeps(n)
  <2>1. /\ usage = "restore" /\ i \in DOMAIN m.snapshots
        /\ n = RestoreFromSnapshot(m, m.snapshots[i].root, m.snapshots[i].height).m
    BY <1>6 DEF RestoreSnapshot
  <2>2. FieldsOK(n) /\ SnapshotsOK(n) /\ RestoreOK(n)
    BY <1>1, <2>1, RestoreIs
  <2> QED
    BY <2>1, <2>2
<1>7. ASSUME NEW op \in DOMAIN sm.utxo, Mark(op, 1) PROVE Keeps(n)
  <2>1. usage = "prune" /\ n = MarkOutpointForPruning(m, op, 1)
    BY <1>7 DEF Mark
  <2>2. FieldsOK(n) /\ SnapshotsOK(n) /\ BackedOK(n)
    BY <1>1, <2>1, MarkIs
  <2> QED
    BY <2>1, <2>2
<1>8. ASSUME PruneCycle(1) PROVE Keeps(n)
  <2>1. PICK order \in SetToSeqs(DueForPruning(m, 1)) : n = ExecutePruningCycle(m, order).m
    BY <1>8, Zenon DEF PruneCycle
  <2>2. usage = "prune"
    BY <1>8 DEF PruneCycle
  <2>3. FieldsOK(n) /\ SnapshotsOK(n) /\ BackedOK(n)
    BY <1>1, <2>1, <2>2, PruneAll
  <2> QED
    BY <2>2, <2>3
<1>9. CASE UNCHANGED stateVars
  BY <1>9 DEF StateInv, stateVars
<1>10. CASE StateNext
  <2>1. Keeps(n)
    <3> HIDE DEF Keeps
    <3> QED
      BY <1>3, <1>4, <1>5, <1>6, <1>7, <1>8, <1>10, Zenon DEF StateNext
  <2>2. usage' = usage
    BY <1>10 DEF StateNext, Apply, Connect, DisconnectTip, RollBackTo, RestoreSnapshot, Mark, PruneCycle
  <2> QED
    BY <1>2, <2>1, <2>2, Zenon DEF StateInv
<1> QED
  BY <1>9, <1>10

----------------------------------------------------------------------------
(* What the invariant says of the chain state. *)
LEMMA UtxoSumIs ==
  ASSUME BlocksDistinct, NEW m, Covered(m), IsFun(m.utxo)
  PROVE  UtxoSum(m.utxo) = Sum(Worth, DOMAIN m.utxo)
<1> DEFINE D == DOMAIN m.utxo
           v == [op \in D |-> m.utxo[op].value]
<1>1. UtxoSum(m.utxo) = Sum(v, DOMAIN v)
  BY Zenon DEF UtxoSum, SumFunction, SumFunctionOnSet, FoldFunctionOnSet, Sum, MapThenSumSet
<1>2. DOMAIN v = D
  OBVIOUS
<1>3. IsFiniteSet(D) /\ D \subseteq AllOutputs /\ \A op \in D : m.utxo[op] = OutputOf(op)
  BY DEF Covered
<1>4. \A op \in D : Worth[op] \in Nat /\ v[op] = Worth[op]
  BY <1>3, WorthIs
<1> HIDE DEF D, v
<1>5. Sum(v, D) = Sum(Worth, D)
  BY <1>3, <1>4, SumSame
<1> QED
  BY <1>1, <1>2, <1>5, Zenon DEF D

(* With undo data in order, the UTXO set is the one the chain defines. *)
LEMMA ChainUtxoIs ==
  ASSUME NEW m, m.height \in Nat, SnapshotsOK(m), IsFun(m.utxo), UndoneOK(m)
  PROVE  m.utxo = ChainUtxo(m)
<1> DEFINE D == CreatedUpTo(m, m.height) \ SpentUpTo(m, m.height)
<1>1. ToSet(Chain(m)) = {Chain(m)[i] : i \in 1 .. m.height}
  BY ChainIs
<1>2. /\ UNION {CreatedBy(b) : b \in ToSet(Chain(m))} = CreatedUpTo(m, m.height)
      /\ UNION {SpentBy(b) : b \in ToSet(Chain(m))} = SpentUpTo(m, m.height)
  BY <1>1 DEF CreatedUpTo, SpentUpTo
<1>3. DOMAIN m.utxo = D /\ \A op \in DOMAIN m.utxo : m.utxo[op] = OutputOf(op)
  BY DEF UndoneOK, UtxoOK
<1> HIDE DEF D
<1>4. m.utxo = [op \in D |-> OutputOf(op)]
  BY <1>3 DEF IsFun
<1> QED
  BY <1>2, <1>4, Zenon DEF ChainUtxo, D

(* The invariant implies what the run checks of the chain state. *)
LEMMA SoundFromInv ==
  ASSUME BlocksDistinct, StateInv
  PROVE  ChainStateSound
<1> PICK m : m = sm
  OBVIOUS
<1>1. FieldsOK(m) /\ SnapshotsOK(m)
  BY Zenon DEF StateInv
<1>2. /\ m.height \in Nat /\ m.supply \in Nat /\ m.block_hash \in Block \cup {NoBlock}
      /\ DOMAIN m.block_undo_data \subseteq Block /\ ~m.panicked /\ IsFun(m.utxo)
  BY <1>1 DEF FieldsOK
<1>3. StateTypeOK
  BY <1>2 DEF StateTypeOK
<1>4. UtxoIsChainState
  <2>1. ASSUME usage = "undo" PROVE m.utxo = ChainUtxo(m)
    <3>1. UndoneOK(m)
      BY <2>1, Zenon DEF StateInv
    <3> QED
      BY <1>1, <1>2, <3>1, ChainUtxoIs
  <2> QED
    BY <2>1, Zenon DEF UtxoIsChainState
<1>5. /\ IsSeq(m.snapshots) /\ Len(m.snapshots) = m.height + 1 /\ Len(m.snapshot_storages) = m.height + 1
  BY <1>1 DEF SnapshotsOK
<1>6. Last(m.snapshots) = Top(m) /\ DOMAIN m.snapshots = 1 .. m.height + 1
  BY <1>5, SeqIs DEF Last, Top
<1>7. \A i \in 1 .. m.height + 1 :
        /\ m.snapshots[i].height = i - 1
        /\ m.snapshots[i].total_supply <= MAX_GLOBAL_SUPPLY_NANO_SLUG
  BY <1>1, <1>2, SnapshotTypes
<1>8. SupplyConsistent
  <2>1. ASSUME usage = "undo" PROVE m.supply = UtxoSum(m.utxo)
    <3>1. UndoneOK(m)
      BY <2>1, Zenon DEF StateInv
    <3>2. UtxoOK(m) /\ Sum(Worth, DOMAIN m.utxo) = m.supply
      BY <3>1 DEF UndoneOK
    <3>3. Covered(m)
      BY <1>1, <3>2, UtxoCovered
    <3> QED
      BY <1>2, <3>2, <3>3, UtxoSumIs
  <2>2. ASSUME usage = "rollback"
        PROVE  /\ m.supply <= MAX_GLOBAL_SUPPLY_NANO_SLUG
               /\ m.height > 0 => m.tree.leaves[SUPPLY_KEY] = <<"supply", m.supply>>
    <3>1. RollOK(m)
      BY <2>2, Zenon DEF StateInv
    <3>2. m.tree.leaves = Top(m).root /\ m.supply = Top(m).total_supply
      BY <3>1 DEF RollOK
    <3>3. m.height + 1 \in 1 .. m.height + 1
      BY <1>2
    <3>4. m.supply <= MAX_GLOBAL_SUPPLY_NANO_SLUG
      BY <1>7, <3>2, <3>3 DEF Top
    <3>5. ASSUME m.height > 0 PROVE m.tree.leaves[SUPPLY_KEY] = <<"supply", m.supply>>
      <4>1. m.height + 1 > 1
        BY <1>2, <3>5
      <4>2. Committed(Top(m).root, Top(m).total_supply)
        BY <1>1, <3>3, <4>1 DEF SnapshotsOK, SnapshotOK, Top
      <4> QED
        BY <3>2, <4>2 DEF Committed
    <3> QED
      BY <3>4, <3>5
  <2>3. ASSUME usage = "prune"
        PROVE  /\ m.supply <= MAX_GLOBAL_SUPPLY_NANO_SLUG
               /\ m.height > 0 => m.tree.leaves[SUPPLY_KEY] = <<"supply", m.supply>>
    <3>1. BackedOK(m)
      BY <2>3, Zenon DEF StateInv
    <3> QED
      BY <3>1 DEF BackedOK, Committed
  <2> QED
    BY <2>1, <2>2, <2>3 DEF SupplyConsistent
<1>9. SnapshotsConsistent
  <2>1. ASSUME usage \in {"rollback", "restore"} PROVE m.tree.leaves = Last(m.snapshots).root
    <3>1. RollOK(m) \/ RestoreOK(m)
      BY <2>1 DEF StateInv
    <3> QED
      BY <1>6, <3>1 DEF RollOK, RestoreOK
  <2>2. ASSUME usage = "restore" PROVE m.block_hash = Last(m.snapshots).last_block_hash
    <3>1. RestoreOK(m)
      BY <2>2, Zenon DEF StateInv
    <3> QED
      BY <1>6, <3>1 DEF RestoreOK
  <2> QED
    BY <1>5, <1>6, <1>7, <2>1, <2>2 DEF SnapshotsConsistent
<1>10. UtxoBackedByTree
  <2>1. ASSUME usage = "prune"
        PROVE  /\ DOMAIN m.outpoint_to_key = DOMAIN m.utxo
               /\ \A op \in DOMAIN m.utxo :
                    LET key == m.outpoint_to_key[op]
                    IN  key \in DOMAIN m.tree.leaves /\ m.tree.leaves[key] = OutputValue(m.utxo[op])
    <3>1. BackedOK(m)
      BY <2>1, Zenon DEF StateInv
    <3>2. DOMAIN m.outpoint_to_key = DOMAIN m.utxo /\ \A op \in DOMAIN m.utxo : m.outpoint_to_key[op] = op
      BY <3>1 DEF BackedOK, Identity
    <3> QED
      BY <3>1, <3>2 DEF BackedOK
  <2> QED
    BY <2>1, Zenon DEF UtxoBackedByTree
<1> QED
  BY <1>3, <1>4, <1>8, <1>9, <1>10, Zenon DEF ChainStateSound

(* Disconnecting the block just applied gives back the state. *)
LEMMA UndoIsInverse ==
  ASSUME BlocksDistinct, NEW m, FieldsOK(m), SnapshotsOK(m), UtxoOK(m), NEW b \in Block, b \notin ToSet(Chain(m)),
         NEW s, s = ExecuteBlock(m, b), s.ok, NEW n, Applied(m, b, s, n), NEW d, d = DisconnectBlock(n, b).m
  PROVE  d.utxo = m.utxo /\ d.supply = m.supply /\ d.height = m.height /\ d.snapshots = m.snapshots
<1> DEFINE C == CreatedBy(b)
           S == SpentBy(b)
           u == n.block_undo_data[b]
<1>1. /\ Money(m, s, C, S) /\ FieldsOK(n) /\ SnapshotsOK(n) /\ n.height = m.height + 1
      /\ s.undo.delta \in Int /\ n.supply = m.supply + s.undo.delta
  BY ApplyUtxo
<1>2. n.block_undo_data = Put(m.block_undo_data, b, s.undo) /\ n.utxo = s.m.utxo
  BY DEF Applied
<1>3. b \in DOMAIN n.block_undo_data /\ u = s.undo
  BY <1>2 DEF Put
<1>4. m.height \in Nat /\ m.supply \in Nat /\ n.height > 0
  <2>1. m.height \in Nat /\ m.supply \in Nat
    BY DEF FieldsOK
  <2> QED
    BY <1>1, <2>1
<1> HIDE DEF C, S, u
<1>5. /\ UndoOK(s.undo, C, S) /\ C \cap DOMAIN m.utxo = {} /\ S \subseteq DOMAIN m.utxo
      /\ DOMAIN s.m.utxo = (DOMAIN m.utxo \ S) \cup C
      /\ \A op \in DOMAIN s.m.utxo : s.m.utxo[op] = OutputOf(op)
  BY <1>1 DEF Money
<1>6. UndoOK(u, C, S)
  BY <1>3, <1>5
<1>7. Disconnected(n, b, u, C, S, d)
  BY <1>1, <1>3, <1>4, <1>6, DisconnectIs DEF u
<1>8. d.height = m.height
  BY <1>1, <1>4, <1>7 DEF Disconnected
<1>9. d.supply = m.supply
  <2>1. d.supply = UndoSupply(m.supply + s.undo.delta, s.undo.delta)
    BY <1>1, <1>3, <1>7 DEF Disconnected
  <2> QED
    BY <1>1, <1>4, <2>1, SupplyBack
<1>10. d.utxo = m.utxo
  <2>1. DOMAIN d.utxo = DOMAIN m.utxo /\ IsFun(d.utxo)
    BY <1>2, <1>5, <1>7 DEF Disconnected
  <2>2. \A op \in DOMAIN m.utxo : m.utxo[op] = OutputOf(op)
    BY DEF UtxoOK
  <2>3. ASSUME NEW op \in DOMAIN m.utxo PROVE d.utxo[op] = OutputOf(op)
    <3>1. d.utxo[op] = IF op \in S THEN OutputOf(op) ELSE n.utxo[op]
      BY <1>7, <2>1 DEF Disconnected
    <3>2. op \notin S => n.utxo[op] = OutputOf(op)
      BY <1>2, <1>5
    <3> QED
      BY <3>1, <3>2
  <2>4. IsFun(m.utxo)
    BY DEF FieldsOK
  <2> QED
    BY <2>1, <2>2, <2>3, <2>4 DEF IsFun
<1>11. d.snapshots = m.snapshots
  <2>1. PICK snap : n.snapshots = Append(m.snapshots, snap)
    BY DEF Applied
  <2>2. IsSeq(m.snapshots) /\ Len(m.snapshots) = m.height + 1
    BY DEF SnapshotsOK
  <2>3. /\ IsSeq(n.snapshots) /\ Len(n.snapshots) = m.height + 2
        /\ \A i \in 1 .. m.height + 1 : n.snapshots[i] = m.snapshots[i]
    BY <1>4, <2>1, <2>2, AppendIs
  <2> DEFINE p == Prefix(n.snapshots, m.height + 1)
  <2>4. d.snapshots = p
    BY <1>1, <1>7 DEF Disconnected
  <2>5. m.height + 1 \in Nat /\ m.height + 1 <= Len(n.snapshots)
    BY <1>4, <2>3
  <2>6. /\ IsSeq(p) /\ Len(p) = m.height + 1
        /\ \A i \in 1 .. m.height + 1 : p[i] = n.snapshots[i]
    BY <2>3, <2>5, PrefixIs
  <2> HIDE DEF p
  <2>7. p = m.snapshots
    BY <2>2, <2>3, <2>6, SameSeq
  <2> QED
    BY <2>4, <2>7
<1> QED
  BY <1>8, <1>9, <1>10, <1>11

(* It implies that a block can be applied and undone. *)
LEMMA UndoFromInv ==
  ASSUME BlocksDistinct, StateInv
  PROVE  ApplyAndUndoSound
<1> PICK m : m = sm
  OBVIOUS
<1>1. FieldsOK(m) /\ SnapshotsOK(m)
  BY Zenon DEF StateInv
<1>2. Len(m.snapshots) = m.height + 1
  BY <1>1 DEF SnapshotsOK
<1>3. ASSUME NEW b \in Block
      PROVE  \/ ~ExecuteBlock(m, b).ok /\ ApplyBlock(m, b).ok = FALSE /\ ApplyBlock(m, b).m = m
             \/ /\ ExecuteBlock(m, b).ok /\ ApplyBlock(m, b).ok = TRUE
                /\ Applied(m, b, ExecuteBlock(m, b), ApplyBlock(m, b).m)
  BY <1>1, <1>2, ApplyCases
<1>4. FailedApplyIsNoop
  <2>1. ASSUME NEW b \in Block PROVE ApplyBlock(m, b).ok \/ ApplyBlock(m, b).m = m
    BY <1>3
  <2> QED
    BY <2>1, Zenon DEF FailedApplyIsNoop
<1>5. ASSUME usage \in {"undo", "prune"} PROVE UtxoOK(m)
  BY <1>5 DEF StateInv, UndoneOK, BackedOK
<1>6. UndoInverts
  <2>1. ASSUME usage \in {"undo", "prune"}, NEW b \in Block, Offered(b), ApplyBlock(m, b).ok
        PROVE  LET d == DisconnectBlock(ApplyBlock(m, b).m, b).m
               IN  d.utxo = m.utxo /\ d.supply = m.supply /\ d.height = m.height /\ d.snapshots = m.snapshots
    <3>1. b \notin ToSet(Chain(m))
      BY <2>1, Zenon DEF Offered
    <3>2. ExecuteBlock(m, b).ok /\ Applied(m, b, ExecuteBlock(m, b), ApplyBlock(m, b).m)
      BY <1>3, <2>1
    <3>3. UtxoOK(m)
      BY <1>5, <2>1
    <3>4. PICK s : s = ExecuteBlock(m, b)
      OBVIOUS
    <3>5. PICK n : n = ApplyBlock(m, b).m
      OBVIOUS
    <3>6. PICK d : d = DisconnectBlock(n, b).m
      OBVIOUS
    <3>7. s.ok /\ Applied(m, b, s, n)
      BY <3>2, <3>4, <3>5
    <3>8. d.utxo = m.utxo /\ d.supply = m.supply /\ d.height = m.height /\ d.snapshots = m.snapshots
      BY <1>1, <3>1, <3>3, <3>4, <3>6, <3>7, UndoIsInverse
    <3> QED
      BY <3>5, <3>6, <3>8, Zenon
  <2> QED
    BY <2>1, Zenon DEF UndoInverts
<1>7. UndoDataIsChain
  BY <1>5 DEF UndoDataIsChain, UtxoOK
<1> QED
  BY <1>4, <1>6, <1>7, Zenon DEF ApplyAndUndoSound

(* The invariant holds in every state. *)
LEMMA StateInvAlways ==
  ASSUME BlocksDistinct
  PROVE  StateSpec => []StateInv
<1>1. StateInit => StateInv
  <2> SUFFICES ASSUME StateInit PROVE StateInv
    OBVIOUS
  <2>1. sm = NewManager /\ usage \in {"undo", "rollback", "restore", "prune"}
    BY DEF StateInit
  <2> QED
    BY <2>1, NewManagerSound, Zenon DEF StateInv
<1>2. StateInv /\ [StateNext]_stateVars => StateInv'
  BY StateInductive
<1> QED
  BY <1>1, <1>2, PTL DEF StateSpec

(* The UTXO set, the supply, the snapshots and the tree describe one chain, *)
(* after any sequence of blocks applied, refused half-way, disconnected,    *)
(* rolled back, restored and pruned (state_manager.rs), for any blocks with *)
(* distinct transactions.                                                   *)
THEOREM ChainStateAlwaysSound ==
  ASSUME BlocksDistinct
  PROVE  StateSpec => []ChainStateSound
<1>1. StateInv => ChainStateSound
  BY SoundFromInv
<1> QED
  BY <1>1, StateInvAlways, PTL

(* apply_block is atomic in every reachable state, and the undo data it     *)
(* leaves lets disconnect_block take the block back.                        *)
THEOREM ApplyAlwaysUndoable ==
  ASSUME BlocksDistinct
  PROVE  StateSpec => []ApplyAndUndoSound
<1>1. StateInv => ApplyAndUndoSound
  BY UndoFromInv
<1> QED
  BY <1>1, StateInvAlways, PTL

============================================================================
