---------------------------- MODULE StateManager ----------------------------
(***************************************************************************)
(* The chain state of klomang-core (src/core/state_manager.rs): applying a *)
(* block to the UTXO set and the Verkle tree, undoing it, reorganising a   *)
(* list of blocks, rolling back to a snapshot and pruning.                 *)
(*                                                                         *)
(* sm holds the fields of the StateManager struct and the UTXO set every   *)
(* operation takes as `&mut UtxoSet`.  The code works on `&mut self`, so   *)
(* one call is one step.  An operator that models a call returns           *)
(* [ok, m]: whether it is Ok(()), and the state it leaves.                 *)
(*                                                                         *)
(* The Verkle tree is the function from its keys to its values; its root   *)
(* is that function, a commitment to all of it.  A transaction is a record *)
(*   [id, inputs, outputs, exec, writes, gas_fee, max_gas_fee]             *)
(* where exec is "none" for a plain transaction, "fails" for a contract    *)
(* call that is refused for its gas limit or by the VM, "runs" for one     *)
(* that writes `writes` (slot to value) and costs gas_fee.                 *)
(***************************************************************************)
EXTENDS Integers, FiniteSets, SequencesExt

CONSTANTS
    Block,                         \* ids of the blocks that may be applied
    TxsOf,                         \* TxsOf[b]: block.transactions, a sequence
    ProofRoot,                     \* ProofRoot[b]: {header.verkle_root}, or {} when the
                                   \* header has no verkle_proofs
    NoBlock,                       \* current_block_hash before the first block
    MAX_GLOBAL_SUPPLY_NANO_SLUG

Transactions == UNION {ToSet(TxsOf[b]) : b \in Block}
TxOutput == [value : Nat, burn : BOOLEAN]

ASSUME StateAssumption ==
    /\ TxsOf \in [Block -> Seq(Transactions)]
    /\ \A tx \in Transactions :
        tx.inputs \in Seq(ToSet(tx.inputs)) /\ tx.outputs \in Seq(TxOutput) /\ tx.gas_fee \in Nat
    /\ DOMAIN ProofRoot = Block
    /\ MAX_GLOBAL_SUPPLY_NANO_SLUG \in Nat

VARIABLES
    sm,
    usage                          \* the way back the node uses: it undoes blocks at the tip
                                   \* ("undo"), rolls back to a height ("rollback"), restores
                                   \* snapshots ("restore") or only prunes ("prune")

stateVars == <<sm, usage>>

SUPPLY_KEY == <<"supply", 0>>      \* TOTAL_SUPPLY_KEY
MINER_REWARD_PERCENT == 80

Put(f, x, v) == [y \in DOMAIN f \cup {x} |-> IF y = x THEN v ELSE f[y]]    \* HashMap::insert
PutAll(f, g) == [y \in DOMAIN f \cup DOMAIN g |-> IF y \in DOMAIN g THEN g[y] ELSE f[y]]
Drop(f, x) == [y \in DOMAIN f \ {x} |-> f[y]]
SaturatingSub(a, b) == IF a < b THEN 0 ELSE a - b

(* Vec::truncate and pop; the mutant keeps one element too few. *)
MutPrefix(s, n) == SubSeq(s, 1, IF n < Len(s) THEN SaturatingSub(n, 1) ELSE Len(s))
Prefix(s, n) == SubSeq(s, 1, IF n < Len(s) THEN n ELSE Len(s))

UtxoSum(u) == SumFunction([op \in DOMAIN u |-> u[op].value])

----------------------------------------------------------------------------
(* Keys and values of the Verkle tree. *)

(* The index is hashed as four bytes; a key is named by the number these   *)
(* bytes are in big-endian order.  to_le_bytes of an index below 256 has   *)
(* its only non-zero byte first.                                           *)
HashWithIndex(op) == op
LittleEndianKey(op) == <<op[1], op[2] * 2^24>>

OutputValue(o) == <<"output", o.value, o.burn>>
EMPTY_VALUE == <<>>

Insert(tree, key, value) == [tree EXCEPT !.leaves = Put(@, key, value)]

(* VerkleTree::get: a pruned key is an error, also after a new insert.     *)
TreeGet(tree, key) ==
    IF key \in tree.pruned \/ key \notin DOMAIN tree.leaves THEN <<"absent">>
    ELSE tree.leaves[key]

(* apply_state_transition: the burn check comes before the inserts, the    *)
(* check of the supply cap after them.                                     *)
SendsToBurn(updates) == \E i \in DOMAIN updates : updates[i][2].burn

UnderCap(supply) == supply <= MAX_GLOBAL_SUPPLY_NANO_SLUG

WriteUpdate(tree, u) == Insert(tree, u[1], OutputValue(u[2]))

ApplyStateTransition(tree, updates, supply) ==
    LET written == Insert(FoldLeft(WriteUpdate, tree, updates), SUPPLY_KEY, <<"supply", supply>>)
    IN  IF SendsToBurn(updates) THEN [ok |-> FALSE, tree |-> tree]
        ELSE [ok |-> UnderCap(supply), tree |-> written]

NewTree(storage) == [leaves |-> storage, pruned |-> {}]

----------------------------------------------------------------------------
(* apply_block.  Its loops carry the result so far and the undo data; once *)
(* ok is FALSE nothing more is done.                                       *)

CreateGasFeeWitness(fee) ==
    LET miner == (fee * MINER_REWARD_PERCENT) \div 100
    IN  [total |-> fee, miner |-> miner, fullnode |-> SaturatingSub(fee, miner)]

SpendInput(s, op) ==
    IF ~s.ok \/ op \notin DOMAIN s.m.utxo THEN [s EXCEPT !.ok = FALSE]
    ELSE LET o == s.m.utxo[op]
         IN  [s EXCEPT !.undo = [s.undo EXCEPT !.spent = Append(@, <<op, o>>), !.delta = @ - o.value],
                       !.m = [s.m EXCEPT !.supply = SaturatingSub(@, o.value),
                                         !.utxo = Drop(@, op),
                                         !.outpoint_to_key = Drop(@, op),
                                         !.prune_markers = Drop(@, op)]]

(* The outputs with their outpoints, as the loop enumerates them.          *)
NewOutputs(tx) == [i \in DOMAIN tx.outputs |-> <<<<tx.id, i - 1>>, tx.outputs[i]>>]

CreateOutput(s, e) ==
    LET op == e[1]
        o == e[2]
        key == HashWithIndex(op)
    IN  [s EXCEPT !.undo = [s.undo EXCEPT !.verkle = Append(@, <<key, TreeGet(s.m.tree, key)>>),
                                          !.created = Append(@, op),
                                          !.delta = @ + o.value],
                  !.m = [s.m EXCEPT !.utxo = Put(@, op, o),
                                    !.pending_updates = Append(@, <<key, o>>),
                                    !.outpoint_to_key = Put(@, op, key),
                                    !.supply = @ + o.value]]

ApplyUtxoTransaction(s, tx) ==
    LET spent == FoldLeft(SpendInput, s, tx.inputs)
    IN  IF spent.ok THEN FoldLeft(CreateOutput, spent, NewOutputs(tx)) ELSE spent

(* apply_contract_transition: what the VM wrote stays in the tree and is   *)
(* not part of the undo data.                                              *)
ApplyContractTransition(s, tx) ==
    LET w == CreateGasFeeWitness(tx.gas_fee)
    IN  [s EXCEPT !.m = [s.m EXCEPT !.tree = [s.m.tree EXCEPT !.leaves = PutAll(@, tx.writes)],
                                    !.gas_fees = Append(@, w)],
                  !.undo = [s.undo EXCEPT !.gas = Append(@, w)]]

ApplyTransaction(s, tx) ==
    IF ~s.ok \/ tx.exec = "fails" THEN [s EXCEPT !.ok = FALSE]
    ELSE ApplyUtxoTransaction(IF tx.exec = "none" THEN s ELSE ApplyContractTransition(s, tx), tx)

(* The fields a failing apply_block puts back from its snapshot.  The      *)
(* mutants forget the UTXO set and the supply.                             *)
MutRestoreButUtxo(m, old) == [old EXCEPT !.utxo = m.utxo]
MutRestoreButSupply(m, old) == [old EXCEPT !.supply = m.supply]
RestoreFields(m, old) ==
    [m EXCEPT !.tree = old.tree, !.height = old.height, !.supply = old.supply,
              !.gas_fees = old.gas_fees, !.pending_updates = old.pending_updates,
              !.prune_markers = old.prune_markers,
              !.outpoint_to_key = old.outpoint_to_key,
              !.utxo = old.utxo, !.block_hash = old.block_hash]

NoUndo == [spent |-> <<>>, created |-> <<>>, verkle |-> <<>>, delta |-> 0, gas |-> <<>>]

(* The record pushed on snapshots. *)
Snapshot(m) ==
    [height |-> m.height, root |-> m.tree.leaves, total_supply |-> m.supply,
     gas_fees |-> m.gas_fees, last_block_hash |-> m.block_hash]

(* The transactions and the state transition of block b in state m. *)
CommitTree(s) ==
    LET t == ApplyStateTransition(s.m.tree, s.m.pending_updates, s.m.supply)
    IN  IF s.ok THEN [s EXCEPT !.ok = t.ok, !.m = [s.m EXCEPT !.tree = t.tree]] ELSE s

ExecuteBlock(m, b) ==
    LET start == [ok |-> TRUE, m |-> [m EXCEPT !.pending_updates = <<>>, !.gas_fees = <<>>],
                  undo |-> NoUndo]
    IN  CommitTree(FoldLeft(ApplyTransaction, start, TxsOf[b]))

(* The end of apply_block for the outcome s of the execution.  It reads    *)
(* snapshots[height] for a sanity check, which panics when there is no     *)
(* such snapshot.                                                          *)
FinishBlock(m, b, s) ==
    LET n == [s.m EXCEPT !.height = @ + 1, !.block_hash = b]
    IN  IF ~s.ok THEN [ok |-> FALSE, m |-> RestoreFields(s.m, m)]
        ELSE IF m.height >= Len(m.snapshots) THEN [ok |-> FALSE, m |-> [n EXCEPT !.panicked = TRUE]]
        ELSE [ok |-> TRUE,
              m |-> [n EXCEPT !.snapshots = Append(@, Snapshot(n)),
                              !.snapshot_storages = Append(@, n.tree.leaves),
                              !.block_undo_data = Put(@, b, s.undo)]]

ApplyBlock(m, b) == FinishBlock(m, b, ExecuteBlock(m, b))

----------------------------------------------------------------------------
(* Disconnecting and connecting blocks. *)

(* Steps 1 and 2 on the UTXO set: created outputs go, spent ones return.   *)
(* The mutant forgets the second.                                          *)
Without(f, ops) == [op \in DOMAIN f \ ToSet(ops) |-> f[op]]
MutUndoUtxo(utxo, u) == Without(utxo, u.created)
PutBack(utxo, e) == Put(utxo, e[1], e[2])
UndoUtxo(utxo, u) == FoldLeft(PutBack, Without(utxo, u.created), u.spent)

(* Step 4, and a mutant that adds where the code subtracts. *)
MutUndoSupply(supply, delta) == IF delta > 0 THEN supply + delta ELSE supply - delta
UndoSupply(supply, delta) ==
    IF delta > 0 THEN SaturatingSub(supply, delta) ELSE supply - delta

(* Steps 6 and 8, and a mutant that leaves the second out. *)
UndoHeight(height) == SaturatingSub(height, 1)

MutForgetUndo(undo, b) == undo
ForgetUndo(undo, b) == Drop(undo, b)

(* Steps 2 and 3 on the keys and the tree. *)
Rekey(keys, e) == Put(keys, e[1], LittleEndianKey(e[1]))
Unwrite(tree, e) == Insert(tree, e[1], IF e[2] = <<"absent">> THEN EMPTY_VALUE ELSE e[2])

DisconnectBlock(m, b) ==
    LET u == m.block_undo_data[b]
        butLast(s) == Prefix(s, Len(s) - 1)
    IN  IF b \notin DOMAIN m.block_undo_data THEN [ok |-> FALSE, m |-> m]
        ELSE [ok |-> TRUE,
              m |-> [m EXCEPT
                !.utxo = UndoUtxo(@, u),
                !.outpoint_to_key = FoldLeft(Rekey, Without(@, u.created), u.spent),
                !.tree = FoldLeft(Unwrite, @, Reverse(u.verkle)),
                !.supply = UndoSupply(@, u.delta),
                !.gas_fees = Prefix(@, SaturatingSub(Len(@), Len(u.gas))),
                !.height = UndoHeight(@),
                !.snapshots = butLast(@),
                !.snapshot_storages = butLast(@),
                !.block_undo_data = ForgetUndo(@, b)]]

(* validate_block_stateful: every input is in the UTXO set before the      *)
(* block, the declared root is the present one, no transaction inflates.   *)
ValidateBlockStateful(m, b) ==
    \A i \in DOMAIN TxsOf[b] :
        LET tx == TxsOf[b][i]
            known == {op \in ToSet(tx.inputs) : op \in DOMAIN m.utxo}
            input == FoldLeft(LAMBDA t, op : t + IF op \in known THEN m.utxo[op].value ELSE 0,
                              0, tx.inputs)
            output == FoldLeft(LAMBDA t, o : t + o.value, 0, tx.outputs)
        IN  /\ ProofRoot[b] \subseteq {m.tree.leaves}
            /\ tx.inputs # <<>> => /\ ToSet(tx.inputs) = known
                                   /\ input >= output + tx.max_gas_fee

ConnectBlock(m, b) ==
    IF ValidateBlockStateful(m, b) THEN ApplyBlock(m, b) ELSE [ok |-> FALSE, m |-> m]

(* perform_reorganization of the list reorganize_to_tip returned: the      *)
(* longest prefix with undo data is disconnected, from its end to its      *)
(* beginning, the rest is connected.                                       *)
InCurrentChain(m, plan) ==
    Cardinality({i \in DOMAIN plan : \A j \in 1..i : plan[j] \in DOMAIN m.block_undo_data})

PerformReorganization(m, plan) ==
    LET n == InCurrentChain(m, plan)
        disconnect(s, b) == IF s.ok THEN DisconnectBlock(s.m, b) ELSE s
        connect(s, b) == IF s.ok THEN ConnectBlock(s.m, b) ELSE s
        down == FoldLeft(disconnect, [ok |-> TRUE, m |-> m], Reverse(SubSeq(plan, 1, n)))
    IN  FoldLeft(connect, down, SubSeq(plan, n + 1, Len(plan)))

(* reorganize_chain: a failure puts back the scalar fields and the UTXO    *)
(* set; tree, snapshots, undo data and keys stay as they are.              *)
RestoreAfterReorganization(r, m) ==
    IF r.ok \/ r.m.panicked THEN r
    ELSE [ok |-> FALSE,
          m |-> [r.m EXCEPT !.height = m.height, !.supply = m.supply,
                            !.gas_fees = m.gas_fees, !.block_hash = m.block_hash,
                            !.utxo = m.utxo]]

ReorganizeChain(m, plan) == RestoreAfterReorganization(PerformReorganization(m, plan), m)

----------------------------------------------------------------------------
(* Rolling back to a snapshot. *)

(* The storage of height h. *)
StorageAt(m, h) == m.snapshot_storages[h + 1]

RollbackState(m, target) ==
    LET cut == [m EXCEPT !.snapshots = Prefix(@, target + 1),
                         !.snapshot_storages = Prefix(@, target + 1),
                         !.height = target]
        snap == cut.snapshots[target + 1]
        restored == [cut EXCEPT !.tree = NewTree(StorageAt(cut, target)),
                                !.supply = snap.total_supply,
                                !.gas_fees = snap.gas_fees]
    IN  IF target > m.height \/ \A i \in DOMAIN m.snapshots : m.snapshots[i].height # target
        THEN [ok |-> FALSE, m |-> m]
        ELSE IF target >= Len(cut.snapshot_storages) THEN [ok |-> FALSE, m |-> cut]
        ELSE [ok |-> restored.tree.leaves = snap.root, m |-> restored]

(* rollback: rollback_state with the tree, the height, the snapshots, the  *)
(* supply and the fees put back when it fails.                             *)
Rollback(m, target) ==
    LET r == RollbackState(m, target)
    IN  IF r.ok THEN r
        ELSE [ok |-> FALSE,
              m |-> [r.m EXCEPT !.tree = m.tree, !.height = m.height,
                                !.snapshots = m.snapshots,
                                !.snapshot_storages = m.snapshot_storages,
                                !.supply = m.supply, !.gas_fees = m.gas_fees]]

BlockHashAt(m, idx) == m.snapshots[idx].last_block_hash

RestoreFromSnapshot(m, root, height) ==
    LET found == {i \in DOMAIN m.snapshots :
                    m.snapshots[i].height = height /\ m.snapshots[i].root = root}
        idx == Min(found)
    IN  IF found = {} \/ idx > Len(m.snapshot_storages) THEN [ok |-> FALSE, m |-> m]
        ELSE [ok |-> TRUE,
              m |-> [m EXCEPT !.tree = NewTree(m.snapshot_storages[idx]),
                              !.height = height,
                              !.snapshots = Prefix(@, idx),
                              !.snapshot_storages = Prefix(@, idx),
                              !.block_hash = BlockHashAt(m, idx)]]

----------------------------------------------------------------------------
(* Pruning. *)

MarkOutpointForPruning(m, op, epoch) == [m EXCEPT !.prune_markers = Put(@, op, epoch)]

(* One pruned output; the mutant leaves it in the UTXO set. *)
MutPrune(m, op) ==
    [m EXCEPT !.tree.leaves = Drop(@, m.outpoint_to_key[op]),
              !.outpoint_to_key = Drop(@, op), !.prune_markers = Drop(@, op)]
Prune(m, op) ==
    [m EXCEPT !.tree = [leaves |-> Drop(@.leaves, m.outpoint_to_key[op]),
                        pruned |-> @.pruned \cup {m.outpoint_to_key[op]}],
              !.utxo = Drop(@, op),
              !.outpoint_to_key = Drop(@, op),
              !.prune_markers = Drop(@, op)]

(* execute_pruning_cycle visits the due markers in HashMap order and stops *)
(* at the first whose key is not in the tree: order is that order.         *)
PruneDue(s, op) ==
    IF ~s.ok \/ op \notin DOMAIN s.m.outpoint_to_key THEN s
    ELSE IF s.m.outpoint_to_key[op] \notin DOMAIN s.m.tree.leaves
    THEN [s EXCEPT !.ok = FALSE]
    ELSE [s EXCEPT !.m = Prune(s.m, op)]

ExecutePruningCycle(m, order) == FoldLeft(PruneDue, [ok |-> TRUE, m |-> m], order)

DueForPruning(m, threshold) == {op \in DOMAIN m.prune_markers : m.prune_markers[op] <= threshold}

----------------------------------------------------------------------------
(* StateManager::new on an empty tree and an empty UTXO set. *)
NewManager ==
    LET empty == [x \in {} |-> <<>>]
        m == [tree |-> NewTree(empty), height |-> 0, supply |-> 0, gas_fees |-> <<>>,
              pending_updates |-> <<>>, prune_markers |-> empty, outpoint_to_key |-> empty,
              utxo |-> empty, block_hash |-> NoBlock, block_undo_data |-> empty,
              snapshots |-> <<>>, snapshot_storages |-> <<empty>>, panicked |-> FALSE]
    IN  [m EXCEPT !.snapshots = <<Snapshot(m)>>]

StateInit == sm = NewManager /\ usage \in {"undo", "rollback", "restore", "prune"}

(* The blocks of the current chain, oldest first, as the snapshots name them. *)
Chain(m) == [i \in 1..(Len(m.snapshots) - 1) |-> m.snapshots[i + 1].last_block_hash]

(* A caller offers a block that is not in the chain already: Dag::add_block   *)
(* refuses duplicates.                                                        *)
Offered(b) == ~sm.panicked /\ b \notin ToSet(Chain(sm))

Apply(b) == Offered(b) /\ sm' = ApplyBlock(sm, b).m /\ UNCHANGED usage

Connect(b) == Offered(b) /\ sm' = ConnectBlock(sm, b).m /\ UNCHANGED usage

DisconnectTip ==
    /\ usage = "undo" /\ ~sm.panicked /\ Chain(sm) # <<>>
    /\ sm' = DisconnectBlock(sm, Last(Chain(sm))).m
    /\ UNCHANGED usage

(* To any height, also one the chain never had. *)
RollBackTo(h) ==
    /\ usage = "rollback" /\ ~sm.panicked
    /\ sm' \in {RollbackState(sm, h).m, Rollback(sm, h).m}
    /\ UNCHANGED usage

RestoreSnapshot(i) ==
    /\ usage = "restore" /\ ~sm.panicked
    /\ sm' = RestoreFromSnapshot(sm, sm.snapshots[i].root, sm.snapshots[i].height).m
    /\ UNCHANGED usage

Mark(op, epoch) ==
    /\ usage = "prune" /\ ~sm.panicked
    /\ sm' = MarkOutpointForPruning(sm, op, epoch)
    /\ UNCHANGED usage

PruneCycle(threshold) ==
    /\ usage = "prune" /\ ~sm.panicked
    /\ \E order \in SetToSeqs(DueForPruning(sm, threshold)) :
            sm' = ExecutePruningCycle(sm, order).m
    /\ UNCHANGED usage

(* The epoch of markers and thresholds is a constant. *)
StateNext ==
    \/ \E b \in Block : Apply(b) \/ Connect(b)
    \/ DisconnectTip
    \/ \E h \in 0..(sm.height + 1) : RollBackTo(h)
    \/ \E i \in DOMAIN sm.snapshots : RestoreSnapshot(i)
    \/ \E op \in DOMAIN sm.utxo : Mark(op, 1)
    \/ PruneCycle(1)

StateSpec == StateInit /\ [][StateNext]_stateVars

----------------------------------------------------------------------------
(* The outputs that exist after the chain: what its blocks created less what *)
(* they spent, whatever the order of the operations that led to the chain.   *)
CreatedIn(tx) == {<<tx.id, i - 1>> : i \in DOMAIN tx.outputs}
CreatedBy(b) == UNION {CreatedIn(tx) : tx \in ToSet(TxsOf[b])}
SpentBy(b) == UNION {ToSet(tx.inputs) : tx \in ToSet(TxsOf[b])}

OutputOf(op) == (CHOOSE tx \in Transactions : tx.id = op[1]).outputs[op[2] + 1]

ChainUtxo(m) ==
    LET created == UNION {CreatedBy(b) : b \in ToSet(Chain(m))}
        spent == UNION {SpentBy(b) : b \in ToSet(Chain(m))}
    IN  [op \in created \ spent |-> OutputOf(op)]

(* What the UTXO set of a chain presupposes of the blocks, and the code does *)
(* not check: an id names one transaction of one block, no block spends what *)
(* it creates itself, and contracts write to keys of their own.              *)
BlocksDistinct ==
    /\ \A b, c \in Block : \A i \in DOMAIN TxsOf[b], j \in DOMAIN TxsOf[c] :
            TxsOf[b][i].id = TxsOf[c][j].id => b = c /\ i = j
    /\ \A b \in Block : CreatedBy(b) \cap SpentBy(b) = {}
    /\ \A tx, ty \in Transactions : CreatedIn(tx) \cap (DOMAIN ty.writes \cup {SUPPLY_KEY}) = {}

(* The fields of the manager have their types. *)
StateTypeOK ==
    /\ sm.height \in Nat /\ sm.supply \in Nat
    /\ sm.block_hash \in Block \cup {NoBlock}
    /\ DOMAIN sm.block_undo_data \subseteq Block
    /\ ~sm.panicked

(* The UTXO set is the one of the chain: after any sequence of blocks      *)
(* applied, refused half-way and disconnected, exactly the outputs created *)
(* and not spent by the blocks of the chain are unspent.                   *)
UtxoIsChainState == usage = "undo" => sm.utxo = ChainUtxo(sm)

(* While the chain only grows and shrinks at its tip, the running supply   *)
(* is the sum of the unspent outputs: the undo data of a block carries all *)
(* of its effect on both.  The supply committed in the tree is the running *)
(* supply, under the cap, also after a rollback and with pruning.          *)
SupplyConsistent ==
    /\ usage = "undo" => sm.supply = UtxoSum(sm.utxo)
    /\ usage \in {"rollback", "prune"} =>
        /\ sm.supply <= MAX_GLOBAL_SUPPLY_NANO_SLUG
        /\ sm.height > 0 => sm.tree.leaves[SUPPLY_KEY] = <<"supply", sm.supply>>

(* validate_snapshots, and that the next apply_block finds the snapshot of *)
(* the current height: one snapshot and one storage per height.  After a   *)
(* rollback or a restoration the tree is the one the last snapshot         *)
(* committed to, and a restored manager names its block as the current one.*)
SnapshotsConsistent ==
    /\ Len(sm.snapshots) = sm.height + 1
    /\ Len(sm.snapshot_storages) = sm.height + 1
    /\ \A i \in DOMAIN sm.snapshots : sm.snapshots[i].height = i - 1
    /\ usage \in {"rollback", "restore"} => sm.tree.leaves = Last(sm.snapshots).root
    /\ usage = "restore" => sm.block_hash = Last(sm.snapshots).last_block_hash

(* apply_block is atomic: whichever transaction or check of a block fails, *)
(* in any reachable state, all fields are what they were before.           *)
FailedApplyIsNoop ==
    \A b \in Block : Offered(b) => LET r == ApplyBlock(sm, b) IN r.ok \/ r.m = sm

(* The undo data of a block is complete for the UTXO set: disconnecting a  *)
(* block right after it was applied gives back the outputs, the supply,    *)
(* the height and the snapshots.                                           *)
UndoInverts ==
    usage \in {"undo", "prune"} => \A b \in Block : Offered(b) =>
        LET r == ApplyBlock(sm, b)
            d == DisconnectBlock(r.m, b).m
        IN  r.ok => /\ d.utxo = sm.utxo /\ d.supply = sm.supply
                    /\ d.height = sm.height /\ d.snapshots = sm.snapshots

(* There is undo data for exactly the blocks of the chain, which is how    *)
(* perform_reorganization tells the blocks to disconnect.                  *)
UndoDataIsChain ==
    usage \in {"undo", "prune"} => DOMAIN sm.block_undo_data = ToSet(Chain(sm))

(* Every unspent output is in the tree, under the key it is filed under;   *)
(* pruning takes an output out of all three places or out of none.         *)
UtxoBackedByTree ==
    usage = "prune" =>
        /\ DOMAIN sm.outpoint_to_key = DOMAIN sm.utxo
        /\ \A op \in DOMAIN sm.utxo :
            LET key == sm.outpoint_to_key[op]
            IN  key \in DOMAIN sm.tree.leaves /\ sm.tree.leaves[key] = OutputValue(sm.utxo[op])

(* The UTXO set, the supply, the snapshots and the tree say the same of    *)
(* the chain after any sequence of blocks applied, refused, disconnected,  *)
(* rolled back, restored and pruned.                                       *)
ChainStateSound ==
    StateTypeOK /\ UtxoIsChainState /\ SupplyConsistent /\ SnapshotsConsistent /\ UtxoBackedByTree

(* A block that fails leaves no trace, and one that succeeds leaves the    *)
(* undo data that takes it back, for exactly the blocks of the chain.      *)
ApplyAndUndoSound == FailedApplyIsNoop /\ UndoInverts /\ UndoDataIsChain

----------------------------------------------------------------------------
(* StateManager implements SnapshotChain.  A root is shown as the function  *)
(* from every key a block can write to the value committed there.           *)
Keys == {SUPPLY_KEY} \cup UNION {CreatedIn(tx) \cup DOMAIN tx.writes : tx \in Transactions}
Values == {<<"absent">>} \cup {<<"supply", n>> : n \in 0..MAX_GLOBAL_SUPPLY_NANO_SLUG}
            \cup UNION {Range(tx.writes) \cup {OutputValue(o) : o \in ToSet(tx.outputs)} : tx \in Transactions}

RootOf(leaves) == [key \in Keys |-> IF key \in DOMAIN leaves THEN leaves[key] ELSE <<"absent">>]

(* Only the manager that rolls back to heights is to implement SnapshotChain. *)
shown == IF usage = "rollback" THEN sm ELSE NewManager

SC == INSTANCE SnapshotChain WITH
        Root <- [Keys -> Values],
        EmptyRoot <- [key \in Keys |-> <<"absent">>],
        MaxSupply <- MAX_GLOBAL_SUPPLY_NANO_SLUG,
        height <- shown.height,
        state <- [root |-> RootOf(shown.tree.leaves), supply |-> shown.supply],
        log <- [i \in DOMAIN shown.snapshots |->
                    [root |-> RootOf(shown.snapshots[i].root),
                     supply |-> shown.snapshots[i].total_supply]]

(* Every step of apply_block, connect_block, rollback_state and rollback,    *)
(* failing ones included, is a commit, a roll back to a stored snapshot or   *)
(* no step of SnapshotChain.                                                 *)
RefinesSnapshotChain == SC!ChainSpec
============================================================================
