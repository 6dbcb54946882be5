----------------------------- MODULE UtxoLedger -----------------------------
(***************************************************************************)
(* UtxoSet and BlockchainState (klomang-core, state/utxo.rs, state/mod.rs):*)
(* a block's transactions are validated and applied one by one and taken   *)
(* back when one is refused; leaves are marked and pruned; the whole state *)
(* is cloned and put back.                                                 *)
(*                                                                         *)
(* A transaction is [id, inputs, outputs, signed]: inputs is a sequence of *)
(* outpoints <<id, index>>, outputs one of [value, burn] where burn says   *)
(* that the address is the hash of BURN_ADDRESS, and signed says whether   *)
(* every input has a key and a signature that verify.                      *)
(***************************************************************************)
EXTENDS Integers, FiniteSets, SequencesExt, Functions

CONSTANTS LedgerBlocks,  \* the blocks, sequences of transactions
          Epochs,        \* epochs of markers and thresholds
          LedgerMax,     \* u64::MAX
          MaxOps         \* bound on the calls

Payment(tx) == /\ tx.inputs \in Seq(Range(tx.inputs)) /\ tx.signed \in BOOLEAN
               /\ tx.outputs \in Seq([value : Nat, burn : BOOLEAN])
ASSUME LedgerAssumption ==
  /\ LedgerMax \in Nat /\ 0 \notin DOMAIN LedgerBlocks
  /\ \A b \in DOMAIN LedgerBlocks : /\ LedgerBlocks[b] \in Seq(Range(LedgerBlocks[b]))
                                   /\ \A tx \in Range(LedgerBlocks[b]) : Payment(tx)

VARIABLE ul   \* utxos: [outpoints -> outputs]; markers: [outpoints -> epoch]; saved: the clones taken;
              \* ops; last: the last call of apply_block: [block, ok, before], block = 0 for none

Nothing == [o \in {} |-> 0]
\* HashMap::insert, for each entry of f
Over(f, g) == [x \in DOMAIN f \union DOMAIN g |-> IF x \in DOMAIN f THEN f[x] ELSE g[x]]

UlInit == ul = [utxos |-> Nothing, markers |-> Nothing, saved |-> <<>>, ops |-> 0,
                last |-> [block |-> 0, ok |-> TRUE, before |-> Nothing]]

\* checked_add over the values: past the width the sum is Overflow and stays it
Overflow == LedgerMax + 1
CheckedAdd(sum, v) == IF sum + v > LedgerMax THEN Overflow ELSE sum + v
CheckedSum(values) == FoldLeft(CheckedAdd, 0, values)

IsCoinbase(tx) == tx.inputs = <<>>

\* validate_tx: the fee, or -1 (mutant: an outpoint may be named twice)
ValidateTwice(u, tx) ==
  LET found == \A i \in DOMAIN tx.inputs : tx.inputs[i] \in DOMAIN u
      output == CheckedSum([i \in DOMAIN tx.outputs |-> tx.outputs[i].value])
      input == CheckedSum([i \in DOMAIN tx.inputs |-> u[tx.inputs[i]].value])
      good == found /\ tx.signed /\ output # Overflow /\ input # Overflow /\ output <= input
  IN IF IsCoinbase(tx) THEN 0 ELSE IF good THEN input - output ELSE -1
ValidateTx(u, tx) ==
  LET burns == \E i \in DOMAIN tx.outputs : tx.outputs[i].burn
      distinct == Cardinality(Range(tx.inputs)) = Len(tx.inputs)
      found == \A i \in DOMAIN tx.inputs : tx.inputs[i] \in DOMAIN u
      output == CheckedSum([i \in DOMAIN tx.outputs |-> tx.outputs[i].value])
      input == CheckedSum([i \in DOMAIN tx.inputs |-> u[tx.inputs[i]].value])
      good == distinct /\ found /\ tx.signed /\ output # Overflow /\ input # Overflow /\ output <= input
  IN IF burns THEN -1 ELSE IF IsCoinbase(tx) THEN 0 ELSE IF good THEN input - output ELSE -1

Created(tx) == {<<tx.id, i - 1>> : i \in DOMAIN tx.outputs}
OutputOf(tx, o) == tx.outputs[o[2] + 1]

\* apply_tx of a valid transaction: outputs that are there already are overwritten
ApplyTx(u, tx) == Over([o \in Created(tx) |-> OutputOf(tx, o)], Restrict(u, DOMAIN u \ Range(tx.inputs)))

\* revert_tx: the created outputs are taken away up to one that is missing, which ends it; then the
\* spent ones are put back from the map (mutant: they stay spent)
Present(u, tx) == {o \in Created(tx) : \A p \in Created(tx) : p[2] <= o[2] => p \in DOMAIN u}
RevertCreated(r, tx, spent) == IF r.ok THEN [r EXCEPT !.u = Restrict(@, DOMAIN @ \ Created(tx))] ELSE r
RevertTx(r, tx, spent) ==
  LET gone == Present(r.u, tx)
      rest == Restrict(r.u, DOMAIN r.u \ gone)
  IN IF ~r.ok THEN r
     ELSE IF gone # Created(tx) THEN [ok |-> FALSE, u |-> rest]
     ELSE [ok |-> TRUE, u |-> Over(Restrict(spent, Range(tx.inputs)), rest)]

\* the transactions one by one, with the outputs found under their inputs; at the first that is
\* refused those before it are reverted in reverse order, as far as that goes without an error
ApplyNext(s, tx) ==
  LET spent == Over(Restrict(s.u, Range(tx.inputs) \intersect DOMAIN s.u), s.spent)
  IN IF ~s.ok THEN s
     ELSE IF ValidateTx(s.u, tx) < 0 THEN [ok |-> FALSE, u |-> s.u, spent |-> spent, done |-> s.done]
     ELSE [ok |-> TRUE, u |-> ApplyTx(s.u, tx), spent |-> spent, done |-> Append(s.done, tx)]
RevertAll(u, done, spent) ==
  FoldLeft(LAMBDA r, tx : RevertTx(r, tx, spent), [ok |-> TRUE, u |-> u], Reverse(done)).u
ApplyBlock(u, block) ==
  LET run == FoldLeft(ApplyNext, [ok |-> TRUE, u |-> u, spent |-> Nothing, done |-> <<>>], block)
  IN [ok |-> run.ok, u |-> IF run.ok THEN run.u ELSE RevertAll(run.u, run.done, run.spent)]

ApplyInLedger(b) ==
  LET r == ApplyBlock(ul.utxos, LedgerBlocks[b])
  IN ul' = [ul EXCEPT !.utxos = r.u, !.ops = @ + 1, !.last = [block |-> b, ok |-> r.ok, before |-> ul.utxos]]

\* revert_block takes the outputs away and gives no input back
RevertedBlock(u, block) == Restrict(u, DOMAIN u \ UNION {Created(block[i]) : i \in DOMAIN block})
RevertInLedger(b) == ul' = [ul EXCEPT !.utxos = RevertedBlock(@, LedgerBlocks[b]), !.ops = @ + 1, !.last.block = 0]

MarkLeaf(o, e) == ul' = [ul EXCEPT !.markers = Over([x \in {o} |-> e], @), !.ops = @ + 1]
\* prune_older_than: the marked leaves go, with their markers
PruneOlderThan(threshold) ==
  LET due == {o \in DOMAIN ul.markers : ul.markers[o] <= threshold}
  IN ul' = [ul EXCEPT !.utxos = Restrict(@, DOMAIN @ \ due), !.markers = Restrict(@, DOMAIN @ \ due),
                      !.ops = @ + 1, !.last.block = 0]

SaveLedger == ul.saved = <<>> /\ ul' = [ul EXCEPT !.saved = <<[utxos |-> ul.utxos, markers |-> ul.markers]>>, !.ops = @ + 1]
RestoreLedger ==
  /\ ul.saved # <<>>
  /\ ul' = [ul EXCEPT !.utxos = ul.saved[1].utxos, !.markers = ul.saved[1].markers,
                      !.saved = <<>>, !.ops = @ + 1, !.last.block = 0]

UlNext == /\ ul.ops < MaxOps
          /\ \/ \E b \in DOMAIN LedgerBlocks : ApplyInLedger(b) \/ RevertInLedger(b)
             \/ \E o \in DOMAIN ul.utxos, e \in Epochs : MarkLeaf(o, e)
             \/ \E e \in Epochs : PruneOlderThan(e)
             \/ SaveLedger \/ RestoreLedger

-----------------------------------------------------------------------------
ValueOf(u) == SumFunction([o \in DOMAIN u |-> u[o].value])
Minted(block) == SumFunction([i \in DOMAIN block |-> IF IsCoinbase(block[i]) THEN ValueOf(ApplyTx(Nothing, block[i])) ELSE 0])
\* a transaction of the block creates an output that exists or was created before, as a coinbase does that pays the same
\* values to the same addresses as one before it
Recreates(u, block) ==
  \/ \E i \in DOMAIN block : Created(block[i]) \intersect DOMAIN u # {}
  \/ \E i, j \in DOMAIN block : i # j /\ block[i].id = block[j].id

\* After any calls, a block that is refused in the middle leaves the unspent outputs as they were, and
\* one that is accepted neither makes nor spends twice any value: what was there and what its coinbases
\* mint covers what is there now, and no input of it is unspent.  Outputs that are created again are
\* the exception: they are lost when the block is refused.
BlocksApplyWhole ==
  LET block == LedgerBlocks[ul.last.block]
      before == ul.last.before
  IN ul.last.block # 0 /\ ~Recreates(before, block) =>
       IF ul.last.ok THEN /\ ValueOf(ul.utxos) <= ValueOf(before) + Minted(block)
                          /\ \A i \in DOMAIN block : Range(block[i].inputs) \intersect DOMAIN ul.utxos = {}
       ELSE ul.utxos = before
=============================================================================
