---------------------------- MODULE ParallelExec ----------------------------
(***************************************************************************)
(* ParallelScheduler (klomang-core, scheduler/parallel.rs): transactions   *)
(* are put into groups by their access sets (state/transaction.rs,         *)
(* state/access_set.rs), and the groups are executed on a StateManager one *)
(* after the other with a checkpoint before each.                          *)
(*                                                                         *)
(* A transaction is one of StateManager's with two more fields: contract,  *)
(* the set of its contract_address (empty or one), and slots, the 32-byte  *)
(* windows that the scan of its payload takes for storage slots.           *)
(***************************************************************************)
EXTENDS Naturals, FiniteSets, SequencesExt

CONSTANTS Txs,            \* the transactions in the order of their ids
          FirstBlock,     \* the transactions of the block applied before
          MaxExecutions   \* bound on the calls of execute_groups

VARIABLE px   \* m: the state manager with its UTXO set; groups: what is scheduled, as positions in
              \* Txs; calls; ok: the last result; history: offered: the transactions scheduled, {} if the
              \* caller made the groups; base: the state before the first call; done: the transactions of the groups that went through, in order

SM == INSTANCE StateManager WITH Block <- {"first"}, TxsOf <- [first |-> FirstBlock], ProofRoot <- [first |-> {}],
        NoBlock <- "none", MAX_GLOBAL_SUPPLY_NANO_SLUG <- 100, sm <- px.m, usage <- "undo"

Ready == SM!ApplyBlock(SM!NewManager, "first").m
PxInit == px = [m |-> Ready, groups |-> <<>>, offered |-> {}, calls |-> 0, ok |-> TRUE, base |-> Ready, done |-> <<>>]

\* analyze_execution_payload: each slot is read and written; without any the payload's hash is
AnalyzeExecutionPayload(tx) ==
  IF tx.slots = {} THEN [read |-> {}, write |-> {<<"payload", tx.id>>}] ELSE [read |-> tx.slots, write |-> tx.slots]

Merge(a, b) == [read |-> a.read \union b.read, write |-> a.write \union b.write]
EmptyAccess == [read |-> {}, write |-> {}]

\* the keys of the inputs are made of the transaction's own id, as those of its outputs; the
\* payload counts for transactions that name a contract
GenerateAccessSet(tx) ==
  LET own == [read |-> {<<tx.id, i>> : i \in DOMAIN tx.inputs}, write |-> {<<tx.id, i>> : i \in DOMAIN tx.outputs}]
  IN IF tx.contract = {} THEN own
     ELSE Merge(Merge(own, [read |-> {}, write |-> tx.contract]), AnalyzeExecutionPayload(tx))
Access(i) == GenerateAccessSet(Txs[i])

HasConflict(a, b) == \/ a.write \intersect b.read # {}
                     \/ a.write \intersect b.write # {}
                     \/ b.write \intersect a.read # {}

\* one pass over what remains: each candidate that conflicts with none of the group joins it
\* (mutant: it is compared with the last of the group only)
JoinsLast(group, i) == group = <<>> \/ ~HasConflict(Access(Last(group)), Access(i))
Joins(group, i) == \A j \in Range(group) : ~HasConflict(Access(j), Access(i))
NextGroup(remaining) ==
  FoldLeft(LAMBDA group, i : IF Joins(group, i) THEN Append(group, i) ELSE group, <<>>, remaining)

\* every pass takes at least the first, so there are no more groups than transactions
ScheduleTransactions(S) ==
  LET sorted == SetToSortSeq(S, <)
      pass(s, i) == IF s.left = <<>> THEN s
                    ELSE LET g == NextGroup(s.left)
                         IN [left |-> SelectSeq(s.left, LAMBDA j : j \notin Range(g)), groups |-> Append(s.groups, g)]
  IN FoldLeft(pass, [left |-> sorted, groups |-> <<>>], sorted).groups

\* detect_group_conflicts: the access sets of whole groups, each with each
GroupAccess(g) == FoldLeft(LAMBDA a, i : Merge(a, Access(i)), EmptyAccess, g)
DetectGroupConflicts(groups) ==
  \E i, j \in DOMAIN groups : i < j /\ HasConflict(GroupAccess(groups[i]), GroupAccess(groups[j]))

\* restore_from_checkpoint: neither the tree nor outpoint_to_key is put back
\* (mutant: nor are the pending updates)
RestoreButPending(m, c) == [m EXCEPT !.height = c.height, !.supply = c.supply, !.utxo = c.utxo,
                                     !.gas_fees = SM!Prefix(@, Len(c.gas_fees))]
RestoreFromCheckpoint(m, c) == [m EXCEPT !.height = c.height, !.supply = c.supply, !.utxo = c.utxo,
                                         !.gas_fees = SM!Prefix(@, Len(c.gas_fees)),
                                         !.pending_updates = SM!Prefix(@, Len(c.pending_updates))]

\* a group goes through when each transaction does and the root of the tree has changed
ExecuteGroup(s, g) ==
  LET run == FoldLeft(LAMBDA r, i : SM!ApplyTransaction(r, Txs[i]), [ok |-> TRUE, m |-> s.m, undo |-> SM!NoUndo], g)
      good == run.ok /\ run.m.tree.leaves # s.m.tree.leaves
  IN IF ~s.ok THEN s
     ELSE IF good THEN [s EXCEPT !.m = run.m, !.done = @ \o g]
     ELSE [s EXCEPT !.ok = FALSE, !.m = RestoreFromCheckpoint(run.m, s.m)]
ExecuteGroups(s, groups) ==
  IF DetectGroupConflicts(groups) THEN [s EXCEPT !.ok = FALSE] ELSE FoldLeft(ExecuteGroup, s, groups)

\* the groups are the scheduler's or, their fields being public, the caller's own
Schedule(S) == /\ px.groups = <<>> /\ px.calls < MaxExecutions
               /\ px' = [px EXCEPT !.groups = ScheduleTransactions(S), !.offered = S]
Singly(order) == /\ px.groups = <<>> /\ px.calls < MaxExecutions
                 /\ px' = [px EXCEPT !.groups = [i \in DOMAIN order |-> <<order[i]>>]]
Execute == /\ px.groups # <<>>
           /\ LET r == ExecuteGroups([ok |-> TRUE, m |-> px.m, done |-> px.done], px.groups)
              IN px' = [px EXCEPT !.m = r.m, !.ok = r.ok, !.done = r.done, !.groups = <<>>, !.offered = {}, !.calls = @ + 1]

PxNext == \/ \E S \in SUBSET DOMAIN Txs \ {{}} : Schedule(S)
          \/ \E S \in SUBSET DOMAIN Txs : Cardinality(S) = 2 /\ \E order \in SetToSeqs(S) : Singly(order)
          \/ Execute

-----------------------------------------------------------------------------
\* However the access sets overlap, the scheduler puts every transaction into exactly one group,
\* in the order of the ids, no two of a group conflict, and one is left for a later group only
\* because of a conflict: a schedule of several groups is therefore always refused by execute_groups.
GroupsSound ==
  LET groups == px.groups
  IN px.offered # {} =>
       /\ UNION {Range(groups[k]) : k \in DOMAIN groups} = px.offered
       /\ \A k, l \in DOMAIN groups : k # l => Range(groups[k]) \intersect Range(groups[l]) = {}
       /\ \A k \in DOMAIN groups : \A i, j \in DOMAIN groups[k] :
            i < j => groups[k][i] < groups[k][j] /\ ~HasConflict(Access(groups[k][i]), Access(groups[k][j]))
       /\ Len(groups) > 1 => DetectGroupConflicts(groups)

\* After any sequence of calls, failed ones included, the UTXO set, the supply, the gas fees and the
\* pending updates are what the transactions of the groups that went through give one by one.
FailedGroupsLeaveNothing ==
  LET serial == FoldLeft(LAMBDA r, i : SM!ApplyTransaction(r, Txs[i]),
                         [ok |-> TRUE, m |-> px.base, undo |-> SM!NoUndo], px.done).m
  IN /\ px.m.utxo = serial.utxo /\ px.m.supply = serial.supply /\ px.m.height = serial.height
     /\ px.m.gas_fees = serial.gas_fees /\ px.m.pending_updates = serial.pending_updates
=============================================================================
