--------------------------- MODULE MCNodeServices ---------------------------
(***************************************************************************)
(* The services around the chain side by side: the routing table, peer     *)
(* discovery, relay slots, backups, rewards, the parallel and the          *)
(* multi-dimensional index, the sharded pool, the memory tiers, the        *)
(* snapshots for readers, the deferred tasks, the scheduler of groups, the *)
(* virtual machine and the ledger of unspent outputs.  They share no       *)
(* state: focus says which of them is used.                                *)
(***************************************************************************)
EXTENDS ShardedPool, PeerTables, ResourceTiers, StorageUpkeep, Rewards, ContractVm, UtxoLedger, DeferredTasks, DimensionIndex, TLC

CONSTANT MaxExecutions

VARIABLES focus, px

\* peer 1 offers a relayed address and two of its own, peer 2 one that names peer 1
Addresses(owner, at, circuit) == [owner |-> owner, circuit |-> circuit, at |-> at]
ListenAddresses == <<<<Addresses(1, "a", TRUE), Addresses(1, "b", FALSE), Addresses(1, "c", FALSE)>>,
                     <<Addresses(1, "d", FALSE), Addresses(2, "e", FALSE)>>>>
RendezvousNodes == <<"n1", "n2">>
\* 8, 4, 2, 1 and their prefix sums
Halvings == <<8, 4, 2, 1>>
PrefixSums == <<8, 12, 14, 15>>
Fees == <<[coinbase |-> TRUE, base |-> 9, gas |-> 0, price |-> 0],
          [coinbase |-> FALSE, base |-> 3, gas |-> 2, price |-> 1],
          [coinbase |-> FALSE, base |-> 2, gas |-> 0, price |-> 0]>>
FeePaying == {<<>>, <<Fees[1], Fees[2]>>, <<Fees[2], Fees[2], Fees[2]>>}
\* the two transactions of the memory tiers
ItemSizes == <<2, 1>>
ItemRates == <<1, 2>>
\* two records of one transaction and one of another
Indexed(tx, fee, time, deps) == [tx |-> tx, fee |-> fee, time |-> time, deps |-> deps]
IndexRecords == {Indexed(1, 1, 1, 0), Indexed(1, 2, 1, 1), Indexed(2, 1, 2, 1)}
\* two pools to publish: with an entry of each kind, and with one that is validated
Entry(tx, status, fee) == [tx |-> tx, status |-> status, fee |-> fee]
Published == {{Entry(1, "pending", 1), Entry(2, "confirmed", 2), Entry(3, "invalid", 1)}, {Entry(1, "validated", 2)}}
\* 2 and 3 share a shard and an output, 1 shares one with each of them from another shard
ShardSpends == <<<<"p", "q">>, <<"r", "q">>, <<"r", "p">>>>
ShardHash == ("p" :> 1) @@ ("q" :> 1) @@ ("r" :> 2)

\* a and b spend one output, c spends an output of a, a and d write one slot, e fails
Out(v) == [value |-> v, burn |-> FALSE]
Call(id, ins, outs, exec, slot, address) ==
  [id |-> id, inputs |-> ins, outputs |-> outs, exec |-> exec, gas_fee |-> 1, max_gas_fee |-> 2, contract |-> address,
   writes |-> IF exec = "runs" THEN (<<"slot", slot>> :> <<"slot", id>>) ELSE [x \in {} |-> <<>>],
   slots |-> IF slot = 1 THEN {<<"slot", 1>>} ELSE {}]
Calls == <<Call("a", <<<<"g", 0>>>>, <<Out(5)>>, "runs", 1, {<<"addr", 1>>}),
           Call("b", <<<<"g", 0>>>>, <<Out(4)>>, "runs", 2, {<<"addr", 2>>}),
           Call("c", <<<<"a", 0>>>>, <<Out(2), Out(3)>>, "none", 0, {}),
           Call("d", <<<<"g", 1>>>>, <<Out(2)>>, "runs", 1, {<<"addr", 3>>}),
           Call("e", <<>>, <<Out(1)>>, "fails", 1, {<<"addr", 3>>})>>
FirstCalls == <<Call("g", <<>>, <<Out(5), Out(2)>>, "none", 0, {})>>

\* the second block spends inside itself, the others are refused: spent twice, an input named twice,
\* an overflow, a signature, a burn, an output created twice
Pay(id, ins, values) ==
  [id |-> id, inputs |-> ins, outputs |-> [i \in DOMAIN values |-> Out(values[i])], signed |-> TRUE]
Ledger == <<
  <<Pay("c", <<>>, <<3, 2>>)>>,
  <<Pay("a", <<<<"c", 0>>>>, <<2>>), Pay("b", <<<<"a", 0>>, <<"c", 1>>>>, <<4>>)>>,
  <<Pay("d", <<>>, <<1>>), Pay("e", <<<<"c", 0>>>>, <<1, 2>>), Pay("f", <<<<"e", 1>>, <<"c", 0>>>>, <<1>>)>>,
  <<Pay("g", <<<<"c", 1>>, <<"c", 1>>>>, <<4>>)>>,
  <<Pay("h", <<<<"c", 0>>, <<"c", 1>>>>, <<7, 1>>)>>,
  <<[Pay("k", <<<<"c", 1>>>>, <<2>>) EXCEPT !.signed = FALSE]>>,
  <<Pay("d", <<>>, <<1>>), [Pay("l", <<<<"d", 0>>>>, <<1>>) EXCEPT !.outputs[1].burn = TRUE]>>,
  <<Pay("m", <<>>, <<1, 2>>), Pay("n", <<<<"m", 0>>>>, <<1>>), Pay("m", <<>>, <<1, 2>>), Pay("q", <<<<"z", 0>>>>, <<1>>)>>>>

PX == INSTANCE ParallelExec WITH Txs <- Calls, FirstBlock <- FirstCalls

network == <<rt, pd, rs>>
upkeep == <<bk, rw>>
parallel == <<pi, di, sp, rz>>
readers == <<ls, dt>>
execution == <<px, vm, ul>>
vars == <<focus, network, upkeep, parallel, readers, execution>>

Init == /\ focus \in {"routing", "discovery", "relays", "backups", "rewards", "index", "dimensions", "shards", "tiers",
                      "snapshots", "tasks", "groups", "contracts", "ledger"}
        /\ RtInit /\ PdInit /\ RsInit /\ BkInit /\ RwInit /\ PiInit /\ DiInit /\ SpInit
        /\ RzInit /\ LsInit /\ DtInit /\ PX!PxInit /\ VmInit /\ UlInit
\* a machine out of focus rests in one state
        /\ (focus = "discovery" \/ pd.seeds = {}) /\ (focus = "rewards" \/ \A c \in Supplies : rw.cap <= c)

Network == \/ focus = "routing" /\ RtNext /\ UNCHANGED <<pd, rs>>
           \/ focus = "discovery" /\ PdNext /\ UNCHANGED <<rt, rs>>
           \/ focus = "relays" /\ RsNext /\ UNCHANGED <<rt, pd>>
Upkeep == \/ focus = "backups" /\ BkNext /\ UNCHANGED rw
          \/ focus = "rewards" /\ RwNext /\ UNCHANGED bk
Parallel == \/ focus = "index" /\ PiNext /\ UNCHANGED <<di, sp, rz>>
            \/ focus = "dimensions" /\ DiNext /\ UNCHANGED <<pi, sp, rz>>
            \/ focus = "shards" /\ SpNext /\ UNCHANGED <<pi, di, rz>>
            \/ focus = "tiers" /\ RzNext /\ UNCHANGED <<pi, di, sp>>
Readers == \/ focus = "snapshots" /\ LsNext /\ UNCHANGED dt
           \/ focus = "tasks" /\ DtNext /\ UNCHANGED ls
Execution == \/ focus = "groups" /\ PX!PxNext /\ UNCHANGED <<vm, ul>>
             \/ focus = "contracts" /\ VmNext /\ UNCHANGED <<px, ul>>
             \/ focus = "ledger" /\ UlNext /\ UNCHANGED <<px, vm>>

Next == /\ UNCHANGED focus
        /\ \/ Network /\ UNCHANGED <<upkeep, parallel, readers, execution>>
           \/ Upkeep /\ UNCHANGED <<network, parallel, readers, execution>>
           \/ Parallel /\ UNCHANGED <<network, upkeep, readers, execution>>
           \/ Readers /\ UNCHANGED <<network, upkeep, parallel, execution>>
           \/ Execution /\ UNCHANGED <<network, upkeep, parallel, readers>>

Spec == Init /\ [][Next]_vars

\* a property of one machine, asked where it is used: elsewhere it rests in its first state
In(machine, Property) == focus = machine => Property

\* groups are a partition into conflict-free parts, and failed executions leave of the UTXO set, the
\* supply, the fees and the pending updates what the groups that went through give one by one
GroupsExecuteWhole == In("groups", PX!GroupsSound /\ PX!FailedGroupsLeaveNothing)
=============================================================================
