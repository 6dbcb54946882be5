--------------------------- MODULE MCStateManager ---------------------------
(* TLC instances of StateManager: a small library of blocks, from which each *)
(* configuration takes the blocks its question needs.                        *)
EXTENDS StateManager

Out(v) == [value |-> v, burn |-> FALSE]

Plain(id, ins, outs) ==
    [id |-> id, inputs |-> ins, outputs |-> outs, exec |-> "none",
     writes |-> [x \in {} |-> <<>>], gas_fee |-> 0, max_gas_fee |-> 0]

Contract(id, ins, outs, exec) ==
    [Plain(id, ins, outs) EXCEPT !.exec = exec, !.gas_fee = 1, !.max_gas_fee = 2,
                                 !.writes = (<<"slot", 1>> :> <<"slot", id>>)]

Coinbase(id, outs) == Plain(id, <<>>, outs)

Library == [
    two     |-> <<Coinbase("c2", <<Out(5), Out(2)>>)>>,
    three   |-> <<Coinbase("c3", <<Out(3)>>)>>,
    spend   |-> <<Coinbase("cs", <<Out(1)>>), Plain("s", <<<<"c2", 1>>>>, <<Out(2)>>)>>,
    rival   |-> <<Plain("r", <<<<"c2", 0>>, <<"c2", 1>>>>, <<Out(4), Out(3)>>)>>,
    burn    |-> <<Coinbase("cb", <<Out(1)>>), Plain("b", <<<<"c3", 0>>>>, <<[value |-> 3, burn |-> TRUE]>>)>>,
    call    |-> <<Contract("k", <<<<"c3", 0>>>>, <<Out(1)>>, "runs")>>,
    crash   |-> <<Plain("w", <<<<"c2", 0>>>>, <<Out(5)>>), Contract("x", <<<<"c3", 0>>>>, <<Out(1)>>, "fails")>>,
    proved  |-> <<Coinbase("cp", <<Out(1)>>)>>]

MCTxsOf == [b \in Block |-> Library[b]]

(* The block `proved` declares the root the tree has after the block `three`. *)
MCProofRoot == [b \in Block |-> IF b # "proved" THEN {}
    ELSE {(<<"c3", 0>> :> <<"output", 3, FALSE>>) @@ (SUPPLY_KEY :> <<"supply", 3>>)}]

ASSUME LibraryDistinct == BlocksDistinct

(* Bounds on the height and on the keys emptied by disconnect_block. *)
MaxHeight == 3
MaxEmptied == 3
Bounded ==
    /\ sm.height <= MaxHeight
    /\ Cardinality({key \in DOMAIN sm.tree.leaves : sm.tree.leaves[key] = EMPTY_VALUE}) <= MaxEmptied
=============================================================================
