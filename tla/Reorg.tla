------------------------------- MODULE Reorg -------------------------------
(***************************************************************************)
(* GhostDag and StateManager composed: blocks enter the DAG, the state     *)
(* manager executes the selected chain, and should_reorganize decides when *)
(* reorganize_chain moves the state to another tip.                        *)
(*                                                                         *)
(* The repository has no loop that drives the two, so the driver here is   *)
(* the one their interfaces ask for: a block is executed when it extends   *)
(* the executed chain on the virtual selected chain, and reorganize_chain  *)
(* is called with the tip should_reorganize returns.                       *)
(***************************************************************************)
EXTENDS GhostDag

CONSTANTS
    ParentsOf,             \* ParentsOf[b]: header.parents of block b
    TxsOf, ProofRoot, MAX_GLOBAL_SUPPLY_NANO_SLUG

VARIABLE sm

SM == INSTANCE StateManager WITH Block <- Hash, NoBlock <- None, usage <- "undo"

reorgVars == <<ghostVars, sm>>

ReorgInit == GhostInit /\ sm = SM!NewManager

Accept(b) == AcceptBlock(b, ParentsOf[b]) /\ UNCHANGED sm

(* validate_and_apply_block of the next block of the selected chain; the   *)
(* block has passed GhostDag::validate_block.                              *)
Execute ==
    LET chain == SM!Chain(sm)
        selected == VirtualSelectedChain(dag, k)
        n == Len(chain)
    IN  /\ ~sm.panicked
        /\ n < Len(selected) /\ SubSeq(selected, 1, n) = chain
        /\ CanReorganize(dag, selected[n + 1])
        /\ sm' = SM!ApplyBlock(sm, selected[n + 1]).m
        /\ UNCHANGED ghostVars

(* reorganize_chain to the tip should_reorganize returns. *)
Reorganize ==
    LET t == ShouldReorganize(dag, k)
    IN  /\ ~sm.panicked /\ blocks # {} /\ t # None /\ CanReorganize(dag, t)
        /\ \E plan \in ReorgPlans(t) :
            sm' = SM!ReorganizeChain(sm, plan.down \o plan.up).m
        /\ UNCHANGED ghostVars

(* The driver waits until the state has caught up with the selected tip.   *)
InSync == SM!Chain(sm) = VirtualSelectedChain(dag, k)

ReorgNext == (\E b \in Hash : Accept(b)) \/ Execute \/ (InSync /\ Reorganize)
ReorgSpec == ReorgInit /\ [][ReorgNext]_reorgVars

----------------------------------------------------------------------------
(* Whatever order the blocks arrive in and whichever of them conflict,     *)
(* after a reorganisation the unspent outputs are those of the executed    *)
(* chain and of no disconnected block.                                     *)
ReorgUtxoIsChainState == SM!UtxoIsChainState

----------------------------------------------------------------------------
(* The instance for TLC: two branches 2-3 and 4-5 on the genesis block 1     *)
(* that spend the same output of it, and a block 6 beside them.              *)
Tx(id, ins, value) ==
    [id |-> id, inputs |-> ins, outputs |-> <<[value |-> value, burn |-> FALSE]>>, exec |-> "none",
     writes |-> [x \in {} |-> <<>>], gas_fee |-> 0, max_gas_fee |-> 0]

TwoBranches == <<{}, {1}, {2}, {1}, {4}, {1}>>

BranchTxs == <<
    <<Tx("g", <<>>, 3)>>,
    <<Tx("a", <<<<"g", 0>>>>, 3)>>,
    <<Tx("b", <<<<"a", 0>>>>, 3)>>,
    <<Tx("c", <<<<"g", 0>>>>, 2)>>,
    <<Tx("d", <<<<"c", 0>>>>, 2)>>,
    <<Tx("e", <<>>, 1)>>>>

NoProofs == [b \in Hash |-> {}]
============================================================================
