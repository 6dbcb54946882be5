--------------------------- MODULE SnapshotChain ---------------------------
(***************************************************************************)
(* What the StateManager of klomang-core promises about its snapshots: a   *)
(* block is committed whole or not at all, a rollback gives back exactly   *)
(* the state that was committed at the target height, and no committed     *)
(* supply exceeds the cap.  StateManager implements this specification     *)
(* (src/core/state_manager.rs, apply_block and rollback_state).            *)
(***************************************************************************)
EXTENDS Naturals, Sequences

CONSTANTS
    Root,                  \* the roots of the Verkle tree
    EmptyRoot,
    MaxSupply

VARIABLES
    height,
    state,                 \* the current root and supply
    log                    \* log[h + 1] is the state committed at height h

chainVars == <<height, state, log>>

Committable == [root : Root, supply : 0..MaxSupply]

ChainInit ==
    /\ height = 0
    /\ state = [root |-> EmptyRoot, supply |-> 0]
    /\ log = <<[root |-> EmptyRoot, supply |-> 0]>>

(* apply_block returns Ok: any committable state follows.                  *)
Commit ==
    /\ state' \in Committable
    /\ height' = height + 1
    /\ log' = Append(log, state')

(* rollback_state and rollback return Ok.                                  *)
RollTo(h) ==
    /\ h <= height
    /\ height' = h
    /\ state' = log[h + 1]
    /\ log' = SubSeq(log, 1, h + 1)

ChainNext == Commit \/ \E h \in 0..height : RollTo(h)

ChainSpec == ChainInit /\ [][ChainNext]_chainVars
============================================================================
