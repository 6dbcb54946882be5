------------------------------ MODULE Replicas ------------------------------
(***************************************************************************)
(* Two nodes of klomang-core that receive the same blocks, each in an      *)
(* order of its own that delivers parents before children.  A block that   *)
(* neither node has is mined on any of the blocks the node knows; the      *)
(* parents in its header are then the same everywhere.                     *)
(***************************************************************************)
EXTENDS Naturals, FiniteSets

CONSTANTS Hash, K, FINALITY_DEPTH

VARIABLES
    blocksA, parentsA, childrenA, tipsA,
    selected_parentA, blue_setA, red_setA, blue_scoreA, kA,
    blocksB, parentsB, childrenB, tipsB,
    selected_parentB, blue_setB, red_setB, blue_scoreB, kB

A == INSTANCE GhostDag WITH K_MIN <- K, K_MAX <- K,
        blocks <- blocksA, parents <- parentsA, children <- childrenA, tips <- tipsA,
        selected_parent <- selected_parentA, blue_set <- blue_setA,
        red_set <- red_setA, blue_score <- blue_scoreA, k <- kA
B == INSTANCE GhostDag WITH K_MIN <- K, K_MAX <- K,
        blocks <- blocksB, parents <- parentsB, children <- childrenB, tips <- tipsB,
        selected_parent <- selected_parentB, blue_set <- blue_setB,
        red_set <- red_setB, blue_score <- blue_scoreB, k <- kB

varsA == <<blocksA, parentsA, childrenA, tipsA,
           selected_parentA, blue_setA, red_setA, blue_scoreA, kA>>
varsB == <<blocksB, parentsB, childrenB, tipsB,
           selected_parentB, blue_setB, red_setB, blue_scoreB, kB>>

ReplicasInit == A!GhostInit /\ B!GhostInit

(* One genesis block for both; otherwise the header decides the parents. *)
SameHeader(id, ps, others, parentsThere) ==
    /\ id \in others => ps = parentsThere[id]
    /\ ps = {} => others = {} \/ id \in others

DeliverToA(id, ps) ==
    SameHeader(id, ps, blocksB, parentsB) /\ A!AcceptBlock(id, ps) /\ UNCHANGED varsB

DeliverToB(id, ps) ==
    SameHeader(id, ps, blocksA, parentsA) /\ B!AcceptBlock(id, ps) /\ UNCHANGED varsA

ReplicasNext ==
    \E id \in Hash, ps \in SUBSET Hash : DeliverToA(id, ps) \/ DeliverToB(id, ps)

ReplicasSpec == ReplicasInit /\ [][ReplicasNext]_<<varsA, varsB>>

----------------------------------------------------------------------------
(* Two nodes that hold the same blocks order them alike. *)
OrderingAgrees == blocksA = blocksB => A!Ordering(A!dag) = B!Ordering(B!dag)
(* For the run: node A is the one that has the genesis block first, and the genesis block *)
(* has the lowest id.                                                               *)
GenesisFirst ==
    /\ blocksA = {} => blocksB = {}
    /\ blocksA \cup blocksB # {} => (CHOOSE h \in Hash : \A o \in Hash : h <= o) \in blocksA
=============================================================================
