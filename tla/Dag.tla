-------------------------------- MODULE Dag --------------------------------
(***************************************************************************)
(* The in-memory block DAG of klomang-core (src/core/dag).                 *)
(*                                                                         *)
(* A block is its header id.  The ids are natural numbers because the code *)
(* sorts hashes and breaks ties by their order.  The HashMap `blocks` is   *)
(* split into the set of stored ids and one function per BlockNode field;  *)
(* an id that is not stored has the empty value in every field.  A block   *)
(* is handed to add_block with an empty `children` set, as every caller in *)
(* the repository does.                                                    *)
(***************************************************************************)
EXTENDS Naturals, FiniteSets

CONSTANT Hash              \* the block ids the environment may produce

ASSUME HashAssumption == Hash \subseteq Nat

VARIABLES
    blocks,                \* keys of Dag.blocks
    parents,               \* parents[h]  = header.parents of block h
    children,              \* children[h] = BlockNode.children of block h
    tips                   \* Dag.tips

dagVars == <<blocks, parents, children, tips>>

----------------------------------------------------------------------------
(* Traversals.  The link function is a parameter: AncestorsOf follows the  *)
(* parent links, DescendantsOf the child links, as the code does.          *)

Closure(link, b) ==
    LET reach[n \in 0..Cardinality(Hash)] ==
            IF n = 0 THEN link[b]
            ELSE LET r == reach[n - 1] IN r \cup UNION {link[x] : x \in r}
    IN  reach[Cardinality(Hash)]

AncestorsOf(par, b) == Closure(par, b)

DescendantsOf(chl, b) == Closure(chl, b) \ {b}

IsAncestor(par, a, b) == a # b /\ a \in Closure(par, b)

AnticoneOf(bs, par, chl, b) ==
    {h \in bs : h # b /\ h \notin AncestorsOf(par, b) /\ h \notin DescendantsOf(chl, b)}

----------------------------------------------------------------------------
DagInit ==
    /\ blocks = {}
    /\ parents = [h \in Hash |-> {}]
    /\ children = [h \in Hash |-> {}]
    /\ tips = {}

(* add_block: the early returns (DuplicateBlock, self parent, a second     *)
(* genesis, InvalidParent) are the guards; they leave the DAG unchanged.   *)
MutNoParentCheck(id, ps) == id \notin blocks /\ id \notin ps /\ (ps = {} => blocks = {})
MutNoDuplicateCheck(id, ps) == id \notin ps /\ (ps = {} => blocks = {}) /\ ps \subseteq blocks
CanAddBlock(id, ps) ==
    /\ id \notin blocks
    /\ id \notin ps
    /\ ps = {} => blocks = {}
    /\ ps \subseteq blocks

MutAddBlockKeepTips(id, ps) ==   \* the parents stay tips
    /\ CanAddBlock(id, ps)
    /\ blocks' = blocks \cup {id}
    /\ parents' = [parents EXCEPT ![id] = ps]
    /\ children' = [h \in Hash |-> IF h \in ps THEN children[h] \cup {id} ELSE children[h]]
    /\ tips' = tips \cup {id}

AddBlock(id, ps) ==
    /\ CanAddBlock(id, ps)
    /\ blocks' = blocks \cup {id}
    /\ parents' = [parents EXCEPT ![id] = ps]
    /\ children' = [h \in Hash |-> IF h \in ps THEN children[h] \cup {id} ELSE children[h]]
    /\ tips' = (tips \ ps) \cup {id}

(* remove_block: unlinks the block from its parents and its children.  It  *)
(* does not recompute the tips.                                            *)
MutRemoveBlockKeepTip(id) ==
    /\ id \in blocks
    /\ blocks' = blocks \ {id}
    /\ parents' = [h \in Hash |-> IF h = id THEN {} ELSE parents[h] \ {id}]
    /\ children' = [h \in Hash |-> IF h = id THEN {} ELSE children[h] \ {id}]
    /\ tips' = tips

RemoveBlock(id) ==
    /\ id \in blocks
    /\ blocks' = blocks \ {id}
    /\ parents' = [h \in Hash |-> IF h = id THEN {} ELSE parents[h] \ {id}]
    /\ children' = [h \in Hash |-> IF h = id THEN {} ELSE children[h] \ {id}]
    /\ tips' = tips \ {id}

DagNext ==
    \/ \E id \in Hash, ps \in SUBSET Hash : AddBlock(id, ps)
    \/ \E id \in Hash : RemoveBlock(id)

DagSpec == DagInit /\ [][DagNext]_dagVars

----------------------------------------------------------------------------
(* Types of the four fields of the DAG. *)
DagTypeOK ==
    /\ blocks \subseteq Hash
    /\ parents \in [Hash -> SUBSET Hash]
    /\ children \in [Hash -> SUBSET Hash]
    /\ tips \subseteq blocks

(* Every link leads to a stored block, and the two directions agree: the   *)
(* parent list that is_ancestor walks and the child list get_descendants   *)
(* walks are inverse relations, whatever is added or removed.              *)
LinksConsistent ==
    /\ \A h \in Hash : parents[h] \subseteq blocks /\ children[h] \subseteq blocks
    /\ \A p, c \in Hash : p \in parents[c] <=> c \in children[p]

(* The parent relation is well founded: in every non-empty set of blocks   *)
(* some block has no parent in the set.  Without it the selected-parent    *)
(* walks of GhostDag and get_virtual_selected_chain would not end.         *)
Acyclic ==
    \A S \in SUBSET blocks : S # {} => \E b \in S : parents[b] \cap S = {}

(* A tip never has a child: mining on get_tips never extends a block that  *)
(* is already extended.                                                    *)
TipsChildless == \A t \in tips : children[t] = {}

(* What every sequence of add_block and remove_block keeps: links that     *)
(* agree in both directions, a well-founded parent relation and tips       *)
(* without children, though remove_block recomputes no tips.               *)
DagInv == DagTypeOK /\ LinksConsistent /\ Acyclic /\ TipsChildless
============================================================================
