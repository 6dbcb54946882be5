------------------------------ MODULE GhostDag ------------------------------
(***************************************************************************)
(* GhostDAG colouring, scoring and ordering of klomang-core                *)
(* (src/core/consensus/ghostdag.rs and ordering.rs) on top of Dag.         *)
(*                                                                         *)
(* The queries and the recomputation are functions of a record d that      *)
(* holds every field of the Dag struct: `&Dag` in the code.  A node hands  *)
(* a block to Dag::add_block and then to GhostDag::process_block; both     *)
(* take `&mut Dag`, so nothing runs between the two: AcceptBlock.          *)
(***************************************************************************)
EXTENDS Dag, SequencesExt

CONSTANTS
    K_MIN, K_MAX,          \* range of the parameter k
    FINALITY_DEPTH

ASSUME GhostAssumption ==
    /\ 0 \notin Hash /\ IsFiniteSet(Hash)
    /\ K_MIN \in Nat /\ K_MAX \in Nat /\ K_MIN <= K_MAX
    /\ FINALITY_DEPTH \in Nat

VARIABLES
    selected_parent,       \* Option<Hash>, None when absent
    blue_set,
    red_set,
    blue_score,
    k                      \* GhostDag.k

ghostFields == <<selected_parent, blue_set, red_set, blue_score>>
ghostVars == <<blocks, parents, children, tips, selected_parent, blue_set, red_set, blue_score, k>>

None == 0

Sorted(S) ==               \* the elements of S in increasing order: Vec::sort
    [i \in 1..Cardinality(S) |-> CHOOSE x \in S : Cardinality({y \in S : y <= x}) = i]

(* The Dag struct as the queries see it, and the anticone of every block.  *)
View(bs, par, chl, tps, sp, blue, red, score) ==
    [blocks |-> bs, parents |-> par, children |-> chl, tips |-> tps,
     sp |-> sp, blue |-> blue, red |-> red, score |-> score,
     anti |-> [h \in bs |-> AnticoneOf(bs, par, chl, h)]]

dag == View(blocks, parents, children, tips, selected_parent, blue_set, red_set, blue_score)

----------------------------------------------------------------------------
(* select_parent: highest blue score, then lowest hash. *)
MutSelectParent(d, ps) ==  \* lowest score
    IF ps \cap d.blocks = {} THEN None
    ELSE CHOOSE h \in ps \cap d.blocks : \A o \in ps \cap d.blocks :
            d.score[o] > d.score[h] \/ (d.score[o] = d.score[h] /\ h <= o)
SelectParent(d, ps) ==
    LET candidates == ps \cap d.blocks
    IN  IF candidates = {} THEN None
        ELSE CHOOSE h \in candidates : \A o \in candidates :
                d.score[o] < d.score[h] \/ (d.score[o] = d.score[h] /\ h <= o)

(* build_blue_set: inherit the blue set of the selected parent, then try   *)
(* every block of its anticone, in hash order, against the k-cluster rule. *)
Colour(d, kk, c, h) ==
    IF Cardinality(d.anti[h] \cap c.blue) <= kk
    THEN [c EXCEPT !.blue = @ \cup {h}]
    ELSE [c EXCEPT !.red = @ \cup {h}]

BuildBlueSet(d, kk, sp) ==
    LET colour(c, h) == Colour(d, kk, c, h)
    IN  FoldLeft(colour, [blue |-> d.blue[sp] \cup {sp}, red |-> {}], Sorted(d.anti[sp]))

(* recompute_block; a block without parents is left as it is. *)
RecomputeBlock(d, kk, h) ==
    IF d.parents[h] = {} THEN d
    ELSE LET sp == SelectParent(d, d.parents[h])
             c == BuildBlueSet(d, kk, sp)
         IN  [d EXCEPT !.sp[h] = sp, !.blue[h] = c.blue, !.red[h] = c.red,
                       !.score[h] = d.score[sp] + Cardinality(c.blue)]

(* topological_sort: Kahn's algorithm with a stack, over the child links.  *)
Visit(d, nodes, s) ==
    LET current == Last(s.queue)
        kids == d.children[current] \cap nodes
        deg == [h \in nodes |-> IF h \in kids /\ s.deg[h] > 0 THEN s.deg[h] - 1 ELSE s.deg[h]]
    IN  IF s.queue = <<>> THEN s
        ELSE [queue |-> Front(s.queue) \o Sorted({c \in kids : deg[c] = 0}),
              deg |-> deg, sorted |-> Append(s.sorted, current)]

MutTopologicalSort(d, nodes) == Sorted(nodes)
TopologicalSort(d, nodes) ==
    LET visit(s, i) == Visit(d, nodes, s)
        deg0 == [h \in nodes |-> Cardinality(d.parents[h] \cap nodes)]
        start == [queue |-> Sorted({h \in nodes : deg0[h] = 0}), deg |-> deg0, sorted |-> <<>>]
    IN  FoldLeft(visit, start, [i \in 1..Cardinality(nodes) |-> i]).sorted

(* The blocks process_block recomputes: the parents of the new block and   *)
(* everything that descends from them.                                     *)
MutAffected(d, h) == d.parents[h]   \* without the descendants
Affected(d, h) ==
    UNION {{p} \cup DescendantsOf(d.children, p) : p \in d.parents[h]}

ProcessBlock(d, kk, h) ==
    LET recompute(e, b) == RecomputeBlock(e, kk, b)
        own == IF d.parents[h] = {}
               THEN [d EXCEPT !.sp[h] = None, !.blue[h] = {}, !.red[h] = {}, !.score[h] = 1]
               ELSE RecomputeBlock(d, kk, h)
    IN  FoldLeft(recompute, own, TopologicalSort(own, Affected(own, h)))

----------------------------------------------------------------------------
(* Queries on the virtual block. *)

BuildVirtualBlock(d, kk) ==
    LET only == CHOOSE h \in d.blocks : TRUE
        sp == SelectParent(d, d.tips)
        c == BuildBlueSet(d, kk, sp)
    IN  IF Cardinality(d.blocks) = 1
        THEN [parents |-> d.tips, sp |-> d.sp[only], blue |-> d.blue[only],
              red |-> d.red[only], score |-> d.score[only]]
        ELSE IF sp = None
        THEN [parents |-> d.tips, sp |-> None, blue |-> {}, red |-> {}, score |-> 0]
        ELSE [parents |-> d.tips, sp |-> sp, blue |-> c.blue, red |-> c.red,
              score |-> d.score[sp] + Cardinality(c.blue)]

(* The blocks met from `from` along the selected parents, down to but not  *)
(* including `until` (to the end of the chain if it is not met).           *)
MutWalk(d, from, until) ==  \* stops one block early
    LET next(w, i) == IF w.cur = None \/ d.sp[w.cur] \in {None, until} THEN w
                      ELSE [cur |-> d.sp[w.cur], path |-> Append(w.path, w.cur)]
    IN  FoldLeft(next, [cur |-> from, path |-> <<>>],
                 [i \in 1..Cardinality(d.blocks) |-> i]).path
FollowParent(d, until, w) ==
    IF w.cur \in {None, until} THEN w
    ELSE [cur |-> d.sp[w.cur], path |-> Append(w.path, w.cur)]

WalkSelectedParents(d, from, until) ==
    LET next(w, i) == FollowParent(d, until, w)
    IN  FoldLeft(next, [cur |-> from, path |-> <<>>],
                 [i \in 1..Cardinality(d.blocks) |-> i]).path

VirtualSelectedChain(d, kk) ==
    Reverse(WalkSelectedParents(d, BuildVirtualBlock(d, kk).sp, None))

(* get_ordering and get_virtual_ordering: by blue score, then by hash. *)
MutBefore(d, a, b) == a < b
Before(d, a, b) == d.score[a] < d.score[b] \/ (d.score[a] = d.score[b] /\ a < b)

Ordering(d) ==
    [i \in 1..Cardinality(d.blocks) |->
        CHOOSE x \in d.blocks : Cardinality({y \in d.blocks : Before(d, y, x)}) = i - 1]

(* check_finality: the block lags the virtual score by at least the larger *)
(* of the caller's threshold and FINALITY_DEPTH.                           *)
FinalBlocks(d, kk, threshold) ==
    LET v == BuildVirtualBlock(d, kk)
        depth == IF threshold > FINALITY_DEPTH THEN threshold ELSE FINALITY_DEPTH
    IN  {b \in d.blocks : v.score >= d.score[b] + depth}

(* can_reorganize: the number of selected-parent links from the target     *)
(* down to a tip, or to the end of the chain, against FINALITY_DEPTH.      *)
CanReorganize(d, target) ==
    /\ target \in d.blocks
    /\ LET chain == WalkSelectedParents(d, target, None)
           met == {i \in DOMAIN chain : chain[i] \in d.tips}
           depth == IF met = {} THEN Len(chain) ELSE Min(met) - 1
       IN  depth <= FINALITY_DEPTH

(* should_reorganize: max_by keeps the last of equal tips, which get_tips  *)
(* has sorted, so ties go to the highest hash.                             *)
ShouldReorganize(d, kk) ==
    LET best == CHOOSE t \in d.tips : \A o \in d.tips :
                    d.score[o] < d.score[t] \/ (d.score[o] = d.score[t] /\ o <= t)
    IN  IF d.tips = {} \/ best = BuildVirtualBlock(d, kk).sp THEN None ELSE best

(* find_common_ancestor: the shared ancestors of maximal positive score.   *)
(* The code keeps the first it meets in HashSet order, so any of them may  *)
(* be the answer; the empty set is its None.                               *)
CommonAncestors(d, a, b) ==
    LET upTo(h) == AncestorsOf(d.parents, h) \cup {h}
        shared == {h \in upTo(a) \cap upTo(b) \cap d.blocks : d.score[h] > 0}
    IN  IF a = b THEN {a}
        ELSE {h \in shared : \A o \in shared : d.score[o] <= d.score[h]}

(* reorganize_to_tip with the common ancestor that was found: the blocks   *)
(* to disconnect, tip first, and the blocks to connect, oldest first.      *)
ToDisconnect(d, kk, ancestor) ==
    WalkSelectedParents(d, BuildVirtualBlock(d, kk).sp, ancestor)

ToConnect(d, tip, ancestor) == Reverse(WalkSelectedParents(d, tip, ancestor))

----------------------------------------------------------------------------
GhostInit ==
    /\ DagInit
    /\ selected_parent = [h \in Hash |-> None]
    /\ blue_set = [h \in Hash |-> {}]
    /\ red_set = [h \in Hash |-> {}]
    /\ blue_score = [h \in Hash |-> 0]
    /\ k \in K_MIN..K_MAX

AcceptBlock(id, ps) ==
    /\ AddBlock(id, ps)
    /\ LET d == View(blocks', parents', children', tips',
                     selected_parent, blue_set, red_set, blue_score)
           e == ProcessBlock(d, k, id)
       IN  /\ selected_parent' = e.sp
           /\ blue_set' = e.blue
           /\ red_set' = e.red
           /\ blue_score' = e.score
    /\ k' = k

(* adjust_k, with the clock and the load left open.                        *)
MutAdjustK ==              \* without the clamp
    /\ k' \in {k - 1, k + 1}
    /\ UNCHANGED dagVars /\ UNCHANGED ghostFields
AdjustK ==
    /\ k' \in {k - 1, k + 1} \cap K_MIN..K_MAX
    /\ UNCHANGED dagVars /\ UNCHANGED ghostFields

GhostNext ==
    \/ \E id \in Hash, ps \in SUBSET Hash : AcceptBlock(id, ps)
    \/ AdjustK

GhostSpec == GhostInit /\ [][GhostNext]_ghostVars

----------------------------------------------------------------------------
(* Types of the consensus fields of the stored blocks. *)
GhostTypeOK ==
    /\ selected_parent \in [Hash -> Hash \cup {None}]
    /\ blue_set \in [Hash -> SUBSET Hash]
    /\ red_set \in [Hash -> SUBSET Hash]
    /\ blue_score \in [Hash -> Nat]
    /\ k \in K_MIN..K_MAX

IsGenesis(h) == h \in blocks /\ parents[h] = {}

(* No stale choice and no stale score: after any arrival order, with k      *)
(* changing in between, the stored selected parent of a block is the parent *)
(* that select_parent would choose now, and its stored blue score is what   *)
(* recompute_block computes from that parent and the stored blue set.       *)
ScoresFresh ==
    \A h \in blocks : ~IsGenesis(h) =>
        /\ selected_parent[h] = SelectParent(dag, parents[h])
        /\ blue_score[h] = blue_score[selected_parent[h]] + Cardinality(blue_set[h])

(* The order get_ordering gives to the blocks is a linear extension of the *)
(* DAG: every block comes after all of its ancestors.                      *)
OrderingRespectsDag ==
    LET o == Ordering(dag)
    IN  \A i, j \in DOMAIN o : o[i] \in AncestorsOf(parents, o[j]) => i < j

(* The virtual selected chain starts at the genesis block, ends at the     *)
(* selected tip and is linked by parent links.                             *)
SelectedChainRooted ==
    Cardinality(blocks) > 1 =>
        LET c == VirtualSelectedChain(dag, k)
        IN  /\ c # <<>> /\ IsGenesis(c[1]) /\ Last(c) \in tips
            /\ \A i \in 1..(Len(c) - 1) : c[i] \in parents[c[i + 1]]

(* topological_sort loses and repeats no block of any set of blocks that   *)
(* process_block can pass to it, and puts parents before children.         *)
TopologicalSortCorrect ==
    \A h \in blocks :
        LET nodes == Affected(dag, h)
            s == TopologicalSort(dag, nodes)
        IN  /\ Len(s) = Cardinality(nodes) /\ ToSet(s) = nodes
            /\ \A i, j \in DOMAIN s : s[i] \in parents[s[j]] => i < j

(* A final block stays final: no later block takes check_finality back, as *)
(* long as k is not adjusted in the same step.                             *)
FinalityStable ==
    [][k' = k => FinalBlocks(dag, k, 0) \subseteq FinalBlocks(dag', k', 0)]_ghostVars

(* The plans reorganize_to_tip can return for the tip t. *)
ReorgPlans(t) ==
    LET v == BuildVirtualBlock(dag, k)
    IN  {[down |-> ToDisconnect(dag, k, a), up |-> ToConnect(dag, t, a)] :
            a \in IF v.sp = None THEN {} ELSE CommonAncestors(dag, v.sp, t)}

(* Scores, choices and the selected chain, after every arrival order: none *)
(* of what process_block stores is out of date when the next block comes.  *)
GhostStateSound == GhostTypeOK /\ ScoresFresh /\ SelectedChainRooted

(* Both orders of the blocks, the one of get_ordering and the one in which *)
(* process_block recomputes, put ancestors first and lose no block.        *)
OrdersSound == OrderingRespectsDag /\ TopologicalSortCorrect
(* For the runs: the genesis block gets the lowest id; its place in the order of *)
(* the hashes decides nothing, since it has no sibling.                          *)
GenesisLowest == blocks # {} => Min(Hash) \in blocks
============================================================================
