----------------------------- MODULE DagProofs -----------------------------
(***************************************************************************)
(* Proofs about Dag and GhostDag, for every set of ids: the structure of   *)
(* the DAG; the closures, sorts and orders GhostDag computes from it; and  *)
(* that nothing process_block stores is ever out of date.                  *)
(***************************************************************************)
EXTENDS GhostDag, FiniteInduction, SequenceTheorems

(* Every operation of the DAG keeps its fields in their types. *)
LEMMA DagTypeStep == DagTypeOK /\ [DagNext]_dagVars => DagTypeOK'
<1> SUFFICES ASSUME DagTypeOK, [DagNext]_dagVars PROVE DagTypeOK'
  OBVIOUS
<1> USE DEF DagTypeOK
<1>1. ASSUME NEW id \in Hash, NEW ps \in SUBSET Hash, AddBlock(id, ps)
      PROVE  DagTypeOK'
  BY <1>1 DEF AddBlock, CanAddBlock
<1>2. ASSUME NEW id \in Hash, RemoveBlock(id)
      PROVE  DagTypeOK'
  BY <1>2 DEF RemoveBlock
<1>3. CASE UNCHANGED dagVars
  BY <1>3 DEF dagVars
<1> QED
  BY <1>1, <1>2, <1>3 DEF DagNext

(* add_block and remove_block keep the parent and the child links inverse. *)
LEMMA LinksStep ==
  DagTypeOK /\ LinksConsistent /\ [DagNext]_dagVars => LinksConsistent'
<1> SUFFICES ASSUME DagTypeOK, LinksConsistent, [DagNext]_dagVars
             PROVE  LinksConsistent'
  OBVIOUS
<1> USE DEF DagTypeOK, LinksConsistent
<1>1. ASSUME NEW id \in Hash, NEW ps \in SUBSET Hash, AddBlock(id, ps)
      PROVE  LinksConsistent'
  <2>1. parents[id] = {} /\ children[id] = {}
    BY <1>1 DEF AddBlock, CanAddBlock
  <2>2. \A h \in Hash : parents'[h] \subseteq blocks' /\ children'[h] \subseteq blocks'
    BY <1>1 DEF AddBlock, CanAddBlock
  <2>3. \A p, c \in Hash : p \in parents'[c] <=> c \in children'[p]
    BY <1>1, <2>1 DEF AddBlock, CanAddBlock
  <2> QED
    BY <2>2, <2>3
<1>2. ASSUME NEW id \in Hash, RemoveBlock(id)
      PROVE  LinksConsistent'
  BY <1>2 DEF RemoveBlock
<1>3. CASE UNCHANGED dagVars
  BY <1>3 DEF dagVars
<1> QED
  BY <1>1, <1>2, <1>3 DEF DagNext

(* A block is added on top of stored blocks only, and removal only drops   *)
(* links, so the parent relation stays well founded.                       *)
LEMMA AcyclicStep ==
  DagTypeOK /\ LinksConsistent /\ Acyclic /\ [DagNext]_dagVars => Acyclic'
<1> SUFFICES ASSUME DagTypeOK, LinksConsistent, Acyclic, [DagNext]_dagVars,
                    NEW S \in SUBSET blocks', S # {}
             PROVE  \E b \in S : parents'[b] \cap S = {}
  BY DEF Acyclic
<1> USE DEF DagTypeOK
<1>1. ASSUME NEW id \in Hash, NEW ps \in SUBSET Hash, AddBlock(id, ps)
      PROVE  \E b \in S : parents'[b] \cap S = {}
  <2> DEFINE R == S \ {id}
  <2>1. R \in SUBSET blocks
    BY <1>1 DEF AddBlock
  <2>2. CASE R = {}
    <3>1. S = {id}
      BY <2>2
    <3>2. parents'[id] \cap S = {}
      BY <1>1, <3>1 DEF AddBlock, CanAddBlock
    <3> QED
      BY <3>1, <3>2
  <2>3. CASE R # {}
    <3>1. PICK b \in R : parents[b] \cap R = {}
      BY <2>1, <2>3 DEF Acyclic
    <3>2. b \in Hash /\ b # id /\ parents'[b] = parents[b]
      BY <1>1, <2>1, <3>1 DEF AddBlock
    <3>3. id \notin parents[b]
      BY <1>1, <3>2 DEF AddBlock, CanAddBlock, LinksConsistent
    <3> QED
      BY <3>1, <3>2, <3>3
  <2> QED
    BY <2>2, <2>3
<1>2. ASSUME NEW id \in Hash, RemoveBlock(id)
      PROVE  \E b \in S : parents'[b] \cap S = {}
  <2>1. S \in SUBSET blocks
    BY <1>2 DEF RemoveBlock
  <2>2. PICK b \in S : parents[b] \cap S = {}
    BY <2>1 DEF Acyclic
  <2>3. parents'[b] \subseteq parents[b]
    BY <1>2, <2>1, <2>2 DEF RemoveBlock
  <2> QED
    BY <2>2, <2>3
<1>3. CASE UNCHANGED dagVars
  BY <1>3 DEF dagVars, Acyclic
<1> QED
  BY <1>1, <1>2, <1>3 DEF DagNext

(* A block leaves the tips in the step that gives it its first child. *)
LEMMA TipsStep ==
  DagTypeOK /\ LinksConsistent /\ TipsChildless /\ [DagNext]_dagVars => TipsChildless'
<1> SUFFICES ASSUME DagTypeOK, LinksConsistent, TipsChildless, [DagNext]_dagVars
             PROVE  TipsChildless'
  OBVIOUS
<1> USE DEF DagTypeOK, TipsChildless
<1>1. ASSUME NEW id \in Hash, NEW ps \in SUBSET Hash, AddBlock(id, ps)
      PROVE  TipsChildless'
  <2>1. children[id] = {}
    BY <1>1 DEF AddBlock, CanAddBlock, LinksConsistent
  <2> QED
    BY <1>1, <2>1 DEF AddBlock, CanAddBlock
<1>2. ASSUME NEW id \in Hash, RemoveBlock(id)
      PROVE  TipsChildless'
  BY <1>2 DEF RemoveBlock
<1>3. CASE UNCHANGED dagVars
  BY <1>3 DEF dagVars
<1> QED
  BY <1>1, <1>2, <1>3 DEF DagNext

(* For every set of ids and every sequence of add_block and remove_block:  *)
(* the fields keep their types, the links are inverse and lead to stored   *)
(* blocks, the parent relation is acyclic and no tip has a child.          *)
THEOREM DagCorrect == DagSpec => []DagInv
<1>1. DagInit => DagInv
  BY DEF DagInit, DagInv, DagTypeOK, LinksConsistent, Acyclic, TipsChildless
<1>2. DagInv /\ [DagNext]_dagVars => DagInv'
  BY DagTypeStep, LinksStep, AcyclicStep, TipsStep DEF DagInv
<1> QED
  BY <1>1, <1>2, PTL DEF DagSpec

(* Acyclicity of the block DAG on its own, as the run of Dag checks it. *)
THEOREM DagAcyclic == DagSpec => []Acyclic
<1>1. DagInv => Acyclic
  BY DEF DagInv
<1> QED
  BY <1>1, DagCorrect, PTL

----------------------------------------------------------------------------
(* Lists without repetition *)

(* q names every element of S once. *)
Lists(q, S) ==
    /\ q \in Seq(S)
    /\ \A i, j \in 1 .. Len(q) : i # j => q[i] # q[j]
    /\ \A x \in S : \E i \in 1 .. Len(q) : q[i] = x

(* Vec::sort loses and repeats nothing. *)
LEMMA SortedLists ==
  ASSUME NEW S \in SUBSET Nat, IsFiniteSet(S)
  PROVE  Lists(Sorted(S), S)
<1> DEFINE n == Cardinality(S)
           Rank(x) == Cardinality({y \in S : y <= x})
<1>1. PICK R : \A x, y \in Nat : <<x, y>> \in R <=> x < y
  <2> DEFINE P == {p \in Nat \X Nat : p[1] < p[2]}
  <2>1. \A x, y \in Nat : <<x, y>> \in P <=> x < y
    OBVIOUS
  <2> HIDE DEF P
  <2> QED
    BY <2>1, Zenon
<1>2. Ordered(S, R) /\ \A x \in S : <<x, x>> \notin R
  BY <1>1 DEF Ordered
<1>3. ASSUME NEW x \in S PROVE Rank(x) = Cardinality({y \in S : <<y, x>> \in R}) + 1
  <2> DEFINE B == {y \in S : <<y, x>> \in R}
  <2>1. x \notin B /\ B \in SUBSET S
    BY <1>1
  <2>0. {y \in S : y <= x} = B \cup {x}
    <3>1. ASSUME NEW y \in S PROVE y <= x <=> y \in B \cup {x}
      <4>1. y \in B <=> <<y, x>> \in R
        OBVIOUS
      <4> HIDE DEF B
      <4> QED
        BY <1>1, <4>1
    <3> HIDE DEF B
    <3> QED
      BY <2>1, <3>1
  <2>2. IsFiniteSet(B)
    BY <2>1, FS_Subset
  <2> HIDE DEF B
  <2>3. Cardinality(B \cup {x}) = Cardinality(B) + 1
    BY <2>1, <2>2, FS_AddElement
  <2> QED
    BY <2>0, <2>3, Zenon DEF B
<1>4. /\ n \in Nat
      /\ \A x \in S : Rank(x) \in 1 .. n
      /\ \A x, z \in S : x < z => Rank(x) < Rank(z)
      /\ \A i \in 1 .. n : \E x \in S : Rank(x) = i
  <2> DEFINE low == [x \in S |-> Cardinality({y \in S : <<y, x>> \in R})]
  <2>1. /\ n \in Nat
        /\ \A x \in S : low[x] \in 0 .. n - 1
        /\ \A x, z \in S : <<x, z>> \in R => low[x] < low[z]
        /\ \A i \in 0 .. n - 1 : \E x \in S : low[x] = i
    <3>1. \A x \in S : low[x] = Place(S, R, x)
      BY Zenon DEF Place
    <3>2. /\ Cardinality(S) \in Nat
          /\ \A x \in S : Place(S, R, x) \in 0 .. Cardinality(S) - 1
          /\ \A x, z \in S : <<x, z>> \in R => Place(S, R, x) < Place(S, R, z)
          /\ \A i \in 0 .. Cardinality(S) - 1 : \E x \in S : Place(S, R, x) = i
      <4> HIDE DEF n, Rank, low
      <4> QED
        BY <1>2, Ranks
    <3> HIDE DEF low
    <3> QED
      BY <3>1, <3>2
  <2>2. \A x \in S : Rank(x) = low[x] + 1
    BY <1>3
  <2> HIDE DEF Rank, low, n
  <2>3. ASSUME NEW x \in S PROVE Rank(x) \in 1 .. n
    <3>1. low[x] \in 0 .. n - 1 /\ Rank(x) = low[x] + 1 /\ n \in Nat
      BY <2>1, <2>2
    <3> QED
      BY <3>1
  <2>4. ASSUME NEW x \in S, NEW z \in S, x < z PROVE Rank(x) < Rank(z)
    <3>1. low[x] \in 0 .. n - 1 /\ Rank(x) = low[x] + 1 /\ n \in Nat
      BY <2>1, <2>2
    <3>2. low[z] \in 0 .. n - 1 /\ Rank(z) = low[z] + 1
      BY <2>1, <2>2
    <3>3. <<x, z>> \in R
      BY <1>1, <2>4
    <3> QED
      BY <2>1, <3>1, <3>2, <3>3
  <2>5. ASSUME NEW i \in 1 .. n PROVE \E x \in S : Rank(x) = i
    <3>1. PICK x \in S : low[x] = i - 1
      BY <2>1
    <3>2. low[x] + 1 = i
      BY <3>1
    <3> QED
      BY <2>2, <3>2
  <2> QED
    BY <2>1, <2>3, <2>4, <2>5
<1> DEFINE q == [i \in 1 .. n |-> CHOOSE x \in S : Rank(x) = i]
<1>5. Sorted(S) = q
  BY DEF Sorted
<1> HIDE DEF Rank, n
<1>6. ASSUME NEW i \in 1 .. n PROVE q[i] \in S /\ Rank(q[i]) = i
  BY <1>4
<1>7. q \in Seq(S) /\ Len(q) = n /\ DOMAIN q = 1 .. n
  BY <1>4, <1>6
<1> HIDE DEF q
<1>8. ASSUME NEW x \in S PROVE \E i \in 1 .. n : q[i] = x
  <2>1. Rank(x) \in 1 .. n /\ q[Rank(x)] \in S /\ Rank(q[Rank(x)]) = Rank(x)
    BY <1>4, <1>6
  <2>2. q[Rank(x)] \in Nat /\ x \in Nat
    BY <2>1
  <2>3. q[Rank(x)] = x
    BY <1>4, <2>1, <2>2
  <2> QED
    BY <2>1, <2>3
<1> QED
  BY <1>5, <1>6, <1>7, <1>8 DEF Lists

----------------------------------------------------------------------------
(* Closures: what get_ancestors and get_descendants reach *)

Reaching == INSTANCE Folding
    WITH Step <- LAMBDA link, r, i : r \cup UNION {link[x] : x \in r}

(* The rounds of the search: from the neighbours of b, each round adds the *)
(* neighbours of what it has; the closure is what the last round leaves.   *)
IsSearch(f, link, b) ==
    /\ f[0] = link[b] /\ Closure(link, b) = f[Cardinality(Hash)]
    /\ \A i \in 1 .. Cardinality(Hash) : f[i] = f[i - 1] \cup UNION {link[x] : x \in f[i - 1]}

(* There is such a search. *)
LEMMA ClosureRounds ==
  ASSUME NEW link, NEW b
  PROVE  Cardinality(Hash) \in Nat /\ \E f : IsSearch(f, link, b)
<1> DEFINE n == Cardinality(Hash)
           q == [i \in 1 .. n |-> i]
           IsReach(f) == f = [i \in 0 .. n |-> IF i = 0 THEN link[b] ELSE f[i - 1] \cup UNION {link[x] : x \in f[i - 1]}]
<1>1. n \in Nat
  BY GhostAssumption, FS_CardinalityType
<1>2. Len(q) = n /\ DOMAIN q = 1 .. n /\ Len(q) \in Nat
  <2> HIDE DEF n
  <2> QED
    BY <1>1
<1> HIDE DEF q, n
<1>3. \E f : IsReach(f)
  <2>1. PICK f : Reaching!IsTrace(link, f, link[b], q)
    BY <1>2, Leasts, Reaching!FoldTrace, Zenon
  <2>2. IsReach(f)
    BY <1>2, <2>1, Zenon DEF Reaching!IsTrace
  <2> QED
    BY <2>2, Zenon
<1> DEFINE f == CHOOSE f : IsReach(f)
<1>4. IsReach(f) /\ Closure(link, b) = f[n]
  <2>1. IsReach(f)
    BY <1>3, Zenon
  <2>2. Closure(link, b) = f[n]
    BY Zenon DEF Closure, n
  <2> QED
    BY <2>1, <2>2
<1> HIDE DEF f
<1>5. 0 \in 0 .. n /\ \A i \in 1 .. n : i \in 0 .. n /\ i # 0
  BY <1>1
<1>6. f[0] = link[b] /\ \A i \in 1 .. n : f[i] = f[i - 1] \cup UNION {link[x] : x \in f[i - 1]}
  BY <1>4, <1>5, Zenon
<1> QED
  BY <1>1, <1>4, <1>6, Zenon DEF n, IsSearch
(* A closure holds the neighbours of b and their neighbours in turn: there *)
(* are more rounds than a search can add blocks to.                        *)
LEMMA ClosureClosed ==
  ASSUME NEW link \in [Hash -> SUBSET Hash], NEW b \in Hash
  PROVE  /\ Closure(link, b) \in SUBSET Hash /\ link[b] \subseteq Closure(link, b)
         /\ \A x \in Closure(link, b) : link[x] \subseteq Closure(link, b)
<1> DEFINE n == Cardinality(Hash)
           Closed(r) == \A x \in r : link[x] \subseteq r
           Grown(r) == r \cup UNION {link[x] : x \in r}
<1>1. PICK f : /\ n \in Nat /\ f[0] = link[b] /\ Closure(link, b) = f[n]
               /\ \A i \in 1 .. n : f[i] = Grown(f[i - 1])
  <2>1. n \in Nat /\ \E g : IsSearch(g, link, b)
    BY ClosureRounds
  <2> QED
    BY <2>1, Zenon DEF IsSearch
<1>2. IsFiniteSet(Hash)
  BY GhostAssumption
<1>3. ASSUME NEW r \in SUBSET Hash
      PROVE  /\ Grown(r) \in SUBSET Hash /\ r \subseteq Grown(r)
             /\ Closed(r) => Grown(r) = r
             /\ ~Closed(r) => \E y \in Grown(r) : y \notin r
             /\ r = Hash => Closed(r)
  OBVIOUS
<1>4. ASSUME NEW r \in SUBSET Hash
      PROVE  /\ Cardinality(r) \in Nat /\ Cardinality(r) <= n
             /\ Cardinality(r) = n => Closed(r)
             /\ ~Closed(r) => Cardinality(Grown(r)) >= Cardinality(r) + 1
  <2> HIDE DEF Grown, Closed
  <2>1. IsFiniteSet(r) /\ Cardinality(r) \in Nat /\ Cardinality(r) <= n /\ (n = Cardinality(r) => Hash = r)
    BY <1>2, FS_Subset, FS_CardinalityType
  <2>2. IsFiniteSet(Grown(r)) /\ Cardinality(Grown(r)) \in Nat
    BY <1>2, <1>3, FS_Subset, FS_CardinalityType
  <2>3. Cardinality(r) <= Cardinality(Grown(r)) /\ (Cardinality(Grown(r)) = Cardinality(r) => Grown(r) = r)
    BY <1>3, <2>2, FS_Subset
  <2>4. ~Closed(r) => Cardinality(Grown(r)) >= Cardinality(r) + 1
    BY <1>3, <2>1, <2>2, <2>3
  <2> QED
    BY <1>3, <2>1, <2>4
<1> HIDE DEF Grown, Closed, n
<1> DEFINE G == {i \in 0 .. n : /\ f[i] \in SUBSET Hash /\ link[b] \subseteq f[i]
                                /\ Closed(f[i]) \/ Cardinality(f[i]) >= i}
<1>5. 0 \in G
  <2>1. f[0] \in SUBSET Hash /\ link[b] \subseteq f[0]
    BY <1>1
  <2>2. Cardinality(f[0]) >= 0
    BY <1>4, <2>1
  <2> QED
    BY <1>1, <2>1, <2>2
<1>6. ASSUME NEW i \in 0 .. n - 1, i \in G PROVE i + 1 \in G
  <2>1. i + 1 \in 0 .. n /\ i \in Nat /\ f[i + 1] = Grown(f[i])
    <3>1. i + 1 \in 1 .. n /\ i + 1 \in 0 .. n /\ i \in Nat /\ (i + 1) - 1 = i
      BY <1>1
    <3> QED
      BY <1>1, <3>1
  <2>2. f[i] \in SUBSET Hash /\ link[b] \subseteq f[i] /\ (Closed(f[i]) \/ Cardinality(f[i]) >= i)
    BY <1>6
  <2>3. f[i + 1] \in SUBSET Hash /\ link[b] \subseteq f[i + 1]
    BY <1>3, <2>1, <2>2
  <2>4. Closed(f[i + 1]) \/ Cardinality(f[i + 1]) >= i + 1
    <3>1. CASE Closed(f[i])
      BY <1>3, <2>1, <2>2, <3>1
    <3>2. CASE ~Closed(f[i])
      <4>1. Cardinality(Grown(f[i])) >= Cardinality(f[i]) + 1 /\ Cardinality(f[i]) \in Nat
        BY <1>4, <2>2, <3>2
      <4>2. Cardinality(Grown(f[i])) \in Nat
        BY <1>3, <1>4, <2>2
      <4> QED
        BY <2>1, <2>2, <3>2, <4>1, <4>2
    <3> QED
      BY <3>1, <3>2
  <2> QED
    BY <2>1, <2>3, <2>4
<1>7. n \in G
  <2> HIDE DEF G
  <2>1. \A i \in 0 .. n : i \in G
    BY <1>1, <1>5, <1>6, UpTo
  <2> QED
    BY <1>1, <2>1
<1>8. f[n] \in SUBSET Hash /\ link[b] \subseteq f[n] /\ (Closed(f[n]) \/ Cardinality(f[n]) >= n)
  BY <1>7
<1>9. Closed(f[n])
  BY <1>1, <1>4, <1>8
<1> QED
  BY <1>1, <1>8, <1>9 DEF Closed

(* A closure holds nothing else. *)
LEMMA ClosureLeast ==
  ASSUME NEW link, NEW b, NEW S, link[b] \subseteq S, \A x \in S : link[x] \subseteq S
  PROVE  Closure(link, b) \subseteq S
<1> DEFINE n == Cardinality(Hash)
<1>1. PICK f : /\ n \in Nat /\ f[0] = link[b] /\ Closure(link, b) = f[n]
               /\ \A i \in 1 .. n : f[i] = f[i - 1] \cup UNION {link[x] : x \in f[i - 1]}
  <2>1. n \in Nat /\ \E g : IsSearch(g, link, b)
    BY ClosureRounds
  <2> QED
    BY <2>1, Zenon DEF IsSearch
<1> DEFINE G == {i \in 0 .. n : f[i] \subseteq S}
<1> HIDE DEF n
<1>2. 0 \in G
  BY <1>1
<1>3. ASSUME NEW i \in 0 .. n - 1, i \in G PROVE i + 1 \in G
  <2>1. i + 1 \in 1 .. n /\ i + 1 \in 0 .. n /\ i \in Nat /\ (i + 1) - 1 = i
    BY <1>1
  <2>2. f[i + 1] = f[i] \cup UNION {link[x] : x \in f[i]} /\ f[i] \subseteq S
    BY <1>1, <1>3, <2>1
  <2> QED
    BY <2>1, <2>2
<1>4. n \in G
  <2> HIDE DEF G
  <2>1. \A i \in 0 .. n : i \in G
    BY <1>1, <1>2, <1>3, UpTo
  <2> QED
    BY <1>1, <2>1
<1> QED
  BY <1>1, <1>4

----------------------------------------------------------------------------
(* The choice of the selected parent *)

(* h has the highest score of C, and the lowest hash of those that have it. *)
Best(score, C, h) ==
    h \in C /\ \A o \in C : score[o] < score[h] \/ (score[o] = score[h] /\ h <= o)

(* At most one block is the best: nothing is left to the order in which    *)
(* a HashSet yields the parents.                                           *)
LEMMA BestUnique ==
  ASSUME NEW score \in [Hash -> Nat], NEW C \in SUBSET Hash, NEW g, NEW h,
         Best(score, C, g), Best(score, C, h)
  PROVE  g = h
<1>1. g \in Nat /\ h \in Nat /\ score[g] \in Nat /\ score[h] \in Nat
  BY HashAssumption DEF Best
<1> QED
  BY <1>1 DEF Best

(* select_parent finds the best of the parents that are stored. *)
LEMMA SelectBest ==
  ASSUME NEW d, d.score \in [Hash -> Nat], NEW ps, ps \cap d.blocks \in SUBSET Hash, ps \cap d.blocks # {}
  PROVE  Best(d.score, ps \cap d.blocks, SelectParent(d, ps))
<1> DEFINE C == ps \cap d.blocks
<1>1. PICK score : score = d.score /\ score \in [Hash -> Nat]
  OBVIOUS
<1>2. PICK R : \A x, y \in Hash :
          <<x, y>> \in R <=> score[x] < score[y] \/ (score[x] = score[y] /\ y < x)
  <2> DEFINE P == {p \in Hash \X Hash : score[p[1]] < score[p[2]] \/ (score[p[1]] = score[p[2]] /\ p[2] < p[1])}
  <2>1. \A x, y \in Hash :
          <<x, y>> \in P <=> score[x] < score[y] \/ (score[x] = score[y] /\ y < x)
    OBVIOUS
  <2> HIDE DEF P
  <2> QED
    BY <2>1, Zenon
<1>3. \A x \in Hash : x \in Nat /\ score[x] \in Nat
  BY <1>1, HashAssumption
<1>4. Ordered(Hash, R)
  BY <1>2, <1>3 DEF Ordered
<1>5. IsFiniteSet(Hash) /\ C \in SUBSET Hash /\ C # {}
  BY GhostAssumption
<1> HIDE DEF C
<1>6. PICK m \in C : \A y \in C : y # m => <<y, m>> \in R
  BY <1>4, <1>5, Greatest
<1>7. Best(score, C, m)
  <2>1. ASSUME NEW o \in C PROVE score[o] < score[m] \/ (score[o] = score[m] /\ m <= o)
    <3>1. o \in Hash /\ m \in Hash /\ o \in Nat /\ m \in Nat
      BY <1>3, <1>5
    <3>2. CASE o = m
      BY <3>1, <3>2
    <3>3. CASE o # m
      <4>1. <<o, m>> \in R
        BY <1>6, <3>3
      <4> QED
        BY <1>2, <3>1, <4>1
    <3> QED
      BY <3>2, <3>3
  <2> QED
    BY <2>1 DEF Best
<1>8. SelectParent(d, ps) = CHOOSE h \in C : \A o \in C : score[o] < score[h] \/ (score[o] = score[h] /\ h <= o)
  BY <1>1, <1>5, Zenon DEF SelectParent, C
<1>9. Best(score, C, SelectParent(d, ps))
  BY <1>7, <1>8, Zenon DEF Best
<1> QED
  BY <1>1, <1>9, Zenon DEF C

----------------------------------------------------------------------------
(* Colouring *)

Colouring == INSTANCE Folding WITH Step <- LAMBDA a, c, h : Colour(a[1], a[2], c, h)

Colours == [blue : SUBSET Hash, red : SUBSET Hash]

(* build_blue_set colours blocks only, and the selected parent is blue.    *)
LEMMA BlueSets ==
  ASSUME NEW d, NEW kk, NEW sp \in Hash, d.blue \in [Hash -> SUBSET Hash], d.anti[sp] \in SUBSET Hash
  PROVE  BuildBlueSet(d, kk, sp) \in Colours /\ sp \in BuildBlueSet(d, kk, sp).blue
<1> DEFINE q == Sorted(d.anti[sp])
           a == <<d, kk>>
           base == [blue |-> d.blue[sp] \cup {sp}, red |-> {}]
<1>1. BuildBlueSet(d, kk, sp) = Colouring!Fold(a, base, q)
  BY Zenon DEF BuildBlueSet, FoldLeft, MapThenFoldSet, Max, Colouring!Fold, Colouring!IsIter, Colouring!Latest
<1>2. Len(q) \in Nat /\ DOMAIN q = 1 .. Len(q) /\ \A i \in 1 .. Len(q) : q[i] \in Hash
  <2>1. IsFiniteSet(d.anti[sp]) /\ d.anti[sp] \in SUBSET Nat
    BY GhostAssumption, HashAssumption, FS_Subset
  <2>2. q \in Seq(d.anti[sp])
    BY <2>1, SortedLists DEF Lists
  <2> HIDE DEF q
  <2> QED
    BY <2>2
<1>3. base \in Colours /\ sp \in base.blue
  BY DEF Colours
<1>4. ASSUME NEW c \in Colours, sp \in c.blue, NEW h \in Hash
      PROVE  Colour(a[1], a[2], c, h) \in Colours /\ sp \in Colour(a[1], a[2], c, h).blue
  <2> DEFINE P == Cardinality(d.anti[h] \cap c.blue) <= kk
  <2>1. Colour(a[1], a[2], c, h) = IF P THEN [c EXCEPT !.blue = @ \cup {h}] ELSE [c EXCEPT !.red = @ \cup {h}]
    BY Zenon DEF Colour
  <2> HIDE DEF P
  <2> QED
    BY <1>4, <2>1 DEF Colours
<1> HIDE DEF a, base, q
<1>5. PICK f : Colouring!IsTrace(a, f, base, q) /\ Colouring!Fold(a, base, q) = f[Len(q)]
  BY <1>2, Leasts, Colouring!FoldTrace, Zenon
<1>6. f[0] = base /\ \A i \in 1 .. Len(q) : f[i] = Colour(a[1], a[2], f[i - 1], q[i])
  BY <1>2, <1>5, Colouring!TraceStep
<1> DEFINE G == {i \in 0 .. Len(q) : f[i] \in Colours /\ sp \in f[i].blue}
<1>7. 0 \in G
  BY <1>2, <1>3, <1>6
<1>8. ASSUME NEW i \in 0 .. Len(q) - 1, i \in G PROVE i + 1 \in G
  <2>1. i + 1 \in 1 .. Len(q) /\ i + 1 \in 0 .. Len(q) /\ (i + 1) - 1 = i
    BY <1>2
  <2>2. f[i + 1] = Colour(a[1], a[2], f[i], q[i + 1]) /\ q[i + 1] \in Hash
    BY <1>2, <1>6, <2>1
  <2>3. f[i] \in Colours /\ sp \in f[i].blue
    BY <1>8
  <2>4. f[i + 1] \in Colours /\ sp \in f[i + 1].blue
    BY <1>4, <2>2, <2>3, Zenon
  <2> QED
    BY <2>1, <2>4
<1>9. Len(q) \in G
  <2> HIDE DEF G
  <2>1. \A i \in 0 .. Len(q) : i \in G
    BY <1>2, <1>7, <1>8, UpTo
  <2> QED
    BY <1>2, <2>1
<1> QED
  BY <1>1, <1>5, <1>9

----------------------------------------------------------------------------
(* Kahn's algorithm *)

(* A list of a finite set is as long as the set. *)
LEMMA ListLength ==
  ASSUME NEW S, NEW q, Lists(q, S)
  PROVE  IsFiniteSet(S) /\ Len(q) \in Nat /\ Cardinality(S) = Len(q)
<1> DEFINE n == Len(q)
<1>1. n \in Nat /\ q \in [1 .. n -> S]
  BY DEF Lists
<1>2. IsFiniteSet(1 .. n) /\ Cardinality(1 .. n) = n
  <2> HIDE DEF n
  <2> QED
    BY <1>1, FS_Interval
<1>3. q \in Bijection(1 .. n, S)
  BY <1>1 DEF Lists, Bijection, Injection, IsInjective, Surjection
<1>4. IsFiniteSet(S) /\ Cardinality(S) = n
  BY <1>2, <1>3, FS_Bijection, Zenon DEF ExistsBijection
<1> QED
  BY <1>1, <1>4

(* Pop: the last entry leaves the list and the set. *)
LEMMA ListPop ==
  ASSUME NEW S, S # {}, NEW q, Lists(q, S)
  PROVE  q # <<>> /\ Last(q) \in S /\ Lists(Front(q), S \ {Last(q)})
<1> DEFINE n == Len(q)
<1>1. q \in Seq(S) /\ n \in Nat /\ n # 0 /\ q # <<>>
  BY DEF Lists
<1>2. Last(q) = q[n] /\ q[n] \in S /\ Front(q) = SubSeq(q, 1, n - 1)
  BY <1>1 DEF Last, Front
<1>3. ASSUME NEW i \in 1 .. n, NEW j \in 1 .. n, i # j PROVE q[i] # q[j] /\ q[i] \in S
  BY <1>1, <1>3 DEF Lists
<1> HIDE DEF n
<1>4. PICK l \in Nat : n = l + 1
  <2>1. n - 1 \in Nat /\ n = (n - 1) + 1
    BY <1>1
  <2> QED
    BY <2>1
<1>0. \A i \in 1 .. l : i \in 1 .. n /\ i # n /\ q[i] \in S \ {q[n]}
  <2>1. \A i \in 1 .. l : i \in 1 .. n /\ i # n /\ n \in 1 .. n
    BY <1>4
  <2> QED
    BY <1>3, <2>1
<1>5. Front(q) \in Seq(S \ {q[n]}) /\ Len(Front(q)) = l /\ \A i \in 1 .. l : Front(q)[i] = q[i]
  <2>1. Front(q) = SubSeq(q, 1, l)
    BY <1>2, <1>4
  <2>2. 1 \in Int /\ l \in Int /\ (l - 1) + 1 = l /\ (~(1 <= l) => l = 0)
    BY <1>4
  <2>3. /\ SubSeq(q, 1, l) \in Seq(S \ {q[n]})
        /\ Len(SubSeq(q, 1, l)) = IF 1 <= l THEN l - 1 + 1 ELSE 0
        /\ \A i \in 1 .. l - 1 + 1 : SubSeq(q, 1, l)[i] = q[1 + i - 1]
    BY <1>0, <2>2, SubSeqProperties
  <2>4. \A i \in 1 .. l : 1 + i - 1 = i
    BY <1>4
  <2> QED
    BY <2>1, <2>2, <2>3, <2>4
<1>6. \A x \in S \ {q[n]} : \E i \in 1 .. l : Front(q)[i] = x
  <2> TAKE x \in S \ {q[n]}
  <2>1. PICK i \in 1 .. n : q[i] = x
    BY DEF Lists, n
  <2>2. i \in 1 .. l
    BY <1>4, <2>1
  <2> QED
    BY <1>5, <2>1, <2>2
<1>7. \A i, j \in 1 .. l : i # j => Front(q)[i] # Front(q)[j]
  BY <1>0, <1>3, <1>5
<1> QED
  BY <1>1, <1>2, <1>5, <1>6, <1>7 DEF Lists

(* Push: a new entry joins the list and the set. *)
LEMMA ListPush ==
  ASSUME NEW S, NEW q, Lists(q, S), NEW x, x \notin S
  PROVE  Lists(Append(q, x), S \cup {x})
<1> DEFINE n == Len(q)
           r == Append(q, x)
<1>1. q \in Seq(S) /\ n \in Nat /\ \A i \in 1 .. n : q[i] \in S
  BY DEF Lists
<1>2. r \in Seq(S \cup {x}) /\ Len(r) = n + 1 /\ r[n + 1] = x /\ \A i \in 1 .. n : r[i] = q[i]
  <2>1. q \in Seq(S \cup {x})
    BY <1>1
  <2> QED
    BY <1>1, <2>1
<1> HIDE DEF r, n
<1>3. ASSUME NEW i \in 1 .. n + 1, NEW j \in 1 .. n + 1, i # j PROVE r[i] # r[j]
  <2>1. \A l \in 1 .. n : r[l] \in S
    BY <1>1, <1>2
  <2>2. i \in 1 .. n /\ j \in 1 .. n => q[i] # q[j]
    BY <1>3 DEF Lists, n
  <2>3. i \in 1 .. n \/ i = n + 1
    BY <1>1
  <2>4. j \in 1 .. n \/ j = n + 1
    BY <1>1
  <2> QED
    BY <1>2, <1>3, <2>1, <2>2, <2>3, <2>4
<1>4. ASSUME NEW y \in S \cup {x} PROVE \E i \in 1 .. n + 1 : r[i] = y
  <2>1. CASE y = x
    BY <1>1, <1>2, <2>1
  <2>2. CASE y \in S
    <3>1. PICK i \in 1 .. n : q[i] = y
      BY <2>2 DEF Lists, n
    <3>2. i \in 1 .. n + 1
      BY <1>1
    <3> QED
      BY <1>2, <3>1, <3>2
  <2> QED
    BY <2>1, <2>2
<1>5. Lists(r, S \cup {x})
  BY <1>2, <1>3, <1>4 DEF Lists
<1> QED
  BY <1>5 DEF r

(* Extend: two lists of disjoint sets make a list of both. *)
LEMMA ListJoin ==
  ASSUME NEW S, NEW T, NEW q, NEW r, Lists(q, S), Lists(r, T), S \cap T = {}
  PROVE  Lists(q \o r, S \cup T)
<1> DEFINE m == Len(q)
           n == Len(r)
           s == q \o r
<1>1. q \in Seq(S) /\ m \in Nat /\ r \in Seq(T) /\ n \in Nat
  BY DEF Lists
<1>2. q \in Seq(S \cup T) /\ r \in Seq(S \cup T)
  BY <1>1
<1>3. s \in Seq(S \cup T) /\ Len(s) = m + n /\ \A i \in 1 .. m + n : s[i] = IF i <= m THEN q[i] ELSE r[i - m]
  BY <1>1, <1>2
<1>4. (\A i \in 1 .. m : q[i] \in S) /\ (\A i \in 1 .. n : r[i] \in T)
  BY <1>1
<1> HIDE DEF s
<1>5. ASSUME NEW i \in 1 .. m + n, NEW j \in 1 .. m + n, i # j PROVE s[i] # s[j]
  <2>1. \/ i \in 1 .. m /\ s[i] = q[i] /\ s[i] \in S
        \/ i - m \in 1 .. n /\ s[i] = r[i - m] /\ s[i] \in T
    BY <1>1, <1>3, <1>4
  <2>2. \/ j \in 1 .. m /\ s[j] = q[j] /\ s[j] \in S
        \/ j - m \in 1 .. n /\ s[j] = r[j - m] /\ s[j] \in T
    BY <1>1, <1>3, <1>4
  <2>3. i \in 1 .. m /\ j \in 1 .. m => q[i] # q[j]
    BY <1>5 DEF Lists
  <2>4. i - m \in 1 .. n /\ j - m \in 1 .. n => r[i - m] # r[j - m]
    <3>1. i - m # j - m
      BY <1>1, <1>5
    <3> QED
      BY <3>1 DEF Lists
  <2> HIDE DEF m, n
  <2> QED
    BY <2>1, <2>2, <2>3, <2>4
<1>6. ASSUME NEW y \in S \cup T PROVE \E i \in 1 .. m + n : s[i] = y
  <2>1. CASE y \in S
    <3>1. PICK i \in 1 .. m : q[i] = y
      BY <2>1 DEF Lists
    <3>2. i \in 1 .. m + n /\ i <= m
      BY <1>1
    <3> QED
      BY <1>3, <3>1, <3>2
  <2>2. CASE y \in T
    <3>1. PICK i \in 1 .. n : r[i] = y
      BY <2>2 DEF Lists
    <3>2. i + m \in 1 .. m + n /\ ~(i + m <= m) /\ (i + m) - m = i
      BY <1>1
    <3> QED
      BY <1>3, <3>1, <3>2
  <2> QED
    BY <2>1, <2>2
<1>7. Lists(s, S \cup T)
  BY <1>3, <1>5, <1>6 DEF Lists
<1> QED
  BY <1>7 DEF s

(* The links of a view of the DAG, as DagInv has them. *)
Linked(d) ==
    /\ d.blocks \in SUBSET Hash
    /\ d.parents \in [Hash -> SUBSET d.blocks]
    /\ d.children \in [Hash -> SUBSET d.blocks]
    /\ \A p, c \in Hash : p \in d.parents[c] <=> c \in d.children[p]
    /\ \A S \in SUBSET d.blocks : S # {} => \E b \in S : d.parents[b] \cap S = {}

(* What the algorithm has to keep once it has put V, of the nodes N, in    *)
(* order: the nodes that are ready, and the parents the others wait for.   *)
Ready(par, N, V) == {h \in N \ V : par[h] \cap N \subseteq V}
Waiting(par, N, V) == [h \in N |-> Cardinality((par[h] \cap N) \ V)]
IsSorting(par, N, V, s) ==
    /\ V \in SUBSET N /\ \A h \in V : par[h] \cap N \subseteq V
    /\ Lists(s.sorted, V) /\ Lists(s.queue, Ready(par, N, V))
    /\ s.deg = Waiting(par, N, V)
    /\ \A i, j \in 1 .. Len(s.sorted) : s.sorted[i] \in par[s.sorted[j]] => i < j

(* The counts of waiting parents, when c has been put in order. *)
LEMMA WaitingStep ==
  ASSUME NEW N, IsFiniteSet(N), NEW par, NEW V, NEW c \in N \ V, NEW h \in N
  PROVE  LET w == Waiting(par, N, V)[h]
             v == Waiting(par, N, V \cup {c})[h]
         IN  /\ v = IF c \in par[h] /\ w > 0 THEN w - 1 ELSE w
             /\ v = 0 <=> par[h] \cap N \subseteq V \cup {c}
<1> DEFINE A == (par[h] \cap N) \ V
           B == (par[h] \cap N) \ (V \cup {c})
<1>1. Waiting(par, N, V)[h] = Cardinality(A) /\ Waiting(par, N, V \cup {c})[h] = Cardinality(B)
  BY DEF Waiting
<1>2. IsFiniteSet(A) /\ IsFiniteSet(B)
  BY FS_Subset
<1>3. Cardinality(A) \in Nat /\ Cardinality(B) \in Nat
  BY <1>2, FS_CardinalityType
<1>4. c \in A <=> c \in par[h]
  OBVIOUS
<1>5. B = A \ {c} /\ (B = {} <=> par[h] \cap N \subseteq V \cup {c})
  OBVIOUS
<1> HIDE DEF A, B
<1>6. Cardinality(B) = 0 <=> B = {}
  BY <1>2, FS_EmptySet
<1>7. c \in A => Cardinality(B) = Cardinality(A) - 1
  BY <1>2, <1>5, FS_RemoveElement
<1>8. c \notin A => B = A
  BY <1>5
<1>9. Cardinality(B) = IF c \in par[h] /\ Cardinality(A) > 0 THEN Cardinality(A) - 1 ELSE Cardinality(A)
  BY <1>3, <1>4, <1>7, <1>8
<1>10. Cardinality(B) = 0 <=> par[h] \cap N \subseteq V \cup {c}
  BY <1>5, <1>6
<1> QED
  BY <1>1, <1>9, <1>10, Zenon

(* One turn puts one more node in order, as long as there is one: the DAG  *)
(* has no cycle, so some node is ready.                                    *)
LEMMA VisitStep ==
  ASSUME NEW d, Linked(d), NEW N \in SUBSET d.blocks, NEW s, NEW V, V # N,
         IsSorting(d.parents, N, V, s)
  PROVE  \E c \in N \ V : IsSorting(d.parents, N, V \cup {c}, Visit(d, N, s))
<1>1. PICK par, chl : /\ par = d.parents /\ chl = d.children
                      /\ N \in SUBSET Hash
                      /\ \A h \in N, c \in N : c \in par[h] <=> h \in chl[c]
                      /\ \A S \in SUBSET N : S # {} => \E b \in S : par[b] \cap S = {}
  BY DEF Linked
<1>2. V \in SUBSET N /\ \A h \in V : par[h] \cap N \subseteq V
  BY <1>1 DEF IsSorting
<1>3. Lists(s.sorted, V) /\ Lists(s.queue, Ready(par, N, V)) /\ s.deg = Waiting(par, N, V)
  BY <1>1 DEF IsSorting
<1>4. \A i, j \in 1 .. Len(s.sorted) : s.sorted[i] \in par[s.sorted[j]] => i < j
  BY <1>1 DEF IsSorting
<1>5. IsFiniteSet(N) /\ N \in SUBSET Nat
  BY <1>1, GhostAssumption, HashAssumption, FS_Subset
<1>6. Ready(par, N, V) # {}
  <2>1. N \ V \in SUBSET N /\ N \ V # {}
    BY <1>2
  <2>2. PICK b \in N \ V : par[b] \cap (N \ V) = {}
    BY <1>1, <2>1
  <2>3. b \in Ready(par, N, V)
    BY <2>2 DEF Ready
  <2> QED
    BY <2>3
<1> DEFINE c == Last(s.queue)
           W == V \cup {c}
           kids == chl[c] \cap N
           deg == [h \in N |-> IF h \in kids /\ s.deg[h] > 0 THEN s.deg[h] - 1 ELSE s.deg[h]]
           fresh == {h \in kids : deg[h] = 0}
           t == [queue |-> Front(s.queue) \o Sorted(fresh), deg |-> deg, sorted |-> Append(s.sorted, c)]
<1>7. s.queue # <<>> /\ c \in Ready(par, N, V) /\ Lists(Front(s.queue), Ready(par, N, V) \ {c})
  BY <1>3, <1>6, ListPop
<1>8. Visit(d, N, s) = t
  BY <1>1, <1>7, Zenon DEF Visit
<1>9. c \in N \ V /\ par[c] \cap N \subseteq V
  BY <1>7 DEF Ready
<1>10. ASSUME NEW h \in N PROVE deg[h] = Waiting(par, N, W)[h] /\ (deg[h] = 0 <=> par[h] \cap N \subseteq W)
  <2>1. /\ Waiting(par, N, W)[h] = IF c \in par[h] /\ Waiting(par, N, V)[h] > 0
                                   THEN Waiting(par, N, V)[h] - 1 ELSE Waiting(par, N, V)[h]
        /\ Waiting(par, N, W)[h] = 0 <=> par[h] \cap N \subseteq W
    BY <1>5, <1>9, WaitingStep
  <2>2. h \in kids <=> c \in par[h]
    BY <1>1, <1>9
  <2>3. deg[h] = IF h \in kids /\ s.deg[h] > 0 THEN s.deg[h] - 1 ELSE s.deg[h]
    BY Zenon
  <2> HIDE DEF kids, deg, W, c
  <2> QED
    BY <1>3, <2>1, <2>2, <2>3, Zenon
<1>11. deg = Waiting(par, N, W)
  <2>1. deg = [h \in N |-> deg[h]] /\ Waiting(par, N, W) = [h \in N |-> Waiting(par, N, W)[h]]
    BY Zenon DEF Waiting
  <2> HIDE DEF deg
  <2> QED
    BY <1>10, <2>1, Zenon
<1>12. Lists(Sorted(fresh), fresh) /\ fresh \in SUBSET N
  <2>1. fresh \in SUBSET N
    OBVIOUS
  <2>2. IsFiniteSet(fresh) /\ fresh \in SUBSET Nat
    BY <1>5, <2>1, FS_Subset
  <2> HIDE DEF fresh
  <2> QED
    BY <2>1, <2>2, SortedLists
<1>13. /\ (Ready(par, N, V) \ {c}) \cap fresh = {}
       /\ (Ready(par, N, V) \ {c}) \cup fresh = Ready(par, N, W)
  <2>1. ASSUME NEW h \in N PROVE h \in fresh <=> c \in par[h] /\ par[h] \cap N \subseteq W
    BY <1>1, <1>9, <1>10
  <2> HIDE DEF fresh, c
  <2>2. ASSUME NEW h \in N, h \in Ready(par, N, V) PROVE h \notin fresh
    BY <1>9, <2>1, <2>2 DEF Ready
  <2>3. ASSUME NEW h \in N PROVE h \in (Ready(par, N, V) \ {c}) \cup fresh <=> h \in Ready(par, N, W)
    <3>1. CASE c \in par[h]
      BY <1>2, <1>9, <2>1, <3>1 DEF Ready
    <3>2. CASE c \notin par[h]
      BY <1>2, <1>9, <2>1, <3>2 DEF Ready
    <3> QED
      BY <3>1, <3>2
  <2>4. Ready(par, N, V) \in SUBSET N /\ Ready(par, N, W) \in SUBSET N
    BY DEF Ready
  <2> QED
    BY <1>12, <2>2, <2>3, <2>4
<1> HIDE DEF deg, fresh, c
<1>14. Lists(Front(s.queue) \o Sorted(fresh), Ready(par, N, W))
  <2>1. Lists(Front(s.queue) \o Sorted(fresh), (Ready(par, N, V) \ {c}) \cup fresh)
    BY <1>7, <1>12, <1>13, ListJoin
  <2> QED
    BY <1>13, <2>1, Zenon
<1>15. Lists(Append(s.sorted, c), W)
  BY <1>3, <1>9, ListPush
<1>16. W \in SUBSET N /\ \A h \in W : par[h] \cap N \subseteq W
  BY <1>2, <1>9
<1>17. ASSUME NEW i \in 1 .. Len(t.sorted), NEW j \in 1 .. Len(t.sorted), t.sorted[i] \in par[t.sorted[j]]
       PROVE  i < j
  <2> DEFINE n == Len(s.sorted)
  <2>1. s.sorted \in Seq(V) /\ n \in Nat
    BY <1>3 DEF Lists
  <2>2. Len(t.sorted) = n + 1 /\ t.sorted[n + 1] = c /\ \A l \in 1 .. n : t.sorted[l] = s.sorted[l] /\ s.sorted[l] \in V
    BY <2>1
  <2>3. i \in 1 .. n \/ i = n + 1
    BY <2>1, <2>2
  <2>4. j \in 1 .. n \/ j = n + 1
    BY <2>1, <2>2
  <2>5. CASE i \in 1 .. n /\ j \in 1 .. n
    BY <1>4, <1>17, <2>2, <2>5
  <2>6. CASE i \in 1 .. n /\ j = n + 1
    BY <2>1, <2>6
  <2>7. CASE i = n + 1
    <3>1. c \in par[t.sorted[j]] /\ t.sorted[j] \in W
      BY <1>17, <2>2, <2>4, <2>7
    <3> QED
      BY <1>2, <1>9, <3>1
  <2> QED
    BY <2>3, <2>4, <2>5, <2>6, <2>7
<1>18. IsSorting(par, N, W, t)
  BY <1>11, <1>14, <1>15, <1>16, <1>17 DEF IsSorting
<1> HIDE DEF t
<1>19. IsSorting(d.parents, N, V \cup {c}, Visit(d, N, s))
  BY <1>1, <1>8, <1>18
<1> QED
  BY <1>9, <1>19

Visiting == INSTANCE Folding WITH Step <- LAMBDA a, s, i : Visit(a[1], a[2], s)

(* topological_sort starts with nothing in order and the nodes without     *)
(* parents ready.                                                          *)
LEMMA SortingStarts ==
  ASSUME NEW N, IsFiniteSet(N), N \in SUBSET Nat, NEW par,
         NEW deg, deg = [h \in N |-> Cardinality(par[h] \cap N)],
         NEW s, s.sorted = <<>>, s.deg = deg, s.queue = Sorted({h \in N : deg[h] = 0})
  PROVE  IsSorting(par, N, {}, s)
<1> DEFINE Q == {h \in N : deg[h] = 0}
<1>1. ASSUME NEW h \in N PROVE deg[h] = 0 <=> par[h] \cap N \subseteq {}
  <2> DEFINE A == par[h] \cap N
  <2>1. deg[h] = Cardinality(A) /\ (A \subseteq {} <=> A = {}) /\ A \in SUBSET N
    OBVIOUS
  <2>2. IsFiniteSet(A)
    BY FS_Subset
  <2> HIDE DEF A
  <2>3. Cardinality(A) = 0 <=> A = {}
    BY <2>2, FS_EmptySet
  <2> QED
    BY <2>1, <2>3 DEF A
<1>2. Q = Ready(par, N, {})
  BY <1>1 DEF Ready
<1>3. deg = Waiting(par, N, {})
  <2>1. ASSUME NEW h \in N PROVE (par[h] \cap N) \ {} = par[h] \cap N
    OBVIOUS
  <2> QED
    BY <2>1, Zenon DEF Waiting
<1>4. Lists(Sorted(Q), Q)
  <2>1. Q \in SUBSET N
    OBVIOUS
  <2> HIDE DEF Q
  <2>2. IsFiniteSet(Q) /\ Q \in SUBSET Nat
    BY <2>1, FS_Subset
  <2> QED
    BY <2>2, SortedLists
<1>5. Lists(<<>>, {})
  BY DEF Lists
<1>6. s.queue = Sorted(Q)
  OBVIOUS
<1> HIDE DEF Q
<1> QED
  BY <1>2, <1>3, <1>4, <1>5, <1>6 DEF IsSorting

(* topological_sort loses and repeats no node, and puts parents first. *)
LEMMA TopologicalSorts ==
  ASSUME NEW d, Linked(d), NEW N \in SUBSET d.blocks
  PROVE  LET s == TopologicalSort(d, N)
         IN  Lists(s, N) /\ \A i, j \in 1 .. Len(s) : s[i] \in d.parents[s[j]] => i < j
<1> DEFINE n == Cardinality(N)
           a == <<d, N>>
           q == [i \in 1 .. n |-> i]
           deg == [h \in N |-> Cardinality(d.parents[h] \cap N)]
           start == [queue |-> Sorted({h \in N : deg[h] = 0}), deg |-> deg, sorted |-> <<>>]
<1>1. TopologicalSort(d, N) = Visiting!Fold(a, start, q).sorted
  BY Zenon DEF TopologicalSort, FoldLeft, MapThenFoldSet, Max, Visiting!Fold, Visiting!IsIter, Visiting!Latest
<1>2. IsFiniteSet(N) /\ N \in SUBSET Nat /\ n \in Nat
  <2>1. IsFiniteSet(N) /\ N \in SUBSET Nat
    BY GhostAssumption, HashAssumption, FS_Subset DEF Linked
  <2> QED
    BY <2>1, FS_CardinalityType
<1>3. IsSorting(d.parents, N, {}, start)
  <2> HIDE DEF deg
  <2>1. deg = [h \in N |-> Cardinality(d.parents[h] \cap N)]
    BY Zenon DEF deg
  <2>2. start.sorted = <<>> /\ start.deg = deg /\ start.queue = Sorted({h \in N : deg[h] = 0})
    OBVIOUS
  <2> HIDE DEF start
  <2> QED
    BY <1>2, <2>1, <2>2, SortingStarts, Zenon
<1>4. Len(q) = n /\ DOMAIN q = 1 .. Len(q) /\ Len(q) \in Nat
  <2> HIDE DEF n
  <2> QED
    BY <1>2
<1> HIDE DEF start, q, n
<1>5. PICK f : Visiting!IsTrace(a, f, start, q) /\ Visiting!Fold(a, start, q) = f[Len(q)]
  <2> HIDE DEF a
  <2> QED
    BY <1>4, Leasts, Visiting!FoldTrace, Zenon
<1>6. f[0] = start /\ \A i \in 1 .. Len(q) : f[i] = Visit(a[1], a[2], f[i - 1])
  <2> HIDE DEF a
  <2> QED
    BY <1>4, <1>5, Visiting!TraceStep
<1> DEFINE G == {i \in 0 .. n : \E V : IsSorting(d.parents, N, V, f[i]) /\ Cardinality(V) = i}
<1>7. 0 \in G
  <2>1. Cardinality({}) = 0
    BY FS_EmptySet
  <2> QED
    BY <1>2, <1>3, <1>6, <2>1
<1>8. ASSUME NEW i \in 0 .. n - 1, i \in G PROVE i + 1 \in G
  <2>1. i + 1 \in 1 .. n /\ i + 1 \in 0 .. n /\ (i + 1) - 1 = i /\ i # n
    BY <1>2
  <2>2. f[i + 1] = Visit(d, N, f[i])
    BY <1>4, <1>6, <2>1
  <2>3. PICK V : IsSorting(d.parents, N, V, f[i]) /\ Cardinality(V) = i
    BY <1>8
  <2>4. V # N /\ V \in SUBSET N
    BY <2>1, <2>3 DEF IsSorting, n
  <2>5. PICK c \in N \ V : IsSorting(d.parents, N, V \cup {c}, f[i + 1])
    <3>1. \E c \in N \ V : IsSorting(d.parents, N, V \cup {c}, Visit(d, N, f[i]))
      BY <2>3, <2>4, VisitStep
    <3> QED
      BY <2>2, <3>1, Zenon
  <2>6. Cardinality(V \cup {c}) = i + 1
    BY <1>2, <2>3, <2>4, <2>5, FS_Subset, FS_AddElement
  <2> QED
    BY <2>1, <2>5, <2>6
<1>9. n \in G
  <2> HIDE DEF G
  <2>1. \A i \in 0 .. n : i \in G
    BY <1>2, <1>7, <1>8, UpTo
  <2> QED
    BY <1>2, <2>1
<1>10. PICK V : IsSorting(d.parents, N, V, f[n]) /\ Cardinality(V) = n
  BY <1>9
<1>11. V = N
  <2>1. V \in SUBSET N
    BY <1>10 DEF IsSorting
  <2> QED
    BY <1>2, <1>10, <2>1, FS_Subset DEF n
<1> DEFINE s == f[n].sorted
<1>12. Lists(s, N) /\ \A i, j \in 1 .. Len(s) : s[i] \in d.parents[s[j]] => i < j
  BY <1>10, <1>11, Zenon DEF IsSorting
<1>13. TopologicalSort(d, N) = s
  BY <1>1, <1>4, <1>5
<1> QED
  BY <1>12, <1>13, Zenon

----------------------------------------------------------------------------
(* process_block *)

(* A view of the Dag struct with its fields in their types. *)
Typed(d) ==
    /\ DOMAIN d = {"blocks", "parents", "children", "tips", "sp", "blue", "red", "score", "anti"}
    /\ d.sp \in [Hash -> Hash \cup {None}]
    /\ d.blue \in [Hash -> SUBSET Hash] /\ d.red \in [Hash -> SUBSET Hash]
    /\ d.score \in [Hash -> Nat]
    /\ \A h \in d.blocks : d.anti[h] \in SUBSET Hash

SameDag(d, e) ==
    /\ e.blocks = d.blocks /\ e.parents = d.parents /\ e.children = d.children
    /\ e.tips = d.tips /\ e.anti = d.anti

(* What is stored for h is up to date with what is stored for its parents. *)
Fresh(d, h) ==
    IF d.parents[h] = {} THEN d.sp[h] = None
    ELSE /\ Best(d.score, d.parents[h], d.sp[h])
         /\ d.sp[h] \in d.blue[h]
         /\ d.score[h] = d.score[d.sp[h]] + Cardinality(d.blue[h])

(* A block is not its own parent. *)
LEMMA NoLoop == ASSUME NEW d, Linked(d), NEW h \in d.blocks PROVE h \notin d.parents[h]
<1>1. {h} \in SUBSET d.blocks /\ {h} # {}
  OBVIOUS
<1>2. PICK b \in {h} : d.parents[b] \cap {h} = {}
  BY <1>1 DEF Linked
<1> QED
  BY <1>2

(* recompute_block changes four fields of one block. *)
LEMMA RecomputeFields ==
  ASSUME NEW d, Linked(d), Typed(d), NEW kk, NEW h \in d.blocks, d.parents[h] # {}
  PROVE  LET e == RecomputeBlock(d, kk, h)
         IN  /\ Typed(e) /\ SameDag(d, e)
             /\ \A x \in Hash : x # h => /\ e.sp[x] = d.sp[x] /\ e.blue[x] = d.blue[x]
                                         /\ e.score[x] = d.score[x]
             /\ Best(d.score, d.parents[h], e.sp[h]) /\ e.sp[h] \in e.blue[h]
             /\ e.score[h] = d.score[e.sp[h]] + Cardinality(e.blue[h])
<1> DEFINE sp == SelectParent(d, d.parents[h])
           c == BuildBlueSet(d, kk, sp)
           e == [d EXCEPT !.sp[h] = sp, !.blue[h] = c.blue, !.red[h] = c.red,
                          !.score[h] = d.score[sp] + Cardinality(c.blue)]
<1>1. RecomputeBlock(d, kk, h) = e
  BY Zenon DEF RecomputeBlock
<1>2. h \in Hash /\ d.parents[h] \cap d.blocks = d.parents[h] /\ d.parents[h] \in SUBSET Hash
  BY DEF Linked
<1>3. Best(d.score, d.parents[h], sp)
  <2>1. d.score \in [Hash -> Nat] /\ d.parents[h] \cap d.blocks \in SUBSET Hash /\ d.parents[h] \cap d.blocks # {}
    BY <1>2 DEF Typed
  <2>2. Best(d.score, d.parents[h] \cap d.blocks, sp)
    BY <2>1, SelectBest
  <2> QED
    BY <1>2, <2>2, Zenon
<1>4. sp \in d.parents[h] /\ sp \in Hash /\ sp \in d.blocks
  BY <1>2, <1>3 DEF Best
<1>5. c \in Colours /\ sp \in c.blue
  <2>1. d.anti[sp] \in SUBSET Hash /\ d.blue \in [Hash -> SUBSET Hash]
    BY <1>4 DEF Typed
  <2> HIDE DEF sp
  <2> QED
    BY <1>4, <2>1, BlueSets
<1>6. c.blue \in SUBSET Hash /\ c.red \in SUBSET Hash
  BY <1>5 DEF Colours
<1> DEFINE n == Cardinality(c.blue)
<1>7. n \in Nat
  BY <1>6, GhostAssumption, FS_Subset, FS_CardinalityType
<1> HIDE DEF sp, c, n
<1>8. /\ DOMAIN e = DOMAIN d /\ SameDag(d, e)
      /\ e.sp = [d.sp EXCEPT ![h] = sp] /\ e.blue = [d.blue EXCEPT ![h] = c.blue]
      /\ e.red = [d.red EXCEPT ![h] = c.red] /\ e.score = [d.score EXCEPT ![h] = d.score[sp] + n]
  BY DEF Typed, SameDag, n
<1> HIDE DEF e
<1>9. Typed(e)
  BY <1>2, <1>4, <1>6, <1>7, <1>8 DEF Typed, SameDag
<1>10. ASSUME NEW x \in Hash, x # h
       PROVE  e.sp[x] = d.sp[x] /\ e.blue[x] = d.blue[x] /\ e.score[x] = d.score[x]
  BY <1>8, <1>10 DEF Typed
<1>11. e.sp[h] = sp /\ e.blue[h] = c.blue /\ e.score[h] = d.score[sp] + n
  BY <1>2, <1>8 DEF Typed
<1> QED
  BY <1>1, <1>3, <1>5, <1>8, <1>9, <1>10, <1>11 DEF n

(* recompute_block makes one block up to date and no other out of date,    *)
(* save its children.                                                      *)
LEMMA RecomputeFresh ==
  ASSUME NEW d, Linked(d), Typed(d), NEW kk, NEW h \in d.blocks, d.parents[h] = {} => Fresh(d, h)
  PROVE  LET e == RecomputeBlock(d, kk, h)
         IN  /\ Typed(e) /\ SameDag(d, e) /\ Fresh(e, h)
             /\ \A x \in d.blocks : x # h /\ h \notin d.parents[x] /\ Fresh(d, x) => Fresh(e, x)
<1> DEFINE e == RecomputeBlock(d, kk, h)
<1>1. CASE d.parents[h] = {}
  <2>1. e = d
    BY <1>1, Zenon DEF RecomputeBlock
  <2> QED
    BY <1>1, <2>1 DEF SameDag
<1>2. CASE d.parents[h] # {}
  <2>1. Typed(e) /\ SameDag(d, e)
    BY <1>2, RecomputeFields
  <2>2. \A x \in Hash : x # h => e.sp[x] = d.sp[x] /\ e.blue[x] = d.blue[x] /\ e.score[x] = d.score[x]
    BY <1>2, RecomputeFields
  <2>3. /\ Best(d.score, d.parents[h], e.sp[h]) /\ e.sp[h] \in e.blue[h]
        /\ e.score[h] = d.score[e.sp[h]] + Cardinality(e.blue[h])
    BY <1>2, RecomputeFields
  <2> HIDE DEF e
  <2>4. e.parents = d.parents /\ \A x \in d.blocks : d.parents[x] \in SUBSET Hash /\ x \in Hash
    BY <2>1 DEF SameDag, Linked
  <2>5. \A g : \A x \in d.blocks : h \notin d.parents[x] /\ Best(d.score, d.parents[x], g)
            => Best(e.score, d.parents[x], g) /\ e.score[g] = d.score[g] /\ g # h
    BY <2>2, <2>4 DEF Best
  <2>6. Fresh(e, h)
    <3>1. h \notin d.parents[h]
      BY NoLoop
    <3> QED
      BY <1>2, <2>3, <2>4, <2>5, <3>1 DEF Fresh
  <2>7. ASSUME NEW x \in d.blocks, x # h, h \notin d.parents[x], Fresh(d, x) PROVE Fresh(e, x)
    <3>1. x \in Hash /\ e.sp[x] = d.sp[x] /\ e.blue[x] = d.blue[x] /\ e.score[x] = d.score[x]
      BY <2>2, <2>4, <2>7
    <3>2. CASE d.parents[x] = {}
      BY <2>4, <2>7, <3>1, <3>2 DEF Fresh
    <3>3. CASE d.parents[x] # {}
      BY <2>4, <2>5, <2>7, <3>1, <3>3 DEF Fresh
    <3> QED
      BY <3>2, <3>3
  <2> QED
    BY <2>1, <2>6, <2>7 DEF e
<1> QED
  BY <1>1, <1>2

(* Whatever depends on a block process_block recomputes is recomputed too, *)
(* and so is the new block itself.                                         *)
LEMMA AffectedClosed ==
  ASSUME NEW d, Linked(d), NEW h \in d.blocks
  PROVE  /\ Affected(d, h) \in SUBSET d.blocks
         /\ \A x \in Affected(d, h) : d.children[x] \subseteq Affected(d, h)
         /\ IF d.parents[h] = {} THEN Affected(d, h) = {} ELSE h \in Affected(d, h)
<1> DEFINE Under(p) == {p} \cup DescendantsOf(d.children, p)
<1>1. PICK chl, par : /\ chl = d.children /\ par = d.parents
                      /\ chl \in [Hash -> SUBSET Hash] /\ par \in [Hash -> SUBSET d.blocks]
                      /\ \A x \in Hash : chl[x] \subseteq d.blocks
                      /\ \A p, c \in Hash : p \in par[c] <=> c \in chl[p]
                      /\ d.blocks \in SUBSET Hash
  BY DEF Linked
<1>2. ASSUME NEW p \in d.blocks
      PROVE  /\ Under(p) \in SUBSET d.blocks /\ p \in Under(p)
             /\ \A x \in Under(p) : chl[x] \subseteq Under(p)
  <2> DEFINE C == Closure(chl, p)
  <2>1. C \in SUBSET Hash /\ chl[p] \subseteq C /\ \A x \in C : chl[x] \subseteq C
    BY <1>1, ClosureClosed
  <2>2. C \subseteq d.blocks
    <3>1. chl[p] \subseteq d.blocks /\ \A x \in d.blocks : chl[x] \subseteq d.blocks
      BY <1>1
    <3> QED
      BY <3>1, ClosureLeast
  <2>3. Under(p) = {p} \cup (C \ {p})
    BY <1>1 DEF DescendantsOf
  <2> HIDE DEF C, Under
  <2> QED
    BY <2>1, <2>2, <2>3
<1>3. Affected(d, h) = UNION {Under(p) : p \in par[h]}
  BY <1>1 DEF Affected
<1>4. par[h] \in SUBSET d.blocks
  BY <1>1
<1> HIDE DEF Under
<1>5. Affected(d, h) \in SUBSET d.blocks
  BY <1>2, <1>3, <1>4
<1>6. \A x \in Affected(d, h) : chl[x] \subseteq Affected(d, h)
  BY <1>2, <1>3, <1>4
<1>7. ASSUME NEW p \in par[h] PROVE h \in Affected(d, h)
  <2>1. h \in chl[p] /\ p \in d.blocks
    BY <1>1, <1>4
  <2>2. h \in Under(p)
    BY <1>2, <2>1
  <2> QED
    BY <1>3, <2>2
<1>8. par[h] = {} => Affected(d, h) = {}
  BY <1>3
<1> QED
  BY <1>1, <1>5, <1>6, <1>7, <1>8

Recomputing == INSTANCE Folding WITH Step <- LAMBDA kk, e, b : RecomputeBlock(e, kk, b)

(* Links are of the DAG only. *)
LEMMA SameLinks == ASSUME NEW d, NEW e, Linked(d), SameDag(d, e) PROVE Linked(e)
  BY DEF Linked, SameDag

(* Recomputing, parents first, a set of blocks that holds the children of  *)
(* its own brings every block up to date.                                  *)
LEMMA RecomputeAll ==
  ASSUME NEW d, Linked(d), Typed(d), NEW kk, NEW N \in SUBSET d.blocks,
         \A x \in N : d.children[x] \subseteq N,
         \A x \in d.blocks : x \notin N \/ d.parents[x] = {} => Fresh(d, x)
  PROVE  LET e == Recomputing!Fold(kk, d, TopologicalSort(d, N))
         IN  Typed(e) /\ SameDag(d, e) /\ \A x \in d.blocks : Fresh(e, x)
<1> DEFINE q == TopologicalSort(d, N)
           n == Len(q)
<1>1. Lists(q, N) /\ \A i, j \in 1 .. n : q[i] \in d.parents[q[j]] => i < j
  BY TopologicalSorts
<1> HIDE DEF q
<1>2. n \in Nat /\ DOMAIN q = 1 .. n /\ \A i \in 1 .. n : q[i] \in N
  BY <1>1 DEF Lists
<1>3. PICK f : Recomputing!IsTrace(kk, f, d, q) /\ Recomputing!Fold(kk, d, q) = f[n]
  BY <1>2, Leasts, Recomputing!FoldTrace, Zenon
<1>4. f[0] = d /\ \A i \in 1 .. n : f[i] = RecomputeBlock(f[i - 1], kk, q[i])
  BY <1>2, <1>3, Recomputing!TraceStep
<1> HIDE DEF n
<1> DEFINE Left(i) == {q[j] : j \in i + 1 .. n}
           G == {i \in 0 .. n : /\ Typed(f[i]) /\ SameDag(d, f[i])
                                /\ \A x \in d.blocks : x \notin Left(i) \/ d.parents[x] = {} => Fresh(f[i], x)}
<1>5. 0 \in G
  <2>1. \A x \in N : x \in Left(0)
    BY <1>1 DEF Lists, n
  <2>2. SameDag(d, d)
    BY DEF SameDag
  <2>3. 0 \in 0 .. n
    BY <1>2
  <2> HIDE DEF Left
  <2>4. \A x \in d.blocks : x \notin Left(0) \/ d.parents[x] = {} => Fresh(d, x)
    BY <2>1
  <2>5. f[0] = d
    BY <1>4
  <2> QED
    BY <2>2, <2>3, <2>4, <2>5, Zenon
<1>6. ASSUME NEW i \in 0 .. n - 1, i \in G PROVE i + 1 \in G
  <2> DEFINE b == q[i + 1]
  <2>1. i + 1 \in 1 .. n /\ i + 1 \in 0 .. n /\ (i + 1) - 1 = i
    BY <1>2
  <2>2. b \in N /\ b \in d.blocks /\ f[i + 1] = RecomputeBlock(f[i], kk, b)
    BY <1>2, <1>4, <2>1
  <2>3. /\ Typed(f[i]) /\ SameDag(d, f[i]) /\ Linked(f[i])
        /\ \A x \in d.blocks : x \notin Left(i) \/ d.parents[x] = {} => Fresh(f[i], x)
    BY <1>6, SameLinks
  <2>4. f[i].blocks = d.blocks /\ f[i].parents = d.parents
    BY <2>3 DEF SameDag
  <2>5. f[i].parents[b] = {} => Fresh(f[i], b)
    BY <2>2, <2>3, <2>4
  <2>6. /\ Typed(f[i + 1]) /\ SameDag(f[i], f[i + 1]) /\ Fresh(f[i + 1], b)
        /\ \A x \in d.blocks : x # b /\ b \notin d.parents[x] /\ Fresh(f[i], x) => Fresh(f[i + 1], x)
    <3> HIDE DEF b
    <3> QED
      BY <2>2, <2>3, <2>4, <2>5, RecomputeFresh
  <2>7. SameDag(d, f[i + 1])
    BY <2>3, <2>6 DEF SameDag
  <2>8. \A x \in d.blocks : x \notin Left(i + 1) /\ x # b => x \notin Left(i)
    <3>1. \A j \in i + 1 .. n : j = i + 1 \/ j \in (i + 1) + 1 .. n
      BY <1>2
    <3> QED
      BY <3>1
  <2>9. ASSUME NEW x \in d.blocks, b \in d.parents[x] PROVE x \in Left(i + 1)
    <3>1. x \in d.children[b]
      BY <2>2, <2>9 DEF Linked
    <3>2. x \in N
      BY <2>2, <3>1
    <3>3. PICK j \in 1 .. n : q[j] = x
      BY <1>1, <3>2 DEF Lists, n
    <3>4. i + 1 < j
      BY <1>1, <2>1, <2>9, <3>3
    <3>5. j \in (i + 1) + 1 .. n
      BY <1>2, <2>1, <3>4
    <3> QED
      BY <3>3, <3>5
  <2>10. ASSUME NEW x \in d.blocks, x \notin Left(i + 1) \/ d.parents[x] = {} PROVE Fresh(f[i + 1], x)
    <3> HIDE DEF b, Left
    <3>1. CASE x = b
      BY <2>6, <3>1
    <3>2. CASE x # b
      <4>1. Fresh(f[i], x)
        BY <2>3, <2>8, <2>10, <3>2
      <4>2. b \notin d.parents[x]
        BY <2>9, <2>10
      <4> QED
        BY <2>6, <3>2, <4>1, <4>2
    <3> QED
      BY <3>1, <3>2
  <2> QED
    BY <2>1, <2>6, <2>7, <2>10
<1>7. n \in G
  <2> HIDE DEF G
  <2>1. \A i \in 0 .. n : i \in G
    BY <1>2, <1>5, <1>6, UpTo
  <2> QED
    BY <1>2, <2>1
<1>8. \A x \in d.blocks : x \notin Left(n)
  <2>1. (n + 1) .. n = {}
    BY <1>2
  <2> QED
    BY <2>1
<1> HIDE DEF Left
<1>9. Typed(f[n]) /\ SameDag(d, f[n]) /\ \A x \in d.blocks : Fresh(f[n], x)
  BY <1>7, <1>8
<1> QED
  BY <1>3, <1>9 DEF q

(* process_block leaves every block up to date when only the new block was *)
(* not.                                                                    *)
LEMMA ProcessFresh ==
  ASSUME NEW d, Linked(d), Typed(d), NEW kk, NEW h \in d.blocks, d.children[h] = {},
         \A x \in d.blocks : x # h => Fresh(d, x)
  PROVE  LET e == ProcessBlock(d, kk, h)
         IN  Typed(e) /\ SameDag(d, e) /\ \A x \in d.blocks : Fresh(e, x)
<1> DEFINE own == IF d.parents[h] = {}
                  THEN [d EXCEPT !.sp[h] = None, !.blue[h] = {}, !.red[h] = {}, !.score[h] = 1]
                  ELSE RecomputeBlock(d, kk, h)
           N == Affected(own, h)
<1>1. ProcessBlock(d, kk, h) = Recomputing!Fold(kk, own, TopologicalSort(own, N))
  BY Zenon DEF ProcessBlock, FoldLeft, MapThenFoldSet, Max, Recomputing!Fold, Recomputing!IsIter, Recomputing!Latest
<1>2. \A x \in d.blocks : x \in Hash /\ h \notin d.parents[x]
  BY DEF Linked
<1>3. Typed(own) /\ SameDag(d, own) /\ \A x \in d.blocks : Fresh(own, x)
  <2>1. CASE d.parents[h] = {}
    <3>1. /\ DOMAIN own = DOMAIN d /\ SameDag(d, own)
          /\ own.sp = [d.sp EXCEPT ![h] = None] /\ own.blue = [d.blue EXCEPT ![h] = {}]
          /\ own.red = [d.red EXCEPT ![h] = {}] /\ own.score = [d.score EXCEPT ![h] = 1]
      BY <2>1 DEF Typed, SameDag
    <3> HIDE DEF own
    <3>2. Typed(own) /\ own.sp[h] = None
      BY <1>2, <3>1 DEF Typed, SameDag
    <3>3. \A x \in Hash : x # h => own.sp[x] = d.sp[x] /\ own.blue[x] = d.blue[x] /\ own.score[x] = d.score[x]
      BY <3>1 DEF Typed
    <3>4. own.parents = d.parents /\ \A x \in d.blocks : d.parents[x] \in SUBSET Hash
      BY <3>1 DEF SameDag, Linked
    <3>5. Fresh(own, h)
      BY <2>1, <3>2, <3>4 DEF Fresh
    <3>6. ASSUME NEW x \in d.blocks, x # h PROVE Fresh(own, x)
      <4>1. own.sp[x] = d.sp[x] /\ own.blue[x] = d.blue[x] /\ own.score[x] = d.score[x]
        BY <1>2, <3>3, <3>6
      <4>2. \A y \in d.parents[x] : own.score[y] = d.score[y]
        BY <1>2, <3>3, <3>4
      <4>3. Fresh(d, x)
        BY <3>6
      <4>4. CASE d.parents[x] = {}
        BY <3>4, <4>1, <4>3, <4>4 DEF Fresh
      <4>5. CASE d.parents[x] # {}
        <5>1. Best(d.score, d.parents[x], d.sp[x]) /\ d.sp[x] \in d.parents[x]
          BY <4>3, <4>5 DEF Fresh, Best
        <5>2. Best(own.score, d.parents[x], d.sp[x])
          BY <4>2, <5>1 DEF Best
        <5> QED
          BY <3>4, <4>1, <4>2, <4>3, <4>5, <5>1, <5>2 DEF Fresh
      <4> QED
        BY <4>4, <4>5
    <3> QED
      BY <3>1, <3>2, <3>5, <3>6
  <2>2. CASE d.parents[h] # {}
    <3>1. own = RecomputeBlock(d, kk, h)
      BY <2>2
    <3> HIDE DEF own
    <3> QED
      BY <1>2, <2>2, <3>1, RecomputeFresh
  <2> QED
    BY <2>1, <2>2
<1> HIDE DEF own
<1>4. own.blocks = d.blocks /\ Linked(own)
  BY <1>3, SameLinks DEF SameDag
<1>5. N \in SUBSET own.blocks /\ \A x \in N : own.children[x] \subseteq N
  BY <1>4, AffectedClosed
<1> HIDE DEF N
<1> DEFINE e == Recomputing!Fold(kk, own, TopologicalSort(own, N))
<1>6. Typed(e) /\ SameDag(own, e) /\ \A x \in own.blocks : Fresh(e, x)
  BY <1>3, <1>4, <1>5, RecomputeAll
<1> HIDE DEF e
<1>7. SameDag(d, e)
  BY <1>3, <1>6 DEF SameDag
<1> QED
  BY <1>1, <1>4, <1>6, <1>7 DEF e

----------------------------------------------------------------------------
(* The invariant of GhostDag *)

(* What process_block keeps: a DAG in order, with a tip, and nothing       *)
(* stored for a block out of date with its parents.                        *)
GhostInv ==
    /\ DagInv /\ GhostTypeOK
    /\ blocks # {} => tips # {}
    /\ \A h \in blocks : Fresh(dag, h)

(* The links of the DAG are those of its view. *)
LEMMA LinkedView ==
  ASSUME NEW sp, NEW blue, NEW red, NEW score, DagTypeOK, LinksConsistent, Acyclic
  PROVE  Linked(View(blocks, parents, children, tips, sp, blue, red, score))
  BY DEF Linked, View, DagTypeOK, LinksConsistent, Acyclic

(* A block that add_block and process_block accept keeps the invariant. *)
LEMMA AcceptStep ==
  ASSUME GhostInv, NEW id \in Hash, NEW ps \in SUBSET Hash, AcceptBlock(id, ps)
  PROVE  GhostInv'
<1> DEFINE d == View(blocks', parents', children', tips', selected_parent, blue_set, red_set, blue_score)
           e == ProcessBlock(d, k, id)
<1>1. AddBlock(id, ps) /\ DagInv /\ GhostTypeOK /\ DagTypeOK /\ LinksConsistent
  BY DEF AcceptBlock, GhostInv, DagInv
<1>2. DagInv'
  <2>1. [DagNext]_dagVars
    BY <1>1 DEF DagNext
  <2> QED
    BY <1>1, <2>1, DagTypeStep, LinksStep, AcyclicStep, TipsStep DEF DagInv
<1>3. selected_parent' = e.sp /\ blue_set' = e.blue /\ red_set' = e.red /\ blue_score' = e.score /\ k' = k
  BY Zenon DEF AcceptBlock
<1>4. Linked(d)
  BY <1>2 DEF Linked, View, DagInv, DagTypeOK, LinksConsistent, Acyclic
<1>5. Typed(d)
  <2>1. \A h \in d.blocks : d.anti[h] \in SUBSET Hash
    <3>1. d.blocks = blocks' /\ d.anti = [h \in blocks' |-> AnticoneOf(blocks', parents', children', h)] /\ blocks' \in SUBSET Hash
      BY <1>2 DEF View, DagInv, DagTypeOK
    <3>2. \A h \in blocks' : AnticoneOf(blocks', parents', children', h) \in SUBSET blocks'
      BY DEF AnticoneOf
    <3> HIDE DEF d
    <3> QED
      BY <3>1, <3>2
  <2>2. /\ d.sp = selected_parent /\ d.blue = blue_set /\ d.red = red_set /\ d.score = blue_score
        /\ DOMAIN d = {"blocks", "parents", "children", "tips", "sp", "blue", "red", "score", "anti"}
    BY DEF View
  <2> HIDE DEF d
  <2> QED
    BY <1>1, <2>1, <2>2 DEF Typed, GhostTypeOK
<1>6. id \in d.blocks /\ d.children[id] = {}
  <2>1. children[id] = {} /\ id \notin ps
    BY <1>1 DEF AddBlock, CanAddBlock, LinksConsistent, DagTypeOK
  <2> QED
    BY <1>1, <2>1 DEF View, AddBlock
<1>7. ASSUME NEW x \in d.blocks, x # id PROVE Fresh(d, x)
  <2>1. x \in blocks /\ parents'[x] = parents[x]
    BY <1>1, <1>7 DEF View, AddBlock, DagTypeOK
  <2>2. Fresh(dag, x)
    BY <2>1 DEF GhostInv
  <2> QED
    BY <2>1, <2>2, Zenon DEF Fresh, View, dag
<1> HIDE DEF d
<1>8. Typed(e) /\ SameDag(d, e) /\ \A x \in d.blocks : Fresh(e, x)
  BY <1>4, <1>5, <1>6, <1>7, ProcessFresh
<1>9. d.blocks = blocks' /\ d.parents = parents'
  BY DEF d, View
<1> HIDE DEF e
<1>10. GhostTypeOK'
  BY <1>1, <1>3, <1>8 DEF Typed, GhostTypeOK
<1>11. tips' # {}
  BY <1>1 DEF AddBlock
<1>12. ASSUME NEW x \in blocks' PROVE Fresh(dag, x)'
  <2>1. Fresh(e, x) /\ e.parents = parents'
    BY <1>8, <1>9 DEF SameDag
  <2>2. /\ (dag.parents)' = parents' /\ (dag.sp)' = selected_parent'
        /\ (dag.blue)' = blue_set' /\ (dag.score)' = blue_score'
    BY DEF dag, View
  <2> QED
    BY <1>3, <2>1, <2>2 DEF Fresh
<1> QED
  BY <1>2, <1>10, <1>11, <1>12 DEF GhostInv

(* The invariant holds after any arrivals, with k changing in between. *)
THEOREM GhostCorrect == GhostSpec => []GhostInv
<1>1. GhostInit => GhostInv
  <2> SUFFICES ASSUME GhostInit PROVE GhostInv
    OBVIOUS
  <2>1. DagInv
    BY DEF GhostInit, DagInit, DagInv, DagTypeOK, LinksConsistent, Acyclic, TipsChildless
  <2>2. GhostTypeOK
    BY DEF GhostInit, GhostTypeOK
  <2> QED
    BY <2>1, <2>2 DEF GhostInit, DagInit, GhostInv
<1>2. GhostInv /\ [GhostNext]_ghostVars => GhostInv'
  <2> SUFFICES ASSUME GhostInv, [GhostNext]_ghostVars PROVE GhostInv'
    OBVIOUS
  <2>1. ASSUME NEW id \in Hash, NEW ps \in SUBSET Hash, AcceptBlock(id, ps) PROVE GhostInv'
    BY <2>1, AcceptStep
  <2>2. ASSUME UNCHANGED dagVars, UNCHANGED ghostFields, k' \in K_MIN .. K_MAX PROVE GhostInv'
    <3>1. DagInv' /\ GhostTypeOK'
      BY <2>2 DEF dagVars, ghostFields, GhostInv, GhostTypeOK, DagInv, DagTypeOK, LinksConsistent, Acyclic, TipsChildless
    <3>2. dag' = dag /\ blocks' = blocks /\ tips' = tips
      BY <2>2 DEF dagVars, ghostFields, dag
    <3>3. \A h \in blocks : Fresh(dag, h)'
      BY <3>2 DEF GhostInv, Fresh
    <3> QED
      BY <3>1, <3>2, <3>3 DEF GhostInv
  <2>3. CASE AdjustK
    BY <2>2, <2>3 DEF AdjustK
  <2>4. CASE UNCHANGED ghostVars
    BY <2>2, <2>4 DEF ghostVars, dagVars, ghostFields, GhostInv, GhostTypeOK
  <2> QED
    BY <2>1, <2>3, <2>4 DEF GhostNext
<1> QED
  BY <1>1, <1>2, PTL DEF GhostSpec

----------------------------------------------------------------------------
(* What the invariant says of the orders and the selected chain *)

(* The fields of the view of the current state. *)
LEMMA ViewFields ==
  /\ dag.blocks = blocks /\ dag.parents = parents /\ dag.children = children /\ dag.tips = tips
  /\ dag.sp = selected_parent /\ dag.blue = blue_set /\ dag.score = blue_score
  BY DEF dag, View

(* Scores grow from a block to its children: the selected parent is the    *)
(* best of the parents and is itself in the blue set that is added.        *)
LEMMA ScoresGrow ==
  ASSUME GhostInv, NEW h \in blocks, NEW p \in parents[h]
  PROVE  p \in blocks /\ blue_score[p] \in Nat /\ blue_score[h] \in Nat /\ blue_score[p] < blue_score[h]
<1> DEFINE sp == selected_parent[h]
           blue == blue_set[h]
           n == Cardinality(blue)
<1>1. h \in Hash /\ parents[h] \in SUBSET blocks /\ p \in blocks /\ p \in Hash /\ parents[h] # {}
  BY DEF GhostInv, DagInv, DagTypeOK, LinksConsistent
<1>2. blue \in SUBSET Hash /\ \A x \in Hash : blue_score[x] \in Nat
  BY <1>1 DEF GhostInv, GhostTypeOK
<1>3. Best(blue_score, parents[h], sp) /\ sp \in blue /\ blue_score[h] = blue_score[sp] + n
  BY <1>1, ViewFields DEF GhostInv, Fresh
<1>4. IsFiniteSet(blue) /\ n \in Nat
  BY <1>2, GhostAssumption, FS_Subset, FS_CardinalityType
<1>5. n # 0
  BY <1>3, <1>4, FS_EmptySet
<1>6. blue_score[p] <= blue_score[sp] /\ sp \in Hash
  BY <1>1, <1>2, <1>3 DEF Best, DagInv
<1> HIDE DEF n, sp
<1> QED
  BY <1>1, <1>2, <1>3, <1>4, <1>5, <1>6

(* The number of stored blocks before x in the order of get_ordering. *)
Rank(x) == Cardinality({y \in dag.blocks : Before(dag, y, x)})

(* The order is total: the ranks are 0, 1, ... without a gap. *)
LEMMA RanksOfBlocks ==
  ASSUME GhostInv
  PROVE  /\ IsFiniteSet(blocks) /\ Cardinality(blocks) \in Nat
         /\ \A x \in blocks : Rank(x) \in 0 .. Cardinality(blocks) - 1
         /\ \A x, z \in blocks : Before(dag, x, z) => Rank(x) < Rank(z)
         /\ \A i \in 0 .. Cardinality(blocks) - 1 : \E x \in blocks : Rank(x) = i
<1>1. \A x \in blocks : x \in Nat /\ blue_score[x] \in Nat
  BY HashAssumption DEF GhostInv, DagInv, DagTypeOK, GhostTypeOK
<1>2. PICK R : \A x, y \in blocks : <<x, y>> \in R <=> Before(dag, x, y)
  <2> DEFINE P == {p \in blocks \X blocks : Before(dag, p[1], p[2])}
  <2>1. \A x, y \in blocks : <<x, y>> \in P <=> Before(dag, x, y)
    OBVIOUS
  <2> HIDE DEF P
  <2> QED
    BY <2>1, Zenon
<1>3. \A x, y \in blocks : <<x, y>> \in R <=>
          blue_score[x] < blue_score[y] \/ (blue_score[x] = blue_score[y] /\ x < y)
  BY <1>2, ViewFields DEF Before
<1>4. Ordered(blocks, R) /\ \A x \in blocks : <<x, x>> \notin R
  BY <1>1, <1>3 DEF Ordered
<1>5. IsFiniteSet(blocks)
  BY GhostAssumption, FS_Subset DEF GhostInv, DagInv, DagTypeOK
<1>6. ASSUME NEW x \in blocks PROVE Rank(x) = Place(blocks, R, x)
  <2>1. {y \in dag.blocks : Before(dag, y, x)} = {y \in blocks : <<y, x>> \in R}
    BY <1>2, ViewFields
  <2> QED
    BY <2>1, Zenon DEF Rank, Place
<1>7. /\ Cardinality(blocks) \in Nat
      /\ \A x \in blocks : Place(blocks, R, x) \in 0 .. Cardinality(blocks) - 1
      /\ \A x, z \in blocks : <<x, z>> \in R => Place(blocks, R, x) < Place(blocks, R, z)
      /\ \A i \in 0 .. Cardinality(blocks) - 1 : \E x \in blocks : Place(blocks, R, x) = i
  BY <1>4, <1>5, Ranks
<1> QED
  BY <1>2, <1>5, <1>6, <1>7

(* get_ordering is a linear extension of the DAG. *)
LEMMA OrderingSound == GhostInv => OrderingRespectsDag
<1> SUFFICES ASSUME GhostInv PROVE OrderingRespectsDag
  OBVIOUS
<1> DEFINE n == Cardinality(blocks)
           o == Ordering(dag)
<1>1. o = [i \in 1 .. Cardinality(dag.blocks) |-> CHOOSE x \in dag.blocks : Rank(x) = i - 1]
  BY Zenon DEF Ordering, Rank
<1>0. dag.blocks = blocks /\ Cardinality(dag.blocks) = n
  BY ViewFields
<1>2. n \in Nat /\ \A i \in 0 .. n - 1 : \E x \in blocks : Rank(x) = i
  BY RanksOfBlocks
<1>3. \A x, z \in blocks : Before(dag, x, z) => Rank(x) < Rank(z)
  BY RanksOfBlocks
<1> HIDE DEF n, o
<1>4. DOMAIN o = 1 .. n
  BY <1>0, <1>1
<1>5. ASSUME NEW i \in 1 .. n PROVE o[i] \in blocks /\ Rank(o[i]) = i - 1
  <2>1. i - 1 \in 0 .. n - 1
    BY <1>2
  <2>2. o[i] = CHOOSE x \in dag.blocks : Rank(x) = i - 1
    BY <1>0, <1>1, Zenon
  <2>3. \E x \in dag.blocks : Rank(x) = i - 1
    BY <1>0, <1>2, <2>1
  <2> QED
    BY <1>0, <2>2, <2>3, Zenon
<1>6. ASSUME NEW i \in 1 .. n, NEW j \in 1 .. n, o[i] \in AncestorsOf(parents, o[j])
      PROVE  i < j
  <2> DEFINE b == o[j]
             S == {x \in blocks : blue_score[x] < blue_score[b]}
  <2>1. b \in blocks
    BY <1>5
  <2>2. parents[b] \subseteq S
    BY <2>1, ScoresGrow
  <2>3. ASSUME NEW x \in S, NEW p \in parents[x] PROVE p \in S
    <3>1. p \in blocks /\ blue_score[p] \in Nat /\ blue_score[x] \in Nat /\ blue_score[p] < blue_score[x]
      BY ScoresGrow
    <3>2. blue_score[b] \in Nat /\ blue_score[x] < blue_score[b]
      BY <2>1 DEF GhostInv, DagInv, DagTypeOK, GhostTypeOK
    <3> QED
      BY <3>1, <3>2
  <2> HIDE DEF b
  <2>4. AncestorsOf(parents, b) \subseteq S
    <3> HIDE DEF S
    <3> QED
      BY <2>2, <2>3, ClosureLeast DEF AncestorsOf
  <2>5. Before(dag, o[i], o[j])
    BY <1>6, <2>4, ViewFields DEF Before, b
  <2>6. i - 1 < j - 1
    BY <1>3, <1>5, <2>5
  <2> QED
    BY <2>6
<1> QED
  BY <1>4, <1>6 DEF OrderingRespectsDag, o

(* topological_sort orders the blocks process_block passes to it. *)
LEMMA SortSound == GhostInv => TopologicalSortCorrect
<1> SUFFICES ASSUME GhostInv, NEW h \in blocks
             PROVE  LET nodes == Affected(dag, h)
                        s == TopologicalSort(dag, nodes)
                    IN  /\ Len(s) = Cardinality(nodes) /\ ToSet(s) = nodes
                        /\ \A i, j \in DOMAIN s : s[i] \in parents[s[j]] => i < j
  BY Zenon DEF TopologicalSortCorrect
<1> DEFINE N == Affected(dag, h)
           s == TopologicalSort(dag, N)
<1>1. Linked(dag)
  BY LinkedView DEF GhostInv, DagInv, dag
<1>2. dag.blocks = blocks /\ dag.parents = parents
  BY ViewFields
<1>3. N \in SUBSET dag.blocks
  BY <1>1, <1>2, AffectedClosed
<1> HIDE DEF N
<1>4. Lists(s, N) /\ \A i, j \in 1 .. Len(s) : s[i] \in dag.parents[s[j]] => i < j
  BY <1>1, <1>3, TopologicalSorts
<1> HIDE DEF s
<1>5. Len(s) = Cardinality(N) /\ DOMAIN s = 1 .. Len(s)
  BY <1>4, ListLength DEF Lists
<1>6. ToSet(s) = N
  <2>1. \A i \in 1 .. Len(s) : s[i] \in N
    BY <1>4 DEF Lists
  <2>2. \A x \in N : \E i \in 1 .. Len(s) : s[i] = x
    BY <1>4 DEF Lists
  <2> QED
    BY <1>5, <2>1, <2>2 DEF ToSet
<1> QED
  BY <1>2, <1>4, <1>5, <1>6 DEF s, N

(* For every set of ids, both orders of the blocks put ancestors first and *)
(* lose no block, after any arrivals.                                      *)
THEOREM GhostOrders == GhostSpec => []OrdersSound
<1>1. GhostInv => OrdersSound
  BY OrderingSound, SortSound DEF OrdersSound
<1> QED
  BY <1>1, GhostCorrect, PTL

(* What is stored for a block with parents is what select_parent and the   *)
(* stored blue set give now.                                               *)
LEMMA ScoresSound == GhostInv => ScoresFresh
<1> SUFFICES ASSUME GhostInv, NEW h \in blocks, ~IsGenesis(h)
             PROVE  /\ selected_parent[h] = SelectParent(dag, parents[h])
                    /\ blue_score[h] = blue_score[selected_parent[h]] + Cardinality(blue_set[h])
  BY DEF ScoresFresh
<1>1. parents[h] # {} /\ parents[h] \in SUBSET Hash /\ parents[h] \cap blocks = parents[h]
  BY DEF IsGenesis, GhostInv, DagInv, DagTypeOK, LinksConsistent
<1>2. blue_score \in [Hash -> Nat]
  BY DEF GhostInv, GhostTypeOK
<1>3. /\ Best(blue_score, parents[h], selected_parent[h])
      /\ blue_score[h] = blue_score[selected_parent[h]] + Cardinality(blue_set[h])
  BY <1>1, ViewFields DEF GhostInv, Fresh
<1>4. Best(blue_score, parents[h], SelectParent(dag, parents[h]))
  <2>1. dag.score = blue_score /\ parents[h] \cap dag.blocks = parents[h]
    BY <1>1, ViewFields
  <2>2. Best(dag.score, parents[h] \cap dag.blocks, SelectParent(dag, parents[h]))
    BY <1>1, <1>2, <2>1, SelectBest
  <2> QED
    BY <2>1, <2>2, Zenon
<1>5. selected_parent[h] = SelectParent(dag, parents[h])
  BY <1>1, <1>2, <1>3, <1>4, BestUnique
<1> QED
  BY <1>3, <1>5

Walking == INSTANCE Folding WITH Step <- LAMBDA a, w, i : FollowParent(a[1], a[2], w)

(* path leads along parent links from t, and cur, if any, is the next. *)
OnPath(t, w) ==
    /\ w.path \in Seq(blocks)
    /\ \A j \in 1 .. Len(w.path) - 1 : w.path[j + 1] \in parents[w.path[j]]
    /\ Len(w.path) # 0 => w.path[1] = t
    /\ w.cur = None => Len(w.path) # 0 /\ parents[w.path[Len(w.path)]] = {}
    /\ w.cur # None => /\ w.cur \in blocks
                       /\ Len(w.path) = 0 => w.cur = t
                       /\ Len(w.path) # 0 => w.cur \in parents[w.path[Len(w.path)]]

(* One link further down the selected chain; the rank gets lower. *)
LEMMA FollowStep ==
  ASSUME GhostInv, NEW t, NEW w, OnPath(t, w), w.cur # None
  PROVE  LET v == FollowParent(dag, None, w)
         IN  OnPath(t, v) /\ (v.cur # None => Rank(v.cur) < Rank(w.cur))
<1> DEFINE c == w.cur
           p == w.path
           n == Len(p)
           q == Append(p, c)
           v == [cur |-> selected_parent[c], path |-> q]
<1>1. c \in blocks /\ p \in Seq(blocks) /\ n \in Nat
  BY DEF OnPath
<1>2. FollowParent(dag, None, w) = v
  <2>1. dag.sp = selected_parent /\ w.cur \notin {None, None}
    BY ViewFields
  <2> QED
    BY <2>1, Zenon DEF FollowParent
<1>3. q \in Seq(blocks) /\ Len(q) = n + 1 /\ q[n + 1] = c /\ \A j \in 1 .. n : q[j] = p[j]
  <2> HIDE DEF p, c
  <2> QED
    BY <1>1 DEF n
<1>4. \A j \in 1 .. n - 1 : p[j + 1] \in parents[p[j]]
  BY DEF OnPath
<1>5. (n # 0 => p[1] = t /\ c \in parents[p[n]]) /\ (n = 0 => c = t)
  BY DEF OnPath
<1>6. IF parents[c] = {} THEN selected_parent[c] = None ELSE selected_parent[c] \in parents[c]
  BY <1>1, ViewFields DEF GhostInv, Fresh, Best
<1>7. ASSUME parents[c] # {} PROVE selected_parent[c] \in blocks /\ Rank(selected_parent[c]) < Rank(c)
  <2>1. selected_parent[c] \in blocks /\ blue_score[selected_parent[c]] < blue_score[c]
    BY <1>1, <1>6, <1>7, ScoresGrow
  <2>2. Before(dag, selected_parent[c], c)
    BY <2>1, ViewFields DEF Before
  <2> QED
    BY <1>1, <2>1, <2>2, RanksOfBlocks
<1> HIDE DEF p, n, q, c
<1>8. \A j \in 1 .. Len(q) - 1 : q[j + 1] \in parents[q[j]]
  <2> TAKE j \in 1 .. Len(q) - 1
  <2>1. j \in 1 .. n /\ q[j] = p[j]
    BY <1>1, <1>3
  <2>2. CASE j = n
    BY <1>1, <1>3, <1>5, <2>1, <2>2
  <2>3. CASE j # n
    <3>1. j \in 1 .. n - 1 /\ j + 1 \in 1 .. n
      BY <1>1, <2>1, <2>3
    <3> QED
      BY <1>3, <1>4, <2>1, <3>1
  <2> QED
    BY <2>2, <2>3
<1>9. Len(q) # 0 /\ q[1] = t /\ q[Len(q)] = c
  <2>1. n = 0 \/ 1 \in 1 .. n
    BY <1>1
  <2> QED
    BY <1>1, <1>3, <1>5, <2>1
<1>10. OnPath(t, v) /\ (v.cur # None => Rank(v.cur) < Rank(c))
  <2>1. v.cur = selected_parent[c] /\ v.path = q
    OBVIOUS
  <2>2. None \notin blocks
    BY GhostAssumption DEF GhostInv, DagInv, DagTypeOK, None
  <2> HIDE DEF v
  <2> QED
    BY <1>3, <1>6, <1>7, <1>8, <1>9, <2>1, <2>2 DEF OnPath
<1> QED
  BY <1>2, <1>10 DEF c

(* The walk along the selected parents ends at the genesis block, for any  *)
(* block it starts from: the loop makes as many turns as there are blocks. *)
LEMMA WalkEnds ==
  ASSUME GhostInv, NEW t \in blocks
  PROVE  LET p == WalkSelectedParents(dag, t, None)
         IN  /\ p \in Seq(blocks) /\ Len(p) # 0 /\ p[1] = t /\ parents[p[Len(p)]] = {}
             /\ \A j \in 1 .. Len(p) - 1 : p[j + 1] \in parents[p[j]]
<1> DEFINE n == Cardinality(dag.blocks)
           a == <<dag, None>>
           q == [i \in 1 .. n |-> i]
           start == [cur |-> t, path |-> <<>>]
<1>1. WalkSelectedParents(dag, t, None) = Walking!Fold(a, start, q).path
  BY Zenon DEF WalkSelectedParents, FoldLeft, MapThenFoldSet, Max, Walking!Fold, Walking!IsIter, Walking!Latest
<1>2. n \in Nat /\ n = Cardinality(blocks)
  BY RanksOfBlocks, ViewFields
<1>3. Len(q) = n /\ DOMAIN q = 1 .. Len(q) /\ Len(q) \in Nat
  <2> HIDE DEF n
  <2> QED
    BY <1>2
<1>4. OnPath(t, start) /\ start.cur = t
  <2>1. None \notin blocks
    BY GhostAssumption DEF GhostInv, DagInv, DagTypeOK, None
  <2> QED
    BY <2>1 DEF OnPath
<1>5. \A x \in blocks : Rank(x) \in 0 .. n - 1
  BY <1>2, RanksOfBlocks
<1> HIDE DEF start, q, n
<1>6. PICK f : Walking!IsTrace(a, f, start, q) /\ Walking!Fold(a, start, q) = f[Len(q)]
  <2> HIDE DEF a
  <2> QED
    BY <1>3, Leasts, Walking!FoldTrace, Zenon
<1>7. f[0] = start /\ \A i \in 1 .. Len(q) : f[i] = FollowParent(a[1], a[2], f[i - 1])
  <2> HIDE DEF a
  <2> QED
    BY <1>3, <1>6, Walking!TraceStep
<1> DEFINE G == {i \in 0 .. n : OnPath(t, f[i]) /\ (f[i].cur # None => Rank(f[i].cur) + i <= Rank(t))}
<1>8. 0 \in G
  <2>1. Rank(t) + 0 <= Rank(t) /\ 0 \in 0 .. n
    BY <1>2, <1>5
  <2> QED
    BY <1>4, <1>7, <2>1
<1>9. ASSUME NEW i \in 0 .. n - 1, i \in G PROVE i + 1 \in G
  <2>1. i + 1 \in 1 .. n /\ i + 1 \in 0 .. n /\ (i + 1) - 1 = i
    BY <1>2
  <2>2. f[i + 1] = FollowParent(dag, None, f[i])
    BY <1>3, <1>7, <2>1
  <2>3. OnPath(t, f[i]) /\ (f[i].cur # None => Rank(f[i].cur) + i <= Rank(t))
    BY <1>9
  <2>4. CASE f[i].cur = None
    <3>1. f[i + 1] = f[i]
      BY <2>2, <2>4 DEF FollowParent
    <3> QED
      BY <2>1, <2>3, <2>4, <3>1
  <2>5. CASE f[i].cur # None
    <3>1. OnPath(t, f[i + 1]) /\ (f[i + 1].cur # None => Rank(f[i + 1].cur) < Rank(f[i].cur))
      BY <2>2, <2>3, <2>5, FollowStep
    <3>2. ASSUME f[i + 1].cur # None PROVE Rank(f[i + 1].cur) + (i + 1) <= Rank(t)
      <4>1. Rank(f[i + 1].cur) \in 0 .. n - 1 /\ Rank(f[i].cur) \in 0 .. n - 1 /\ Rank(t) \in 0 .. n - 1
        BY <1>5, <2>3, <2>5, <3>1, <3>2 DEF OnPath
      <4>2. Rank(f[i].cur) + i <= Rank(t) /\ Rank(f[i + 1].cur) < Rank(f[i].cur)
        BY <2>3, <2>5, <3>1, <3>2
      <4> QED
        BY <1>2, <4>1, <4>2
    <3> QED
      BY <2>1, <3>1, <3>2
  <2> QED
    BY <2>4, <2>5
<1>10. n \in G
  <2> HIDE DEF G
  <2>1. \A i \in 0 .. n : i \in G
    BY <1>2, <1>8, <1>9, UpTo
  <2> QED
    BY <1>2, <2>1
<1>11. OnPath(t, f[n]) /\ f[n].cur = None
  <2>1. ASSUME f[n].cur # None PROVE FALSE
    <3>1. Rank(f[n].cur) \in 0 .. n - 1 /\ Rank(t) \in 0 .. n - 1 /\ Rank(f[n].cur) + n <= Rank(t)
      BY <1>5, <1>10, <2>1 DEF OnPath
    <3> QED
      BY <1>2, <3>1
  <2> QED
    BY <1>10, <2>1
<1>12. WalkSelectedParents(dag, t, None) = f[n].path
  BY <1>1, <1>3, <1>6
<1> DEFINE p == f[n].path
<1>13. /\ p \in Seq(blocks) /\ Len(p) # 0 /\ p[1] = t /\ parents[p[Len(p)]] = {}
       /\ \A j \in 1 .. Len(p) - 1 : p[j + 1] \in parents[p[j]]
  BY <1>11 DEF OnPath
<1> QED
  BY <1>12, <1>13, Zenon

(* The virtual selected chain runs from the genesis block to a tip. *)
LEMMA ChainSound == GhostInv => SelectedChainRooted
<1> SUFFICES ASSUME GhostInv, Cardinality(blocks) > 1
             PROVE  LET c == VirtualSelectedChain(dag, k)
                    IN  /\ c # <<>> /\ IsGenesis(c[1]) /\ Last(c) \in tips
                        /\ \A i \in 1 .. (Len(c) - 1) : c[i] \in parents[c[i + 1]]
  BY Zenon DEF SelectedChainRooted
<1> DEFINE t == SelectParent(dag, dag.tips)
           p == WalkSelectedParents(dag, t, None)
           n == Len(p)
           c == Reverse(p)
<1>1. tips # {} /\ tips \in SUBSET blocks /\ tips \in SUBSET Hash
  <2>1. blocks # {}
    BY FS_EmptySet
  <2> QED
    BY <2>1 DEF GhostInv, DagInv, DagTypeOK
<1>2. t \in tips
  <2>1. dag.tips = tips /\ dag.tips \cap dag.blocks = tips /\ dag.score \in [Hash -> Nat]
    BY <1>1, ViewFields DEF GhostInv, GhostTypeOK
  <2>2. Best(dag.score, dag.tips \cap dag.blocks, t)
    BY <1>1, <2>1, SelectBest
  <2> QED
    BY <2>1, <2>2 DEF Best
<1>3. t # None /\ t \in blocks
  BY <1>1, <1>2, GhostAssumption DEF None
<1>4. BuildVirtualBlock(dag, k).sp = t
  <2>1. ~(Cardinality(dag.blocks) = 1)
    BY ViewFields
  <2> DEFINE b == BuildBlueSet(dag, k, t)
  <2>2. BuildVirtualBlock(dag, k) = [parents |-> dag.tips, sp |-> t, blue |-> b.blue, red |-> b.red,
                                     score |-> dag.score[t] + Cardinality(b.blue)]
    BY <1>3, <2>1, Zenon DEF BuildVirtualBlock
  <2> HIDE DEF t, b
  <2> QED
    BY <2>2
<1>5. VirtualSelectedChain(dag, k) = c
  BY <1>4, Zenon DEF VirtualSelectedChain
<1> HIDE DEF t
<1>6. /\ p \in Seq(blocks) /\ n # 0 /\ p[1] = t /\ parents[p[n]] = {}
      /\ \A j \in 1 .. n - 1 : p[j + 1] \in parents[p[j]]
  BY <1>3, WalkEnds
<1> HIDE DEF p
<1>7. n \in Nat /\ n >= 1 /\ p[n] \in blocks
  BY <1>6
<1>8. c = [i \in 1 .. n |-> p[(n - i) + 1]]
  BY Zenon DEF Reverse
<1>9. c \in Seq(blocks) /\ Len(c) = n /\ DOMAIN c = 1 .. n
  <2>1. ASSUME NEW i \in 1 .. n PROVE p[(n - i) + 1] \in blocks
    <3>1. (n - i) + 1 \in 1 .. n
      BY <1>7
    <3> QED
      BY <1>6, <3>1
  <2> HIDE DEF n, c
  <2> QED
    BY <1>7, <1>8, <2>1
<1> HIDE DEF c, n
<1>10. c # <<>> /\ c[1] = p[n] /\ c[n] = p[1]
  <2>1. 1 \in 1 .. n /\ n \in 1 .. n /\ (n - 1) + 1 = n /\ (n - n) + 1 = 1
    BY <1>7
  <2> QED
    BY <1>7, <1>8, <1>9, <2>1
<1>11. IsGenesis(c[1])
  BY <1>6, <1>7, <1>10 DEF IsGenesis
<1>12. Last(c) \in tips
  BY <1>2, <1>6, <1>9, <1>10 DEF Last
<1>13. ASSUME NEW i \in 1 .. Len(c) - 1 PROVE c[i] \in parents[c[i + 1]]
  <2> DEFINE j == n - i
  <2>1. i \in 1 .. n /\ i + 1 \in 1 .. n /\ j \in 1 .. n - 1 /\ (n - i) + 1 = j + 1 /\ (n - (i + 1)) + 1 = j
    BY <1>7, <1>9
  <2>2. c[i] = p[j + 1] /\ c[i + 1] = p[j]
    BY <1>8, <2>1
  <2> HIDE DEF j
  <2> QED
    BY <1>6, <2>1, <2>2
<1> QED
  BY <1>5, <1>10, <1>11, <1>12, <1>13

(* For every set of ids: no choice and no score is out of date, and the    *)
(* selected chain leads from the genesis block to a tip, after any         *)
(* arrivals, with k changing in between.                                   *)
THEOREM GhostSound == GhostSpec => []GhostStateSound
<1>1. GhostInv => GhostStateSound
  BY ScoresSound, ChainSound DEF GhostStateSound, GhostInv
<1> QED
  BY <1>1, GhostCorrect, PTL

============================================================================
