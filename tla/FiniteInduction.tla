-------------------------- MODULE FiniteInduction --------------------------
(***************************************************************************)
(* Induction over finite data, as facts about sets: what the proofs use of *)
(* sums and folds over finite sets and sequences.  A property that must be *)
(* proved by induction is given as the set of the things that have it.     *)
(***************************************************************************)
EXTENDS Integers, SequencesExt, FiniteSetTheorems, WellFoundedInduction, TLAPS

(* A set of natural numbers has a least element. *)
LEMMA Smallest ==
  ASSUME NEW T \in SUBSET Nat, T # {}
  PROVE  \E n \in T : \A m \in T : n <= m
<1>1. PICK n \in T : \A m \in T : ~ (<<m, n>> \in OpToRel(<, Nat))
  BY NatLessThanWellFounded, WFMin, Zenon
<1>2. \A m \in T : <<m, n>> \in OpToRel(<, Nat) <=> m < n
  BY DEF OpToRel
<1>3. \A m \in T : m \in Nat /\ n \in Nat /\ ~(m < n)
  BY <1>1, <1>2
<1> QED
  BY <1>3

(* The same, quantified, as Folding asks for it. *)
LEMMA Leasts == \A T \in SUBSET Nat : T # {} => \E k \in T : \A m \in T : k <= m
  BY Smallest

(* Induction over the numbers up to n. *)
LEMMA UpTo ==
  ASSUME NEW n \in Nat, NEW G, 0 \in G, \A i \in 0 .. n - 1 : i \in G => i + 1 \in G
  PROVE  \A i \in 0 .. n : i \in G
<1> DEFINE Bad == {i \in 0 .. n : i \notin G}
<1>1. ASSUME Bad # {} PROVE FALSE
  <2>1. Bad \in SUBSET Nat
    OBVIOUS
  <2>2. PICK i \in Bad : \A j \in Bad : i <= j
    BY <1>1, <2>1, Smallest
  <2>3. i # 0 /\ i - 1 \in 0 .. n - 1 /\ ~(i <= i - 1)
    BY <2>2
  <2>4. i - 1 \notin Bad /\ i - 1 \in 0 .. n
    BY <2>2, <2>3
  <2>5. i - 1 \in G /\ (i - 1) + 1 = i
    BY <2>2, <2>4
  <2> QED
    BY <2>2, <2>3, <2>5
<1> QED
  BY <1>1

(* A set has one element more than what is left of it without one. *)
LEMMA OneLess ==
  ASSUME NEW D, IsFiniteSet(D), NEW s \in SUBSET D, NEW x \in s
  PROVE  /\ Cardinality(s) \in Nat /\ Cardinality(s \ {x}) \in Nat
         /\ Cardinality(s) = Cardinality(s \ {x}) + 1
<1>1. IsFiniteSet(s) /\ IsFiniteSet(s \ {x})
  BY FS_Subset
<1>2. Cardinality(s) \in Nat /\ Cardinality(s \ {x}) \in Nat /\ Cardinality(s \ {x}) = Cardinality(s) - 1
  BY <1>1, FS_RemoveElement, FS_CardinalityType
<1> QED
  BY <1>2

(* Induction over the subsets of a finite set: each non-empty one follows  *)
(* from one with an element less.                                          *)
LEMMA Subsets ==
  ASSUME NEW D, IsFiniteSet(D), NEW G, {} \in G,
         \A s \in SUBSET D : s # {} => \E x \in s : s \ {x} \in G => s \in G
  PROVE  \A s \in SUBSET D : s \in G
<1> DEFINE Bad == {n \in Nat : \E s \in SUBSET D : Cardinality(s) = n /\ s \notin G}
<1>1. ASSUME NEW s \in SUBSET D, s \notin G PROVE FALSE
  <2>1. Cardinality(s) \in Nat
    BY FS_Subset, FS_CardinalityType
  <2>2. Bad \in SUBSET Nat /\ Bad # {}
    BY <1>1, <2>1
  <2>3. PICK n \in Bad : \A m \in Bad : n <= m
    BY <2>2, Smallest
  <2>4. PICK r \in SUBSET D : Cardinality(r) = n /\ r \notin G
    BY <2>3
  <2>5. r # {}
    <3>1. ASSUME NEW e, e \in G PROVE e # r
      BY <2>4, <3>1
    <3> QED
      BY <3>1, Zenon
  <2>6. PICK x \in r : r \ {x} \in G => r \in G
    BY <2>5
  <2>7. r \ {x} \notin G /\ r \ {x} \in SUBSET D
    BY <2>4, <2>6
  <2>8. Cardinality(r \ {x}) \in Nat /\ ~(n <= Cardinality(r \ {x}))
    BY <2>4, OneLess
  <2> QED
    BY <2>3, <2>7, <2>8
<1> QED
  BY <1>1

(* The same, when it takes all of the sets with an element less.           *)
LEMMA AllLess ==
  ASSUME NEW D, IsFiniteSet(D), NEW G, \A s \in SUBSET D : (\A x \in s : s \ {x} \in G) => s \in G
  PROVE  \A s \in SUBSET D : s \in G
<1> DEFINE Bad == {n \in Nat : \E s \in SUBSET D : Cardinality(s) = n /\ s \notin G}
<1>1. ASSUME NEW s \in SUBSET D, s \notin G PROVE FALSE
  <2>1. Cardinality(s) \in Nat
    BY FS_Subset, FS_CardinalityType
  <2>2. Bad \in SUBSET Nat /\ Bad # {}
    BY <1>1, <2>1
  <2>3. PICK n \in Bad : \A m \in Bad : n <= m
    BY <2>2, Smallest
  <2>4. PICK r \in SUBSET D : Cardinality(r) = n /\ r \notin G
    BY <2>3
  <2>5. PICK x \in r : r \ {x} \notin G
    BY <2>4
  <2>6. Cardinality(r \ {x}) \in Nat /\ ~(n <= Cardinality(r \ {x})) /\ r \ {x} \in SUBSET D
    BY <2>4, OneLess
  <2> QED
    BY <2>3, <2>5, <2>6
<1> QED
  BY <1>1

(* Recursion over the subsets of a finite set: Rec says that f starts with *)
(* base and applies step to one element pick[s] after the other.           *)
Rec(f, E, pick, base, step) ==
    f = [s \in E |-> IF s = {} THEN base ELSE step[f[s \ {pick[s]}], pick[s]]]
Small(D, n) == {s \in SUBSET D : Cardinality(s) <= n}

(* A set of at most n elements has, without one, at most n - 1. *)
LEMMA SmallLess ==
  ASSUME NEW D, IsFiniteSet(D), NEW n \in Nat, NEW s \in Small(D, n), NEW x \in s
  PROVE  n # 0 /\ n - 1 \in Nat /\ s \ {x} \in Small(D, n - 1) /\ s \ {x} \in Small(D, n)
<1>1. s \in SUBSET D /\ Cardinality(s) <= n
  BY DEF Small
<1>2. Cardinality(s) \in Nat /\ Cardinality(s \ {x}) \in Nat /\ Cardinality(s) = Cardinality(s \ {x}) + 1
  BY <1>1, OneLess
<1>3. n # 0 /\ n - 1 \in Nat /\ Cardinality(s \ {x}) <= n - 1 /\ Cardinality(s \ {x}) <= n
  BY <1>1, <1>2
<1> QED
  BY <1>1, <1>3 DEF Small

(* Such a recursion has a solution. *)
LEMMA Recursion ==
  ASSUME NEW D, IsFiniteSet(D), NEW base, NEW step,
         NEW pick, \A s \in SUBSET D : s # {} => pick[s] \in s
  PROVE  \E f : Rec(f, SUBSET D, pick, base, step)
<1> DEFINE G == {n \in Nat : \E f : Rec(f, Small(D, n), pick, base, step)}
<1>1. 0 \in G
  <2> DEFINE f == [s \in Small(D, 0) |-> base]
  <2>1. \A s \in Small(D, 0) : s = {}
    <3>1. ASSUME NEW s \in Small(D, 0), s # {} PROVE FALSE
      BY <3>1, SmallLess
    <3> QED
      BY <3>1
  <2>2. f = [s \in Small(D, 0) |-> IF s = {} THEN base ELSE step[f[s \ {pick[s]}], pick[s]]]
    BY <2>1
  <2>3. Rec(f, Small(D, 0), pick, base, step)
    BY <2>2 DEF Rec
  <2> QED
    BY <2>3
<1>2. ASSUME NEW n \in Nat, n \in G PROVE n + 1 \in G
  <2>1. PICK f : Rec(f, Small(D, n), pick, base, step)
    BY <1>2
  <2> DEFINE g == [s \in Small(D, n + 1) |-> IF s = {} THEN base ELSE step[f[s \ {pick[s]}], pick[s]]]
  <2>2. ASSUME NEW s \in Small(D, n + 1), s # {} PROVE g[s \ {pick[s]}] = f[s \ {pick[s]}]
    <3>1. pick[s] \in s /\ n + 1 \in Nat /\ (n + 1) - 1 = n
      BY <2>2 DEF Small
    <3>2. s \ {pick[s]} \in Small(D, n) /\ s \ {pick[s]} \in Small(D, n + 1)
      BY <3>1, SmallLess
    <3> QED
      BY <2>1, <3>2 DEF Rec
  <2>3. g = [s \in Small(D, n + 1) |-> IF s = {} THEN base ELSE step[g[s \ {pick[s]}], pick[s]]]
    BY <2>2
  <2>4. Rec(g, Small(D, n + 1), pick, base, step)
    BY <2>3 DEF Rec
  <2>5. n + 1 \in Nat
    OBVIOUS
  <2> HIDE DEF g
  <2> QED
    BY <2>4, <2>5, Zenon
<1> DEFINE n == Cardinality(D)
<1>3. n \in Nat
  BY FS_CardinalityType
<1>4. n \in G
  <2>1. \A i \in 0 .. n - 1 : i \in G => i + 1 \in G
    BY <1>2, <1>3
  <2> HIDE DEF G, n
  <2> QED
    BY <1>1, <1>3, <2>1, UpTo
<1>5. Small(D, n) = SUBSET D
  <2>1. \A s \in SUBSET D : Cardinality(s) <= n
    BY FS_Subset
  <2> QED
    BY <2>1 DEF Small
<1>6. \E f : Rec(f, Small(D, n), pick, base, step)
  BY <1>4
<1> QED
  BY <1>5, <1>6

----------------------------------------------------------------------------
(* Sums *)

Sum(w, D) == MapThenSumSet(LAMBDA x : w[x], D)
OneOf(s) == CHOOSE x \in s : TRUE
IsSum(f, w, D) == f = [s \in SUBSET D |-> IF s = {} THEN 0 ELSE w[OneOf(s)] + f[s \ {OneOf(s)}]]

(* OneOf chooses an element. *)
LEMMA OneOfIn == \A s : s # {} => OneOf(s) \in s
  BY DEF OneOf

(* The recursion inside MapThenSumSet has a solution, in the natural       *)
(* numbers.                                                                *)
LEMMA SumExists ==
  ASSUME NEW D, IsFiniteSet(D), NEW w, \A x \in D : w[x] \in Nat
  PROVE  \E f \in [SUBSET D -> Nat] : IsSum(f, w, D)
<1> DEFINE pick == [s \in SUBSET D |-> OneOf(s)]
           step == [p \in Nat \X D |-> w[p[2]] + p[1]]
<1>1. \A s \in SUBSET D : s # {} => pick[s] \in s
  BY OneOfIn
<1>2. PICK f : Rec(f, SUBSET D, pick, 0, step)
  BY <1>1, Recursion
<1>3. \A s \in SUBSET D : f[s] = IF s = {} THEN 0 ELSE step[f[s \ {pick[s]}], pick[s]]
  BY <1>2 DEF Rec
<1> DEFINE G == {s \in SUBSET D : f[s] \in Nat}
<1>4. \A s \in SUBSET D : s # {} /\ s \ {pick[s]} \in G => f[s] = w[pick[s]] + f[s \ {pick[s]}] /\ s \in G
  <2> SUFFICES ASSUME NEW s \in SUBSET D, s # {}, s \ {pick[s]} \in G
               PROVE  f[s] = w[pick[s]] + f[s \ {pick[s]}] /\ s \in G
    OBVIOUS
  <2>1. pick[s] \in D /\ w[pick[s]] \in Nat /\ f[s \ {pick[s]}] \in Nat
    BY <1>1
  <2>2. f[s] = step[f[s \ {pick[s]}], pick[s]]
    BY <1>3
  <2>3. <<f[s \ {pick[s]}], pick[s]>> \in Nat \X D
    BY <2>1
  <2>4. f[s] = w[pick[s]] + f[s \ {pick[s]}]
    BY <2>2, <2>3
  <2> QED
    BY <2>1, <2>4
<1>5. {} \in G
  <2>1. {} \in SUBSET D /\ f[{}] = 0 /\ 0 \in Nat
    BY <1>3
  <2> HIDE DEF pick, step
  <2> QED
    BY <2>1
<1>6. \A s \in SUBSET D : s \in G
  <2>1. \A s \in SUBSET D : s # {} => \E x \in s : s \ {x} \in G => s \in G
    BY <1>1, <1>4
  <2> HIDE DEF G
  <2> QED
    BY <1>5, <2>1, Subsets
<1>7. \A s \in SUBSET D : f[s] = IF s = {} THEN 0 ELSE w[pick[s]] + f[s \ {pick[s]}]
  <2> TAKE s \in SUBSET D
  <2>1. s \ {pick[s]} \in G
    BY <1>6
  <2> QED
    BY <1>3, <1>4, <2>1
<1>8. f = [s \in SUBSET D |-> f[s]]
  BY <1>2 DEF Rec
<1>9. f = [s \in SUBSET D |-> IF s = {} THEN 0 ELSE w[OneOf(s)] + f[s \ {OneOf(s)}]]
  <2>1. \A s \in SUBSET D : f[s] = IF s = {} THEN 0 ELSE w[OneOf(s)] + f[s \ {OneOf(s)}]
    BY <1>7
  <2> HIDE DEF pick, step, G
  <2> QED
    BY <1>8, <2>1, Zenon
<1>10. f \in [SUBSET D -> Nat]
  BY <1>6, <1>8
<1> QED
  BY <1>9, <1>10 DEF IsSum

(* Two solutions agree where both are defined. *)
LEMMA SumUnique ==
  ASSUME NEW D, NEW E, IsFiniteSet(D), NEW w, NEW f, NEW g, IsSum(f, w, D), IsSum(g, w, E)
  PROVE  \A s \in SUBSET (D \cap E) : f[s] = g[s]
<1> DEFINE C == D \cap E
           G == {s \in SUBSET C : f[s] = g[s]}
<1>1. IsFiniteSet(C)
  BY FS_Subset
<1>2. {} \in G
  BY DEF IsSum
<1>3. ASSUME NEW s \in SUBSET C, s # {} PROVE OneOf(s) \in s /\ (s \ {OneOf(s)} \in G => s \in G)
  <2>1. /\ f[s] = w[OneOf(s)] + f[s \ {OneOf(s)}]
        /\ g[s] = w[OneOf(s)] + g[s \ {OneOf(s)}]
    BY <1>3 DEF IsSum
  <2> QED
    BY <1>3, <2>1, OneOfIn
<1>4. \A s \in SUBSET C : s \in G
  <2>1. \A s \in SUBSET C : s # {} => \E x \in s : s \ {x} \in G => s \in G
    BY <1>3
  <2> HIDE DEF G, C
  <2> QED
    BY <1>1, <1>2, <2>1, Subsets
<1> QED
  BY <1>4

(* One function gives the sums over all subsets. *)
LEMMA SumIs ==
  ASSUME NEW D, IsFiniteSet(D), NEW w, \A x \in D : w[x] \in Nat
  PROVE  \E f \in [SUBSET D -> Nat] : IsSum(f, w, D) /\ \A s \in SUBSET D : f[s] = Sum(w, s)
<1>1. PICK f \in [SUBSET D -> Nat] : IsSum(f, w, D)
  BY SumExists
<1>2. ASSUME NEW s \in SUBSET D PROVE f[s] = Sum(w, s)
  <2>1. Sum(w, s) = (CHOOSE g : IsSum(g, w, s))[s]
    BY Zenon DEF Sum, MapThenSumSet, MapThenFoldSet, IsSum, OneOf
  <2>2. IsFiniteSet(s) /\ \A x \in s : w[x] \in Nat
    BY FS_Subset
  <2>3. \E g : IsSum(g, w, s)
    BY <2>2, SumExists
  <2>4. IsSum(CHOOSE g : IsSum(g, w, s), w, s)
    BY <2>3
  <2>5. s \in SUBSET (D \cap s)
    OBVIOUS
  <2>6. f[s] = (CHOOSE g : IsSum(g, w, s))[s]
    BY <1>1, <2>4, <2>5, SumUnique
  <2> QED
    BY <2>1, <2>6
<1> QED
  BY <1>1, <1>2

(* A sum is a natural number, and any element can be taken out of it.      *)
LEMMA SumRemove ==
  ASSUME NEW D, IsFiniteSet(D), NEW w, \A x \in D : w[x] \in Nat
  PROVE  /\ Sum(w, D) \in Nat /\ Sum(w, {}) = 0
         /\ \A x \in D : Sum(w, D \ {x}) \in Nat /\ Sum(w, D) = Sum(w, D \ {x}) + w[x]
<1>1. PICK f \in [SUBSET D -> Nat] : IsSum(f, w, D) /\ \A s \in SUBSET D : f[s] = Sum(w, s)
  BY SumIs
<1> DEFINE G == {s \in SUBSET D : \A x \in s : f[s] = f[s \ {x}] + w[x]}
<1>2. ASSUME NEW s \in SUBSET D, \A x \in s : s \ {x} \in G PROVE s \in G
  <2> SUFFICES ASSUME NEW x \in s PROVE f[s] = f[s \ {x}] + w[x]
    OBVIOUS
  <2> DEFINE p == OneOf(s)
             r == (s \ {p}) \ {x}
  <2>1. p \in s /\ f[s] = w[p] + f[s \ {p}]
    BY <1>1, OneOfIn DEF IsSum
  <2> HIDE DEF p
  <2>2. w[p] \in Nat /\ w[x] \in Nat /\ f[s \ {p}] \in Nat /\ f[r] \in Nat
    BY <1>1, <2>1
  <2>3. CASE x = p
    BY <2>1, <2>2, <2>3
  <2>4. CASE x # p
    <3>1. f[s \ {p}] = f[r] + w[x]
      BY <1>2, <2>1, <2>4
    <3>2. f[s \ {x}] = f[(s \ {x}) \ {p}] + w[p]
      BY <1>2, <2>1, <2>4
    <3>3. (s \ {x}) \ {p} = r
      OBVIOUS
    <3>4. f[s \ {x}] = f[r] + w[p]
      BY <3>2, <3>3
    <3> HIDE DEF r
    <3> QED
      BY <2>1, <2>2, <3>1, <3>4
  <2> QED
    BY <2>3, <2>4
<1>3. \A s \in SUBSET D : s \in G
  <2> HIDE DEF G
  <2> QED
    BY <1>2, AllLess
<1>4. \A x \in D : f[D] = f[D \ {x}] + w[x] /\ f[D \ {x}] \in Nat /\ f[D \ {x}] = Sum(w, D \ {x})
  BY <1>1, <1>3
<1>5. f[D] \in Nat /\ f[D] = Sum(w, D) /\ f[{}] = 0 /\ f[{}] = Sum(w, {})
  BY <1>1 DEF IsSum
<1> QED
  BY <1>4, <1>5

(* A new element adds its value. *)
LEMMA SumAdd ==
  ASSUME NEW D, IsFiniteSet(D), NEW w, \A x \in D : w[x] \in Nat, NEW y, y \notin D, w[y] \in Nat
  PROVE  Sum(w, D \union {y}) = Sum(w, D) + w[y]
<1>1. IsFiniteSet(D \union {y}) /\ (D \union {y}) \ {y} = D
  BY FS_AddElement
<1> QED
  BY <1>1, SumRemove

(* The sum over a set is that over a part and that over the rest.          *)
LEMMA SumPart ==
  ASSUME NEW D, IsFiniteSet(D), NEW w, \A x \in D : w[x] \in Nat, NEW P \in SUBSET D
  PROVE  Sum(w, D \ P) \in Nat /\ Sum(w, P) \in Nat /\ Sum(w, D) = Sum(w, D \ P) + Sum(w, P)
<1> DEFINE G == {s \in SUBSET D : Sum(w, D) = Sum(w, D \ s) + Sum(w, s)}
<1>1. \A s \in SUBSET D : IsFiniteSet(s) /\ Sum(w, s) \in Nat
  BY FS_Subset, SumRemove
<1>2. {} \in G
  <2>1. Sum(w, {}) = 0 /\ Sum(w, D) \in Nat /\ D \ {} = D
    BY SumRemove
  <2> QED
    BY <2>1
<1>3. ASSUME NEW s \in SUBSET D, NEW x \in s, s \ {x} \in G PROVE s \in G
  <2> DEFINE r == s \ {x}
  <2>1. Sum(w, D) = Sum(w, D \ r) + Sum(w, r)
    BY <1>3
  <2>2. (D \ r) \ {x} = D \ s /\ x \in D \ r /\ D \ r \in SUBSET D /\ IsFiniteSet(D \ r) /\ IsFiniteSet(s)
    BY <1>1
  <2>3. Sum(w, D \ r) = Sum(w, (D \ r) \ {x}) + w[x]
    BY <2>2, SumRemove
  <2>4. Sum(w, D \ r) = Sum(w, D \ s) + w[x]
    BY <2>2, <2>3
  <2>5. Sum(w, s) = Sum(w, r) + w[x]
    BY <2>2, SumRemove
  <2>6. Sum(w, r) \in Nat /\ Sum(w, D \ s) \in Nat /\ w[x] \in Nat
    BY <1>1
  <2>7. Sum(w, D) = Sum(w, D \ s) + Sum(w, s)
    <3> HIDE DEF r
    <3> QED
      BY <2>1, <2>4, <2>5, <2>6
  <2> QED
    BY <2>7
<1>4. \A s \in SUBSET D : s \in G
  <2>1. \A s \in SUBSET D : s # {} => \E x \in s : s \ {x} \in G => s \in G
    BY <1>3
  <2> HIDE DEF G
  <2> QED
    BY <1>2, <2>1, Subsets
<1> QED
  BY <1>1, <1>4

(* It depends on the values of its elements only. *)
LEMMA SumSame ==
  ASSUME NEW D, IsFiniteSet(D), NEW w, NEW v, \A x \in D : w[x] \in Nat /\ v[x] = w[x]
  PROVE  Sum(v, D) = Sum(w, D)
<1> DEFINE G == {s \in SUBSET D : Sum(v, s) = Sum(w, s)}
<1>1. {} \in G
  BY SumRemove
<1>2. ASSUME NEW s \in SUBSET D, NEW x \in s, s \ {x} \in G PROVE s \in G
  <2>1. IsFiniteSet(s) /\ (\A y \in s : w[y] \in Nat) /\ (\A y \in s : v[y] \in Nat)
    BY FS_Subset
  <2>2. Sum(w, s) = Sum(w, s \ {x}) + w[x]
    BY <2>1, SumRemove
  <2>3. Sum(v, s) = Sum(v, s \ {x}) + v[x]
    BY <2>1, SumRemove
  <2> QED
    BY <1>2, <2>2, <2>3
<1>3. \A s \in SUBSET D : s \in G
  <2>1. \A s \in SUBSET D : s # {} => \E x \in s : s \ {x} \in G => s \in G
    BY <1>2
  <2> HIDE DEF G
  <2> QED
    BY <1>1, <2>1, Subsets
<1> QED
  BY <1>3

----------------------------------------------------------------------------
(* Finite sets under a strict total order R, a set of pairs. *)

Ordered(D, R) ==
    /\ \A x, y \in D : x # y => <<x, y>> \in R \/ <<y, x>> \in R
    /\ \A x, y, z \in D : <<x, y>> \in R /\ <<y, z>> \in R => <<x, z>> \in R

(* A non-empty set has a greatest element. *)
LEMMA Greatest ==
  ASSUME NEW D, IsFiniteSet(D), NEW R, Ordered(D, R)
  PROVE  \A s \in SUBSET D : s # {} => \E m \in s : \A y \in s : y # m => <<y, m>> \in R
<1> DEFINE G == {s \in SUBSET D : s # {} => \E m \in s : \A y \in s : y # m => <<y, m>> \in R}
<1>1. {} \in G
  OBVIOUS
<1>2. ASSUME NEW s \in SUBSET D, NEW x \in s, s \ {x} \in G PROVE s \in G
  <2>1. CASE s \ {x} = {}
    BY <2>1
  <2>2. CASE s \ {x} # {}
    <3>1. PICK m \in s \ {x} : \A y \in s \ {x} : y # m => <<y, m>> \in R
      BY <1>2, <2>2
    <3>2. CASE <<x, m>> \in R
      BY <3>1, <3>2
    <3>3. CASE <<m, x>> \in R
      <4>1. ASSUME NEW y \in s, y # x PROVE <<y, x>> \in R
        BY <3>1, <3>3, <4>1 DEF Ordered
      <4> QED
        BY <4>1
    <3> QED
      BY <3>1, <3>2, <3>3 DEF Ordered
  <2> QED
    BY <2>1, <2>2
<1> HIDE DEF G
<1>3. \A s \in SUBSET D : s # {} => \E x \in s : s \ {x} \in G => s \in G
  BY <1>2
<1>4. \A s \in SUBSET D : s \in G
  BY <1>1, <1>3, Subsets
<1> QED
  BY <1>4 DEF G

InOrder(q, R) == \A i, j \in DOMAIN q : i < j => <<q[i], q[j]>> \in R

(* The elements can be put in order. *)
LEMMA SortedExists ==
  ASSUME NEW D, IsFiniteSet(D), NEW R, Ordered(D, R)
  PROVE  \E q \in SetToSeqs(D) : InOrder(q, R)
<1> DEFINE G == {s \in SUBSET D : \E q \in SetToSeqs(s) : InOrder(q, R)}
<1>1. {} \in G
  <2>1. Cardinality({}) = 0
    BY FS_EmptySet
  <2> DEFINE q == [i \in 1 .. 0 |-> i]
  <2>2. q \in [1 .. 0 -> {}] /\ DOMAIN q = {}
    OBVIOUS
  <2>3. q \in SetToSeqs({}) /\ InOrder(q, R)
    BY <2>1, <2>2 DEF SetToSeqs, InOrder
  <2> QED
    BY <2>3
<1>2. ASSUME NEW s \in SUBSET D, s # {} PROVE \E x \in s : s \ {x} \in G => s \in G
  <2>1. PICK m \in s : \A y \in s : y # m => <<y, m>> \in R
    BY <1>2, Greatest
  <2>2. ASSUME s \ {m} \in G PROVE s \in G
    <3> DEFINE n == Cardinality(s \ {m})
    <3>1. n \in Nat /\ Cardinality(s) = n + 1
      BY OneLess
    <3>2. PICK p \in SetToSeqs(s \ {m}) : InOrder(p, R)
      BY <2>2
    <3> HIDE DEF n
    <3>3. p \in [1 .. n -> s \ {m}] /\ \A i, j \in 1 .. n : i # j => p[i] # p[j]
      BY <3>2 DEF SetToSeqs, n
    <3> DEFINE q == [i \in 1 .. n + 1 |-> IF i = n + 1 THEN m ELSE p[i]]
    <3>4. \A i \in 1 .. n + 1 : i # n + 1 => i \in 1 .. n
      BY <3>1
    <3>5. q \in [1 .. n + 1 -> s] /\ \A i, j \in 1 .. n + 1 : i # j => q[i] # q[j]
      BY <3>3, <3>4
    <3>6. ASSUME NEW i \in 1 .. n + 1, NEW j \in 1 .. n + 1, i < j PROVE <<q[i], q[j]>> \in R
      <4>1. i \in 1 .. n /\ i # n + 1 /\ q[i] = p[i] /\ p[i] \in s \ {m}
        BY <3>1, <3>3, <3>6
      <4>2. CASE j = n + 1
        BY <2>1, <4>1, <4>2
      <4>3. CASE j # n + 1
        <5>1. j \in 1 .. n /\ q[j] = p[j]
          BY <4>3, <3>4
        <5> QED
          BY <3>2, <3>3, <3>6, <4>1, <5>1 DEF InOrder
      <4> QED
        BY <4>2, <4>3
    <3>7. q \in SetToSeqs(s)
      BY <3>1, <3>5 DEF SetToSeqs
    <3>8. InOrder(q, R)
      BY <3>6 DEF InOrder
    <3> QED
      BY <3>7, <3>8
  <2> QED
    BY <2>2
<1> HIDE DEF G
<1>3. D \in G
  BY <1>1, <1>2, Subsets
<1> QED
  BY <1>3 DEF G

(* The place of x in the order: the number of elements below it. *)
Place(D, R, x) == Cardinality({y \in D : <<y, x>> \in R})

(* Places grow along the order, and every place is taken. *)
LEMMA Ranks ==
  ASSUME NEW D, IsFiniteSet(D), NEW R, Ordered(D, R), \A x \in D : <<x, x>> \notin R
  PROVE  /\ Cardinality(D) \in Nat
         /\ \A x \in D : Place(D, R, x) \in 0 .. Cardinality(D) - 1
         /\ \A x, z \in D : <<x, z>> \in R => Place(D, R, x) < Place(D, R, z)
         /\ \A i \in 0 .. Cardinality(D) - 1 : \E x \in D : Place(D, R, x) = i
<1> DEFINE Below(x) == {y \in D : <<y, x>> \in R}
           n == Cardinality(D)
           f == [x \in D |-> Cardinality(Below(x))]
<1>1. n \in Nat
  BY FS_CardinalityType
<1>2. ASSUME NEW x \in D PROVE IsFiniteSet(Below(x)) /\ Cardinality(Below(x)) \in 0 .. n - 1
  <2>1. Below(x) \in SUBSET D /\ x \in D /\ x \notin Below(x)
    OBVIOUS
  <2> HIDE DEF Below
  <2>2. IsFiniteSet(Below(x)) /\ Cardinality(Below(x)) <= n /\ (n = Cardinality(Below(x)) => D = Below(x))
    BY <2>1, FS_Subset
  <2>3. Cardinality(Below(x)) \in Nat
    BY <2>2, FS_CardinalityType
  <2> HIDE DEF n
  <2> QED
    BY <1>1, <2>1, <2>2, <2>3
<1>3. ASSUME NEW x \in D, NEW z \in D, <<x, z>> \in R PROVE Cardinality(Below(x)) < Cardinality(Below(z))
  <2>1. Below(x) \in SUBSET Below(z) /\ x \in Below(z) /\ x \notin Below(x)
    BY <1>3 DEF Ordered
  <2> HIDE DEF Below
  <2>2. IsFiniteSet(Below(z)) /\ Cardinality(Below(z)) \in 0 .. n - 1 /\ Cardinality(Below(x)) \in 0 .. n - 1
    BY <1>2
  <2>3. /\ Cardinality(Below(x)) <= Cardinality(Below(z))
        /\ Cardinality(Below(z)) = Cardinality(Below(x)) => Below(z) = Below(x)
    BY <2>1, <2>2, FS_Subset
  <2> HIDE DEF n
  <2> QED
    BY <1>1, <2>1, <2>2, <2>3
<1>4. f \in Injection(D, 0 .. n - 1)
  <2>1. f \in [D -> 0 .. n - 1]
    BY <1>2
  <2>2. ASSUME NEW x \in D, NEW z \in D, x # z PROVE f[x] # f[z]
    <3>1. <<x, z>> \in R \/ <<z, x>> \in R
      BY <2>2 DEF Ordered
    <3> HIDE DEF Below, n
    <3>2. Cardinality(Below(x)) \in Int /\ Cardinality(Below(z)) \in Int
      BY <1>1, <1>2
    <3> QED
      BY <1>3, <3>1, <3>2
  <2> HIDE DEF f, n
  <2> QED
    BY <2>1, <2>2 DEF Injection, IsInjective
<1>5. f \in Surjection(D, 0 .. n - 1)
  <2>1. IsFiniteSet(0 .. n - 1) /\ Cardinality(0 .. n - 1) = n
    <3> HIDE DEF n, f
    <3> QED
      BY <1>1, FS_Interval
  <2> HIDE DEF f
  <2> QED
    BY <1>4, <2>1, FS_Injection
<1>6. \A i \in 0 .. n - 1 : \E x \in D : Cardinality(Below(x)) = i
  <2>1. \A i \in 0 .. n - 1 : \E x \in D : f[x] = i
    <3> HIDE DEF f, n
    <3> QED
      BY <1>5 DEF Surjection
  <2> HIDE DEF n
  <2> QED
    BY <2>1
<1> QED
  BY <1>1, <1>2, <1>3, <1>6 DEF Place

(* A listing of a set has each of its elements once. *)
LEMMA ListsEach ==
  ASSUME NEW S, IsFiniteSet(S), NEW q \in SetToSeqs(S)
  PROVE  /\ Cardinality(S) \in Nat /\ DOMAIN q = 1 .. Cardinality(S) /\ q \in [1 .. Cardinality(S) -> S]
         /\ \A i, j \in DOMAIN q : i # j => q[i] # q[j]
         /\ \A x \in S : \E i \in DOMAIN q : q[i] = x
<1> DEFINE n == Cardinality(S)
<1>1. n \in Nat
  BY FS_CardinalityType
<1>2. q \in [1 .. n -> S] /\ \A i, j \in 1 .. n : i # j => q[i] # q[j]
  BY DEF SetToSeqs
<1> HIDE DEF n
<1>3. q \in Injection(1 .. n, S)
  BY <1>2 DEF Injection, IsInjective
<1>4. IsFiniteSet(1 .. n) /\ Cardinality(1 .. n) = n
  BY <1>1, FS_Interval
<1>5. Cardinality(1 .. n) = Cardinality(S)
  BY <1>4 DEF n
<1>6. q \in Surjection(1 .. n, S)
  BY <1>3, <1>4, <1>5, FS_Injection
<1>7. \A x \in S : \E i \in 1 .. n : q[i] = x
  BY <1>6 DEF Surjection
<1> QED
  BY <1>1, <1>2, <1>7 DEF n

(* The first n of a listing in order come before the others. *)
LEMMA FirstOfOrder ==
  ASSUME NEW S, IsFiniteSet(S), NEW q \in SetToSeqs(S), NEW R, InOrder(q, R), NEW n \in 0 .. Cardinality(S)
  PROVE  LET top == {q[i] : i \in 1 .. n}
         IN Cardinality(top) = n /\ top \subseteq S /\ \A a \in top, b \in S \ top : <<a, b>> \in R
<1> DEFINE N == Cardinality(S)
           top == {q[i] : i \in 1 .. n}
           f == [i \in 1 .. n |-> q[i]]
<1>1. /\ N \in Nat /\ DOMAIN q = 1 .. N /\ q \in [1 .. N -> S]
      /\ \A i, j \in DOMAIN q : i # j => q[i] # q[j]
      /\ \A x \in S : \E i \in DOMAIN q : q[i] = x
  BY ListsEach
<1> HIDE DEF N
<1>2. n \in Nat /\ n <= N /\ \A i \in 1 .. n : i \in 1 .. N
  BY <1>1 DEF N
<1>3. top \subseteq S
  BY <1>1, <1>2
<1>4. f \in [1 .. n -> top] /\ (\A i, j \in 1 .. n : i # j => f[i] # f[j]) /\ \A x \in top : \E i \in 1 .. n : f[i] = x
  BY <1>1, <1>2
<1>5. IsFiniteSet(1 .. n) /\ Cardinality(1 .. n) = n
  BY <1>2, FS_Interval
<1>6. Cardinality(top) = n
  <2> HIDE DEF f, top
  <2>1. f \in Injection(1 .. n, top)
    BY <1>4 DEF Injection, IsInjective
  <2>2. f \in Surjection(1 .. n, top)
    BY <1>4 DEF Surjection
  <2>3. f \in Bijection(1 .. n, top)
    BY <2>1, <2>2 DEF Bijection
  <2> QED
    BY <1>5, <2>3, FS_Bijection DEF ExistsBijection
<1>7. ASSUME NEW a \in top, NEW b \in S \ top PROVE <<a, b>> \in R
  <2>1. PICK i \in 1 .. n : a = q[i]
    BY <1>7
  <2>2. PICK j \in DOMAIN q : q[j] = b
    BY <1>1, <1>7
  <2>3. j \notin 1 .. n
    BY <1>7, <2>2
  <2>4. i \in DOMAIN q /\ i < j
    BY <1>1, <1>2, <2>2, <2>3
  <2> QED
    BY <2>1, <2>2, <2>4 DEF InOrder
<1> QED
  BY <1>3, <1>6, <1>7

============================================================================
