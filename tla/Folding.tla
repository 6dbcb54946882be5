------------------------------ MODULE Folding ------------------------------
(***************************************************************************)
(* What FoldLeft computes: the last of the states a loop goes through.     *)
(* A module about a loop instantiates this one with the step of the loop.  *)
(* It takes induction over the natural numbers as a hypothesis, Leasts of  *)
(* FiniteInduction, so that an instance brings these few facts alone.      *)
(***************************************************************************)
EXTENDS Integers, Sequences, TLAPS

CONSTANT Step(_, _, _)     \* of what the loop only reads, its state, and an element

(* f[i] is the state after i turns of the loop over q, from base; a is     *)
(* what the loop reads.                                                    *)
IsTrace(a, f, base, q) ==
    f = [i \in 0 .. Len(q) |-> IF i = 0 THEN base ELSE Step(a, f[i - 1], q[i])]

(* The recursion inside FoldLeft, on the sets of positions.                *)
Latest(s) == CHOOSE x \in s : \A y \in s : x >= y
IsIter(a, g, base, q, D) ==
    g = [s \in SUBSET D |-> IF s = {} THEN base ELSE Step(a, g[s \ {Latest(s)}], q[Latest(s)])]

(* FoldLeft with this step, from base, its definition expanded. *)
Fold(a, base, q) == (CHOOSE g : IsIter(a, g, base, q, DOMAIN q))[DOMAIN q]

(* A set of positions has a last one. *)
LEMMA LatestIn ==
  ASSUME \A T \in SUBSET Nat : T # {} => \E k \in T : \A m \in T : k <= m,
         NEW n \in Nat, NEW s \in SUBSET (1 .. n), s # {}
  PROVE  Latest(s) \in s /\ \A y \in s : Latest(s) >= y
<1> DEFINE T == {m \in Nat : \A y \in s : m >= y}
<1>1. T \in SUBSET Nat /\ n \in T
  OBVIOUS
<1>2. PICK m \in T : \A k \in T : m <= k
  <2> HIDE DEF T
  <2> QED
    BY <1>1
<1>3. PICK y \in s : TRUE
  OBVIOUS
<1>4. m \in Nat /\ m # 0 /\ m - 1 \in Nat
  BY <1>2, <1>3
<1>5. m \in s
  <2>1. ASSUME m \notin s PROVE FALSE
    <3>1. ASSUME NEW z \in s PROVE m - 1 >= z
      BY <1>2, <1>4, <2>1
    <3>2. m - 1 \in T
      BY <1>4, <3>1
    <3> QED
      BY <1>2, <1>4, <3>2
  <2> QED
    BY <2>1
<1>6. \A z \in s : m >= z
  BY <1>2
<1> QED
  BY <1>5, <1>6, Zenon DEF Latest

(* The last of the first i positions is i. *)
LEMMA LatestPrefix ==
  ASSUME \A T \in SUBSET Nat : T # {} => \E k \in T : \A m \in T : k <= m,
         NEW n \in Nat, NEW i \in 1 .. n
  PROVE  Latest(1 .. i) = i /\ (1 .. i) \ {i} = 1 .. i - 1
<1>1. i \in Nat /\ 1 .. i \in SUBSET (1 .. i) /\ 1 .. i # {} /\ i \in 1 .. i
  OBVIOUS
<1>2. Latest(1 .. i) \in 1 .. i /\ Latest(1 .. i) >= i
  <2>1. Latest(1 .. i) \in 1 .. i /\ \A y \in 1 .. i : Latest(1 .. i) >= y
    BY <1>1, LatestIn
  <2> QED
    BY <1>1, <2>1
<1>3. (1 .. i) \ {i} = 1 .. i - 1
  OBVIOUS
<1> QED
  BY <1>2, <1>3

(* The recursion has a solution: one for the positions up to k gives one   *)
(* for those up to k + 1, since the rest of a set has no later position.   *)
LEMMA IterExists ==
  ASSUME \A T \in SUBSET Nat : T # {} => \E k \in T : \A m \in T : k <= m,
         NEW n \in Nat, NEW a, NEW base, NEW q
  PROVE  \E g : IsIter(a, g, base, q, 1 .. n)
<1> DEFINE Turn(g, s) == IF s = {} THEN base ELSE Step(a, g[s \ {Latest(s)}], q[Latest(s)])
           G == {k \in Nat : \E g : g = [s \in SUBSET (1 .. k) |-> Turn(g, s)]}
<1>1. 0 \in G
  <2> DEFINE g == [s \in SUBSET (1 .. 0) |-> base]
  <2>1. \A s \in SUBSET (1 .. 0) : s = {}
    OBVIOUS
  <2>2. g = [s \in SUBSET (1 .. 0) |-> Turn(g, s)]
    BY <2>1
  <2> QED
    BY <2>2
<1>2. ASSUME NEW k \in Nat, k \in G PROVE k + 1 \in G
  <2>1. PICK g : g = [s \in SUBSET (1 .. k) |-> Turn(g, s)]
    BY <1>2
  <2> DEFINE h == [s \in SUBSET (1 .. k + 1) |-> Turn(g, s)]
  <2>2. ASSUME NEW s \in SUBSET (1 .. k + 1), s # {} PROVE h[s \ {Latest(s)}] = g[s \ {Latest(s)}]
    <3>1. k + 1 \in Nat
      OBVIOUS
    <3>2. Latest(s) \in s /\ \A y \in s : Latest(s) >= y
      BY <2>2, <3>1, LatestIn
    <3>3. ASSUME NEW y \in s, y # Latest(s) PROVE y \in 1 .. k
      <4>1. y \in 1 .. k + 1 /\ Latest(s) \in 1 .. k + 1 /\ Latest(s) >= y
        BY <3>2
      <4> QED
        BY <3>3, <4>1
    <3>4. s \ {Latest(s)} \in SUBSET (1 .. k) /\ s \ {Latest(s)} \in SUBSET (1 .. k + 1)
      BY <3>3
    <3>5. g[s \ {Latest(s)}] = Turn(g, s \ {Latest(s)})
      BY <2>1, <3>4, Zenon
    <3>6. h[s \ {Latest(s)}] = Turn(g, s \ {Latest(s)})
      BY <3>4, Zenon
    <3> QED
      BY <3>5, <3>6
  <2>3. ASSUME NEW s \in SUBSET (1 .. k + 1) PROVE Turn(g, s) = Turn(h, s)
    BY <2>2, <2>3, Zenon
  <2>4. h = [s \in SUBSET (1 .. k + 1) |-> Turn(h, s)]
    <3>1. \A s \in SUBSET (1 .. k + 1) : h[s] = Turn(g, s)
      BY Zenon
    <3> DEFINE again == [s \in SUBSET (1 .. k + 1) |-> Turn(h, s)]
    <3>2. \A s \in SUBSET (1 .. k + 1) : h[s] = again[s]
      BY <2>3, <3>1, Zenon
    <3> HIDE DEF Turn
    <3> QED
      BY <3>2
  <2>5. k + 1 \in Nat
    OBVIOUS
  <2> HIDE DEF h
  <2> QED
    BY <2>4, <2>5, Zenon
<1>3. n \in G
  <2> HIDE DEF G
  <2> DEFINE Bad == {k \in Nat : k \notin G}
  <2>1. ASSUME Bad # {} PROVE FALSE
    <3>1. Bad \in SUBSET Nat
      OBVIOUS
    <3>2. PICK k \in Bad : \A m \in Bad : k <= m
      <4> HIDE DEF Bad
      <4> QED
        BY <2>1, <3>1
    <3>3. k # 0 /\ k - 1 \in Nat /\ ~(k <= k - 1)
      BY <1>1, <3>2
    <3>4. k - 1 \in G /\ (k - 1) + 1 = k
      BY <3>2, <3>3
    <3> QED
      BY <1>2, <3>2, <3>3, <3>4
  <2> QED
    BY <2>1
<1>4. \E g : g = [s \in SUBSET (1 .. n) |-> Turn(g, s)]
  BY <1>3, Zenon
<1> QED
  BY <1>4, Zenon DEF IsIter

(* A fold is the last state of a trace of the loop. *)
THEOREM FoldTrace ==
  ASSUME \A T \in SUBSET Nat : T # {} => \E k \in T : \A m \in T : k <= m,
         NEW a, NEW base, NEW q, Len(q) \in Nat, DOMAIN q = 1 .. Len(q)
  PROVE  \E f : IsTrace(a, f, base, q) /\ Fold(a, base, q) = f[Len(q)]
<1> DEFINE n == Len(q)
           g == CHOOSE g : IsIter(a, g, base, q, 1 .. n)
           f == [i \in 0 .. n |-> g[1 .. i]]
<1>1. IsIter(a, g, base, q, 1 .. n)
  BY IterExists, Zenon
<1>2. Fold(a, base, q) = g[1 .. n]
  BY Zenon DEF Fold
<1> HIDE DEF g
<1>3. f[0] = base
  <2>1. 1 .. 0 = {} /\ {} \in SUBSET (1 .. n) /\ 0 \in 0 .. n
    OBVIOUS
  <2>2. g[{}] = base
    BY <1>1, <2>1, Zenon DEF IsIter
  <2> QED
    <3>1. f[0] = g[1 .. 0]
      BY <2>1
    <3> QED
      BY <2>1, <2>2, <3>1, Zenon
<1>4. ASSUME NEW i \in 0 .. n, i # 0 PROVE f[i] = Step(a, f[i - 1], q[i])
  <2>1. i \in 1 .. n /\ i - 1 \in 0 .. n /\ 1 .. i \in SUBSET (1 .. n) /\ 1 .. i # {}
    <3>1. n \in Nat /\ i \in 1 .. n /\ i - 1 \in 0 .. n
      BY <1>4
    <3> HIDE DEF n, f
    <3>2. 1 .. i \in SUBSET (1 .. n) /\ i \in 1 .. i
      BY <3>1
    <3> QED
      BY <3>1, <3>2, Zenon
  <2>2. Latest(1 .. i) = i /\ (1 .. i) \ {i} = 1 .. i - 1
    BY <2>1, LatestPrefix
  <2>3. g[1 .. i] = Step(a, g[(1 .. i) \ {Latest(1 .. i)}], q[Latest(1 .. i)])
    BY <1>1, <2>1, Zenon DEF IsIter
  <2>4. g[1 .. i] = Step(a, g[1 .. i - 1], q[i])
    BY <2>2, <2>3, Zenon
  <2>5. f[i] = g[1 .. i] /\ f[i - 1] = g[1 .. i - 1]
    BY <2>1
  <2> QED
    BY <2>4, <2>5, Zenon
<1>5. f = [i \in 0 .. n |-> f[i]] /\ f[n] = g[1 .. n]
  OBVIOUS
<1> HIDE DEF f
<1>6. IsTrace(a, f, base, q)
  <2> DEFINE h == [i \in 0 .. n |-> IF i = 0 THEN base ELSE Step(a, f[i - 1], q[i])]
  <2>1. \A i \in 0 .. n : f[i] = h[i]
    BY <1>3, <1>4, Zenon
  <2>2. f = h
    BY <1>5, <2>1
  <2> QED
    BY <2>2, Zenon DEF IsTrace
<1> QED
  BY <1>2, <1>5, <1>6, Zenon

(* The turns of the loop, one by one. *)
THEOREM TraceStep ==
  ASSUME NEW a, NEW f, NEW base, NEW q, Len(q) \in Nat, IsTrace(a, f, base, q)
  PROVE  f[0] = base /\ \A i \in 1 .. Len(q) : f[i] = Step(a, f[i - 1], q[i])
<1>1. 0 \in 0 .. Len(q) /\ \A i \in 1 .. Len(q) : i \in 0 .. Len(q) /\ i # 0
  OBVIOUS
<1> QED
  BY <1>1, Zenon DEF IsTrace

(* What holds before the loop and is kept by each of its turns holds of    *)
(* the fold.                                                               *)
THEOREM FoldKeeps ==
  ASSUME \A T \in SUBSET Nat : T # {} => \E k \in T : \A m \in T : k <= m,
         NEW a, NEW base, NEW q, Len(q) \in Nat, DOMAIN q = 1 .. Len(q),
         NEW G, base \in G, \A s \in G : \A i \in 1 .. Len(q) : Step(a, s, q[i]) \in G
  PROVE  Fold(a, base, q) \in G
<1>1. PICK f : IsTrace(a, f, base, q) /\ Fold(a, base, q) = f[Len(q)]
  BY FoldTrace, Zenon
<1>2. f[0] = base /\ \A i \in 1 .. Len(q) : f[i] = Step(a, f[i - 1], q[i])
  BY <1>1, TraceStep
<1> DEFINE Bad == {i \in 0 .. Len(q) : f[i] \notin G}
<1>3. ASSUME Bad # {} PROVE FALSE
  <2>1. Bad \in SUBSET Nat
    OBVIOUS
  <2>2. PICK k \in Bad : \A m \in Bad : k <= m
    <3> HIDE DEF Bad
    <3> QED
      BY <1>3, <2>1
  <2>3. k # 0 /\ k \in 1 .. Len(q) /\ k - 1 \in 0 .. Len(q) /\ ~(k <= k - 1)
    BY <1>2, <2>2
  <2>4. f[k - 1] \in G
    BY <2>2, <2>3
  <2>5. f[k] = Step(a, f[k - 1], q[k])
    BY <1>2, <2>3
  <2>6. f[k] \in G
    BY <2>3, <2>4, <2>5, Zenon
  <2> QED
    BY <2>2, <2>6
<1>4. Len(q) \in 0 .. Len(q)
  OBVIOUS
<1> QED
  BY <1>1, <1>3, <1>4

============================================================================
