-------------------------- MODULE NodePoolProofs --------------------------
(***************************************************************************)
(* Proofs about NodePool, for any threads, transactions and bounds, along  *)
(* the invariant PoolInv.  TypeInv and GraphInv hold in every interleaving *)
(* of the calls: the types, the orphan pool, the limiter, and a conflict   *)
(* graph that is complete.  Completeness alone is not inductive: a new     *)
(* transaction finds its rivals through the claims, so every node of the   *)
(* graph must claim its keys.  SerialInv is what holds as long as calls do *)
(* not overlap: the indices describe the pool, no two pooled transactions  *)
(* are rivals, and the call under way has seen every rival it replaces.    *)
(*                                                                         *)
(* Two structures beside the pool follow, each along an invariant of its   *)
(* own: the queue of deferred tasks (DeferredTasks, TasksInv) and the      *)
(* priority pool with its lazily cleaned heap (OrderingPool, PrioInv).     *)
(***************************************************************************)
EXTENDS NodePool, DeferredTasks, OrderingPool, FiniteInduction, SequenceTheorems

Complete(g) ==
    \A a, b \in DOMAIN g.nodes :
        (a # b /\ KeysOf(Spends[a]) \cap KeysOf(Spends[b]) # {}) => <<a, b>> \in g.conflicts

(* utxo_index names every node under each of its keys. *)
Claimed(g) == \A a \in DOMAIN g.nodes : \A k \in KeysOf(Spends[a]) : <<k, a>> \in g.claims

GraphInv == Claimed(graph) /\ Complete(graph)

(* A new graph knows no transaction. *)
LEMMA NewGraphInv == Claimed(NewGraph) /\ Complete(NewGraph)
  <1>1. DOMAIN NewGraph.nodes = {}
    BY DEF NewGraph
  <1> QED
    BY <1>1 DEF Claimed, Complete

(* register_transaction keeps the graph complete: it finds every node that *)
(* claims one of the new keys, and links both ways.                        *)
LEMMA RegisterInv ==
    ASSUME NEW g, NEW x, NEW node, Claimed(g), Complete(g)
    PROVE  LET h == RegisterTransaction(g, x, KeysOf(Spends[x]), node)
           IN  Claimed(h) /\ Complete(h)
  <1> DEFINE keys == KeysOf(Spends[x])
             found == DetectedConflicts(g, x, keys)
             h == RegisterTransaction(g, x, keys, node)
  <1>1. /\ DOMAIN h.nodes = DOMAIN g.nodes \cup {x}
        /\ h.claims = g.claims \cup (keys \X {x})
        /\ h.conflicts = g.conflicts \cup ({x} \X found) \cup (found \X {x})
    BY DEF RegisterTransaction, With
  <1> HIDE DEF h
  <1>2. Claimed(h)
    <2> SUFFICES ASSUME NEW a \in DOMAIN h.nodes, NEW k \in KeysOf(Spends[a])
                 PROVE  <<k, a>> \in h.claims
      BY DEF Claimed
    <2>1. CASE a = x
      BY <2>1, <1>1
    <2>2. CASE a # x
      <3>1. a \in DOMAIN g.nodes
        BY <2>2, <1>1
      <3>2. <<k, a>> \in g.claims
        BY <3>1 DEF Claimed
      <3> QED
        BY <3>2, <1>1
    <2> QED
      BY <2>1, <2>2
  <1>3. ASSUME NEW b \in DOMAIN g.nodes, b # x, NEW k \in KeysOf(Spends[b]), k \in keys
        PROVE  b \in found
    <2>1. <<k, b>> \in g.claims
      BY <1>3 DEF Claimed
    <2>2. b \in Claimants(g, keys)
      BY <2>1, <1>3 DEF Claimants
    <2> QED
      BY <2>2, <1>3 DEF DetectedConflicts
  <1>4. Complete(h)
    <2> SUFFICES ASSUME NEW a \in DOMAIN h.nodes, NEW b \in DOMAIN h.nodes, a # b,
                        NEW k \in KeysOf(Spends[a]), k \in KeysOf(Spends[b])
                 PROVE  <<a, b>> \in h.conflicts
      BY DEF Complete
    <2>1. CASE a = x
      <3>1. b \in DOMAIN g.nodes /\ b # x
        BY <2>1, <1>1
      <3>2. b \in found
        BY <3>1, <2>1, <1>3
      <3> QED
        BY <3>2, <2>1, <1>1
    <2>2. CASE b = x
      <3>1. a \in DOMAIN g.nodes /\ a # x
        BY <2>2, <1>1
      <3>2. a \in found
        BY <3>1, <2>2, <1>3
      <3> QED
        BY <3>2, <2>2, <1>1
    <2>3. CASE a # x /\ b # x
      <3>1. a \in DOMAIN g.nodes /\ b \in DOMAIN g.nodes
        BY <2>3, <1>1
      <3>2. <<a, b>> \in g.conflicts
        BY <3>1 DEF Complete
      <3> QED
        BY <3>2, <1>1
    <2> QED
      BY <2>1, <2>2, <2>3
  <1> QED
    BY <1>2, <1>4 DEF h

(* remove_transaction_cascade forgets the node with its claims and its     *)
(* list of conflicts; what it leaves in the lists of others is harmless.   *)
LEMMA RemoveInv ==
    ASSUME NEW g, NEW x, Claimed(g), Complete(g)
    PROVE  Claimed(RemoveTransactionCascade(g, x)) /\ Complete(RemoveTransactionCascade(g, x))
  <1> DEFINE h == RemoveTransactionCascade(g, x)
  <1>1. /\ DOMAIN h.nodes = DOMAIN g.nodes \ {x}
        /\ h.claims = {c \in g.claims : c[2] # x}
        /\ h.conflicts = {p \in g.conflicts : p[1] # x}
    BY DEF RemoveTransactionCascade, Without
  <1> HIDE DEF h
  <1>2. Claimed(h)
    BY <1>1 DEF Claimed
  <1>3. Complete(h)
    BY <1>1 DEF Complete
  <1> QED
    BY <1>2, <1>3 DEF h

(* Only registration and replacement change the graph, each by one call of *)
(* its interface.                                                          *)
LEMMA GraphSteps ==
    ASSUME [PoolNext]_vars
    PROVE  \/ graph' = graph
           \/ \E x, node : graph' = RegisterTransaction(graph, x, KeysOf(Spends[x]), node)
           \/ \E x : graph' = RemoveTransactionCascade(graph, x)
  <1>1. ASSUME NEW t \in Threads, Register(t)
        PROVE  \E x, node : graph' = RegisterTransaction(graph, x, KeysOf(Spends[x]), node)
    BY <1>1 DEF Register
  <1>2. ASSUME NEW t \in Threads, Replace(t)
        PROVE  graph' = graph \/ \E x : graph' = RemoveTransactionCascade(graph, x)
    BY <1>2 DEF Replace
  <1>3. ASSUME NEW t \in Threads, Call(t) \/ Admit(t) \/ MakeSpace(t) \/ Resolve(t)
        PROVE  graph' = graph
    BY <1>3 DEF Call, Admit, MakeSpace, Resolve
  <1>4. ASSUME NEW t \in Threads,
               Validate(t) \/ Enter(t) \/ Track(t) \/ Link(t) \/ Adopt(t) \/ Offer(t) \/ Insert(t)
        PROVE  graph' = graph
    BY <1>4 DEF Validate, Enter, Track, Link, Adopt, Offer, Insert
  <1>5. ASSUME NEW x \in Tx, RemoveTx(x) \/ BlockStored(x) \/ \E s \in Statuses : SetStatus(x, s)
        PROVE  graph' = graph
    BY <1>5 DEF RemoveTx, BlockStored, SetStatus
  <1>6. ASSUME CleanupExpired \/ CleanupOrphans \/ Reconcile \/ Clear \/ Tick
        PROVE  graph' = graph
    BY <1>6 DEF CleanupExpired, CleanupOrphans, Reconcile, Clear, Tick
  <1>7. ASSUME UNCHANGED vars
        PROVE  graph' = graph
    BY <1>7 DEF vars
  <1> QED
    BY <1>1, <1>2, <1>3, <1>4, <1>5, <1>6, <1>7 DEF PoolNext, Step

(* The inductive step. *)
LEMMA GraphInvStep == GraphInv /\ [PoolNext]_vars => GraphInv'
  <1> SUFFICES ASSUME GraphInv, [PoolNext]_vars
               PROVE  GraphInv'
    OBVIOUS
  <1>1. CASE graph' = graph
    BY <1>1 DEF GraphInv, Claimed, Complete
  <1>2. ASSUME NEW x, NEW node, graph' = RegisterTransaction(graph, x, KeysOf(Spends[x]), node)
        PROVE  GraphInv'
    <2>1. Claimed(graph') /\ Complete(graph')
      BY <1>2, RegisterInv DEF GraphInv
    <2> QED
      BY <2>1 DEF GraphInv, Claimed, Complete
  <1>3. ASSUME NEW x, graph' = RemoveTransactionCascade(graph, x)
        PROVE  GraphInv'
    <2>1. Claimed(graph') /\ Complete(graph')
      BY <1>3, RemoveInv DEF GraphInv
    <2> QED
      BY <2>1 DEF GraphInv, Claimed, Complete
  <1> QED
    BY <1>1, <1>2, <1>3, GraphSteps

(* Two transactions of the graph that claim the same key always know each  *)
(* other, whatever is registered, replaced and registered again: the block *)
(* builder, which asks only these lists, never selects two of them.        *)
THEOREM ConflictsAlwaysComplete == PoolSpec => []ConflictsComplete
  <1>1. PoolInit => GraphInv
    BY NewGraphInv DEF PoolInit, GraphInv
  <1>2. GraphInv => ConflictsComplete
    BY DEF GraphInv, Complete, ConflictsComplete
  <1> QED
    BY <1>1, <1>2, GraphInvStep, PTL DEF PoolSpec

----------------------------------------------------------------------------
(* What holds in every interleaving: the types, the limiter's total, the   *)
(* index of the orphans.                                                   *)

Labels == {"admit", "space", "register", "resolve", "replace", "validate", "enter", "track",
           "link", "adopt", "insert"}
(* Only a transaction with inputs can miss one. *)
Spending == {x \in Tx : Spends[x] # {}}
AllOutputs == UNION {Outputs[x] : x \in Tx}
Frames ==
    [tx : Tx, rate : Nat, density : Nat, pc : Labels, rivals : SUBSET Tx,
     outs : SUBSET AllOutputs, todo : SUBSET Spending]
StackTyped == stack \in [Threads -> Seq(Frames)]

PoolTyped ==
    /\ DOMAIN pool \subseteq Tx
    /\ \A x \in DOMAIN pool : pool[x] \in [rate : Nat, time : Nat, status : Statuses]

GraphTyped(g) ==
    /\ DOMAIN g.nodes \subseteq Tx
    /\ \A x \in DOMAIN g.nodes : g.nodes[x] \in [rate : Nat, time : Nat]
    /\ \A c \in g.claims : c[2] \in Tx

(* The limiter tracks a transaction with its own weight, and its total     *)
(* covers what it tracks.                                                  *)
LimiterOK(l) ==
    /\ DOMAIN l.weights \subseteq Tx /\ \A x \in DOMAIN l.weights : l.weights[x] = Weight[x]
    /\ l.current \in Nat /\ l.current >= WeightOf(l, DOMAIN l.weights)

OrphansOK(o) ==
    /\ DOMAIN o.entries \subseteq Spending
    /\ \A x \in DOMAIN o.entries : \A op \in o.entries[x].missing : <<op, x>> \in o.index

(* What the hash index of the ordering names is in a bucket. *)
OrderingOK ==
    /\ ordering.entries \in [Tx -> Nat] /\ ordering.indexed \subseteq Tx
    /\ \A x \in ordering.indexed : ordering.entries[x] >= 1

ClockOK == now \in Nat /\ minFee \in Nat /\ minFee >= MIN_FEE_RATE

TypeInv ==
    /\ StackTyped /\ PoolTyped /\ GraphTyped(graph) /\ LimiterOK(limiter) /\ OrphansOK(orphans)
    /\ OrderingOK /\ ClockOK

----------------------------------------------------------------------------
(* What holds while no two operations overlap. *)

(* The secondary structures know x at this rate. *)
Tracked(x, rate) ==
    /\ x \in DOMAIN sched /\ x \in DOMAIN index.byHash /\ <<rate, x>> \in index.economic
    /\ ordering.entries[x] > 0 /\ x \in ordering.indexed
Claims(x) == \A k \in KeysOf(Spends[x]) : <<k, x>> \in graph.claims
Conflicting(a, b) == a # b /\ Spends[a] \cap Spends[b] # {}

(* What the call of frame f has established when it is at its label. *)
FrameFacts(f) ==
    /\ f.todo = {}
    /\ f.pc # "admit" => Cardinality(DOMAIN pool) < MAX_POOL_SIZE
    /\ f.pc \notin {"admit", "space", "register"} => Claims(f.tx)
    /\ f.pc = "resolve" => \A c \in f.rivals : <<f.tx, c>> \in graph.conflicts
    /\ f.pc \in {"resolve", "replace"} =>
            f.tx \notin f.rivals /\ \A c \in DOMAIN pool : Conflicting(c, f.tx) => c \in f.rivals
    /\ f.pc = "replace" => \A c \in f.rivals : c \in DOMAIN pool => Beats(f.tx, f.rate, c)
    /\ f.pc \in {"validate", "enter", "track", "link", "adopt", "insert"} =>
            \A c \in DOMAIN pool : ~Conflicting(c, f.tx)
    /\ f.pc = "track" => limiter.current + Weight[f.tx] <= MAX_SIZE_BYTES
    /\ f.pc \in {"link", "adopt", "insert"} => Tracked(f.tx, f.rate)
    /\ f.pc = "adopt" =>
            f.outs \subseteq Outputs[f.tx] /\ \A p \in orphans.index : p[1] \notin Outputs[f.tx]

(* One thread is in one call, the others in none. *)
OneCall(t) == Len(stack[t]) = 1 /\ \A u \in Threads : u # t => stack[u] = <<>>

Bounded == Cardinality(DOMAIN pool) <= MAX_POOL_SIZE /\ limiter.current <= MAX_SIZE_BYTES
NoConflict == \A a, b \in DOMAIN pool : ~Conflicting(a, b)
AllIndexed == \A x \in DOMAIN pool : Tracked(x, pool[x].rate) /\ Claims(x) /\ x \in cache
Calls == Idle \/ \E t \in Threads : OneCall(t) /\ FrameFacts(stack[t][1])

Calm == Bounded /\ NoConflict /\ AllIndexed /\ Calls
SerialInv == alone => Calm

----------------------------------------------------------------------------
(* Stacks of frames. *)

(* Popping a stack of frames and pushing one or two on what is left. *)
LEMMA StackFacts ==
  ASSUME NEW F, NEW s \in Seq(F), s # <<>>
  PROVE  /\ Last(s) \in F /\ Front(s) \in Seq(F)
         /\ \A f \in F : Front(s) \o <<f>> \in Seq(F)
         /\ \A f, g \in F : Front(s) \o <<f, g>> \in Seq(F)
<1>1. Len(s) \in Nat /\ Len(s) # 0
  OBVIOUS
<1>2. Last(s) \in F
  BY <1>1 DEF Last
<1>3. Front(s) \in Seq(F)
  BY <1>1 DEF Front
<1> QED
  BY <1>2, <1>3

(* A stack of one frame, and the same with its frame replaced. *)
LEMMA SingleFacts ==
  ASSUME NEW F, NEW s \in Seq(F), Len(s) = 1
  PROVE  /\ s # <<>> /\ Last(s) = s[1] /\ Front(s) = <<>>
         /\ \A f \in F : Len(Front(s) \o <<f>>) = 1 /\ (Front(s) \o <<f>>)[1] = f
<1>1. s # <<>>
  <2>1. Len(<<>>) = 0
    OBVIOUS
  <2>2. Len(s) # 0
    OBVIOUS
  <2> QED
    BY <2>1, <2>2, Zenon
<1>3. Last(s) = s[1]
  BY DEF Last
<1>2. Front(s) = <<>>
  BY DEF Front
<1> QED
  BY <1>1, <1>2, <1>3

(* The changes the steps make to a frame leave it a frame. *)
LEMMA FrameMoves ==
  ASSUME NEW f \in Frames
  PROVE  /\ \A pc \in Labels : [f EXCEPT !.pc = pc] \in Frames
         /\ \A pc \in Labels : \A r \in SUBSET Tx : [f EXCEPT !.pc = pc, !.rivals = r] \in Frames
         /\ \A r \in SUBSET Tx : [f EXCEPT !.rivals = r] \in Frames
         /\ \A pc \in Labels : \A o \in SUBSET AllOutputs : [f EXCEPT !.pc = pc, !.outs = o] \in Frames
         /\ \A o \in SUBSET AllOutputs, y \in SUBSET Spending : [f EXCEPT !.outs = o, !.todo = y] \in Frames
         /\ \A y \in SUBSET Spending : [f EXCEPT !.todo = y] \in Frames
  BY DEF Frames

(* A step of a thread replaces its top frame, drops it, or pushes one. *)
LEMMA StackMoves ==
  ASSUME StackTyped, NEW t \in Threads, stack[t] # <<>>
  PROVE  /\ Top(t) \in Frames
         /\ \A f \in Frames : SetTop(t, f) => StackTyped'
         /\ \A pc \in Labels : Goto(t, pc) => StackTyped'
         /\ Return(t) => StackTyped'
<1>1. stack[t] \in Seq(Frames)
  BY DEF StackTyped
<1>2. Top(t) \in Frames
  BY <1>1, StackFacts DEF Top
<1>3. ASSUME NEW f \in Frames, SetTop(t, f) PROVE StackTyped'
  <2>1. Front(stack[t]) \o <<f>> \in Seq(Frames)
    BY <1>1, StackFacts
  <2> QED
    BY <1>3, <2>1 DEF StackTyped, SetTop
<1>4. \A pc \in Labels : [Top(t) EXCEPT !.pc = pc] \in Frames
  BY <1>2, FrameMoves, Zenon
<1>5. \A pc \in Labels : Goto(t, pc) => StackTyped'
  BY <1>3, <1>4 DEF Goto
<1>6. ASSUME Return(t) PROVE StackTyped'
  <2>1. Front(stack[t]) \in Seq(Frames)
    BY <1>1, StackFacts
  <2> QED
    BY <1>6, <2>1 DEF StackTyped, Return
<1> QED
  BY <1>2, <1>3, <1>5, <1>6

(* A new frame. *)
LEMMA FrameTyped ==
  ASSUME NEW x \in Tx, NEW rate \in Nat, NEW density \in Nat
  PROVE  Frame(x, rate, density) \in Frames
  BY DEF Frame, Frames, Labels

(* The fee rate estimated for a transaction is a number. *)
LEMMA EstimatedTyped ==
  ASSUME NEW x \in Spending
  PROVE  x \in Tx /\ EstimatedRate(x) \in Nat
<1>1. x \in Tx /\ IsFiniteSet(Spends[x]) /\ Spends[x] # {}
  BY NodePoolAssumption DEF Spending
<1>2. Cardinality(Spends[x]) \in Nat /\ Cardinality(Spends[x]) # 0
  BY <1>1, FS_CardinalityType, FS_EmptySet
<1> DEFINE n == Cardinality(Spends[x])
<1>3. \A m \in Nat : m # 0 => 1000 \div (32 * m) \in Nat
  OBVIOUS
<1> HIDE DEF n
<1>4. 1000 \div (32 * n) \in Nat
  BY <1>2, <1>3 DEF n
<1> QED
  BY <1>1, <1>4 DEF EstimatedRate, n

(* Conflicts found in a typed graph are transactions. *)
LEMMA RivalsTyped ==
  ASSUME NEW g, GraphTyped(g), NEW x, NEW keys
  PROVE  DetectedConflicts(g, x, keys) \in SUBSET Tx
  BY DEF GraphTyped, DetectedConflicts, Claimants

(* Every step leaves stacks of frames. *)
LEMMA StackStep == TypeInv /\ [PoolNext]_vars => StackTyped'
<1> SUFFICES ASSUME TypeInv, [PoolNext]_vars PROVE StackTyped'
  OBVIOUS
<1> USE DEF TypeInv
<1>1. ASSUME NEW t \in Threads, Call(t) PROVE StackTyped'
  <2>1. PICK x \in Tx : \E rate \in Rates[x] :
            stack' = [stack EXCEPT ![t] = <<Frame(x, rate, MinDensity[x])>>]
    BY <1>1 DEF Call
  <2>2. PICK rate \in Rates[x] : stack' = [stack EXCEPT ![t] = <<Frame(x, rate, MinDensity[x])>>]
    BY <2>1
  <2>3. rate \in Nat /\ MinDensity[x] \in Nat
    BY NodePoolAssumption
  <2>4. <<Frame(x, rate, MinDensity[x])>> \in Seq(Frames)
    BY <2>3, FrameTyped
  <2> QED
    BY <2>2, <2>4 DEF StackTyped
<1>2. ASSUME NEW t \in Threads, Step(t) PROVE StackTyped'
  <2>0. stack[t] # <<>>
    BY <1>2 DEF Step, At, Admit, MakeSpace, Register, Resolve, Replace, Validate, Enter, Track, Link,
                Adopt, Offer, Insert
  <2>1. Top(t) \in Frames
    BY <2>0, StackMoves
  <2>m. /\ \A f \in Frames : SetTop(t, f) => StackTyped'
        /\ \A pc \in Labels : Goto(t, pc) => StackTyped'
        /\ Return(t) => StackTyped'
    BY <2>0, StackMoves
  <2>2. CASE Admit(t) \/ MakeSpace(t) \/ Enter(t)
    BY <2>2, <2>m DEF Admit, MakeSpace, Enter, Labels
  <2>3. CASE Validate(t) \/ Track(t) \/ Insert(t)
    BY <2>3, <2>m DEF Validate, Track, Insert, Labels
  <2>4. CASE Register(t)
    <3> DEFINE r == DetectedConflicts(graph, Top(t).tx, KeysOf(Spends[Top(t).tx]))
    <3>1. SetTop(t, [Top(t) EXCEPT !.pc = "resolve", !.rivals = r])
      BY <2>4 DEF Register
    <3>2. r \in SUBSET Tx /\ "resolve" \in Labels
      BY RivalsTyped DEF Labels
    <3> HIDE DEF r
    <3>3. [Top(t) EXCEPT !.pc = "resolve", !.rivals = r] \in Frames
      BY <2>1, <3>2, FrameMoves, Zenon
    <3> QED
      BY <3>1, <3>3, <2>m
  <2>5. CASE Resolve(t)
    <3>1. [Top(t) EXCEPT !.pc = "replace", !.rivals = {}] \in Frames
      <4>1. {} \in SUBSET Tx /\ "replace" \in Labels
        BY DEF Labels
      <4> QED
        BY <4>1, <2>1, FrameMoves, Zenon
    <3> QED
      BY <2>5, <2>m, <3>1 DEF Resolve, Labels
  <2>6. CASE Replace(t)
    <3>1. CASE Top(t).rivals = {}
      BY <2>6, <3>1, <2>m DEF Replace, Labels
    <3>2. CASE Top(t).rivals # {}
      <4>1. PICK c \in Top(t).rivals : SetTop(t, [Top(t) EXCEPT !.rivals = @ \ {c}])
        BY <2>6, <3>2 DEF Replace
      <4>2. Top(t).rivals \ {c} \in SUBSET Tx
        BY <2>1 DEF Frames
      <4>3. [Top(t) EXCEPT !.rivals = Top(t).rivals \ {c}] \in Frames
        BY <4>2, <2>1, FrameMoves, Zenon
      <4> QED
        BY <4>1, <4>3, <2>m
    <3> QED
      BY <3>1, <3>2
  <2>7. CASE Link(t)
    <3>1. SetTop(t, [Top(t) EXCEPT !.pc = "adopt", !.outs = Outputs[Top(t).tx]])
      BY <2>7 DEF Link
    <3>2. Outputs[Top(t).tx] \in SUBSET AllOutputs /\ "adopt" \in Labels
      BY <2>1 DEF Frames, Labels, AllOutputs
    <3>3. [Top(t) EXCEPT !.pc = "adopt", !.outs = Outputs[Top(t).tx]] \in Frames
      BY <3>2, <2>1, FrameMoves, Zenon
    <3> QED
      BY <3>1, <3>3, <2>m
  <2>8. CASE Adopt(t)
    <3> DEFINE op == CHOOSE o \in Top(t).outs : \A p \in Top(t).outs : o[2] <= p[2]
               w == Waiting(orphans, {op})
    <3>1. CASE Top(t).outs = {}
      BY <2>8, <3>1, <2>m DEF Adopt, Labels
    <3>2. CASE Top(t).outs # {}
      <4>1. SetTop(t, [Top(t) EXCEPT !.outs = Top(t).outs \ {op}, !.todo = w])
        BY <2>8, <3>2 DEF Adopt
      <4>2. w \in SUBSET Spending
        BY DEF Waiting, OrphansOK
      <4> HIDE DEF op, w
      <4>3. Top(t).outs \ {op} \in SUBSET AllOutputs
        BY <2>1 DEF Frames
      <4>4. [Top(t) EXCEPT !.outs = Top(t).outs \ {op}, !.todo = w] \in Frames
        BY <4>2, <4>3, <2>1, FrameMoves, Zenon
      <4> QED
        BY <4>1, <4>4, <2>m
    <3> QED
      BY <3>1, <3>2
  <2>9. CASE Offer(t)
    <3>1. PICK y \in Top(t).todo :
            stack' = [stack EXCEPT ![t] = Front(stack[t]) \o
                        <<[Top(t) EXCEPT !.todo = Top(t).todo \ {y}], Frame(y, EstimatedRate(y), 1)>>]
      BY <2>9 DEF Offer
    <3> DEFINE f == [Top(t) EXCEPT !.todo = Top(t).todo \ {y}]
               g == Frame(y, EstimatedRate(y), 1)
    <3>2. Top(t).todo \ {y} \in SUBSET Spending /\ y \in Spending
      BY <2>1 DEF Frames
    <3>3. f \in Frames
      BY <3>2, <2>1, FrameMoves, Zenon
    <3>4. g \in Frames
      BY <3>2, EstimatedTyped, FrameTyped
    <3> HIDE DEF f, g
    <3>5. stack[t] \in Seq(Frames)
      BY DEF StackTyped
    <3>6. Front(stack[t]) \o <<f, g>> \in Seq(Frames)
      BY <2>0, <3>3, <3>4, <3>5, StackFacts
    <3>7. stack' = [stack EXCEPT ![t] = Front(stack[t]) \o <<f, g>>]
      BY <3>1 DEF f, g
    <3> QED
      BY <3>6, <3>7 DEF StackTyped
  <2> QED
    BY <1>2, <2>2, <2>3, <2>4, <2>5, <2>6, <2>7, <2>8, <2>9 DEF Step
<1>3. ASSUME stack' = stack PROVE StackTyped'
  BY <1>3 DEF StackTyped
<1>4. ASSUME NEW x \in Tx, RemoveTx(x) \/ BlockStored(x) \/ \E s \in Statuses : SetStatus(x, s)
      PROVE  stack' = stack
  BY <1>4 DEF RemoveTx, BlockStored, SetStatus
<1>5. ASSUME CleanupExpired \/ CleanupOrphans \/ Reconcile \/ Clear \/ Tick \/ UNCHANGED vars
      PROVE  stack' = stack
  BY <1>5 DEF CleanupExpired, CleanupOrphans, Reconcile, Clear, Tick, vars
<1> QED
  BY <1>1, <1>2, <1>3, <1>4, <1>5 DEF PoolNext

----------------------------------------------------------------------------
(* The memory limiter. *)

WeightsOK(l) == DOMAIN l.weights \subseteq Tx /\ \A x \in DOMAIN l.weights : l.weights[x] = Weight[x]

(* The weight of a part of the limiter is a sum. *)
LEMMA WeightIsSum ==
  ASSUME NEW l, WeightsOK(l), NEW S \in SUBSET DOMAIN l.weights
  PROVE  /\ IsFiniteSet(S) /\ \A x \in S : Weight[x] \in Nat
         /\ WeightOf(l, S) = Sum(Weight, S) /\ Sum(Weight, S) \in Nat
<1>1. IsFiniteSet(S) /\ \A x \in S : Weight[x] \in Nat /\ l.weights[x] = Weight[x]
  BY NodePoolAssumption, FS_Subset DEF WeightsOK
<1>2. Sum(l.weights, S) = Sum(Weight, S)
  BY <1>1, SumSame
<1>3. WeightOf(l, S) = Sum(l.weights, S)
  BY Zenon DEF WeightOf, Sum
<1>4. Sum(Weight, S) \in Nat
  BY <1>1, SumRemove
<1> QED
  BY <1>1, <1>2, <1>3, <1>4

(* remove_tx_weight subtracts what it drops: fetch_sub does not wrap.      *)
LEMMA LimiterRemove ==
  ASSUME NEW l, LimiterOK(l), NEW S
  PROVE  LimiterOK(RemoveTxWeight(l, S)) /\ RemoveTxWeight(l, S).current <= l.current
<1> DEFINE r == RemoveTxWeight(l, S)
           D == DOMAIN l.weights
           P == S \cap D
<1>1. /\ DOMAIN r.weights = D \ P /\ \A x \in D \ P : r.weights[x] = l.weights[x]
      /\ r.current = l.current - WeightOf(l, P)
  BY DEF RemoveTxWeight, Without
<1> HIDE DEF r
<1>2. WeightsOK(l) /\ WeightsOK(r)
  BY <1>1 DEF LimiterOK, WeightsOK
<1>3. P \in SUBSET D /\ D \ P \in SUBSET D /\ D \in SUBSET D
  OBVIOUS
<1>4. /\ WeightOf(l, P) = Sum(Weight, P) /\ Sum(Weight, P) \in Nat
      /\ WeightOf(l, D) = Sum(Weight, D) /\ Sum(Weight, D) \in Nat
      /\ IsFiniteSet(D) /\ \A x \in D : Weight[x] \in Nat
  BY <1>2, <1>3, WeightIsSum
<1>5. WeightOf(r, D \ P) = Sum(Weight, D \ P) /\ Sum(Weight, D \ P) \in Nat
  BY <1>1, <1>2, WeightIsSum
<1>6. Sum(Weight, D) = Sum(Weight, D \ P) + Sum(Weight, P)
  BY <1>3, <1>4, SumPart
<1>7. l.current \in Nat /\ l.current >= Sum(Weight, D)
  BY <1>4 DEF LimiterOK
<1> HIDE DEF D, P
<1>8. r.current \in Nat /\ r.current >= Sum(Weight, D \ P) /\ r.current <= l.current
  BY <1>1, <1>4, <1>5, <1>6, <1>7
<1> QED
  BY <1>1, <1>2, <1>5, <1>8 DEF LimiterOK, WeightsOK, r

(* add_tx_weight, also of a transaction that is tracked already. *)
LEMMA LimiterAdd ==
  ASSUME NEW l, LimiterOK(l), NEW x \in Tx
  PROVE  LimiterOK(AddTxWeight(l, x, Weight[x]))
<1> DEFINE r == AddTxWeight(l, x, Weight[x])
           D == DOMAIN l.weights
<1>1. /\ DOMAIN r.weights = D \cup {x}
      /\ \A y \in D \cup {x} : r.weights[y] = IF y = x THEN Weight[x] ELSE l.weights[y]
      /\ r.current = l.current + Weight[x]
  BY DEF AddTxWeight, With
<1> HIDE DEF r
<1>2. WeightsOK(l) /\ WeightsOK(r)
  BY <1>1 DEF LimiterOK, WeightsOK
<1>3. /\ WeightOf(l, D) = Sum(Weight, D) /\ Sum(Weight, D) \in Nat
      /\ IsFiniteSet(D) /\ (\A y \in D : Weight[y] \in Nat) /\ Weight[x] \in Nat
  BY <1>2, WeightIsSum, NodePoolAssumption
<1>4. WeightOf(r, D \cup {x}) = Sum(Weight, D \cup {x}) /\ Sum(Weight, D \cup {x}) \in Nat
  BY <1>1, <1>2, WeightIsSum
<1>5. l.current \in Nat /\ l.current >= Sum(Weight, D)
  BY <1>3 DEF LimiterOK
<1>6. CASE x \in D
  <2>1. D \cup {x} = D
    BY <1>6
  <2> QED
    BY <2>1, <1>1, <1>2, <1>3, <1>4, <1>5 DEF LimiterOK, WeightsOK, r
<1>7. CASE x \notin D
  <2>1. Sum(Weight, D \cup {x}) = Sum(Weight, D) + Weight[x]
    BY <1>3, <1>7, SumAdd
  <2> HIDE DEF D
  <2>2. r.current \in Nat /\ r.current >= Sum(Weight, D \cup {x})
    BY <2>1, <1>1, <1>3, <1>4, <1>5
  <2> QED
    BY <2>2, <1>1, <1>2, <1>4 DEF LimiterOK, WeightsOK, r
<1> QED
  BY <1>6, <1>7

(* A new limiter is in order. *)
LEMMA LimiterNew == LimiterOK(NewLimiter)
<1>1. DOMAIN NewLimiter.weights = {} /\ NewLimiter.current = 0
  BY DEF NewLimiter
<1>2. WeightsOK(NewLimiter)
  BY <1>1 DEF WeightsOK
<1>3. WeightOf(NewLimiter, {}) = Sum(Weight, {})
  BY <1>1, <1>2, WeightIsSum
<1>4. Sum(Weight, {}) = 0
  BY FS_EmptySet, SumRemove
<1> QED
  BY <1>1, <1>2, <1>3, <1>4 DEF LimiterOK, WeightsOK

(* Every step keeps the limiter in order: its total is the sum of its      *)
(* weights.                                                                *)
LEMMA LimiterSteps ==
  ASSUME TypeInv, [PoolNext]_vars
  PROVE  LimiterOK(limiter')
<1> USE DEF TypeInv
<1>0. ASSUME NEW S, RemoveAll(S) PROVE LimiterOK(limiter')
  <2>1. limiter' = RemoveTxWeight(limiter, S)
    BY <1>0 DEF RemoveAll
  <2> QED
    BY <2>1, LimiterRemove
<1>1. ASSUME NEW t \in Threads, MakeSpace(t) PROVE LimiterOK(limiter')
  <2> DEFINE f == MakeSpaceFor(limiter, Weight[Top(t).tx], sched, MAX_SIZE_BYTES)
  <2>1. limiter' = limiter \/ limiter' = f.limiter
    BY <1>1 DEF MakeSpace
  <2>2. f.limiter = RemoveTxWeight(limiter, f.evicted)
    BY DEF MakeSpaceFor
  <2> HIDE DEF f
  <2> QED
    BY <2>1, <2>2, LimiterRemove
<1>2. ASSUME NEW t \in Threads, Replace(t) PROVE LimiterOK(limiter')
  <2>1. limiter' = limiter \/ \E c : Unpool(c)
    BY <1>2 DEF Replace
  <2> QED
    BY <2>1, <1>0 DEF Unpool
<1>3. ASSUME NEW t \in Threads, Track(t) PROVE LimiterOK(limiter')
  <2>1. limiter' = AddTxWeight(limiter, Top(t).tx, Weight[Top(t).tx])
    BY <1>3 DEF Track
  <2>2. Top(t).tx \in Tx
    BY <1>3, StackMoves DEF Track, At, Frames
  <2> QED
    BY <2>1, <2>2, LimiterAdd
<1>4. ASSUME NEW t \in Threads,
             Call(t) \/ Admit(t) \/ Register(t) \/ Resolve(t) \/ Validate(t) \/ Enter(t)
                \/ Link(t) \/ Adopt(t) \/ Offer(t) \/ Insert(t)
      PROVE  limiter' = limiter
  BY <1>4 DEF Call, Admit, Register, Resolve, Validate, Enter, Link, Adopt, Offer, Insert
<1>5. ASSUME NEW x \in Tx, RemoveTx(x) PROVE LimiterOK(limiter')
  BY <1>5, <1>0 DEF RemoveTx
<1>6. ASSUME NEW x \in Tx, BlockStored(x) \/ \E s \in Statuses : SetStatus(x, s)
      PROVE limiter' = limiter
  BY <1>6 DEF BlockStored, SetStatus
<1>7. ASSUME Reconcile PROVE LimiterOK(limiter')
  BY <1>7, <1>0 DEF Reconcile
<1>8. ASSUME CleanupExpired \/ CleanupOrphans \/ Clear \/ Tick \/ UNCHANGED vars
      PROVE  limiter' = limiter
  BY <1>8 DEF CleanupExpired, CleanupOrphans, Clear, Tick, vars
<1> QED
  BY <1>1, <1>2, <1>3, <1>4, <1>5, <1>6, <1>7, <1>8 DEF PoolNext, Step

----------------------------------------------------------------------------
(* The orphan pool. *)

(* A new orphan pool is in order. *)
LEMMA OrphansNew == OrphansOK(NewOrphans)
<1>1. DOMAIN NewOrphans.entries = {}
  BY DEF NewOrphans
<1> QED
  BY <1>1 DEF OrphansOK

(* Removing orphans cleans the index under each of their inputs. *)
LEMMA OrphansRemove ==
  ASSUME NEW o, OrphansOK(o), NEW S
  PROVE  OrphansOK(RemoveOrphans(o, S))
<1> DEFINE r == RemoveOrphans(o, S)
           gone == S \cap DOMAIN o.entries
<1>1. /\ DOMAIN r.entries = DOMAIN o.entries \ gone
      /\ \A x \in DOMAIN r.entries : r.entries[x] = o.entries[x]
      /\ r.index = {p \in o.index : ~(p[2] \in gone /\ p[1] \in o.entries[p[2]].missing)}
  BY DEF RemoveOrphans, Without
<1> HIDE DEF r
<1> QED
  BY <1>1 DEF OrphansOK, r

(* Adding an orphan, with the eviction it may cause, keeps index and map   *)
(* in step.                                                                *)
LEMMA OrphansAdd ==
  ASSUME NEW o, OrphansOK(o), NEW x \in Spending, NEW entry, NEW n,
         NEW r \in AddOrphan(o, x, entry, n)
  PROVE  OrphansOK(r)
<1>1. PICK q : /\ q = o \/ \E v : q = RemoveOrphans(o, {v})
               /\ r = [entries |-> With(q.entries, x, entry),
                       index |-> q.index \cup (entry.missing \X {x})]
  BY DEF AddOrphan
<1>2. OrphansOK(q)
  BY <1>1, OrphansRemove
<1>3. /\ DOMAIN r.entries = DOMAIN q.entries \cup {x}
      /\ \A y \in DOMAIN r.entries : r.entries[y] = IF y = x THEN entry ELSE q.entries[y]
      /\ r.index = q.index \cup (entry.missing \X {x})
  BY <1>1 DEF With
<1> QED
  BY <1>2, <1>3 DEF OrphansOK

(* process_orphans_for_parent takes every orphan whose index entries it    *)
(* drops, and leaves nothing in the index under these outpoints.           *)
LEMMA OrphansProcess ==
  ASSUME NEW o, OrphansOK(o), NEW ops
  PROVE  /\ OrphansOK(ProcessOrphans(o, ops))
         /\ ProcessOrphans(o, ops).index = {p \in o.index : p[1] \notin ops}
<1> DEFINE r == ProcessOrphans(o, ops)
<1>1. /\ DOMAIN r.entries = DOMAIN o.entries \ Waiting(o, ops)
      /\ \A x \in DOMAIN r.entries : r.entries[x] = o.entries[x]
      /\ r.index = {p \in o.index : p[1] \notin ops}
  BY DEF ProcessOrphans, Without
<1> HIDE DEF r
<1>2. ASSUME NEW x \in DOMAIN r.entries, NEW op \in r.entries[x].missing
      PROVE  <<op, x>> \in r.index
  <2>1. <<op, x>> \in o.index /\ x \in DOMAIN o.entries /\ x \notin Waiting(o, ops)
    BY <1>1 DEF OrphansOK
  <2>2. op \notin ops
    BY <2>1 DEF Waiting
  <2> QED
    BY <1>1, <2>1, <2>2
<1> QED
  BY <1>1, <1>2 DEF OrphansOK, r

(* The levels of link_orphan_chain. *)
IsChain(f, o, ops, outputs, n) ==
    f = [d \in 0 .. n |-> IF d = 0 THEN [orphans |-> o, level |-> ops]
                          ELSE LinkLevel(outputs, f[d - 1])]

(* The chain that link_orphan_chain follows exists, for any number of      *)
(* turns.                                                                  *)
LEMMA ChainExists ==
  ASSUME NEW n \in Nat, NEW o, NEW ops, NEW outputs
  PROVE  \E f : IsChain(f, o, ops, outputs, n)
<1> DEFINE G == {i \in Nat : \E f : IsChain(f, o, ops, outputs, i)}
<1>1. 0 \in G
  <2> DEFINE f == [d \in 0 .. 0 |-> [orphans |-> o, level |-> ops]]
  <2>1. IsChain(f, o, ops, outputs, 0)
    BY DEF IsChain
  <2> QED
    BY <2>1
<1>2. ASSUME NEW i \in 0 .. n - 1, i \in G PROVE i + 1 \in G
  <2>1. PICK f : IsChain(f, o, ops, outputs, i)
    BY <1>2
  <2> DEFINE g == [d \in 0 .. i + 1 |-> IF d = i + 1 THEN LinkLevel(outputs, f[i]) ELSE f[d]]
             h == [d \in 0 .. i + 1 |-> IF d = 0 THEN [orphans |-> o, level |-> ops]
                                        ELSE LinkLevel(outputs, g[d - 1])]
  <2>2. ASSUME NEW d \in 0 .. i + 1 PROVE g[d] = h[d]
    <3>1. CASE d = 0
      BY <2>1, <3>1 DEF IsChain
    <3>2. CASE d = i + 1
      <4>1. d # 0 /\ d - 1 = i /\ g[i] = f[i]
        BY <3>2
      <4> QED
        BY <4>1, <3>2
    <3>3. CASE d # 0 /\ d # i + 1
      <4>1. d \in 0 .. i /\ d - 1 \in 0 .. i /\ d - 1 # i + 1 /\ d - 1 \in 0 .. i + 1
        BY <3>3
      <4>2. g[d] = f[d] /\ g[d - 1] = f[d - 1]
        BY <4>1, <3>3
      <4>3. f[d] = LinkLevel(outputs, f[d - 1])
        BY <2>1, <4>1, <3>3 DEF IsChain
      <4>4. h[d] = LinkLevel(outputs, g[d - 1])
        BY <3>3
      <4> QED
        BY <4>2, <4>3, <4>4
    <3> QED
      BY <3>1, <3>2, <3>3
  <2>3. g = h
    BY <2>2
  <2>4. IsChain(g, o, ops, outputs, i + 1)
    BY <2>3 DEF IsChain
  <2> QED
    BY <2>4
<1> HIDE DEF G
<1>3. \A i \in 0 .. n : i \in G
  BY <1>1, <1>2, UpTo
<1> QED
  BY <1>3 DEF G

(* link_orphan_chain keeps the orphans filed, and nobody waits for an      *)
(* output of its transaction any more.                                     *)
LEMMA OrphansLink ==
  ASSUME NEW o, OrphansOK(o), NEW x, NEW outputs, NEW n \in Nat \ {0}
  PROVE  /\ OrphansOK(LinkOrphanChain(o, x, outputs, n))
         /\ \A p \in LinkOrphanChain(o, x, outputs, n).index : p[1] \notin outputs[x]
<1> DEFINE F == CHOOSE f : IsChain(f, o, outputs[x], outputs, n)
<1>1. LinkOrphanChain(o, x, outputs, n) = F[n].orphans
  BY Zenon DEF LinkOrphanChain, IsChain
<1>2. IsChain(F, o, outputs[x], outputs, n)
  BY ChainExists
<1> HIDE DEF F
<1>3. /\ F[0] = [orphans |-> o, level |-> outputs[x]]
      /\ \A d \in 0 .. n : d # 0 => F[d] = LinkLevel(outputs, F[d - 1])
  BY <1>2 DEF IsChain
<1> DEFINE G == {d \in 0 .. n : /\ OrphansOK(F[d].orphans)
                                /\ d = 0 => F[d].level = outputs[x]
                                /\ d # 0 => \A p \in F[d].orphans.index : p[1] \notin outputs[x]}
<1>4. 0 \in G
  BY <1>3
<1>5. ASSUME NEW d \in 0 .. n - 1, d \in G PROVE d + 1 \in G
  <2>1. d + 1 \in 0 .. n /\ d + 1 # 0 /\ (d + 1) - 1 = d
    OBVIOUS
  <2>2. F[d + 1].orphans = ProcessOrphans(F[d].orphans, F[d].level)
    <3>1. F[d + 1] = LinkLevel(outputs, F[(d + 1) - 1])
      BY <2>1, <1>3, Zenon
    <3>2. F[d + 1] = LinkLevel(outputs, F[d])
      BY <2>1, <3>1, Zenon
    <3> QED
      BY <3>2 DEF LinkLevel
  <2>3. OrphansOK(F[d + 1].orphans)
        /\ F[d + 1].orphans.index = {p \in F[d].orphans.index : p[1] \notin F[d].level}
    BY <1>5, <2>2, OrphansProcess
  <2>4. ASSUME NEW p \in F[d + 1].orphans.index PROVE p[1] \notin outputs[x]
    BY <1>5, <2>3
  <2> QED
    BY <2>1, <2>3, <2>4
<1> HIDE DEF G
<1>6. n \in G
  BY <1>4, <1>5, UpTo
<1> QED
  BY <1>1, <1>6 DEF G

(* Every step keeps the orphan pool in order. *)
LEMMA OrphansSteps ==
  ASSUME TypeInv, [PoolNext]_vars
  PROVE  OrphansOK(orphans')
<1> USE DEF TypeInv
<1>1. ASSUME NEW t \in Threads, Validate(t) PROVE OrphansOK(orphans')
  <2>1. Top(t).tx \in Tx
    BY <1>1, StackMoves DEF Validate, At, Frames
  <2>2. CASE Missing(Top(t).tx) = {}
    BY <1>1, <2>2 DEF Validate
  <2>3. CASE Missing(Top(t).tx) # {}
    <3>1. Top(t).tx \in Spending
      BY <2>1, <2>3 DEF Spending, Missing
    <3>2. PICK entry : orphans' \in AddOrphan(orphans, Top(t).tx, entry, MAX_ORPHANS)
      BY <1>1, <2>3 DEF Validate
    <3> QED
      BY <3>1, <3>2, OrphansAdd
  <2> QED
    BY <2>2, <2>3
<1>2. ASSUME NEW t \in Threads, Link(t) PROVE OrphansOK(orphans')
  <2>1. orphans' = LinkOrphanChain(orphans, Top(t).tx, Outputs, MAX_CHAIN_DEPTH)
    BY <1>2 DEF Link
  <2>2. MAX_CHAIN_DEPTH \in Nat \ {0}
    BY NodePoolAssumption
  <2>3. OrphansOK(LinkOrphanChain(orphans, Top(t).tx, Outputs, MAX_CHAIN_DEPTH))
    BY <2>2, OrphansLink
  <2> QED
    BY <2>1, <2>3
<1>3. ASSUME NEW t \in Threads, Adopt(t) PROVE OrphansOK(orphans')
  <2>1. orphans' = orphans \/ \E op : orphans' = ProcessOrphans(orphans, {op})
    BY <1>3 DEF Adopt
  <2>2. \A op : OrphansOK(ProcessOrphans(orphans, {op}))
    BY OrphansProcess
  <2> QED
    BY <2>1, <2>2
<1>4. ASSUME NEW t \in Threads,
             Call(t) \/ Admit(t) \/ MakeSpace(t) \/ Register(t) \/ Resolve(t) \/ Replace(t)
                \/ Enter(t) \/ Track(t) \/ Offer(t) \/ Insert(t)
      PROVE  orphans' = orphans
  BY <1>4 DEF Call, Admit, MakeSpace, Register, Resolve, Replace, Enter, Track, Offer, Insert
<1>5. ASSUME NEW x \in Tx, RemoveTx(x) \/ BlockStored(x) \/ \E s \in Statuses : SetStatus(x, s)
      PROVE orphans' = orphans
  BY <1>5 DEF RemoveTx, BlockStored, SetStatus
<1>6. ASSUME CleanupOrphans PROVE OrphansOK(orphans')
  <2>1. orphans' = CleanupExpiredOrphans(orphans, now)
    BY <1>6 DEF CleanupOrphans
  <2> QED
    BY <2>1, OrphansRemove DEF CleanupExpiredOrphans
<1>7. ASSUME CleanupExpired \/ Reconcile \/ Clear \/ Tick \/ UNCHANGED vars
      PROVE  orphans' = orphans
  BY <1>7 DEF CleanupExpired, Reconcile, Clear, Tick, vars
<1> QED
  BY <1>1, <1>2, <1>3, <1>4, <1>5, <1>6, <1>7 DEF PoolNext, Step

----------------------------------------------------------------------------
(* The types of the other structures. *)

(* Every step keeps the types of the conflict graph. *)
LEMMA GraphTypedStep ==
  ASSUME TypeInv, [PoolNext]_vars
  PROVE  GraphTyped(graph')
<1> USE DEF TypeInv
<1>1. ASSUME NEW t \in Threads, Register(t) PROVE GraphTyped(graph')
  <2> DEFINE x == Top(t).tx
             node == [rate |-> Top(t).rate, time |-> now]
  <2>1. graph' = RegisterTransaction(graph, x, KeysOf(Spends[x]), node)
    BY <1>1 DEF Register
  <2>2. x \in Tx /\ node \in [rate : Nat, time : Nat]
    BY <1>1, StackMoves DEF Register, At, Frames, ClockOK
  <2> HIDE DEF x, node
  <2>3. /\ graph'.nodes = With(graph.nodes, x, node)
        /\ graph'.claims = graph.claims \cup (KeysOf(Spends[x]) \X {x})
    BY <2>1 DEF RegisterTransaction
  <2> QED
    BY <2>2, <2>3 DEF GraphTyped, With
<1>2. ASSUME NEW x, graph' = RemoveTransactionCascade(graph, x) PROVE GraphTyped(graph')
  BY <1>2 DEF GraphTyped, RemoveTransactionCascade, Without
<1>3. ASSUME NEW t \in Threads, Replace(t) PROVE GraphTyped(graph')
  <2>1. graph' = graph \/ \E x : graph' = RemoveTransactionCascade(graph, x)
    BY <1>3 DEF Replace
  <2> QED
    BY <2>1, <1>2
<1>4. ASSUME NEW t \in Threads, Call(t) \/ Admit(t) \/ MakeSpace(t) \/ Resolve(t)
      PROVE  graph' = graph
  BY <1>4 DEF Call, Admit, MakeSpace, Resolve
<1>5. ASSUME NEW t \in Threads,
             Validate(t) \/ Enter(t) \/ Track(t) \/ Link(t) \/ Adopt(t) \/ Offer(t) \/ Insert(t)
      PROVE  graph' = graph
  BY <1>5 DEF Validate, Enter, Track, Link, Adopt, Offer, Insert
<1>6. ASSUME NEW x \in Tx, RemoveTx(x) \/ BlockStored(x) \/ \E s \in Statuses : SetStatus(x, s)
      PROVE  graph' = graph
  BY <1>6 DEF RemoveTx, BlockStored, SetStatus
<1>7. ASSUME CleanupExpired \/ CleanupOrphans \/ Reconcile \/ Clear \/ Tick \/ UNCHANGED vars
      PROVE  graph' = graph
  BY <1>7 DEF CleanupExpired, CleanupOrphans, Reconcile, Clear, Tick, vars
<1> QED
  BY <1>1, <1>3, <1>4, <1>5, <1>6, <1>7 DEF PoolNext, Step

(* The pool is cut down, gets the transaction of an insertion, or a new    *)
(* status.                                                                 *)
LEMMA PoolSteps ==
  ASSUME [PoolNext]_vars
  PROVE  \/ pool' = pool \/ (\E S : pool' = Without(pool, S)) \/ pool' = <<>>
         \/ \E t \in Threads : /\ At(t, "insert")
                               /\ pool' = With(pool, Top(t).tx, [rate |-> Top(t).rate, time |-> now,
                                                                 status |-> "Pending"])
         \/ \E x \in Tx, s \in Statuses : pool' = [pool EXCEPT ![x].status = s]
<1>0. ASSUME NEW S, RemoveAll(S) PROVE pool' = Without(pool, S)
  BY <1>0 DEF RemoveAll
<1>1. ASSUME NEW t \in Threads, MakeSpace(t) \/ Replace(t)
      PROVE  pool' = pool \/ \E S : pool' = Without(pool, S)
  BY <1>1, <1>0 DEF MakeSpace, Replace, Unpool
<1>2. ASSUME NEW t \in Threads, Insert(t)
      PROVE  At(t, "insert") /\ pool' = With(pool, Top(t).tx, [rate |-> Top(t).rate, time |-> now,
                                                               status |-> "Pending"])
  BY <1>2 DEF Insert
<1>3. ASSUME NEW t \in Threads,
             Call(t) \/ Admit(t) \/ Register(t) \/ Resolve(t) \/ Validate(t) \/ Enter(t)
                \/ Track(t) \/ Link(t) \/ Adopt(t) \/ Offer(t)
      PROVE  pool' = pool
  BY <1>3 DEF Call, Admit, Register, Resolve, Validate, Enter, Track, Link, Adopt, Offer
<1>4. ASSUME NEW x \in Tx, RemoveTx(x) PROVE pool' = Without(pool, {x})
  BY <1>4, <1>0 DEF RemoveTx
<1>5. ASSUME NEW x \in Tx, BlockStored(x) PROVE pool' = pool
  BY <1>5 DEF BlockStored
<1>6. ASSUME NEW x \in Tx, NEW s \in Statuses, SetStatus(x, s)
      PROVE  pool' = [pool EXCEPT ![x].status = s]
  BY <1>6 DEF SetStatus
<1>7. ASSUME CleanupExpired \/ Reconcile PROVE \E S : pool' = Without(pool, S)
  BY <1>7, <1>0 DEF CleanupExpired, Reconcile
<1>8. ASSUME Clear PROVE pool' = <<>>
  BY <1>8 DEF Clear
<1>9. ASSUME CleanupOrphans \/ Tick \/ UNCHANGED vars PROVE pool' = pool
  BY <1>9 DEF CleanupOrphans, Tick, vars
<1>10. ASSUME NEW t \in Threads, Step(t)
       PROVE  \/ pool' = pool \/ (\E S : pool' = Without(pool, S))
              \/ /\ At(t, "insert")
                 /\ pool' = With(pool, Top(t).tx, [rate |-> Top(t).rate, time |-> now,
                                                   status |-> "Pending"])
  BY <1>1, <1>2, <1>3, <1>10 DEF Step
<1> QED
  BY <1>3, <1>4, <1>5, <1>6, <1>7, <1>8, <1>9, <1>10 DEF PoolNext

(* Every step keeps the types of the pool and its indices. *)
LEMMA PoolTypedStep ==
  ASSUME TypeInv, [PoolNext]_vars
  PROVE  PoolTyped'
<1> USE DEF TypeInv
<1>1. CASE pool' = pool \/ \E S : pool' = Without(pool, S)
  BY <1>1 DEF PoolTyped, Without
<1>2. CASE pool' = <<>>
  <2>1. DOMAIN pool' = {}
    BY <1>2
  <2> QED
    BY <2>1 DEF PoolTyped
<1>3. ASSUME NEW t \in Threads, At(t, "insert"),
             pool' = With(pool, Top(t).tx, [rate |-> Top(t).rate, time |-> now, status |-> "Pending"])
      PROVE  PoolTyped'
  <2>1. Top(t).tx \in Tx /\ Top(t).rate \in Nat /\ now \in Nat
    BY <1>3, StackMoves DEF At, Frames, ClockOK
  <2>2. [rate |-> Top(t).rate, time |-> now, status |-> "Pending"]
            \in [rate : Nat, time : Nat, status : Statuses]
    BY <2>1 DEF Statuses
  <2> QED
    BY <1>3, <2>1, <2>2 DEF PoolTyped, With
<1>4. ASSUME NEW x \in Tx, NEW s \in Statuses, pool' = [pool EXCEPT ![x].status = s]
      PROVE  PoolTyped'
  <2>1. DOMAIN pool' = DOMAIN pool
    BY <1>4
  <2>2. ASSUME NEW y \in DOMAIN pool
        PROVE  pool'[y] \in [rate : Nat, time : Nat, status : Statuses]
    <3>1. pool[y] \in [rate : Nat, time : Nat, status : Statuses]
      BY DEF PoolTyped
    <3>2. pool'[y] = IF y = x THEN [pool[y] EXCEPT !.status = s] ELSE pool[y]
      BY <1>4
    <3> QED
      BY <3>1, <3>2
  <2> QED
    BY <2>1, <2>2 DEF PoolTyped
<1> QED
  BY <1>1, <1>2, <1>3, <1>4, PoolSteps

(* The buckets of the deterministic ordering. *)
LEMMA OrderingStep ==
  ASSUME TypeInv, [PoolNext]_vars
  PROVE  OrderingOK'
<1> USE DEF TypeInv
<1>0. ASSUME NEW S, RemoveAll(S) PROVE OrderingOK'
  <2>1. /\ ordering'.entries = [x \in Tx |-> IF x \in S \cap ordering.indexed
                                             THEN ordering.entries[x] - 1 ELSE ordering.entries[x]]
        /\ ordering'.indexed = ordering.indexed \ S
    BY <1>0 DEF RemoveAll
  <2>2. \A n \in Nat : n >= 1 => n - 1 \in Nat
    OBVIOUS
  <2> QED
    BY <2>1, <2>2 DEF OrderingOK
<1>1. ASSUME NEW t \in Threads, Replace(t) PROVE OrderingOK'
  <2>1. ordering' = ordering \/ \E c : Unpool(c)
    BY <1>1 DEF Replace, parts
  <2>2. CASE ordering' = ordering
    BY <2>2 DEF OrderingOK
  <2> QED
    BY <2>1, <2>2, <1>0 DEF Unpool
<1>2. ASSUME NEW t \in Threads, Track(t) PROVE OrderingOK'
  <2> DEFINE x == Top(t).tx
  <2>1. x \in Tx
    BY <1>2, StackMoves DEF Track, At, Frames
  <2>2. /\ ordering'.entries = [ordering.entries EXCEPT ![x] = @ + 1]
        /\ ordering'.indexed = ordering.indexed \cup {x}
    BY <1>2 DEF Track
  <2> HIDE DEF x
  <2> QED
    BY <2>1, <2>2 DEF OrderingOK
<1>3. ASSUME NEW t \in Threads,
             Call(t) \/ Admit(t) \/ MakeSpace(t) \/ Register(t) \/ Resolve(t) \/ Validate(t)
                \/ Enter(t) \/ Link(t) \/ Adopt(t) \/ Offer(t) \/ Insert(t)
      PROVE  ordering' = ordering
  BY <1>3 DEF Call, Admit, MakeSpace, Register, Resolve, Validate, Enter, Link, Adopt, Offer, Insert,
              parts
<1>4. ASSUME NEW x \in Tx, RemoveTx(x) PROVE OrderingOK'
  BY <1>4, <1>0 DEF RemoveTx
<1>5. ASSUME Reconcile PROVE OrderingOK'
  BY <1>5, <1>0 DEF Reconcile
<1>6. ASSUME Clear PROVE OrderingOK'
  BY <1>6 DEF Clear, OrderingOK
<1>7. ASSUME NEW x \in Tx, BlockStored(x) \/ \E s \in Statuses : SetStatus(x, s)
      PROVE  ordering' = ordering
  BY <1>7 DEF BlockStored, SetStatus, parts
<1>8. ASSUME CleanupExpired \/ CleanupOrphans \/ Tick \/ UNCHANGED vars
      PROVE  ordering' = ordering
  BY <1>8 DEF CleanupExpired, CleanupOrphans, Tick, vars, parts
<1>9. ASSUME ordering' = ordering PROVE OrderingOK'
  BY <1>9 DEF OrderingOK
<1> QED
  BY <1>1, <1>2, <1>3, <1>4, <1>5, <1>6, <1>7, <1>8, <1>9 DEF PoolNext, Step

(* update_threshold never goes below the base fee. *)
LEMMA DivNat == \A a \in Nat : \A b \in Nat \ {0} : a \div b \in Nat
  OBVIOUS

(* Going half of the way down does not go below the end. *)
LEMMA Halfway ==
  ASSUME NEW a \in Nat, NEW b \in Nat, b <= a
  PROVE  a - ((a - b) \div 2) \in Nat /\ a - ((a - b) \div 2) >= b
  OBVIOUS

(* The dynamic fee never falls below the minimum relay fee. *)
LEMMA ThresholdKept ==
  ASSUME NEW fee \in Nat, fee >= MIN_FEE_RATE, NEW n \in Nat, NEW due \in BOOLEAN
  PROVE  UpdateThreshold(fee, n, due) \in Nat /\ UpdateThreshold(fee, n, due) >= MIN_FEE_RATE
<1> DEFINE p == MIN_FEE_RATE * n * FEE_BUMP_PERCENT
           m == MAX_POOL_SIZE * 100
           bump == (p + m - 1) \div m
<1>1. MIN_FEE_RATE \in Nat /\ FEE_BUMP_PERCENT \in Nat /\ MAX_POOL_SIZE \in Nat \ {0}
  BY NodePoolAssumption
<1>2. m \in Nat \ {0}
  BY <1>1
<1>3. p \in Nat
  <2>1. \A a, b \in Nat : a * b \in Nat
    OBVIOUS
  <2> QED
    BY <1>1, <2>1
<1> HIDE DEF p, m
<1>4. p + m - 1 \in Nat
  BY <1>2, <1>3
<1>5. bump \in Nat
  BY <1>2, <1>4, DivNat
<1> HIDE DEF bump
<1>6. UpdateThreshold(fee, n, due) =
        IF ~due THEN fee
        ELSE IF 4 * n > 3 * MAX_POOL_SIZE THEN MIN_FEE_RATE + bump
        ELSE IF 4 * n < MAX_POOL_SIZE THEN fee - ((fee - MIN_FEE_RATE) \div 2)
        ELSE fee
  BY Zenon DEF UpdateThreshold, p, m, bump
<1>7. MIN_FEE_RATE + bump \in Nat /\ MIN_FEE_RATE + bump >= MIN_FEE_RATE
  BY <1>1, <1>5
<1>8. LET h == fee - ((fee - MIN_FEE_RATE) \div 2) IN h \in Nat /\ h >= MIN_FEE_RATE
  BY <1>1, Halfway
<1> QED
  BY <1>6, <1>7, <1>8

(* The pool is finite. *)
LEMMA PoolFinite ==
  ASSUME PoolTyped
  PROVE  IsFiniteSet(DOMAIN pool) /\ Cardinality(DOMAIN pool) \in Nat
  BY NodePoolAssumption, FS_Subset, FS_CardinalityType DEF PoolTyped

(* Every step keeps the types of clock, fee and counters. *)
LEMMA ClockStep ==
  ASSUME TypeInv, [PoolNext]_vars
  PROVE  ClockOK'
<1> USE DEF TypeInv
<1>1. ASSUME NEW t \in Threads, Admit(t) PROVE ClockOK'
  <2>1. PICK due \in BOOLEAN :
          minFee' = UpdateThreshold(minFee, Cardinality(DOMAIN pool), due) \/ minFee' = minFee
    BY <1>1 DEF Admit
  <2>2. now' = now
    BY <1>1 DEF Admit, env
  <2>3. /\ UpdateThreshold(minFee, Cardinality(DOMAIN pool), due) \in Nat
        /\ UpdateThreshold(minFee, Cardinality(DOMAIN pool), due) >= MIN_FEE_RATE
    BY PoolFinite, ThresholdKept DEF ClockOK
  <2> QED
    BY <2>1, <2>2, <2>3 DEF ClockOK
<1>2. ASSUME NEW t \in Threads,
             Call(t) \/ MakeSpace(t) \/ Register(t) \/ Resolve(t) \/ Replace(t) \/ Validate(t)
                \/ Enter(t) \/ Track(t) \/ Link(t) \/ Adopt(t) \/ Offer(t) \/ Insert(t)
      PROVE  UNCHANGED <<now, minFee>>
  BY <1>2 DEF Call, MakeSpace, Register, Resolve, Replace, Validate, Enter, Track, Link, Adopt, Offer,
              Insert, env
<1>3. ASSUME NEW x \in Tx, RemoveTx(x) \/ BlockStored(x) \/ \E s \in Statuses : SetStatus(x, s)
      PROVE  UNCHANGED <<now, minFee>>
  BY <1>3 DEF RemoveTx, BlockStored, SetStatus
<1>4. ASSUME CleanupExpired \/ CleanupOrphans \/ Reconcile \/ Clear \/ UNCHANGED vars
      PROVE  UNCHANGED <<now, minFee>>
  BY <1>4 DEF CleanupExpired, CleanupOrphans, Reconcile, Clear, vars, env
<1>5. ASSUME Tick PROVE ClockOK'
  BY <1>5 DEF Tick, ClockOK
<1>6. ASSUME UNCHANGED <<now, minFee>> PROVE ClockOK'
  BY <1>6 DEF ClockOK
<1> QED
  BY <1>1, <1>2, <1>3, <1>4, <1>5, <1>6 DEF PoolNext, Step

(* The types hold at the start. *)
LEMMA TypeInit == PoolInit => TypeInv
<1> SUFFICES ASSUME PoolInit PROVE TypeInv
  OBVIOUS
<1>1. StackTyped
  <2>1. stack = [t \in Threads |-> <<>>] /\ <<>> \in Seq(Frames)
    BY DEF PoolInit
  <2> QED
    BY <2>1 DEF StackTyped
<1>2. PoolTyped
  <2>1. DOMAIN pool = {}
    BY DEF PoolInit
  <2> QED
    BY <2>1 DEF PoolTyped
<1>3. GraphTyped(graph)
  <2>1. DOMAIN NewGraph.nodes = {} /\ NewGraph.claims = {} /\ graph = NewGraph
    BY DEF PoolInit, NewGraph
  <2> QED
    BY <2>1 DEF GraphTyped
<1>4. LimiterOK(limiter) /\ OrphansOK(orphans)
  BY LimiterNew, OrphansNew DEF PoolInit
<1>5. OrderingOK
  BY DEF PoolInit, OrderingOK
<1>6. ClockOK
  BY NodePoolAssumption DEF PoolInit, ClockOK
<1> QED
  BY <1>1, <1>2, <1>3, <1>4, <1>5, <1>6 DEF TypeInv

(* Every step keeps the types. *)
LEMMA TypeStep == TypeInv /\ [PoolNext]_vars => TypeInv'
<1> SUFFICES ASSUME TypeInv, [PoolNext]_vars PROVE TypeInv'
  OBVIOUS
<1>1. LimiterOK(limiter)' /\ OrphansOK(orphans)' /\ GraphTyped(graph)'
  <2>1. LimiterOK(limiter') /\ OrphansOK(orphans') /\ GraphTyped(graph')
    BY LimiterSteps, OrphansSteps, GraphTypedStep
  <2> QED
    BY <2>1 DEF LimiterOK, OrphansOK, GraphTyped
<1> QED
  BY <1>1, StackStep, PoolTypedStep, OrderingStep, ClockStep DEF TypeInv

----------------------------------------------------------------------------
(* Block candidates. *)

(* The canonical order lists every node once. *)
LEMMA OrderFacts ==
  ASSUME NEW g, GraphTyped(g), NEW n \in Nat
  PROVE  /\ CanonicalOrder(g, n) \in Seq(DOMAIN g.nodes)
         /\ \A i, j \in 1 .. Len(CanonicalOrder(g, n)) :
                i # j => CanonicalOrder(g, n)[i] # CanonicalOrder(g, n)[j]
<1> DEFINE D == DOMAIN g.nodes
           score == [x \in D |-> PriorityScore(g.nodes[x], n)]
           R == {p \in D \X D : Precedes(g, n, p[1], p[2])}
<1>1. IsFiniteSet(D) /\ D \subseteq Nat
  BY NodePoolAssumption, FS_Subset DEF GraphTyped
<1>2. \A x \in D : score[x] \in Int
  BY DEF GraphTyped, PriorityScore
<1>3. \A x, y \in D : <<x, y>> \in R <=> score[x] < score[y] \/ (score[x] = score[y] /\ x < y)
  BY DEF Precedes
<1> HIDE DEF score, R, D
<1>4. ASSUME NEW x \in D, NEW y \in D, x # y PROVE <<x, y>> \in R \/ <<y, x>> \in R
  <2>1. x \in Nat /\ y \in Nat /\ score[x] \in Int /\ score[y] \in Int
    BY <1>1, <1>2
  <2>2. \/ score[x] < score[y] \/ score[y] < score[x]
        \/ score[x] = score[y] /\ (x < y \/ y < x)
    BY <1>4, <2>1
  <2> QED
    BY <1>3, <2>2
<1>5. ASSUME NEW x \in D, NEW y \in D, NEW z \in D, <<x, y>> \in R, <<y, z>> \in R
      PROVE  <<x, z>> \in R
  <2>1. x \in Nat /\ y \in Nat /\ z \in Nat /\ score[x] \in Int /\ score[y] \in Int /\ score[z] \in Int
    BY <1>1, <1>2
  <2>2. /\ score[x] < score[y] \/ (score[x] = score[y] /\ x < y)
        /\ score[y] < score[z] \/ (score[y] = score[z] /\ y < z)
    BY <1>3, <1>5
  <2>3. score[x] < score[z] \/ (score[x] = score[z] /\ x < z)
    BY <2>1, <2>2
  <2> QED
    BY <1>3, <2>3
<1>6. Ordered(D, R)
  BY <1>4, <1>5 DEF Ordered
<1>7. PICK q \in SetToSeqs(D) : InOrder(q, R)
  BY <1>1, <1>6, SortedExists
<1>8. \A i, j \in DOMAIN q : i < j => Precedes(g, n, q[i], q[j])
  <2>1. \A i, j \in DOMAIN q : i < j => <<q[i], q[j]>> \in R
    BY <1>7 DEF InOrder
  <2> QED
    BY <2>1 DEF R
<1>9. CanonicalOrder(g, n) \in SetToSeqs(D)
  BY <1>7, <1>8, Zenon DEF CanonicalOrder, D
<1> DEFINE c == CanonicalOrder(g, n)
<1> HIDE DEF c
<1>10. Cardinality(D) \in Nat
  BY <1>1, FS_CardinalityType
<1>11. /\ c \in [1 .. Cardinality(D) -> D]
       /\ \A i, j \in 1 .. Cardinality(D) : i # j => c[i] # c[j]
  BY <1>9 DEF SetToSeqs, c
<1>12. c \in Seq(D) /\ Len(c) = Cardinality(D)
  BY <1>10, <1>11
<1> QED
  BY <1>11, <1>12 DEF c, D

(* The steps of build_block_canonical along the order q. *)
IsSelection(f, g, q, size, max, n) ==
    f = [i \in 0 .. n |-> IF i = 0 THEN [txs |-> <<>>, weight |-> 0]
                          ELSE SelectNext(g, f[i - 1], q[i], size[q[i]], max)]

(* The states of the selection loop exist, for any number of turns. *)
LEMMA SelectionExists ==
  ASSUME NEW n \in Nat, NEW g, NEW q, NEW size, NEW max
  PROVE  \E f : IsSelection(f, g, q, size, max, n)
<1> DEFINE Next(s, i) == SelectNext(g, s, q[i], size[q[i]], max)
           G == {i \in Nat : \E f : IsSelection(f, g, q, size, max, i)}
<1>1. 0 \in G
  <2> DEFINE f == [d \in 0 .. 0 |-> [txs |-> <<>>, weight |-> 0]]
  <2>1. IsSelection(f, g, q, size, max, 0)
    BY DEF IsSelection
  <2> QED
    BY <2>1
<1>2. ASSUME NEW i \in 0 .. n - 1, i \in G PROVE i + 1 \in G
  <2>1. PICK f : IsSelection(f, g, q, size, max, i)
    BY <1>2
  <2> DEFINE k == [d \in 0 .. i + 1 |-> IF d = i + 1 THEN Next(f[i], i + 1) ELSE f[d]]
             h == [d \in 0 .. i + 1 |-> IF d = 0 THEN [txs |-> <<>>, weight |-> 0]
                                        ELSE Next(k[d - 1], d)]
  <2>2. ASSUME NEW d \in 0 .. i + 1 PROVE k[d] = h[d]
    <3>1. CASE d = 0
      BY <2>1, <3>1 DEF IsSelection
    <3>2. CASE d = i + 1
      <4>1. d # 0 /\ d - 1 = i /\ k[i] = f[i]
        BY <3>2
      <4> QED
        BY <4>1, <3>2
    <3>3. CASE d # 0 /\ d # i + 1
      <4>1. d \in 0 .. i /\ d - 1 \in 0 .. i /\ d - 1 # i + 1 /\ d - 1 \in 0 .. i + 1
        BY <3>3
      <4>2. k[d] = f[d] /\ k[d - 1] = f[d - 1]
        BY <4>1, <3>3
      <4>3. f[d] = Next(f[d - 1], d)
        BY <2>1, <4>1, <3>3 DEF IsSelection
      <4>4. h[d] = Next(k[d - 1], d)
        BY <3>3
      <4> QED
        BY <4>2, <4>3, <4>4
    <3> QED
      BY <3>1, <3>2, <3>3
  <2>3. k = h
    BY <2>2
  <2>4. IsSelection(k, g, q, size, max, i + 1)
    BY <2>3 DEF IsSelection
  <2> QED
    BY <2>4
<1> HIDE DEF G
<1>3. \A i \in 0 .. n : i \in G
  BY <1>1, <1>2, UpTo
<1> QED
  BY <1>3 DEF G

(* The transactions of s come from the first i of q, each once, and none   *)
(* has an earlier one in its list of conflicts.                            *)
Selected(g, q, s, i) ==
    /\ s \in Seq(DOMAIN g.nodes)
    /\ \A k \in DOMAIN s : \E j \in 1 .. i : s[k] = q[j]
    /\ \A k, l \in DOMAIN s : k < l => s[k] # s[l] /\ <<s[l], s[k]>> \notin g.conflicts

(* A turn of the selection adds no rival of what was selected. *)
LEMMA SelectedStep ==
  ASSUME NEW g, NEW q \in Seq(DOMAIN g.nodes),
         \A i, j \in 1 .. Len(q) : i # j => q[i] # q[j],
         NEW i \in 0 .. Len(q) - 1, NEW s, Selected(g, q, s.txs, i), NEW w, NEW max
  PROVE  Selected(g, q, SelectNext(g, s, q[i + 1], w, max).txs, i + 1)
<1> DEFINE D == DOMAIN g.nodes
           x == q[i + 1]
           t == s.txs
<1>0. Len(q) \in Nat /\ i \in Nat /\ i + 1 \in 1 .. Len(q)
  OBVIOUS
<1>1. x \in D /\ t \in Seq(D)
  BY <1>0 DEF Selected
<1>2. CASE SelectNext(g, s, x, w, max).txs = t
  <2>1. \A j \in 1 .. i : j \in 1 .. i + 1
    BY <1>0
  <2> QED
    BY <1>2, <2>1 DEF Selected
<1>3. CASE MayJoin(g, t, x) /\ SelectNext(g, s, x, w, max).txs = Append(t, x)
  <2> DEFINE u == Append(t, x)
  <2> HIDE DEF D, x
  <2>1. /\ u \in Seq(D) /\ Len(u) = Len(t) + 1 /\ Len(t) \in Nat
        /\ u[Len(t) + 1] = x /\ \A k \in 1 .. Len(t) : u[k] = t[k]
    BY <1>1
  <2>2. DOMAIN u = 1 .. Len(t) + 1 /\ DOMAIN t = 1 .. Len(t)
    BY <1>1, <2>1
  <2> HIDE DEF u
  <2>3. ASSUME NEW k \in DOMAIN t PROVE t[k] # x /\ <<x, t[k]>> \notin g.conflicts
    <3>1. PICK j \in 1 .. i : t[k] = q[j]
      BY DEF Selected
    <3>2. j \in 1 .. Len(q) /\ j # i + 1
      BY <1>0
    <3>3. t[k] # x
      BY <1>0, <3>1, <3>2 DEF x
    <3>4. t[k] \in ToSet(t)
      BY DEF ToSet
    <3> QED
      BY <1>3, <3>3, <3>4 DEF MayJoin
  <2>4. ASSUME NEW k \in DOMAIN u PROVE \E j \in 1 .. i + 1 : u[k] = q[j]
    <3>1. CASE k = Len(t) + 1
      BY <1>0, <2>1, <3>1 DEF x
    <3>2. CASE k # Len(t) + 1
      <4>1. k \in DOMAIN t /\ u[k] = t[k]
        BY <2>1, <2>2, <3>2
      <4>2. PICK j \in 1 .. i : t[k] = q[j]
        BY <4>1 DEF Selected
      <4>3. j \in 1 .. i + 1
        BY <1>0
      <4> QED
        BY <4>1, <4>2, <4>3
    <3> QED
      BY <3>1, <3>2
  <2>5. ASSUME NEW k \in DOMAIN u, NEW l \in DOMAIN u, k < l
        PROVE  u[k] # u[l] /\ <<u[l], u[k]>> \notin g.conflicts
    <3>1. k \in DOMAIN t /\ u[k] = t[k]
      BY <2>1, <2>2, <2>5
    <3>2. CASE l = Len(t) + 1
      BY <2>1, <2>3, <3>1, <3>2
    <3>3. CASE l # Len(t) + 1
      <4>1. l \in DOMAIN t /\ u[l] = t[l]
        BY <2>1, <2>2, <3>3
      <4> QED
        BY <2>5, <3>1, <4>1 DEF Selected
    <3> QED
      BY <3>2, <3>3
  <2>6. Selected(g, q, u, i + 1)
    BY <2>1, <2>4, <2>5 DEF Selected, D
  <2> QED
    BY <1>3, <2>6 DEF u, x
<1> QED
  BY <1>2, <1>3 DEF SelectNext

(* A block candidate is what the loop has selected from some order of the  *)
(* nodes.                                                                  *)
LEMMA BlockSelected ==
  ASSUME NEW g, GraphTyped(g), NEW n \in Nat, NEW size, NEW max
  PROVE  \E q, i : Selected(g, q, BuildBlockCanonical(g, n, size, max), i)
<1> DEFINE q == CanonicalOrder(g, n)
           N == Len(q)
           F == CHOOSE f : IsSelection(f, g, q, size, max, N)
<1>1. BuildBlockCanonical(g, n, size, max) = F[N].txs
  BY Zenon DEF BuildBlockCanonical, IsSelection
<1>2. q \in Seq(DOMAIN g.nodes) /\ \A i, j \in 1 .. Len(q) : i # j => q[i] # q[j]
  BY OrderFacts
<1> HIDE DEF q
<1>3. N \in Nat
  BY <1>2
<1>4. IsSelection(F, g, q, size, max, N)
  BY <1>3, SelectionExists
<1> HIDE DEF F
<1>5. /\ F[0] = [txs |-> <<>>, weight |-> 0]
      /\ \A d \in 0 .. N : d # 0 => F[d] = SelectNext(g, F[d - 1], q[d], size[q[d]], max)
  BY <1>3, <1>4 DEF IsSelection
<1> DEFINE G == {d \in 0 .. N : Selected(g, q, F[d].txs, d)}
<1>6. 0 \in G
  <2>1. F[0].txs = <<>> /\ <<>> \in Seq(DOMAIN g.nodes) /\ DOMAIN <<>> = {}
    BY <1>5
  <2>2. Selected(g, q, <<>>, 0)
    BY <2>1 DEF Selected
  <2> QED
    BY <1>3, <2>1, <2>2
<1>7. ASSUME NEW d \in 0 .. N - 1, d \in G PROVE d + 1 \in G
  <2>1. d + 1 \in 0 .. N /\ d + 1 # 0 /\ (d + 1) - 1 = d
    BY <1>3
  <2>2. F[d + 1] = SelectNext(g, F[(d + 1) - 1], q[d + 1], size[q[d + 1]], max)
    BY <2>1, <1>5, Zenon
  <2>3. F[d + 1] = SelectNext(g, F[d], q[d + 1], size[q[d + 1]], max)
    BY <2>1, <2>2, Zenon
  <2>4. Selected(g, q, F[d].txs, d)
    BY <1>7
  <2>5. Selected(g, q, F[d + 1].txs, d + 1)
    BY <1>2, <2>3, <2>4, SelectedStep
  <2> QED
    BY <2>1, <2>5
<1> HIDE DEF G, N
<1>8. N \in G
  <2>1. \A d \in 0 .. N : d \in G
    BY <1>3, <1>6, <1>7, UpTo
  <2> QED
    BY <1>3, <2>1
<1>9. Selected(g, q, F[N].txs, N)
  BY <1>8 DEF G
<1> QED
  BY <1>1, <1>9, Zenon

(* No two transactions of a canonical block spend the same output, because *)
(* the lists of conflicts are complete.                                    *)
LEMMA BlocksConflictFree ==
  ASSUME TypeInv, GraphInv
  PROVE  CandidateConflictFree
<1>1. GraphTyped(graph) /\ now \in Nat /\ Complete(graph)
  BY DEF TypeInv, ClockOK, GraphInv
<1>2. PICK q, n : Selected(graph, q, Block, n)
  BY <1>1, BlockSelected DEF Block
<1> SUFFICES ASSUME NEW i \in DOMAIN Block, NEW j \in DOMAIN Block, i # j
             PROVE  Spends[Block[i]] \cap Spends[Block[j]] = {}
  BY DEF CandidateConflictFree
<1> DEFINE b == Block
<1>3. /\ b \in Seq(DOMAIN graph.nodes)
      /\ \A k, l \in DOMAIN b : k < l => b[k] # b[l] /\ <<b[l], b[k]>> \notin graph.conflicts
  BY <1>2 DEF Selected
<1> HIDE DEF b
<1>4. ASSUME NEW k \in DOMAIN b, NEW l \in DOMAIN b, k < l PROVE Spends[b[k]] \cap Spends[b[l]] = {}
  <2>1. b[l] # b[k] /\ <<b[l], b[k]>> \notin graph.conflicts
        /\ b[l] \in DOMAIN graph.nodes /\ b[k] \in DOMAIN graph.nodes
    BY <1>3, <1>4
  <2>2. KeysOf(Spends[b[l]]) \cap KeysOf(Spends[b[k]]) = {}
    BY <1>1, <2>1 DEF Complete
  <2>3. ASSUME NEW op \in Spends[b[k]], op \in Spends[b[l]] PROVE FALSE
    BY <2>2, <2>3 DEF KeysOf
  <2> QED
    BY <2>3
<1>5. i < j \/ j < i
  <2>1. i \in Nat /\ j \in Nat
    BY <1>3 DEF b
  <2> QED
    BY <2>1
<1> QED
  BY <1>4, <1>5 DEF b

----------------------------------------------------------------------------
(* Operations that do not overlap. *)

(* The thread in a call is the only one, and its frame the only frame. *)
LEMMA SoleCall ==
  ASSUME TypeInv, SerialInv, alone, NEW t \in Threads, stack[t] # <<>>
  PROVE  /\ OneCall(t) /\ Top(t) \in Frames /\ FrameFacts(Top(t))
         /\ Bounded /\ NoConflict /\ AllIndexed
<1>1. Bounded /\ NoConflict /\ AllIndexed /\ Calls
  BY DEF SerialInv, Calm
<1>2. PICK u \in Threads : OneCall(u) /\ FrameFacts(stack[u][1])
  BY <1>1 DEF Calls, Idle
<1>3. u = t
  BY <1>2 DEF OneCall
<1>4. stack[t] \in Seq(Frames) /\ Len(stack[t]) = 1
  BY <1>2, <1>3 DEF TypeInv, StackTyped, OneCall
<1>5. Top(t) = stack[t][1]
  BY <1>4, SingleFacts DEF Top
<1>6. Top(t) \in Frames
  BY StackMoves DEF TypeInv
<1> QED
  BY <1>1, <1>2, <1>3, <1>5, <1>6

(* When the only call returns, no call is under way. *)
LEMMA CallEnds ==
  ASSUME StackTyped, NEW t \in Threads, OneCall(t), Return(t)
  PROVE  Calls'
<1>1. stack[t] \in Seq(Frames) /\ Len(stack[t]) = 1
  BY DEF StackTyped, OneCall
<1>2. Front(stack[t]) = <<>>
  BY <1>1, SingleFacts
<1>3. stack' = [stack EXCEPT ![t] = <<>>]
  BY <1>2 DEF Return
<1>4. \A u \in Threads : stack'[u] = <<>>
  BY <1>3 DEF OneCall, StackTyped
<1> QED
  BY <1>4 DEF Calls, Idle

(* When the only call moves on, it is still the only one. *)
LEMMA CallGoesOn ==
  ASSUME StackTyped, NEW t \in Threads, OneCall(t), NEW g \in Frames, SetTop(t, g), FrameFacts(g)'
  PROVE  Calls'
<1>1. stack[t] \in Seq(Frames) /\ Len(stack[t]) = 1
  BY DEF StackTyped, OneCall
<1>2. Len(Front(stack[t]) \o <<g>>) = 1 /\ (Front(stack[t]) \o <<g>>)[1] = g
  BY <1>1, SingleFacts
<1>3. stack'[t] = Front(stack[t]) \o <<g>> /\ \A u \in Threads : u # t => stack'[u] = stack[u]
  BY DEF SetTop, StackTyped
<1>4. OneCall(t)' /\ stack'[t][1] = g
  BY <1>2, <1>3 DEF OneCall
<1>5. FrameFacts(stack[t][1])'
  BY <1>4 DEF FrameFacts
<1> QED
  BY <1>4, <1>5 DEF Calls

(* The pool keeps its serial invariants when it shrinks and the other      *)
(* structures keep what they know of the transactions that stay.           *)
LEMMA Shrinks ==
  ASSUME TypeInv, TypeInv', Bounded, NoConflict, AllIndexed,
         DOMAIN pool' \subseteq DOMAIN pool, \A x \in DOMAIN pool' : pool'[x].rate = pool[x].rate,
         limiter'.current <= limiter.current,
         \A x \in DOMAIN pool' : \A rate : Tracked(x, rate) => Tracked(x, rate)',
         \A x \in DOMAIN pool' : Claims(x) => Claims(x)',
         \A x \in DOMAIN pool' : x \in cache => x \in cache'
  PROVE  /\ Bounded' /\ NoConflict' /\ AllIndexed'
         /\ Cardinality(DOMAIN pool') <= Cardinality(DOMAIN pool)
<1>1. Cardinality(DOMAIN pool') <= Cardinality(DOMAIN pool)
  BY PoolFinite, FS_Subset DEF TypeInv
<1>2. Bounded'
  <2>1. /\ Cardinality(DOMAIN pool') \in Nat /\ Cardinality(DOMAIN pool) \in Nat
    BY PoolFinite, FS_Subset, FS_CardinalityType DEF TypeInv
  <2>2. limiter.current \in Nat /\ limiter'.current \in Nat
    BY DEF TypeInv, LimiterOK
  <2>3. MAX_POOL_SIZE \in Nat /\ MAX_SIZE_BYTES \in Nat
    BY NodePoolAssumption
  <2> QED
    BY <1>1, <2>1, <2>2, <2>3 DEF Bounded
<1>3. NoConflict'
  BY DEF NoConflict, Conflicting
<1>4. AllIndexed'
  <2> SUFFICES ASSUME NEW x \in DOMAIN pool'
               PROVE  (Tracked(x, pool[x].rate) /\ Claims(x) /\ x \in cache)'
    BY DEF AllIndexed
  <2>1. Tracked(x, pool[x].rate) /\ Claims(x) /\ x \in cache
    BY DEF AllIndexed
  <2>2. Claims(x)' /\ x \in cache'
    BY <2>1
  <2>3. PICK r : r = pool[x].rate
    OBVIOUS
  <2>4. Tracked(x, r)'
    BY <2>1, <2>3
  <2>5. Tracked(x, pool[x].rate)'
    BY <2>3, <2>4 DEF Tracked
  <2> QED
    BY <2>2, <2>5
<1> QED
  BY <1>1, <1>2, <1>3, <1>4

(* Steps that touch none of them. *)
LEMMA Quiet ==
  ASSUME Bounded, NoConflict, AllIndexed, UNCHANGED <<pool, limiter, sched, index, ordering, graph, cache>>
  PROVE  Bounded' /\ NoConflict' /\ AllIndexed'
<1>1. Bounded'
  BY DEF Bounded
<1>2. NoConflict'
  BY DEF NoConflict, Conflicting
<1>3. AllIndexed'
  BY DEF AllIndexed, Tracked, Claims
<1> QED
  BY <1>1, <1>2, <1>3

(* What a removal keeps. *)
LEMMA RemoveAllFacts ==
  ASSUME TypeInv, NEW S, RemoveAll(S)
  PROVE  /\ DOMAIN pool' = DOMAIN pool \ S /\ \A x \in DOMAIN pool' : pool'[x] = pool[x]
         /\ limiter'.current <= limiter.current
         /\ \A x \in Tx \ S : \A rate : Tracked(x, rate) => Tracked(x, rate)'
         /\ cache' = cache \ S
<1>1. DOMAIN pool' = DOMAIN pool \ S /\ \A x \in DOMAIN pool' : pool'[x] = pool[x]
  BY DEF RemoveAll, Without
<1>2. limiter'.current <= limiter.current
  <2>1. limiter' = RemoveTxWeight(limiter, S)
    BY DEF RemoveAll
  <2> QED
    BY <2>1, LimiterRemove DEF TypeInv
<1>3. ASSUME NEW x \in Tx \ S, NEW rate, Tracked(x, rate) PROVE Tracked(x, rate)'
  <2>1. x \in DOMAIN sched' /\ x \in DOMAIN index'.byHash
    BY <1>3 DEF RemoveAll, Without, Tracked
  <2>2. <<rate, x>> \in index'.economic
    <3>1. index'.economic = index.economic \ {Economic(y) : y \in S \cap DOMAIN index.byHash}
      BY DEF RemoveAll
    <3>2. \A y \in S : Economic(y) # <<rate, x>>
      BY DEF Economic
    <3> QED
      BY <1>3, <3>1, <3>2 DEF Tracked
  <2>3. ordering'.entries[x] = ordering.entries[x] /\ x \in ordering'.indexed
    BY <1>3 DEF RemoveAll, Tracked
  <2> QED
    BY <1>3, <2>1, <2>2, <2>3 DEF Tracked
<1>4. cache' = cache \ S
  BY DEF RemoveAll
<1> QED
  BY <1>1, <1>2, <1>3, <1>4

(* The steps of a call, one by one. *)

(* Admission, with one call at a time. *)
LEMMA SerialAdmit ==
  ASSUME TypeInv, SerialInv, alone, NEW t \in Threads, Admit(t)
  PROVE  Calm'
<1>1. stack[t] # <<>> /\ Top(t).pc = "admit"
  BY DEF Admit, At
<1>2. PICK f \in Frames : f = Top(t) /\ OneCall(t) /\ FrameFacts(f) /\ Bounded /\ NoConflict /\ AllIndexed
  BY <1>1, SoleCall
<1>3. Bounded' /\ NoConflict' /\ AllIndexed'
  BY <1>2, Quiet DEF Admit, parts
<1>4. CASE Return(t)
  BY <1>2, <1>3, <1>4, CallEnds DEF TypeInv, Calm
<1>5. CASE Goto(t, "space") /\ ~PoolFull
  <2>1. PICK g : g = [f EXCEPT !.pc = "space"]
    OBVIOUS
  <2>2. g \in Frames /\ SetTop(t, g)
    BY <1>2, <1>5, <2>1, FrameMoves DEF Goto, Labels
  <2>3. g.pc = "space" /\ g.todo = f.todo
    BY <2>1 DEF Frames
  <2>4. Cardinality(DOMAIN pool') < MAX_POOL_SIZE
    <3>1. Cardinality(DOMAIN pool) \in Nat /\ MAX_POOL_SIZE \in Nat
      BY PoolFinite, NodePoolAssumption DEF TypeInv
    <3>2. pool' = pool
      BY DEF Admit
    <3> QED
      BY <1>5, <3>1, <3>2 DEF PoolFull
  <2>5. FrameFacts(g)'
    BY <1>2, <2>3, <2>4 DEF FrameFacts
  <2> QED
    BY <1>2, <1>3, <2>2, <2>5, CallGoesOn DEF TypeInv, Calm
<1> QED
  BY <1>4, <1>5 DEF Admit

(* Making space, with one call at a time: it keeps indices and weights     *)
(* with the pool.                                                          *)
LEMMA SerialMakeSpace ==
  ASSUME TypeInv, TypeInv', SerialInv, alone, NEW t \in Threads, MakeSpace(t)
  PROVE  Calm'
<1>1. stack[t] # <<>> /\ Top(t).pc = "space"
  BY DEF MakeSpace, At
<1>2. PICK f \in Frames : f = Top(t) /\ OneCall(t) /\ FrameFacts(f) /\ Bounded /\ NoConflict /\ AllIndexed
  BY <1>1, SoleCall
<1> DEFINE S == MakeSpaceFor(limiter, Weight[Top(t).tx], sched, MAX_SIZE_BYTES)
<1>3. limiter'.current <= limiter.current
  <2>1. limiter' = limiter \/ limiter' = S.limiter
    BY DEF MakeSpace
  <2>2. S.limiter = RemoveTxWeight(limiter, S.evicted)
    BY DEF MakeSpaceFor
  <2> HIDE DEF S
  <2>3. S.limiter.current <= limiter.current
    BY <2>2, LimiterRemove DEF TypeInv
  <2>4. limiter.current <= limiter.current
    BY DEF TypeInv, LimiterOK
  <2> QED
    BY <2>1, <2>3, <2>4
<1>4. \/ UNCHANGED <<pool, sched, cache>>
      \/ /\ pool' = Without(pool, S.evicted) /\ sched' = Without(sched, S.evicted)
         /\ cache' = cache \ S.evicted
  BY DEF MakeSpace
<1> HIDE DEF S
<1>5. /\ DOMAIN pool' \subseteq DOMAIN pool /\ \A x \in DOMAIN pool' : pool'[x] = pool[x]
      /\ \A x \in DOMAIN pool' : x \in cache => x \in cache'
      /\ \A x \in DOMAIN pool' : x \in DOMAIN sched => x \in DOMAIN sched'
  BY <1>4 DEF Without
<1>6. \A x \in DOMAIN pool' : \A rate : Tracked(x, rate) => Tracked(x, rate)'
  BY <1>5 DEF MakeSpace, Tracked
<1>7. \A x \in DOMAIN pool' : Claims(x) => Claims(x)'
  BY DEF MakeSpace, Claims
<1>8. /\ Bounded' /\ NoConflict' /\ AllIndexed'
      /\ Cardinality(DOMAIN pool') <= Cardinality(DOMAIN pool)
  BY <1>2, <1>3, <1>5, <1>6, <1>7, Shrinks
<1>9. CASE Return(t)
  BY <1>2, <1>8, <1>9, CallEnds DEF TypeInv, Calm
<1>10. CASE Goto(t, "register")
  <2>1. PICK g : g = [f EXCEPT !.pc = "register"]
    OBVIOUS
  <2>2. g \in Frames /\ SetTop(t, g)
    BY <1>2, <1>10, <2>1, FrameMoves DEF Goto, Labels
  <2>3. g.pc = "register" /\ g.todo = f.todo
    BY <2>1 DEF Frames
  <2>4. Cardinality(DOMAIN pool') < MAX_POOL_SIZE
    <3>1. Cardinality(DOMAIN pool) \in Nat /\ MAX_POOL_SIZE \in Nat
      BY PoolFinite, NodePoolAssumption DEF TypeInv
    <3>2. Cardinality(DOMAIN pool') \in Nat
      BY <1>5, PoolFinite, FS_Subset, FS_CardinalityType DEF TypeInv
    <3>3. Cardinality(DOMAIN pool) < MAX_POOL_SIZE
      BY <1>1, <1>2 DEF FrameFacts
    <3> QED
      BY <1>8, <3>1, <3>2, <3>3
  <2>5. FrameFacts(g)'
    BY <1>2, <2>3, <2>4 DEF FrameFacts
  <2> QED
    BY <1>2, <1>8, <2>2, <2>5, CallGoesOn DEF TypeInv, Calm
<1> QED
  BY <1>9, <1>10 DEF MakeSpace

(* Registration in the conflict graph, with one call at a time. *)
LEMMA SerialRegister ==
  ASSUME TypeInv, TypeInv', SerialInv, alone, NEW t \in Threads, Register(t)
  PROVE  Calm'
<1>1. stack[t] # <<>> /\ Top(t).pc = "register"
  BY DEF Register, At
<1>2. PICK f \in Frames : f = Top(t) /\ OneCall(t) /\ FrameFacts(f) /\ Bounded /\ NoConflict /\ AllIndexed
  BY <1>1, SoleCall
<1>3. PICK found : found = DetectedConflicts(graph, f.tx, KeysOf(Spends[f.tx]))
  OBVIOUS
<1>4. /\ graph'.claims = graph.claims \cup (KeysOf(Spends[f.tx]) \X {f.tx})
      /\ graph'.conflicts = graph.conflicts \cup ({f.tx} \X found) \cup (found \X {f.tx})
  BY <1>2, <1>3 DEF Register, RegisterTransaction
<1>5. UNCHANGED <<pool, limiter, sched, index, ordering, cache>>
  BY DEF Register, parts
<1>6. /\ Bounded' /\ NoConflict' /\ AllIndexed'
  <2>1. \A x \in DOMAIN pool' : Claims(x) => Claims(x)'
    BY <1>4 DEF Claims
  <2>2. \A x \in DOMAIN pool' : \A rate : Tracked(x, rate) => Tracked(x, rate)'
    BY <1>5 DEF Tracked
  <2>3. limiter'.current <= limiter.current
    BY <1>5 DEF TypeInv, LimiterOK
  <2> QED
    BY <1>2, <1>5, <2>1, <2>2, <2>3, Shrinks
<1>7. PICK g : g = [f EXCEPT !.pc = "resolve", !.rivals = found]
  OBVIOUS
<1>8. SetTop(t, g)
  BY <1>2, <1>3, <1>7 DEF Register
<1>9. g \in Frames /\ g.pc = "resolve" /\ g.todo = f.todo /\ g.rivals = found /\ g.tx = f.tx
  <2>1. found \in SUBSET Tx
    BY <1>3, RivalsTyped DEF TypeInv
  <2> QED
    BY <1>7, <2>1 DEF Frames, Labels
<1>10. f.tx \notin found
  BY <1>3 DEF DetectedConflicts
<1>11. ASSUME NEW c \in DOMAIN pool', Conflicting(c, f.tx) PROVE c \in found
  <2>1. Claims(c)
    BY <1>2, <1>5 DEF AllIndexed
  <2>2. PICK op \in Spends[c] : op \in Spends[f.tx]
    BY <1>11 DEF Conflicting
  <2>3. OutpointKey(op) \in KeysOf(Spends[c]) /\ OutpointKey(op) \in KeysOf(Spends[f.tx])
    BY <2>2 DEF KeysOf
  <2>4. <<OutpointKey(op), c>> \in graph.claims
    BY <2>1, <2>3 DEF Claims
  <2>5. c \in Claimants(graph, KeysOf(Spends[f.tx]))
    BY <2>3, <2>4 DEF Claimants
  <2> QED
    BY <1>3, <1>11, <2>5 DEF DetectedConflicts, Conflicting
<1>12. Claims(f.tx)'
  BY <1>4 DEF Claims
<1>13. Cardinality(DOMAIN pool') < MAX_POOL_SIZE
  BY <1>1, <1>2, <1>5 DEF FrameFacts
<1>14. \A c \in found : <<f.tx, c>> \in graph'.conflicts
  BY <1>4
<1>15. FrameFacts(g)'
  BY <1>2, <1>9, <1>10, <1>11, <1>12, <1>13, <1>14 DEF FrameFacts, Claims, Conflicting
<1> QED
  BY <1>2, <1>6, <1>8, <1>9, <1>15, CallGoesOn DEF TypeInv, Calm

(* An effective fee rate is a number. *)
LEMMA EffectiveTyped ==
  ASSUME TypeInv, NEW x
  PROVE  EffectiveFeeRate(x) \in Int
<1>1. CASE x \notin DOMAIN pool
  BY <1>1 DEF EffectiveFeeRate
<1>2. CASE x \in DOMAIN pool
  <2>1. pool[x].rate \in Nat /\ now - pool[x].time \in Int
    BY <1>2 DEF TypeInv, PoolTyped, ClockOK
  <2>2. ASSUME NEW r \in Nat, NEW h \in Int PROVE StarvationBoost(r, h) \in Int
    <3> DEFINE m == 10 + IF h < 20 THEN h ELSE 20
    <3>1. m \in Int
      OBVIOUS
    <3>2. \A a, b \in Int : a * b \in Int
      OBVIOUS
    <3> HIDE DEF m
    <3>3. r * m \in Int
      BY <3>1, <3>2
    <3>4. \A a \in Int : a \div 10 \in Int
      OBVIOUS
    <3>5. (r * m) \div 10 \in Int
      BY <3>3, <3>4
    <3> QED
      BY <3>5 DEF StarvationBoost, m
  <2> QED
    BY <1>2, <2>1, <2>2 DEF EffectiveFeeRate
<1> QED
  BY <1>1, <1>2

(* Who beats the strongest rival beats them all. *)
LEMMA SupremeBeatsAll ==
  ASSUME TypeInv, NEW x \in Tx, NEW rate \in Nat, NEW rivals \in SUBSET Tx,
         Supremacy(x, rate, rivals), NEW c \in rivals
  PROVE  Beats(x, rate, c)
<1> DEFINE E == [y \in Tx |-> EffectiveFeeRate(y)]
           Strongest(s) == \A d \in rivals : EffectiveFeeRate(d) < EffectiveFeeRate(s)
                                \/ (EffectiveFeeRate(d) = EffectiveFeeRate(s) /\ s <= d)
           R == {p \in rivals \X rivals : E[p[1]] < E[p[2]] \/ (E[p[1]] = E[p[2]] /\ p[2] < p[1])}
<1>1. \A y \in Tx : E[y] = EffectiveFeeRate(y) /\ E[y] \in Int
  BY EffectiveTyped
<1>2. IsFiniteSet(rivals) /\ rivals \subseteq Nat /\ x \in Nat
  BY NodePoolAssumption, FS_Subset
<1> HIDE DEF E
<1>3. ASSUME NEW y \in rivals, NEW z \in rivals, y # z PROVE <<y, z>> \in R \/ <<z, y>> \in R
  <2>1. y \in Nat /\ z \in Nat /\ E[y] \in Int /\ E[z] \in Int
    BY <1>1, <1>2
  <2>2. E[y] < E[z] \/ E[z] < E[y] \/ (E[y] = E[z] /\ (z < y \/ y < z))
    BY <1>3, <2>1
  <2> QED
    BY <2>2
<1>4. ASSUME NEW y \in rivals, NEW z \in rivals, NEW w \in rivals, <<y, z>> \in R, <<z, w>> \in R
      PROVE  <<y, w>> \in R
  <2>1. /\ y \in Nat /\ z \in Nat /\ w \in Nat
        /\ E[y] \in Int /\ E[z] \in Int /\ E[w] \in Int
    BY <1>1, <1>2
  <2>2. /\ E[y] < E[z] \/ (E[y] = E[z] /\ z < y)
        /\ E[z] < E[w] \/ (E[z] = E[w] /\ w < z)
    BY <1>4
  <2>3. E[y] < E[w] \/ (E[y] = E[w] /\ w < y)
    BY <2>1, <2>2
  <2> QED
    BY <2>3
<1>5. Ordered(rivals, R)
  <2> HIDE DEF R
  <2> QED
    BY <1>3, <1>4 DEF Ordered
<1>6. PICK m \in rivals : \A y \in rivals : y # m => <<y, m>> \in R
  <2> HIDE DEF R
  <2>1. rivals \in SUBSET rivals /\ rivals # {}
    OBVIOUS
  <2>2. PICK r : r = R
    OBVIOUS
  <2>3. Ordered(rivals, r)
    BY <1>5, <2>2
  <2>4. \E m \in rivals : \A y \in rivals : y # m => <<y, m>> \in r
    <3>1. IsFiniteSet(rivals)
      BY <1>2
    <3>2. \A s \in SUBSET rivals :
            s # {} => \E m \in s : \A y \in s : y # m => <<y, m>> \in r
      BY <2>3, <3>1, Greatest
    <3> QED
      BY <2>1, <3>2
  <2> QED
    BY <2>2, <2>4
<1>7. Strongest(m)
  <2> SUFFICES ASSUME NEW d \in rivals
               PROVE  E[d] < E[m] \/ (E[d] = E[m] /\ m <= d)
    BY <1>1
  <2>1. d \in Nat /\ m \in Nat /\ E[d] \in Int /\ E[m] \in Int
    BY <1>1, <1>2
  <2>2. CASE d = m
    BY <2>1, <2>2
  <2>3. CASE d # m
    <3>1. E[d] < E[m] \/ (E[d] = E[m] /\ m < d)
      BY <1>6, <2>3
    <3> QED
      BY <2>1, <3>1
  <2> QED
    BY <2>2, <2>3
<1> DEFINE s == CHOOSE y \in rivals : Strongest(y)
<1>8. s \in rivals /\ Strongest(s)
  BY <1>7, Zenon
<1>9. Beats(x, rate, s)
  BY DEF Supremacy
<1> HIDE DEF s, R
<1>10. /\ E[c] < E[s] \/ (E[c] = E[s] /\ s <= c)
       /\ rate > E[s] \/ (rate = E[s] /\ x < s)
  BY <1>1, <1>8, <1>9 DEF Beats
<1>11. rate > E[c] \/ (rate = E[c] /\ x < c)
  <2>1. c \in Nat /\ s \in Nat /\ E[c] \in Int /\ E[s] \in Int
    BY <1>1, <1>2, <1>8
  <2> QED
    BY <1>2, <1>10, <2>1
<1> QED
  BY <1>1, <1>11 DEF Beats

(* Conflict resolution, with one call at a time: a transaction goes on     *)
(* only if it beats its greatest rival.                                    *)
LEMMA SerialResolve ==
  ASSUME TypeInv, TypeInv', SerialInv, alone, NEW t \in Threads, Resolve(t)
  PROVE  Calm'
<1>1. stack[t] # <<>> /\ Top(t).pc = "resolve"
  BY DEF Resolve, At
<1>2. PICK f \in Frames : f = Top(t) /\ OneCall(t) /\ FrameFacts(f) /\ Bounded /\ NoConflict /\ AllIndexed
  BY <1>1, SoleCall
<1>3. UNCHANGED <<pool, limiter, sched, index, ordering, graph, cache, now>>
  BY DEF Resolve, parts, env
<1>4. Bounded' /\ NoConflict' /\ AllIndexed'
  BY <1>2, <1>3, Quiet
<1>5. CASE Return(t)
  BY <1>2, <1>4, <1>5, CallEnds DEF TypeInv, Calm
<1>6. /\ Cardinality(DOMAIN pool) < MAX_POOL_SIZE /\ Claims(f.tx) /\ f.todo = {}
      /\ (\A c \in f.rivals : <<f.tx, c>> \in graph.conflicts) /\ f.tx \notin f.rivals
      /\ \A c \in DOMAIN pool : Conflicting(c, f.tx) => c \in f.rivals
  BY <1>1, <1>2 DEF FrameFacts
<1>7. CASE ~DetectDoubleSpend(graph, f.tx) /\ SetTop(t, [f EXCEPT !.pc = "replace", !.rivals = {}])
  <2>1. PICK g : g = [f EXCEPT !.pc = "replace", !.rivals = {}]
    OBVIOUS
  <2>2. g \in Frames /\ g.pc = "replace" /\ g.todo = f.todo /\ g.rivals = {} /\ g.tx = f.tx
    BY <2>1 DEF Frames, Labels
  <2>3. f.rivals = {}
    BY <1>6, <1>7 DEF DetectDoubleSpend
  <2>4. FrameFacts(g)'
    BY <1>3, <1>6, <2>2, <2>3 DEF FrameFacts, Claims, Conflicting
  <2> QED
    BY <1>2, <1>4, <1>7, <2>1, <2>2, <2>4, CallGoesOn DEF TypeInv, Calm
<1>8. CASE Supremacy(f.tx, f.rate, f.rivals) /\ Goto(t, "replace")
  <2>1. PICK g : g = [f EXCEPT !.pc = "replace"]
    OBVIOUS
  <2>2. SetTop(t, g)
    BY <1>2, <1>8, <2>1 DEF Goto
  <2>3. /\ g \in Frames /\ g.pc = "replace" /\ g.todo = f.todo /\ g.rivals = f.rivals
        /\ g.tx = f.tx /\ g.rate = f.rate
    BY <2>1 DEF Frames, Labels
  <2>4. \A c \in f.rivals : Beats(f.tx, f.rate, c)
    <3>1. f.tx \in Tx /\ f.rate \in Nat /\ f.rivals \in SUBSET Tx
      BY DEF Frames
    <3> QED
      BY <1>8, <3>1, SupremeBeatsAll
  <2>5. \A c \in f.rivals : Beats(f.tx, f.rate, c)'
    BY <1>3, <2>4 DEF Beats, EffectiveFeeRate
  <2>6. FrameFacts(g)'
    BY <1>3, <1>6, <2>3, <2>5 DEF FrameFacts, Claims, Conflicting
  <2> QED
    BY <1>2, <1>4, <2>2, <2>3, <2>6, CallGoesOn DEF TypeInv, Calm
<1> QED
  BY <1>2, <1>5, <1>7, <1>8 DEF Resolve

(* Replacing a rival, with one call at a time: what leaves the pool is     *)
(* beaten by the newcomer.                                                 *)
LEMMA SerialReplace ==
  ASSUME TypeInv, TypeInv', SerialInv, alone, NEW t \in Threads, Replace(t)
  PROVE  /\ Calm'
         /\ \A c \in DOMAIN pool \ DOMAIN pool' : Beats(Top(t).tx, Top(t).rate, c)
<1>1. stack[t] # <<>> /\ Top(t).pc = "replace"
  BY DEF Replace, At
<1>2. PICK f \in Frames : f = Top(t) /\ OneCall(t) /\ FrameFacts(f) /\ Bounded /\ NoConflict /\ AllIndexed
  BY <1>1, SoleCall
<1>3. /\ Cardinality(DOMAIN pool) < MAX_POOL_SIZE /\ Claims(f.tx) /\ f.todo = {} /\ f.tx \notin f.rivals
      /\ \A c \in DOMAIN pool : Conflicting(c, f.tx) => c \in f.rivals
      /\ \A c \in f.rivals : c \in DOMAIN pool => Beats(f.tx, f.rate, c)
  BY <1>1, <1>2 DEF FrameFacts
<1>4. now' = now
  BY DEF Replace, env
<1>5. CASE f.rivals = {}
  <2>1. Goto(t, "validate") /\ UNCHANGED <<pool, limiter, sched, index, ordering, graph, cache>>
    BY <1>2, <1>5 DEF Replace, parts
  <2>2. Bounded' /\ NoConflict' /\ AllIndexed'
    BY <1>2, <2>1, Quiet
  <2>3. PICK g : g = [f EXCEPT !.pc = "validate"]
    OBVIOUS
  <2>4. SetTop(t, g)
    BY <1>2, <2>1, <2>3 DEF Goto
  <2>5. g \in Frames /\ g.pc = "validate" /\ g.todo = f.todo /\ g.tx = f.tx
    BY <2>3 DEF Frames, Labels
  <2>6. FrameFacts(g)'
    BY <1>3, <1>5, <2>1, <2>5 DEF FrameFacts, Claims, Conflicting
  <2> QED
    BY <1>2, <2>1, <2>2, <2>4, <2>5, <2>6, CallGoesOn DEF TypeInv, Calm
<1>6. CASE f.rivals # {}
  <2>1. PICK c \in f.rivals :
          /\ SetTop(t, [f EXCEPT !.rivals = f.rivals \ {c}])
          /\ \/ /\ c \in DOMAIN pool /\ Unpool(c) /\ graph' = RemoveTransactionCascade(graph, c)
             \/ /\ c \notin DOMAIN pool
                /\ UNCHANGED <<pool, limiter, sched, index, ordering, graph, cache>>
    BY <1>2, <1>6 DEF Replace, parts
  <2>2. PICK g : g = [f EXCEPT !.rivals = f.rivals \ {c}]
    OBVIOUS
  <2>3. g \in Frames /\ g.pc = "replace" /\ g.todo = f.todo /\ g.rivals = f.rivals \ {c}
        /\ g.tx = f.tx /\ g.rate = f.rate
    BY <1>1, <1>2, <2>2 DEF Frames, Labels
  <2>4. SetTop(t, g)
    BY <2>1, <2>2
  <2>5. CASE c \notin DOMAIN pool
    <3>1. UNCHANGED <<pool, limiter, sched, index, ordering, graph, cache>>
      BY <2>1, <2>5
    <3>2. Bounded' /\ NoConflict' /\ AllIndexed'
      BY <1>2, <3>1, Quiet
    <3>3. \A d \in f.rivals : d \in DOMAIN pool' => Beats(f.tx, f.rate, d)'
      BY <1>3, <1>4, <3>1 DEF Beats, EffectiveFeeRate
    <3>4. FrameFacts(g)'
      BY <1>3, <2>3, <2>5, <3>1, <3>3 DEF FrameFacts, Claims, Conflicting
    <3> QED
      BY <1>2, <2>3, <2>4, <3>1, <3>2, <3>4, CallGoesOn DEF TypeInv, Calm
  <2>6. CASE c \in DOMAIN pool
    <3>1. RemoveAll({c}) /\ graph' = RemoveTransactionCascade(graph, c)
      BY <2>1, <2>6 DEF Unpool
    <3>2. /\ DOMAIN pool' = DOMAIN pool \ {c} /\ \A x \in DOMAIN pool' : pool'[x] = pool[x]
          /\ limiter'.current <= limiter.current
          /\ \A x \in Tx \ {c} : \A rate : Tracked(x, rate) => Tracked(x, rate)'
          /\ cache' = cache \ {c}
      BY <3>1, RemoveAllFacts
    <3>3. \A x : x # c /\ Claims(x) => Claims(x)'
      BY <3>1 DEF RemoveTransactionCascade, Claims
    <3>4. /\ Bounded' /\ NoConflict' /\ AllIndexed'
          /\ Cardinality(DOMAIN pool') <= Cardinality(DOMAIN pool)
      <4>1. \A x \in DOMAIN pool' : x \in Tx \ {c}
        BY <3>2 DEF TypeInv, PoolTyped
      <4>2. /\ \A x \in DOMAIN pool' : \A rate : Tracked(x, rate) => Tracked(x, rate)'
            /\ \A x \in DOMAIN pool' : Claims(x) => Claims(x)'
            /\ \A x \in DOMAIN pool' : x \in cache => x \in cache'
        BY <3>2, <3>3, <4>1
      <4> QED
        BY <1>2, <3>2, <4>2, Shrinks
    <3>5. Cardinality(DOMAIN pool') < MAX_POOL_SIZE
      <4>1. Cardinality(DOMAIN pool) \in Nat /\ MAX_POOL_SIZE \in Nat
        BY PoolFinite, NodePoolAssumption DEF TypeInv
      <4>2. Cardinality(DOMAIN pool') \in Nat
        BY <3>2, PoolFinite, FS_Subset, FS_CardinalityType DEF TypeInv
      <4> QED
        BY <1>3, <3>4, <4>1, <4>2
    <3>6. Claims(f.tx)'
      BY <1>3, <3>3
    <3>7. \A d \in f.rivals : d \in DOMAIN pool' => Beats(f.tx, f.rate, d)'
      <4> SUFFICES ASSUME NEW d \in f.rivals, d \in DOMAIN pool' PROVE Beats(f.tx, f.rate, d)'
        OBVIOUS
      <4>1. d \in DOMAIN pool /\ pool'[d] = pool[d] /\ Beats(f.tx, f.rate, d)
        BY <1>3, <3>2
      <4> QED
        BY <1>4, <4>1 DEF Beats, EffectiveFeeRate
    <3>8. \A d \in DOMAIN pool' : Conflicting(d, f.tx) => d \in f.rivals \ {c}
      BY <1>3, <3>2
    <3>9. FrameFacts(g)'
      BY <1>3, <2>3, <3>5, <3>6, <3>7, <3>8 DEF FrameFacts, Claims, Conflicting
    <3>10. Calm'
      BY <1>2, <2>3, <2>4, <3>4, <3>9, CallGoesOn DEF TypeInv, Calm
    <3>11. Beats(f.tx, f.rate, c)
      BY <1>3, <2>6
    <3> QED
      BY <1>2, <3>2, <3>10, <3>11
  <2> QED
    BY <2>5, <2>6
<1> QED
  BY <1>5, <1>6

(* Validation, with one call at a time. *)
LEMMA SerialValidate ==
  ASSUME TypeInv, SerialInv, alone, NEW t \in Threads, Validate(t)
  PROVE  Calm'
<1>1. stack[t] # <<>> /\ Top(t).pc = "validate"
  BY DEF Validate, At
<1>2. PICK f \in Frames : f = Top(t) /\ OneCall(t) /\ FrameFacts(f) /\ Bounded /\ NoConflict /\ AllIndexed
  BY <1>1, SoleCall
<1>3. UNCHANGED <<pool, limiter, sched, index, ordering, graph, cache>>
  BY DEF Validate, parts
<1>4. Bounded' /\ NoConflict' /\ AllIndexed'
  BY <1>2, <1>3, Quiet
<1>5. CASE Return(t)
  BY <1>2, <1>4, <1>5, CallEnds DEF TypeInv, Calm
<1>6. CASE Goto(t, "enter")
  <2>1. PICK g : g = [f EXCEPT !.pc = "enter"]
    OBVIOUS
  <2>2. SetTop(t, g)
    BY <1>2, <1>6, <2>1 DEF Goto
  <2>3. g \in Frames /\ g.pc = "enter" /\ g.todo = f.todo /\ g.tx = f.tx
    BY <2>1 DEF Frames, Labels
  <2>4. /\ Cardinality(DOMAIN pool) < MAX_POOL_SIZE /\ Claims(f.tx) /\ f.todo = {}
        /\ \A c \in DOMAIN pool : ~Conflicting(c, f.tx)
    BY <1>1, <1>2 DEF FrameFacts
  <2>5. FrameFacts(g)'
    BY <1>3, <2>3, <2>4 DEF FrameFacts, Claims, Conflicting
  <2> QED
    BY <1>2, <1>4, <2>2, <2>3, <2>5, CallGoesOn DEF TypeInv, Calm
<1> QED
  BY <1>5, <1>6 DEF Validate

(* The memory limit and the tiers, with one call at a time. *)
LEMMA SerialEnter ==
  ASSUME TypeInv, SerialInv, alone, NEW t \in Threads, Enter(t)
  PROVE  Calm'
<1>1. stack[t] # <<>> /\ Top(t).pc = "enter"
  BY DEF Enter, At
<1>2. PICK f \in Frames : f = Top(t) /\ OneCall(t) /\ FrameFacts(f) /\ Bounded /\ NoConflict /\ AllIndexed
  BY <1>1, SoleCall
<1>3. UNCHANGED <<pool, limiter, sched, index, ordering, graph, cache>>
  BY DEF Enter, parts
<1>4. Bounded' /\ NoConflict' /\ AllIndexed'
  BY <1>2, <1>3, Quiet
<1>5. CASE Return(t)
  BY <1>2, <1>4, <1>5, CallEnds DEF TypeInv, Calm
<1>6. CASE Goto(t, "track") /\ ~WouldExceedLimit(limiter, Weight[f.tx], MAX_SIZE_BYTES)
  <2>1. PICK g : g = [f EXCEPT !.pc = "track"]
    OBVIOUS
  <2>2. SetTop(t, g)
    BY <1>2, <1>6, <2>1 DEF Goto
  <2>3. g \in Frames /\ g.pc = "track" /\ g.todo = f.todo /\ g.tx = f.tx
    BY <2>1 DEF Frames, Labels
  <2>4. /\ Cardinality(DOMAIN pool) < MAX_POOL_SIZE /\ Claims(f.tx) /\ f.todo = {}
        /\ \A c \in DOMAIN pool : ~Conflicting(c, f.tx)
    BY <1>1, <1>2 DEF FrameFacts
  <2>5. limiter.current + Weight[f.tx] <= MAX_SIZE_BYTES
    <3>1. limiter.current \in Nat /\ Weight[f.tx] \in Nat /\ MAX_SIZE_BYTES \in Nat
      BY NodePoolAssumption DEF TypeInv, LimiterOK, Frames
    <3> QED
      BY <1>6, <3>1 DEF WouldExceedLimit
  <2>6. FrameFacts(g)'
    BY <1>3, <2>3, <2>4, <2>5 DEF FrameFacts, Claims, Conflicting
  <2> QED
    BY <1>2, <1>4, <2>2, <2>3, <2>6, CallGoesOn DEF TypeInv, Calm
<1> QED
  BY <1>2, <1>5, <1>6 DEF Enter

(* Scheduler, indices and weights, with one call at a time. *)
LEMMA SerialTrack ==
  ASSUME TypeInv, TypeInv', SerialInv, alone, NEW t \in Threads, Track(t)
  PROVE  Calm'
<1>1. stack[t] # <<>> /\ Top(t).pc = "track"
  BY DEF Track, At
<1>2. PICK f \in Frames : f = Top(t) /\ OneCall(t) /\ FrameFacts(f) /\ Bounded /\ NoConflict /\ AllIndexed
  BY <1>1, SoleCall
<1>3. /\ Cardinality(DOMAIN pool) < MAX_POOL_SIZE /\ Claims(f.tx) /\ f.todo = {}
      /\ \A c \in DOMAIN pool : ~Conflicting(c, f.tx)
      /\ limiter.current + Weight[f.tx] <= MAX_SIZE_BYTES
  BY <1>1, <1>2 DEF FrameFacts
<1>4. UNCHANGED <<pool, graph, cache>>
  BY DEF Track
<1>5. f.tx \in Tx
  BY DEF Frames
<1>6. /\ DOMAIN sched' = DOMAIN sched \cup {f.tx}
      /\ DOMAIN index'.byHash = DOMAIN index.byHash \cup {f.tx}
      /\ index'.economic = index.economic \cup {<<f.rate, f.tx>>}
      /\ ordering'.entries = [ordering.entries EXCEPT ![f.tx] = @ + 1]
      /\ ordering'.indexed = ordering.indexed \cup {f.tx}
      /\ limiter'.current = limiter.current + Weight[f.tx]
  BY <1>2 DEF Track, Scheduled, With, AddTxWeight
<1>7. \A x \in Tx : \A rate : Tracked(x, rate) => Tracked(x, rate)'
  <2> SUFFICES ASSUME NEW x \in Tx, NEW rate, Tracked(x, rate) PROVE Tracked(x, rate)'
    OBVIOUS
  <2>1. ordering'.entries[x] > 0
    <3>1. ordering.entries[x] \in Nat /\ ordering.entries[x] > 0
      BY DEF TypeInv, OrderingOK, Tracked
    <3>2. ordering'.entries[x] = ordering.entries[x] \/ ordering'.entries[x] = ordering.entries[x] + 1
      BY <1>6 DEF TypeInv, OrderingOK
    <3> QED
      BY <3>1, <3>2
  <2> QED
    BY <1>6, <2>1 DEF Tracked
<1>8. Tracked(f.tx, f.rate)'
  <2>1. ordering'.entries[f.tx] > 0
    <3>1. ordering.entries[f.tx] \in Nat
      BY <1>5 DEF TypeInv, OrderingOK
    <3>2. ordering'.entries[f.tx] = ordering.entries[f.tx] + 1
      BY <1>5, <1>6 DEF TypeInv, OrderingOK
    <3> QED
      BY <3>1, <3>2
  <2> QED
    BY <1>6, <2>1 DEF Tracked
<1>9. Bounded'
  BY <1>2, <1>3, <1>4, <1>6 DEF Bounded
<1>10. NoConflict'
  BY <1>2, <1>4 DEF NoConflict, Conflicting
<1>11. AllIndexed'
  <2> SUFFICES ASSUME NEW x \in DOMAIN pool
               PROVE  (Tracked(x, pool[x].rate) /\ Claims(x) /\ x \in cache)'
    BY <1>4 DEF AllIndexed
  <2>1. Tracked(x, pool[x].rate) /\ Claims(x) /\ x \in cache /\ x \in Tx
    BY <1>2 DEF AllIndexed, TypeInv, PoolTyped
  <2>2. PICK r : r = pool[x].rate
    OBVIOUS
  <2>3. Tracked(x, r)'
    BY <1>7, <2>1, <2>2
  <2>4. Tracked(x, pool[x].rate)'
    BY <1>4, <2>2, <2>3 DEF Tracked
  <2> QED
    BY <1>4, <2>1, <2>4 DEF Claims
<1>12. PICK g : g = [f EXCEPT !.pc = "link"]
  OBVIOUS
<1>13. SetTop(t, g)
  BY <1>2, <1>12 DEF Track, Goto
<1>14. g \in Frames /\ g.pc = "link" /\ g.todo = f.todo /\ g.tx = f.tx /\ g.rate = f.rate
  BY <1>12 DEF Frames, Labels
<1>15. FrameFacts(g)'
  BY <1>3, <1>4, <1>8, <1>14 DEF FrameFacts, Claims, Conflicting
<1> QED
  BY <1>2, <1>9, <1>10, <1>11, <1>13, <1>14, <1>15, CallGoesOn DEF TypeInv, Calm

(* Linking the orphan chain, with one call at a time. *)
LEMMA SerialLink ==
  ASSUME TypeInv, SerialInv, alone, NEW t \in Threads, Link(t)
  PROVE  Calm'
<1>1. stack[t] # <<>> /\ Top(t).pc = "link"
  BY DEF Link, At
<1>2. PICK f \in Frames : f = Top(t) /\ OneCall(t) /\ FrameFacts(f) /\ Bounded /\ NoConflict /\ AllIndexed
  BY <1>1, SoleCall
<1>3. UNCHANGED <<pool, limiter, sched, index, ordering, graph, cache>>
  BY DEF Link, parts
<1>4. Bounded' /\ NoConflict' /\ AllIndexed'
  BY <1>2, <1>3, Quiet
<1>5. PICK g : g = [f EXCEPT !.pc = "adopt", !.outs = Outputs[f.tx]]
  OBVIOUS
<1>6. SetTop(t, g)
  BY <1>2, <1>5 DEF Link
<1>7. /\ g \in Frames /\ g.pc = "adopt" /\ g.todo = f.todo /\ g.tx = f.tx /\ g.rate = f.rate
      /\ g.outs = Outputs[f.tx]
  <2>1. Outputs[f.tx] \in SUBSET AllOutputs
    BY DEF Frames, AllOutputs
  <2> QED
    BY <1>5, <2>1 DEF Frames, Labels
<1>8. \A p \in orphans'.index : p[1] \notin Outputs[f.tx]
  <2>1. orphans' = LinkOrphanChain(orphans, f.tx, Outputs, MAX_CHAIN_DEPTH)
    BY <1>2 DEF Link
  <2>2. \A p \in LinkOrphanChain(orphans, f.tx, Outputs, MAX_CHAIN_DEPTH).index : p[1] \notin Outputs[f.tx]
    BY NodePoolAssumption, OrphansLink DEF TypeInv
  <2> QED
    BY <2>1, <2>2
<1>9. /\ Cardinality(DOMAIN pool) < MAX_POOL_SIZE /\ Claims(f.tx) /\ f.todo = {}
      /\ (\A c \in DOMAIN pool : ~Conflicting(c, f.tx)) /\ Tracked(f.tx, f.rate)
  BY <1>1, <1>2 DEF FrameFacts
<1>10. FrameFacts(g)'
  BY <1>3, <1>7, <1>8, <1>9 DEF FrameFacts, Claims, Conflicting, Tracked
<1> QED
  BY <1>2, <1>4, <1>6, <1>7, <1>10, CallGoesOn DEF TypeInv, Calm

(* The linker has taken out every orphan that waits for an output of the   *)
(* transaction: the recursive adoption finds none.                         *)
LEMMA SerialAdopt ==
  ASSUME TypeInv, SerialInv, alone, NEW t \in Threads, Adopt(t)
  PROVE  Calm'
<1>1. stack[t] # <<>> /\ Top(t).pc = "adopt"
  BY DEF Adopt, At
<1>2. PICK f \in Frames : f = Top(t) /\ OneCall(t) /\ FrameFacts(f) /\ Bounded /\ NoConflict /\ AllIndexed
  BY <1>1, SoleCall
<1>3. UNCHANGED <<pool, limiter, sched, index, ordering, graph, cache>>
  BY DEF Adopt, parts
<1>4. Bounded' /\ NoConflict' /\ AllIndexed'
  BY <1>2, <1>3, Quiet
<1>5. /\ Cardinality(DOMAIN pool) < MAX_POOL_SIZE /\ Claims(f.tx) /\ f.todo = {}
      /\ (\A c \in DOMAIN pool : ~Conflicting(c, f.tx)) /\ Tracked(f.tx, f.rate)
      /\ f.outs \subseteq Outputs[f.tx] /\ \A p \in orphans.index : p[1] \notin Outputs[f.tx]
  BY <1>1, <1>2 DEF FrameFacts
<1>6. CASE f.outs = {}
  <2>1. Goto(t, "insert")
    BY <1>2, <1>6 DEF Adopt
  <2>2. PICK g : g = [f EXCEPT !.pc = "insert"]
    OBVIOUS
  <2>3. SetTop(t, g)
    BY <1>2, <2>1, <2>2 DEF Goto
  <2>4. g \in Frames /\ g.pc = "insert" /\ g.todo = f.todo /\ g.tx = f.tx /\ g.rate = f.rate
    BY <2>2 DEF Frames, Labels
  <2>5. FrameFacts(g)'
    BY <1>3, <1>5, <2>4 DEF FrameFacts, Claims, Conflicting, Tracked
  <2> QED
    BY <1>2, <1>4, <2>3, <2>4, <2>5, CallGoesOn DEF TypeInv, Calm
<1>7. CASE f.outs # {}
  <2> DEFINE Least(o) == \A p \in f.outs : o[2] <= p[2]
  <2>1. \E o \in f.outs : Least(o)
    <3> DEFINE T == {o[2] : o \in f.outs}
    <3>1. f.tx \in Tx
      BY DEF Frames
    <3>2. \A o \in f.outs : o[2] \in Nat
      BY <1>5, <3>1, NodePoolAssumption
    <3>3. T \in SUBSET Nat /\ T # {}
      BY <1>7, <3>2
    <3> HIDE DEF T
    <3>4. PICK n \in T : \A m \in T : n <= m
      BY <3>3, Smallest
    <3>5. PICK o \in f.outs : o[2] = n
      BY <3>4 DEF T
    <3>6. Least(o)
      BY <3>4, <3>5 DEF T
    <3> QED
      BY <3>6
  <2>2. PICK op : op = CHOOSE o \in f.outs : Least(o)
    OBVIOUS
  <2>3. op \in f.outs
    BY <2>1, <2>2, Zenon
  <2>4. /\ orphans' = ProcessOrphans(orphans, {op})
        /\ SetTop(t, [f EXCEPT !.outs = f.outs \ {op}, !.todo = Waiting(orphans, {op})])
    BY <1>2, <1>7, <2>2 DEF Adopt
  <2>5. Waiting(orphans, {op}) = {}
    BY <1>5, <2>3 DEF Waiting
  <2>6. PICK g : g = [f EXCEPT !.outs = f.outs \ {op}, !.todo = {}]
    OBVIOUS
  <2>7. SetTop(t, g)
    BY <2>4, <2>5, <2>6
  <2>8. /\ g \in Frames /\ g.pc = "adopt" /\ g.todo = {} /\ g.tx = f.tx /\ g.rate = f.rate
        /\ g.outs = f.outs \ {op}
    BY <1>1, <1>2, <2>6 DEF Frames
  <2>9. \A p \in orphans'.index : p[1] \notin Outputs[f.tx]
    BY <1>5, <2>4 DEF ProcessOrphans
  <2>10. FrameFacts(g)'
    BY <1>3, <1>5, <2>8, <2>9 DEF FrameFacts, Claims, Conflicting, Tracked
  <2> QED
    BY <1>2, <1>4, <2>7, <2>8, <2>10, CallGoesOn DEF TypeInv, Calm
<1> QED
  BY <1>6, <1>7

(* A call that does not overlap with others never gets to offer an orphan: *)
(* linking has emptied the orphan pool.                                    *)
LEMMA SerialOffer ==
  ASSUME TypeInv, SerialInv, alone, NEW t \in Threads
  PROVE  ~Offer(t)
<1> SUFFICES ASSUME Offer(t) PROVE FALSE
  OBVIOUS
<1>1. stack[t] # <<>> /\ Top(t).todo # {}
  BY DEF Offer, At
<1>2. FrameFacts(Top(t))
  BY <1>1, SoleCall
<1> QED
  BY <1>1, <1>2 DEF FrameFacts

(* The insertion into the pool, with one call at a time. *)
LEMMA SerialInsert ==
  ASSUME TypeInv, TypeInv', SerialInv, alone, NEW t \in Threads, Insert(t)
  PROVE  Calm'
<1>1. stack[t] # <<>> /\ Top(t).pc = "insert"
  BY DEF Insert, At
<1>2. PICK f \in Frames : f = Top(t) /\ OneCall(t) /\ FrameFacts(f) /\ Bounded /\ NoConflict /\ AllIndexed
  BY <1>1, SoleCall
<1>3. /\ Cardinality(DOMAIN pool) < MAX_POOL_SIZE /\ Claims(f.tx)
      /\ (\A c \in DOMAIN pool : ~Conflicting(c, f.tx)) /\ Tracked(f.tx, f.rate)
  BY <1>1, <1>2 DEF FrameFacts
<1>4. UNCHANGED <<limiter, sched, index, ordering, graph>> /\ Return(t) /\ cache' = cache \cup {f.tx}
  BY <1>2 DEF Insert, parts
<1>5. /\ DOMAIN pool' = DOMAIN pool \cup {f.tx}
      /\ pool'[f.tx].rate = f.rate
      /\ \A x \in DOMAIN pool : x # f.tx => pool'[x] = pool[x]
  BY <1>2 DEF Insert, With
<1>6. Bounded'
  <2>1. IsFiniteSet(DOMAIN pool) /\ Cardinality(DOMAIN pool) \in Nat /\ MAX_POOL_SIZE \in Nat
    BY PoolFinite, NodePoolAssumption DEF TypeInv
  <2>2. CASE f.tx \in DOMAIN pool
    <3>1. DOMAIN pool' = DOMAIN pool
      BY <1>5, <2>2
    <3> QED
      BY <1>2, <1>4, <3>1 DEF Bounded
  <2>3. CASE f.tx \notin DOMAIN pool
    <3>1. Cardinality(DOMAIN pool') = Cardinality(DOMAIN pool) + 1
      BY <1>5, <2>1, <2>3, FS_AddElement
    <3>2. Cardinality(DOMAIN pool') <= MAX_POOL_SIZE
      BY <1>3, <2>1, <3>1
    <3> QED
      BY <1>2, <1>4, <3>2 DEF Bounded
  <2> QED
    BY <2>2, <2>3
<1>7. NoConflict'
  BY <1>2, <1>3, <1>5 DEF NoConflict, Conflicting
<1>8. AllIndexed'
  <2> SUFFICES ASSUME NEW x \in DOMAIN pool'
               PROVE  (Tracked(x, pool[x].rate) /\ Claims(x) /\ x \in cache)'
    BY DEF AllIndexed
  <2>1. CASE x = f.tx
    BY <1>3, <1>4, <1>5, <2>1 DEF Tracked, Claims
  <2>2. CASE x # f.tx
    <3>1. x \in DOMAIN pool /\ pool'[x] = pool[x]
      BY <1>5, <2>2
    <3>2. Tracked(x, pool[x].rate) /\ Claims(x) /\ x \in cache
      BY <1>2, <3>1 DEF AllIndexed
    <3> QED
      BY <1>4, <3>1, <3>2 DEF Tracked, Claims
  <2> QED
    BY <2>1, <2>2
<1> QED
  BY <1>2, <1>4, <1>6, <1>7, <1>8, CallEnds DEF TypeInv, Calm

(* The start of a call, when no other is under way. *)
LEMMA SerialCall ==
  ASSUME TypeInv, SerialInv, alone, Idle, NEW t \in Threads, Call(t)
  PROVE  Calm'
<1>1. Bounded /\ NoConflict /\ AllIndexed
  BY DEF SerialInv, Calm
<1>2. Bounded' /\ NoConflict' /\ AllIndexed'
  BY <1>1, Quiet DEF Call, parts
<1>3. PICK x \in Tx : \E rate \in Rates[x] :
          stack' = [stack EXCEPT ![t] = <<Frame(x, rate, MinDensity[x])>>]
  BY DEF Call
<1>4. PICK g : stack' = [stack EXCEPT ![t] = <<g>>] /\ g.pc = "admit" /\ g.todo = {}
  <2>1. PICK rate \in Rates[x] : stack' = [stack EXCEPT ![t] = <<Frame(x, rate, MinDensity[x])>>]
    BY <1>3
  <2>2. Frame(x, rate, MinDensity[x]).pc = "admit" /\ Frame(x, rate, MinDensity[x]).todo = {}
    BY DEF Frame
  <2> QED
    BY <2>1, <2>2, Zenon
<1>5. stack'[t] = <<g>> /\ \A u \in Threads : u # t => stack'[u] = <<>>
  BY <1>4 DEF Idle, TypeInv, StackTyped
<1>6. OneCall(t)' /\ stack'[t][1] = g
  BY <1>5 DEF OneCall
<1>7. FrameFacts(stack[t][1])'
  BY <1>4, <1>6 DEF FrameFacts
<1> QED
  BY <1>2, <1>6, <1>7 DEF Calm, Calls

(* An operation of one step, between calls. *)
LEMMA SerialOther ==
  ASSUME TypeInv, TypeInv', SerialInv, alone, Idle, PoolNext, stack' = stack,
         \A t \in Threads : ~Step(t)
  PROVE  Calm'
<1>1. Bounded /\ NoConflict /\ AllIndexed
  BY DEF SerialInv, Calm
<1>2. Calls'
  BY DEF Calls, Idle
<1>3. ASSUME NEW S, RemoveAll(S), graph' = graph PROVE Calm'
  <2>1. /\ DOMAIN pool' = DOMAIN pool \ S /\ \A x \in DOMAIN pool' : pool'[x] = pool[x]
        /\ limiter'.current <= limiter.current
        /\ \A x \in Tx \ S : \A rate : Tracked(x, rate) => Tracked(x, rate)'
        /\ cache' = cache \ S
    BY <1>3, RemoveAllFacts
  <2>2. \A x \in DOMAIN pool' : x \in Tx \ S
    BY <2>1 DEF TypeInv, PoolTyped
  <2>3. /\ \A x \in DOMAIN pool' : \A rate : Tracked(x, rate) => Tracked(x, rate)'
        /\ \A x \in DOMAIN pool' : Claims(x) => Claims(x)'
        /\ \A x \in DOMAIN pool' : x \in cache => x \in cache'
    BY <1>3, <2>1, <2>2 DEF Claims
  <2>4. Bounded' /\ NoConflict' /\ AllIndexed'
    BY <1>1, <2>1, <2>3, Shrinks
  <2> QED
    BY <1>2, <2>4 DEF Calm
<1>4. ASSUME NEW x \in Tx, RemoveTx(x) PROVE Calm'
  BY <1>3, <1>4 DEF RemoveTx
<1>5. CASE Reconcile
  BY <1>3, <1>5 DEF Reconcile
<1>6. ASSUME UNCHANGED <<limiter, sched, index, ordering, graph, cache>>,
             DOMAIN pool' \subseteq DOMAIN pool, \A x \in DOMAIN pool' : pool'[x].rate = pool[x].rate
      PROVE  Calm'
  <2>1. limiter'.current <= limiter.current
    BY <1>6 DEF TypeInv, LimiterOK
  <2>2. /\ \A x \in DOMAIN pool' : \A rate : Tracked(x, rate) => Tracked(x, rate)'
        /\ \A x \in DOMAIN pool' : Claims(x) => Claims(x)'
        /\ \A x \in DOMAIN pool' : x \in cache => x \in cache'
    BY <1>6 DEF Tracked, Claims
  <2>3. Bounded' /\ NoConflict' /\ AllIndexed'
    BY <1>1, <1>6, <2>1, <2>2, Shrinks
  <2> QED
    BY <1>2, <2>3 DEF Calm
<1>7. CASE CleanupExpired
  BY <1>6, <1>7 DEF CleanupExpired, Without, parts
<1>8. ASSUME NEW x \in Tx, NEW s \in Statuses, SetStatus(x, s) PROVE Calm'
  <2>1. DOMAIN pool' = DOMAIN pool
    BY <1>8 DEF SetStatus
  <2>2. ASSUME NEW y \in DOMAIN pool PROVE pool'[y].rate = pool[y].rate
    <3>1. pool[y] \in [rate : Nat, time : Nat, status : Statuses]
      BY DEF TypeInv, PoolTyped
    <3>2. pool'[y] = IF y = x THEN [pool[y] EXCEPT !.status = s] ELSE pool[y]
      BY <1>8 DEF SetStatus
    <3> QED
      BY <3>1, <3>2
  <2> QED
    BY <1>6, <1>8, <2>1, <2>2 DEF SetStatus, parts
<1>9. ASSUME NEW x \in Tx, BlockStored(x) PROVE Calm'
  BY <1>6, <1>9 DEF BlockStored, parts
<1>10. CASE CleanupOrphans \/ Tick
  BY <1>6, <1>10 DEF CleanupOrphans, Tick, parts
<1>11. CASE Clear
  <2>1. DOMAIN pool' = {} /\ limiter' = limiter
    BY <1>11 DEF Clear
  <2>2. Bounded'
    <3>1. Cardinality(DOMAIN pool') = 0
      BY <2>1, FS_EmptySet
    <3> QED
      BY <1>1, <2>1, <3>1, NodePoolAssumption DEF Bounded
  <2>3. NoConflict' /\ AllIndexed'
    BY <2>1 DEF NoConflict, AllIndexed
  <2> QED
    BY <1>2, <2>2, <2>3 DEF Calm
<1>12. ASSUME NEW t \in Threads PROVE ~Call(t)
  <2> SUFFICES ASSUME Call(t) PROVE FALSE
    OBVIOUS
  <2>1. PICK g : stack' = [stack EXCEPT ![t] = <<g>>]
    BY DEF Call
  <2>2. stack'[t] = <<g>> /\ stack[t] = <<>>
    BY <2>1 DEF Idle, TypeInv, StackTyped
  <2> QED
    BY <2>2
<1> QED
  BY <1>4, <1>5, <1>7, <1>8, <1>9, <1>10, <1>11, <1>12 DEF PoolNext

(* Every step keeps what holds as long as calls do not overlap. *)
LEMMA SerialStep == TypeInv /\ SerialInv /\ [PoolNext]_vars => SerialInv'
<1> SUFFICES ASSUME TypeInv, SerialInv, [PoolNext]_vars, alone' PROVE Calm'
  BY DEF SerialInv
<1>0. TypeInv'
  BY TypeStep
<1>1. ASSUME UNCHANGED vars PROVE Calm'
  <2>1. Bounded /\ NoConflict /\ AllIndexed /\ Calls
    BY <1>1 DEF SerialInv, Calm, vars
  <2>2. UNCHANGED <<pool, limiter, sched, index, ordering, graph, cache, orphans, now, stack>>
    BY <1>1 DEF vars, parts, env
  <2>3. Bounded' /\ NoConflict' /\ AllIndexed'
    BY <2>1, <2>2, Quiet
  <2>4. Calls'
    <3>1. CASE Idle
      BY <2>2, <3>1 DEF Calls, Idle
    <3>2. ASSUME NEW t \in Threads, OneCall(t), FrameFacts(stack[t][1]) PROVE Calls'
      <4>1. OneCall(t)'
        BY <2>2, <3>2 DEF OneCall
      <4>2. FrameFacts(stack[t][1])'
        BY <2>2, <3>2 DEF FrameFacts, Claims, Conflicting, Tracked, Beats, EffectiveFeeRate
      <4> QED
        BY <4>1, <4>2 DEF Calls
    <3> QED
      BY <2>1, <3>1, <3>2 DEF Calls
  <2> QED
    BY <2>3, <2>4 DEF Calm
<1>2. ASSUME NEW t \in Threads, Step(t) PROVE Calm'
  <2>1. alone
    BY <1>2 DEF Step, Admit, MakeSpace, Register, Resolve, Replace, Validate, Enter, Track, Link, Adopt,
                Offer, Insert
  <2> QED
    BY <1>0, <1>2, <2>1, SerialAdmit, SerialMakeSpace, SerialRegister, SerialResolve, SerialReplace,
       SerialValidate, SerialEnter, SerialTrack, SerialLink, SerialAdopt, SerialOffer, SerialInsert
       DEF Step
<1>3. ASSUME NEW t \in Threads, Call(t) PROVE Calm'
  <2>1. alone /\ Idle
    BY <1>3 DEF Call
  <2> QED
    BY <1>3, <2>1, SerialCall
<1>4. ASSUME PoolNext, \A t \in Threads : ~Step(t) /\ ~Call(t) PROVE Calm'
  <2>1. alone /\ Idle /\ stack' = stack
    <3>1. ASSUME NEW x \in Tx, RemoveTx(x) \/ BlockStored(x) \/ \E s \in Statuses : SetStatus(x, s)
          PROVE  alone /\ Idle /\ stack' = stack
      BY <3>1 DEF RemoveTx, BlockStored, SetStatus, Other
    <3>2. ASSUME CleanupExpired \/ CleanupOrphans \/ Reconcile \/ Clear \/ Tick
          PROVE  alone /\ Idle /\ stack' = stack
      BY <3>2 DEF CleanupExpired, CleanupOrphans, Reconcile, Clear, Tick, Other, Upkeep
    <3> QED
      BY <1>4, <3>1, <3>2 DEF PoolNext
  <2> QED
    BY <1>0, <1>4, <2>1, SerialOther
<1> QED
  BY <1>1, <1>2, <1>3, <1>4

----------------------------------------------------------------------------
PoolInv == TypeInv /\ GraphInv /\ SerialInv

(* The invariant holds in every state. *)
LEMMA PoolInvHolds == PoolSpec => []PoolInv
<1>1. PoolInit => SerialInv
  <2> SUFFICES ASSUME PoolInit PROVE Calm
    BY DEF SerialInv
  <2>1. DOMAIN pool = {} /\ limiter.current = 0
    BY DEF PoolInit, NewLimiter
  <2>2. Bounded
    BY <2>1, FS_EmptySet, NodePoolAssumption DEF Bounded
  <2>3. NoConflict /\ AllIndexed
    BY <2>1 DEF NoConflict, AllIndexed
  <2>4. Calls
    BY DEF PoolInit, Calls, Idle
  <2> QED
    BY <2>2, <2>3, <2>4 DEF Calm
<1>2. PoolInit => GraphInv
  BY NewGraphInv DEF PoolInit, GraphInv
<1> QED
  BY <1>1, <1>2, TypeInit, TypeStep, SerialStep, GraphInvStep, PTL DEF PoolSpec, PoolInv

(* The pool is sound: whatever calls overlap, its structures have their    *)
(* types, the limiter's total covers what it tracks, every orphan is filed *)
(* under each input it misses and no block candidate spends an output      *)
(* twice; and as long as no two operations overlap, the limits hold, no    *)
(* two pooled transactions conflict and every index knows every one.       *)
THEOREM PoolAlwaysSound == PoolSpec => []PoolSound
<1>1. PoolInv => PoolSound
  <2> SUFFICES ASSUME PoolInv PROVE PoolSound
    OBVIOUS
  <2>1. TypeInv /\ GraphInv /\ SerialInv
    BY DEF PoolInv
  <2>2. PoolTypeOK
    <3>1. ASSUME NEW t \in Threads, NEW i \in DOMAIN stack[t] PROVE stack[t][i].tx \in Tx
      <4>1. stack[t] \in Seq(Frames)
        BY <2>1 DEF TypeInv, StackTyped
      <4>2. stack[t][i] \in Frames
        BY <4>1
      <4> QED
        BY <4>2 DEF Frames
    <3> QED
      BY <2>1, <3>1 DEF TypeInv, PoolTypeOK, PoolTyped, ClockOK, OrderingOK, LimiterOK
  <2>3. TotalCoversWeights
    BY <2>1 DEF TypeInv, TotalCoversWeights, LimiterOK
  <2>4. CandidateConflictFree
    BY <2>1, BlocksConflictFree
  <2>5. OrphansFiled
    BY <2>1 DEF TypeInv, OrphansFiled, OrphansOK
  <2>6. SerialLimits /\ SerialConflictFree
    BY <2>1 DEF SerialInv, Calm, SerialLimits, SerialConflictFree, Bounded, NoConflict, Conflicting
  <2>7. SerialIndexed
    <3> SUFFICES ASSUME alone, NEW x \in DOMAIN pool
                 PROVE  /\ x \in DOMAIN sched /\ x \in cache
                        /\ x \in DOMAIN index.byHash /\ <<pool[x].rate, x>> \in index.economic
                        /\ ordering.entries[x] > 0 /\ x \in ordering.indexed
                        /\ KeysOf(Spends[x]) \X {x} \subseteq graph.claims
      BY DEF SerialIndexed
    <3>1. Tracked(x, pool[x].rate) /\ Claims(x) /\ x \in cache
      BY <2>1 DEF SerialInv, Calm, AllIndexed
    <3> QED
      BY <3>1 DEF Tracked, Claims
  <2> QED
    BY <2>2, <2>3, <2>4, <2>5, <2>6, <2>7 DEF PoolSound
<1> QED
  BY <1>1, PoolInvHolds, PTL

(* While calls do not overlap, a replacement takes out of the pool only    *)
(* what its transaction beats (_apply_deterministic_supremacy), although   *)
(* it compares with the strongest rival alone and removes them one by one. *)
THEOREM ReplacementsBetter == PoolSpec => ReplacedByBetter
<1>1. PoolInv /\ [PoolNext]_vars =>
        [alone => \A t \in Threads : (At(t, "replace") /\ stack'[t] # stack[t]) =>
            \A c \in DOMAIN pool \ DOMAIN pool' : Beats(Top(t).tx, Top(t).rate, c)]_vars
  <2> SUFFICES ASSUME PoolInv, PoolNext, alone, NEW t \in Threads, At(t, "replace"),
                      stack'[t] # stack[t]
               PROVE  \A c \in DOMAIN pool \ DOMAIN pool' : Beats(Top(t).tx, Top(t).rate, c)
    OBVIOUS
  <2>1. TypeInv /\ SerialInv /\ TypeInv'
    BY TypeStep DEF PoolInv
  <2>2. stack[t] # <<>> /\ Top(t).pc = "replace"
    BY DEF At
  <2>3. OneCall(t)
    BY <2>1, <2>2, SoleCall
  <2>4. ASSUME NEW u \in Threads, Step(u) PROVE u = t
    <3>1. stack[u] # <<>>
      BY <2>4 DEF Step, At, Admit, MakeSpace, Register, Resolve, Replace, Validate, Enter, Track, Link,
                  Adopt, Offer, Insert
    <3> QED
      BY <2>3, <3>1 DEF OneCall
  <2>5. ASSUME Step(t) PROVE Replace(t)
    BY <2>2, <2>5 DEF Step, At, Admit, MakeSpace, Register, Resolve, Validate, Enter, Track, Link,
                      Adopt, Offer, Insert
  <2>6. ASSUME NEW u \in Threads, Call(u) PROVE stack'[t] = stack[t]
    <3>1. stack[u] = <<>>
      BY <2>6 DEF Call
    <3>2. PICK g : stack' = [stack EXCEPT ![u] = g]
      BY <2>6 DEF Call
    <3> QED
      BY <2>2, <3>1, <3>2
  <2>7. ASSUME NEW x \in Tx, RemoveTx(x) \/ BlockStored(x) \/ \E s \in Statuses : SetStatus(x, s)
        PROVE  stack' = stack
    BY <2>7 DEF RemoveTx, BlockStored, SetStatus
  <2>8. ASSUME CleanupExpired \/ CleanupOrphans \/ Reconcile \/ Clear \/ Tick PROVE stack' = stack
    BY <2>8 DEF CleanupExpired, CleanupOrphans, Reconcile, Clear, Tick
  <2>9. Replace(t)
    BY <2>4, <2>5, <2>6, <2>7, <2>8 DEF PoolNext
  <2> QED
    BY <2>1, <2>9, SerialReplace
<1> QED
  BY <1>1, PoolInvHolds, PTL DEF PoolSpec, ReplacedByBetter

-----------------------------------------------------------------------------
(* Deferred tasks *)
Popping == INSTANCE Folding WITH Step <- LAMBDA time, acc, task : PopFront(time, acc, task)

TasksSpec == DtInit /\ [][DtNext]_dt

Task == [id : Nat, at : Nat]
Increasing(s) == \A i, j \in DOMAIN s : i < j => s[i] < s[j]
IdsOf(queue) == {queue[i].id : i \in 1 .. Len(queue)}
IdsInOrder(queue) == \A i, j \in 1 .. Len(queue) : i < j => queue[i].id < queue[j].id

LEMMA AppendIncreasing ==
  ASSUME NEW s \in Seq(Nat), Increasing(s), NEW x \in Nat, \A y \in Range(s) : y < x
  PROVE  /\ Append(s, x) \in Seq(Nat) /\ Increasing(Append(s, x))
         /\ Range(Append(s, x)) = Range(s) \union {x} /\ Len(Append(s, x)) = Len(s) + 1
<1> DEFINE a == Append(s, x)
           n == Len(s)
<1>1. n \in Nat /\ DOMAIN s = 1 .. n /\ \A i \in 1 .. n : s[i] \in Nat /\ s[i] \in Range(s)
  BY DEF Range
<1>2. /\ a \in Seq(Nat) /\ Len(a) = n + 1 /\ DOMAIN a = 1 .. n + 1 /\ a[n + 1] = x
      /\ \A i \in 1 .. n : a[i] = s[i]
  OBVIOUS
<1> HIDE DEF a, n
<1>3. Increasing(a)
  <2> SUFFICES ASSUME NEW i \in 1 .. n + 1, NEW j \in 1 .. n + 1, i < j PROVE a[i] < a[j]
    BY <1>2 DEF Increasing
  <2>1. i \in 1 .. n
    BY <1>1
  <2>2. CASE j = n + 1
    BY <1>1, <1>2, <2>1, <2>2
  <2>3. CASE j \in 1 .. n
    BY <1>1, <1>2, <2>1, <2>3 DEF Increasing
  <2> QED
    BY <1>1, <2>2, <2>3
<1>4. Range(a) = Range(s) \union {x}
  <2>1. \A y \in Range(a) : y \in Range(s) \union {x}
    <3> SUFFICES ASSUME NEW i \in 1 .. n + 1 PROVE a[i] \in Range(s) \union {x}
      BY <1>2 DEF Range
    <3>1. CASE i \in 1 .. n
      BY <1>1, <1>2, <3>1
    <3>2. CASE i = n + 1
      BY <1>2, <3>2
    <3> QED
      BY <1>1, <3>1, <3>2
  <2>2. \A y \in Range(s) : y \in Range(a)
    <3> SUFFICES ASSUME NEW i \in 1 .. n PROVE s[i] \in Range(a)
      BY <1>1 DEF Range
    <3>1. i \in DOMAIN a /\ a[i] = s[i]
      BY <1>1, <1>2
    <3> QED
      BY <3>1 DEF Range
  <2>3. x \in Range(a)
    <3>1. n + 1 \in DOMAIN a
      BY <1>1, <1>2
    <3> QED
      BY <1>2, <3>1 DEF Range
  <2> QED
    BY <2>1, <2>2, <2>3
<1> QED
  BY <1>2, <1>3, <1>4 DEF a, n

LEMMA ConcatIncreasing ==
  ASSUME NEW s \in Seq(Nat), NEW t \in Seq(Nat), Increasing(s), Increasing(t), \A x \in Range(s), y \in Range(t) : x < y
  PROVE  /\ s \o t \in Seq(Nat) /\ Increasing(s \o t)
         /\ Range(s \o t) = Range(s) \union Range(t) /\ Len(s \o t) = Len(s) + Len(t)
<1> DEFINE a == s \o t
           n == Len(s)
           m == Len(t)
<1>1. n \in Nat /\ DOMAIN s = 1 .. n /\ \A i \in 1 .. n : s[i] \in Nat /\ s[i] \in Range(s)
  BY DEF Range
<1>2. m \in Nat /\ DOMAIN t = 1 .. m /\ \A i \in 1 .. m : t[i] \in Nat /\ t[i] \in Range(t)
  BY DEF Range
<1>3. /\ a \in Seq(Nat) /\ Len(a) = n + m /\ DOMAIN a = 1 .. n + m
      /\ \A i \in 1 .. n + m : a[i] = IF i <= n THEN s[i] ELSE t[i - n]
  OBVIOUS
<1> HIDE DEF a, n, m
<1>4. \A i \in 1 .. n + m : i \in 1 .. n \/ (i - n \in 1 .. m /\ i > n)
  BY <1>1, <1>2
<1>5. Increasing(a)
  <2> SUFFICES ASSUME NEW i \in 1 .. n + m, NEW j \in 1 .. n + m, i < j PROVE a[i] < a[j]
    BY <1>3 DEF Increasing
  <2>1. CASE i \in 1 .. n /\ j \in 1 .. n
    <3>1. a[i] = s[i] /\ a[j] = s[j]
      BY <1>1, <1>3, <2>1
    <3> QED
      BY <1>1, <2>1, <3>1 DEF Increasing
  <2>2. CASE i \in 1 .. n /\ j - n \in 1 .. m /\ j > n
    <3>1. a[i] = s[i] /\ a[j] = t[j - n]
      BY <1>1, <1>3, <2>2
    <3> QED
      BY <1>1, <1>2, <2>2, <3>1
  <2>3. CASE i - n \in 1 .. m /\ i > n /\ j - n \in 1 .. m /\ j > n
    <3>1. a[i] = t[i - n] /\ a[j] = t[j - n] /\ i - n < j - n
      BY <1>1, <1>3, <2>3
    <3> QED
      BY <1>2, <2>3, <3>1 DEF Increasing
  <2> QED
    BY <1>1, <1>4, <2>1, <2>2, <2>3
<1>6. Range(a) = Range(s) \union Range(t)
  <2>1. ASSUME NEW i \in 1 .. n + m PROVE a[i] \in Range(s) \union Range(t)
    BY <1>1, <1>2, <1>3, <1>4
  <2>2. ASSUME NEW i \in 1 .. n PROVE s[i] \in Range(a)
    <3>1. i \in DOMAIN a /\ a[i] = s[i]
      BY <1>1, <1>2, <1>3
    <3> QED
      BY <3>1 DEF Range
  <2>3. ASSUME NEW i \in 1 .. m PROVE t[i] \in Range(a)
    <3>1. n + i \in DOMAIN a /\ a[n + i] = t[i]
      BY <1>1, <1>2, <1>3
    <3> QED
      BY <3>1 DEF Range
  <2> QED
    BY <1>1, <1>2, <1>3, <2>1, <2>2, <2>3 DEF Range
<1> QED
  BY <1>3, <1>5, <1>6 DEF a, n, m

(* What the loop takes is the front of the queue, in order, and each task  *)
(* of it goes into the batch or is dropped.                                *)
LEMMA DrainSound ==
  ASSUME NEW q \in Seq(Task), IdsInOrder(q), NEW time \in Nat
  PROVE  LET r == Drained(q, time)
         IN  /\ r.popped \in 0 .. Len(q) /\ r.batch \in Seq(Nat) /\ r.old \in SUBSET Nat
             /\ Range(r.batch) \union r.old = {q[i].id : i \in 1 .. r.popped}
             /\ Range(r.batch) \intersect r.old = {} /\ Increasing(r.batch)
<1> DEFINE base == [popped |-> 0, batch |-> <<>>, old |-> {}]
           n == Len(q)
           FrontIds(i) == {q[j].id : j \in 1 .. i}
           States == [popped : 0 .. n, batch : Seq(Nat), old : SUBSET Nat]
           Good(i, a) == /\ a \in States
                         /\ a.popped <= i /\ (a.popped = i \/ Len(a.batch) >= MaxBatch)
                         /\ Range(a.batch) \union a.old = FrontIds(a.popped)
                         /\ Range(a.batch) \intersect a.old = {} /\ Increasing(a.batch)
<1>1. n \in Nat /\ DOMAIN q = 1 .. n /\ \A i \in 1 .. n : q[i] \in Task /\ q[i].id \in Nat
  <2>1. n \in Nat /\ DOMAIN q = 1 .. n /\ \A i \in 1 .. n : q[i] \in Task
    OBVIOUS
  <2>2. \A x \in Task : x.id \in Nat
    BY DEF Task
  <2> QED
    BY <2>1, <2>2
<1>2. Drained(q, time) = Popping!Fold(time, base, q)
  BY Zenon DEF Drained, FoldLeft, MapThenFoldSet, Max, Popping!Fold, Popping!IsIter, Popping!Latest
<1>3. PICK f : Popping!IsTrace(time, f, base, q) /\ Popping!Fold(time, base, q) = f[n]
  <2>1. Len(q) \in Nat /\ DOMAIN q = 1 .. Len(q)
    BY <1>1
  <2> QED
    BY <2>1, Leasts, Popping!FoldTrace, Zenon
<1>4. f[0] = base /\ \A i \in 1 .. n : f[i] = PopFront(time, f[i - 1], q[i])
  BY <1>1, <1>3, Popping!TraceStep
<1> HIDE DEF n
<1> DEFINE G == {i \in 0 .. n : Good(i, f[i])}
<1>5. 0 \in G
  <2>1. base \in States /\ base.popped = 0 /\ base.batch = <<>> /\ base.old = {}
    BY <1>1
  <2> HIDE DEF base, States
  <2>2. Range(base.batch) = {} /\ Increasing(base.batch) /\ FrontIds(0) = {}
    BY <2>1 DEF Range, Increasing
  <2> QED
    BY <1>1, <1>4, <2>1, <2>2
<1>6. ASSUME NEW i \in 0 .. n - 1, i \in G PROVE i + 1 \in G
  <2> DEFINE a == f[i]
             task == q[i + 1]
             b == f[i + 1]
  <2>1. i + 1 \in 1 .. n /\ (i + 1) - 1 = i /\ i + 1 \in 0 .. n /\ i \in Nat
    BY <1>1
  <2>2. b = PopFront(time, a, task) /\ task \in Task /\ task.id \in Nat
    BY <1>1, <1>4, <2>1
  <2>3. Good(i, a)
    BY <1>6
  <2>4. Len(a.batch) \in Nat /\ MaxBatch \in Nat
    BY <2>3, TasksAssumption
  <2>5. \A y \in FrontIds(i) : y < task.id
    BY <1>1, <2>1 DEF IdsInOrder, n
  <2>6. FrontIds(i + 1) = FrontIds(i) \union {task.id}
    <3>1. \A j \in 1 .. i + 1 : j \in 1 .. i \/ j = i + 1
      BY <2>1
    <3>2. \A j \in 1 .. i : j \in 1 .. i + 1
      BY <2>1
    <3>3. i + 1 \in 1 .. i + 1
      BY <2>1
    <3> QED
      BY <3>1, <3>2, <3>3
  <2> HIDE DEF FrontIds, a, task, b
  <2>7. CASE Len(a.batch) >= MaxBatch
    <3>1. b = a
      BY <2>2, <2>7 DEF PopFront
    <3>2. Good(i + 1, a)
      BY <2>1, <2>3, <2>7
    <3> HIDE DEF Good
    <3> QED
      BY <2>1, <3>1, <3>2 DEF b
  <2>8. CASE ~(Len(a.batch) >= MaxBatch) /\ Expired(task, time)
    <3>1. b = [a EXCEPT !.popped = @ + 1, !.old = @ \union {task.id}] /\ a.popped = i
      BY <2>2, <2>3, <2>8 DEF PopFront
    <3>2. b \in States /\ b.popped = i + 1 /\ b.batch = a.batch /\ b.old = a.old \union {task.id}
      BY <2>1, <2>2, <2>3, <3>1
    <3>3. task.id \notin Range(a.batch)
      BY <2>2, <2>3, <2>5, <3>1
    <3>4. Range(b.batch) \union b.old = FrontIds(i + 1) /\ Range(b.batch) \intersect b.old = {}
      BY <2>3, <2>6, <3>1, <3>2, <3>3
    <3>5. Good(i + 1, b)
      BY <2>1, <2>3, <3>2, <3>4
    <3> HIDE DEF Good
    <3> QED
      BY <2>1, <3>5 DEF b
  <2>9. CASE ~(Len(a.batch) >= MaxBatch) /\ ~Expired(task, time)
    <3> DEFINE more == Append(a.batch, task.id)
    <3>1. b = [a EXCEPT !.popped = @ + 1, !.batch = more] /\ a.popped = i
      BY <2>2, <2>3, <2>9 DEF PopFront
    <3>2. \A y \in Range(a.batch) : y < task.id
      BY <2>3, <2>5, <3>1
    <3>3. more \in Seq(Nat) /\ Increasing(more) /\ Range(more) = Range(a.batch) \union {task.id}
      BY <2>2, <2>3, <3>2, AppendIncreasing
    <3> HIDE DEF more
    <3>4. b \in States /\ b.popped = i + 1 /\ b.batch = more /\ b.old = a.old
      BY <2>1, <2>3, <3>1, <3>3
    <3>5. task.id \notin a.old
      BY <2>2, <2>3, <2>5, <3>1
    <3>6. Range(b.batch) \union b.old = FrontIds(i + 1) /\ Range(b.batch) \intersect b.old = {}
      BY <2>3, <2>6, <3>1, <3>3, <3>4, <3>5
    <3>7. Good(i + 1, b)
      BY <2>1, <3>3, <3>4, <3>6
    <3> HIDE DEF Good
    <3> QED
      BY <2>1, <3>7 DEF b
  <2> QED
    BY <2>7, <2>8, <2>9
<1>7. n \in G
  <2> HIDE DEF G
  <2>1. \A i \in 0 .. n : i \in G
    BY <1>1, <1>5, <1>6, UpTo
  <2> QED
    BY <1>1, <2>1
<1> QED
  BY <1>2, <1>3, <1>7 DEF n

Ops == {"none", "direct", "processor", "count", "clear", "set", "show", "hide"}
CallShape == [op : Ops, now : Nat, n : Nat]
TaskShape(g) ==
  /\ DOMAIN g = {"queue", "last", "scheduled", "processed", "expired", "size", "running", "shown", "batches", "tasks",
                 "clock", "calls", "call", "out", "gone", "took", "takes", "early", "overtaken", "starts"}
  /\ g.queue \in Seq(Task) /\ g.out \in Seq(Nat) /\ g.call \in [Caller -> CallShape]
  /\ g.scheduled \in Nat /\ g.processed \in Nat /\ g.clock \in Nat /\ g.last \in Nat /\ g.took \in Nat
  /\ g.takes \in Nat /\ g.tasks \in Nat

\* a task is in one place, and what was handed over came before what is queued
Conserve(g) ==
  /\ IdsInOrder(g.queue) /\ Increasing(g.out) /\ g.processed = Len(g.out)
  /\ \A x \in Range(g.out), y \in IdsOf(g.queue) : x < y
  /\ IdsOf(g.queue) \union Range(g.out) \union g.gone = 1 .. g.scheduled
  /\ g.gone \intersect (IdsOf(g.queue) \union Range(g.out)) = {}

\* between the two locks of a clear the queue is empty
SizeShown(g) ==
  \/ g.overtaken
  \/ (\E p \in Caller : g.call[p].op = "clear") /\ g.queue = <<>>
  \/ (\A p \in Caller : g.call[p].op # "clear") /\ g.size = Len(g.queue)

\* a caller that has passed the check of the interval has passed it for good unless a batch was
\* taken since
Passed(g, c) == c.now <= g.clock /\ c.n <= g.takes /\ (c.n = g.takes => c.now >= g.last + MinInterval)
Throttled(g) ==
  /\ ~g.early /\ g.last = g.took /\ g.last <= g.clock
  /\ \A p \in Caller : g.call[p].op \in {"direct", "processor"} => Passed(g, g.call[p])

\* what the processor has taken and not counted yet
Flight(g) == [p \in Caller |-> IF g.call[p].op = "count" THEN g.call[p].n ELSE 0]
Counting(g) == g.tasks + Sum(Flight(g), Caller) <= g.processed

\* one start or stop at a time says what is so
Switches == {"set", "show", "hide"}
OneSwitch(g) == \A p, q \in Caller : g.call[p].op \in Switches /\ g.call[q].op \in Switches => p = q
Shown(g) ==
  \/ g.starts
  \/ /\ OneSwitch(g)
     /\ \A p \in Caller : (g.call[p].op = "show" => g.running = TRUE) /\ (g.call[p].op = "hide" => g.running = FALSE)
     /\ (\A p \in Caller : g.call[p].op \notin Switches) => g.shown = g.running

TasksInv(g) == TaskShape(g) /\ Conserve(g) /\ SizeShown(g) /\ Throttled(g) /\ Counting(g) /\ Shown(g)

\* h differs from g in what the thread p is at, and in fields that are named apart
CallStep(g, h, p, c) ==
  /\ DOMAIN h = DOMAIN g /\ c \in CallShape
  /\ h.call = [g.call EXCEPT ![p] = c]

LEMMA CallSteps ==
  ASSUME NEW g, NEW h, NEW p \in Caller, NEW c, TaskShape(g), CallStep(g, h, p, c)
  PROVE  h.call \in [Caller -> CallShape] /\ h.call[p] = c /\ \A q \in Caller : q # p => h.call[q] = g.call[q]
  BY DEF TaskShape, CallStep

LEMMA ConserveSame ==
  ASSUME NEW g, NEW h, Conserve(g), h.queue = g.queue, h.out = g.out, h.gone = g.gone, h.scheduled = g.scheduled,
         h.processed = g.processed
  PROVE  Conserve(h)
  BY DEF Conserve

LEMMA SizeSame ==
  ASSUME NEW g, NEW h, NEW p \in Caller, NEW c, TaskShape(g), SizeShown(g), CallStep(g, h, p, c),
         h.queue = g.queue, h.size = g.size, h.overtaken = g.overtaken, c.op # "clear", g.call[p].op # "clear"
  PROVE  SizeShown(h)
<1>0. h.call[p] = c /\ \A q \in Caller : q # p => h.call[q] = g.call[q]
  BY DEF TaskShape, CallStep
<1>1. \A q \in Caller : h.call[q].op = "clear" <=> g.call[q].op = "clear"
  BY <1>0
<1> QED
  BY <1>1 DEF SizeShown

LEMMA ThrottledSame ==
  ASSUME NEW g, NEW h, NEW p \in Caller, NEW c, TaskShape(g), Throttled(g), CallStep(g, h, p, c),
         h.early = g.early, h.last = g.last, h.took = g.took, h.takes = g.takes, h.clock = g.clock,
         c.op \in {"direct", "processor"} => Passed(g, c)
  PROVE  Throttled(h)
<1>0. h.call[p] = c /\ \A q \in Caller : q # p => h.call[q] = g.call[q]
  BY DEF TaskShape, CallStep
<1>1. ASSUME NEW q \in Caller, h.call[q].op \in {"direct", "processor"} PROVE Passed(h, h.call[q])
  <2>1. CASE q = p
    BY <1>1, <2>1, <1>0 DEF Passed
  <2>2. CASE q # p
    BY <1>1, <2>2, <1>0 DEF Passed, Throttled
  <2> QED
    BY <2>1, <2>2
<1> QED
  BY <1>1 DEF Throttled

LEMMA CountingSame ==
  ASSUME NEW g, NEW h, NEW p \in Caller, NEW c, TaskShape(g), Counting(g), CallStep(g, h, p, c),
         h.tasks = g.tasks, h.processed = g.processed, c.op # "count", g.call[p].op # "count"
  PROVE  Counting(h)
<1>0. h.call[p] = c /\ \A q \in Caller : q # p => h.call[q] = g.call[q]
  BY DEF TaskShape, CallStep
<1>1. \A q \in Caller : Flight(h)[q] = Flight(g)[q]
  BY <1>0 DEF Flight
<1>2. Flight(h) = Flight(g)
  BY <1>1 DEF Flight
<1> QED
  BY <1>2 DEF Counting

LEMMA ShownSame ==
  ASSUME NEW g, NEW h, NEW p \in Caller, NEW c, TaskShape(g), Shown(g), CallStep(g, h, p, c),
         h.starts = g.starts, h.running = g.running, h.shown = g.shown,
         c.op \notin Switches, g.call[p].op \notin Switches
  PROVE  Shown(h)
<1>0. h.call[p] = c /\ \A q \in Caller : q # p => h.call[q] = g.call[q]
  BY DEF TaskShape, CallStep
<1>1. \A q \in Caller : h.call[q].op \in Switches => q # p /\ h.call[q].op = g.call[q].op
  BY <1>0
<1>2. \A q \in Caller : g.call[q].op \in Switches => q # p /\ h.call[q].op = g.call[q].op
  BY <1>0
<1>3. {"show", "hide"} \subseteq Switches
  BY DEF Switches
<1>4. OneSwitch(g) => OneSwitch(h)
  BY <1>1, <1>2 DEF OneSwitch
<1> QED
  BY <1>1, <1>2, <1>3, <1>4 DEF Shown

\* the flights with that of one thread changed
LEMMA FlightStep ==
  ASSUME NEW g, NEW h, NEW p \in Caller, NEW c, TaskShape(g), CallStep(g, h, p, c)
  PROVE  /\ Sum(Flight(g), Caller) \in Nat /\ Sum(Flight(h), Caller) \in Nat
         /\ Flight(g)[p] \in Nat /\ Flight(h)[p] \in Nat
         /\ Sum(Flight(h), Caller) + Flight(g)[p] = Sum(Flight(g), Caller) + Flight(h)[p]
<1> DEFINE v == Flight(g)
           w == Flight(h)
           rest == Caller \ {p}
<1>1. IsFiniteSet(Caller) /\ IsFiniteSet(rest)
  BY TasksAssumption, FS_Subset
<1>2. \A q \in Caller : g.call[q].n \in Nat /\ h.call[q].n \in Nat
  BY CallSteps DEF TaskShape, CallShape
<1>3. \A q \in Caller : v[q] \in Nat /\ w[q] \in Nat
  BY <1>2 DEF Flight
<1>4. \A q \in rest : w[q] = v[q]
  <2>1. \A q \in Caller : q # p => h.call[q] = g.call[q]
    BY DEF TaskShape, CallStep
  <2>2. \A q \in rest : h.call[q] = g.call[q]
    BY <2>1, Zenon
  <2> QED
    BY <2>2 DEF Flight
<1> HIDE DEF v, w
<1>5. Sum(v, Caller) \in Nat /\ Sum(v, rest) \in Nat /\ Sum(v, Caller) = Sum(v, rest) + v[p]
  BY <1>1, <1>3, SumRemove
<1>6. Sum(w, Caller) \in Nat /\ Sum(w, rest) \in Nat /\ Sum(w, Caller) = Sum(w, rest) + w[p]
  BY <1>1, <1>3, SumRemove
<1>7. Sum(w, rest) = Sum(v, rest)
  BY <1>1, <1>3, <1>4, SumSame
<1>8. v[p] \in Nat /\ w[p] \in Nat
  BY <1>3
<1>9. Sum(w, Caller) + v[p] = Sum(v, Caller) + w[p]
  <2> HIDE DEF rest
  <2> QED
    BY <1>5, <1>6, <1>7, <1>8
<1> QED
  BY <1>5, <1>6, <1>8, <1>9 DEF v, w

\* a step that touches neither the queue nor the counts nor the times
SameTasks(g, h) ==
  /\ h.queue = g.queue /\ h.out = g.out /\ h.gone = g.gone /\ h.scheduled = g.scheduled /\ h.processed = g.processed
  /\ h.size = g.size /\ h.overtaken = g.overtaken /\ h.tasks = g.tasks
  /\ h.early = g.early /\ h.last = g.last /\ h.took = g.took /\ h.takes = g.takes /\ h.clock = g.clock
Plain == {"none", "set", "show", "hide"}

LEMMA PlainStep ==
  ASSUME NEW g, NEW h, NEW p \in Caller, NEW c, TasksInv(g), CallStep(g, h, p, c), SameTasks(g, h),
         c.op \in Plain, g.call[p].op \in Plain, Shown(h)
  PROVE  TasksInv(h)
<1>1. /\ TaskShape(g) /\ Conserve(g) /\ SizeShown(g) /\ Throttled(g) /\ Counting(g)
      /\ c.op \notin {"clear", "direct", "processor", "count"} /\ g.call[p].op \notin {"clear", "count"}
  BY DEF TasksInv, Plain
<1>2. TaskShape(h)
  BY <1>1 DEF TaskShape, SameTasks, CallStep
<1>3. Conserve(h)
  BY <1>1, ConserveSame DEF SameTasks
<1>4. SizeShown(h)
  BY <1>1, SizeSame DEF SameTasks
<1>5. Throttled(h)
  BY <1>1, ThrottledSame DEF SameTasks
<1>6. Counting(h)
  BY <1>1, CountingSame DEF SameTasks
<1> QED
  BY <1>2, <1>3, <1>4, <1>5, <1>6 DEF TasksInv

LEMMA StartKeeps ==
  ASSUME TasksInv(dt), NEW p \in Caller, Start(p)
  PROVE  TasksInv(dt')
<1> DEFINE c == [dt.call[p] EXCEPT !.op = "set"]
<1>1. TaskShape(dt) /\ Shown(dt) /\ dt.call[p] \in CallShape /\ dt.call[p].op = "none"
  BY DEF TasksInv, TaskShape, Start, EnterCall, TaskAt
<1>2. c \in CallShape /\ c.op = "set"
  BY <1>1 DEF CallShape, Ops
<1>3. /\ CallStep(dt, dt', p, c) /\ SameTasks(dt, dt') /\ dt'.running = dt.running /\ dt'.shown = dt.shown
      /\ dt'.starts = (dt.starts \/ Switching)
  BY <1>1, <1>2 DEF TaskShape, Start, EnterCall, CallStep, SameTasks
<1> HIDE DEF c
<1>4. dt'.call[p] = c /\ \A q \in Caller : q # p => dt'.call[q] = dt.call[q]
  BY <1>1, <1>3 DEF TaskShape, CallStep
<1>5. Shown(dt')
  <2>1. CASE dt'.starts
    BY <2>1 DEF Shown
  <2>2. CASE ~dt'.starts
    <3>1. \A q \in Caller : dt.call[q].op \notin Switches
      BY <1>3, <2>2 DEF Switching, Switches
    <3>2. \A q \in Caller : dt'.call[q].op \in Switches => q = p
      BY <1>4, <3>1
    <3>3. c.op \in Switches /\ "set" # "show" /\ "set" # "hide" /\ "show" \in Switches /\ "hide" \in Switches
      BY <1>2 DEF Switches
    <3>4. \A q \in Caller : dt'.call[q].op # "show" /\ dt'.call[q].op # "hide"
      BY <1>2, <1>4, <3>2, <3>3
    <3>5. ~(\A q \in Caller : dt'.call[q].op \notin Switches)
      BY <1>4, <3>3
    <3> QED
      BY <3>2, <3>4, <3>5 DEF Shown, OneSwitch
  <2> QED
    BY <2>1, <2>2
<1>6. c.op \in Plain /\ dt.call[p].op \in Plain
  BY <1>1, <1>2 DEF Plain
<1> QED
  BY <1>3, <1>5, <1>6, PlainStep

LEMMA StopKeeps ==
  ASSUME TasksInv(dt), NEW p \in Caller, Stop(p)
  PROVE  TasksInv(dt')
<1> DEFINE c == [dt.call[p] EXCEPT !.op = "hide"]
<1>1. TaskShape(dt) /\ Shown(dt) /\ dt.call[p] \in CallShape /\ dt.call[p].op = "none"
  BY DEF TasksInv, TaskShape, Stop, EnterCall, TaskAt
<1>2. c \in CallShape /\ c.op = "hide"
  BY <1>1 DEF CallShape, Ops
<1>3. /\ CallStep(dt, dt', p, c) /\ SameTasks(dt, dt') /\ dt'.running = FALSE /\ dt'.shown = dt.shown
      /\ dt'.starts = (dt.starts \/ Switching)
  BY <1>1, <1>2 DEF TaskShape, Stop, EnterCall, CallStep, SameTasks
<1> HIDE DEF c
<1>4. dt'.call[p] = c /\ \A q \in Caller : q # p => dt'.call[q] = dt.call[q]
  BY <1>1, <1>3 DEF TaskShape, CallStep
<1>5. Shown(dt')
  <2>1. CASE dt'.starts
    BY <2>1 DEF Shown
  <2>2. CASE ~dt'.starts
    <3>1. \A q \in Caller : dt.call[q].op \notin Switches
      BY <1>3, <2>2 DEF Switching, Switches
    <3>2. \A q \in Caller : dt'.call[q].op \in Switches => q = p
      BY <1>4, <3>1
    <3>3. c.op \in Switches /\ "hide" # "show" /\ "show" \in Switches
      BY <1>2 DEF Switches
    <3>4. \A q \in Caller : dt'.call[q].op # "show"
      BY <1>2, <1>4, <3>2, <3>3
    <3>5. ~(\A q \in Caller : dt'.call[q].op \notin Switches)
      BY <1>4, <3>3
    <3> QED
      BY <1>3, <3>2, <3>4, <3>5 DEF Shown, OneSwitch
  <2> QED
    BY <2>1, <2>2
<1>6. c.op \in Plain /\ dt.call[p].op \in Plain
  BY <1>1, <1>2 DEF Plain
<1> QED
  BY <1>3, <1>5, <1>6, PlainStep

LEMMA StartSetKeeps ==
  ASSUME TasksInv(dt), NEW p \in Caller, StartSet(p)
  PROVE  TasksInv(dt')
<1> DEFINE c == [dt.call[p] EXCEPT !.op = "show"]
<1>1. TaskShape(dt) /\ Shown(dt) /\ dt.call[p] \in CallShape /\ dt.call[p].op = "set"
  BY DEF TasksInv, TaskShape, StartSet, TaskAt
<1>2. c \in CallShape /\ c.op = "show"
  BY <1>1 DEF CallShape, Ops
<1>3. /\ CallStep(dt, dt', p, c) /\ SameTasks(dt, dt') /\ dt'.running = TRUE /\ dt'.shown = dt.shown
      /\ dt'.starts = dt.starts
  BY <1>1, <1>2 DEF TaskShape, StartSet, CallStep, SameTasks
<1> HIDE DEF c
<1>4. dt'.call[p] = c /\ \A q \in Caller : q # p => dt'.call[q] = dt.call[q]
  BY <1>1, <1>3 DEF TaskShape, CallStep
<1>5. Shown(dt')
  <2>1. CASE dt'.starts
    BY <2>1 DEF Shown
  <2>2. CASE ~dt'.starts
    <3>1. OneSwitch(dt) /\ dt.call[p].op \in Switches
      BY <1>1, <1>3, <2>2 DEF Shown, Switches
    <3>2. \A q \in Caller : dt'.call[q].op \in Switches => q = p
      BY <1>4, <3>1 DEF OneSwitch
    <3>3. c.op \in Switches /\ "hide" # "show" /\ "hide" \in Switches
      BY <1>2 DEF Switches
    <3>4. \A q \in Caller : dt'.call[q].op # "hide"
      BY <1>2, <1>4, <3>2, <3>3
    <3>5. ~(\A q \in Caller : dt'.call[q].op \notin Switches)
      BY <1>4, <3>3
    <3> QED
      BY <1>3, <3>2, <3>4, <3>5 DEF Shown, OneSwitch
  <2> QED
    BY <2>1, <2>2
<1>6. c.op \in Plain /\ dt.call[p].op \in Plain
  BY <1>1, <1>2 DEF Plain
<1> QED
  BY <1>3, <1>5, <1>6, PlainStep

LEMMA SwitchEnds ==
  ASSUME TasksInv(dt), NEW p \in Caller, StartShow(p) \/ StopShow(p)
  PROVE  TasksInv(dt')
<1>1. TaskShape(dt) /\ Shown(dt) /\ dt.call[p] \in CallShape /\ dt.call[p].op \in {"show", "hide"}
  BY DEF TasksInv, TaskShape, StartShow, StopShow, TaskAt
<1>2. NoCall \in CallShape /\ NoCall.op = "none"
  BY DEF CallShape, Ops, NoCall
<1>3. /\ CallStep(dt, dt', p, NoCall) /\ SameTasks(dt, dt') /\ dt'.running = dt.running /\ dt'.starts = dt.starts
      /\ \/ dt.call[p].op = "show" /\ dt'.shown = TRUE
         \/ dt.call[p].op = "hide" /\ dt'.shown = FALSE
  <2> HIDE DEF NoCall
  <2>1. CASE StartShow(p)
    BY <1>1, <1>2, <2>1 DEF TaskShape, StartShow, TaskAt, CallStep, SameTasks
  <2>2. CASE StopShow(p)
    BY <1>1, <1>2, <2>2 DEF TaskShape, StopShow, TaskAt, CallStep, SameTasks
  <2> QED
    BY <2>1, <2>2
<1>4. dt'.call[p] = NoCall /\ \A q \in Caller : q # p => dt'.call[q] = dt.call[q]
  BY <1>1, <1>3 DEF TaskShape, CallStep
<1>5. Shown(dt')
  <2>1. CASE dt'.starts
    BY <2>1 DEF Shown
  <2>2. CASE ~dt'.starts
    <3>1. OneSwitch(dt) /\ dt.call[p].op \in Switches /\ "none" \notin Switches
      BY <1>1, <1>3, <2>2 DEF Shown, Switches
    <3>2. \A q \in Caller : dt'.call[q].op \notin Switches
      BY <1>2, <1>4, <3>1 DEF OneSwitch
    <3>3. "show" \in Switches /\ "hide" \in Switches
      BY DEF Switches
    <3>4. dt'.shown = dt'.running
      BY <1>1, <1>3, <2>2 DEF Shown
    <3> QED
      BY <3>2, <3>3, <3>4 DEF Shown, OneSwitch
  <2> QED
    BY <2>1, <2>2
<1>6. NoCall.op \in Plain /\ dt.call[p].op \in Plain
  BY <1>1, <1>2 DEF Plain
<1> QED
  BY <1>3, <1>5, <1>6, PlainStep

LEMMA ScheduleKeeps ==
  ASSUME TasksInv(dt), NEW p \in Caller, ScheduleResolution(p)
  PROVE  TasksInv(dt')
<1> DEFINE c == dt.call[p]
           x == dt.scheduled + 1
           task == [id |-> x, at |-> dt.clock]
           n == Len(dt.queue)
<1>1. /\ TaskShape(dt) /\ Conserve(dt) /\ SizeShown(dt) /\ Throttled(dt) /\ Counting(dt) /\ Shown(dt)
      /\ c \in CallShape /\ c.op = "none" /\ dt.scheduled \in Nat /\ dt.queue \in Seq(Task) /\ n \in Nat
  BY DEF TasksInv, TaskShape, ScheduleResolution, EnterCall, TaskAt
<1>2. x \in Nat /\ task \in Task /\ task.id = x
  BY <1>1 DEF TaskShape, Task
<1>3. /\ CallStep(dt, dt', p, c) /\ dt'.queue = Append(dt.queue, task) /\ dt'.scheduled = x
      /\ dt'.size = n + 1 /\ dt'.overtaken = (dt.overtaken \/ During("clear"))
      /\ dt'.out = dt.out /\ dt'.gone = dt.gone /\ dt'.processed = dt.processed /\ dt'.tasks = dt.tasks
      /\ dt'.early = dt.early /\ dt'.last = dt.last /\ dt'.took = dt.took /\ dt'.takes = dt.takes
      /\ dt'.clock = dt.clock /\ dt'.starts = dt.starts /\ dt'.running = dt.running /\ dt'.shown = dt.shown
  BY <1>1 DEF TaskShape, ScheduleResolution, EnterCall, CallStep
<1> HIDE DEF task, x, n
<1>4. /\ dt'.queue \in Seq(Task) /\ Len(dt'.queue) = n + 1 /\ dt'.queue[n + 1] = task
      /\ \A i \in 1 .. n : dt'.queue[i] = dt.queue[i]
  BY <1>1, <1>2, <1>3 DEF n
<1>5. TaskShape(dt')
  BY <1>1, <1>2, <1>3, <1>4 DEF TaskShape, CallStep
<1>6. Conserve(dt')
  <2>1. IdsOf(dt'.queue) = IdsOf(dt.queue) \union {x}
    <3>1. \A i \in 1 .. n + 1 : i \in 1 .. n \/ i = n + 1
      BY <1>1
    <3>2. \A i \in 1 .. n : i \in 1 .. n + 1
      BY <1>1
    <3>3. n + 1 \in 1 .. n + 1
      BY <1>1
    <3>4. IdsOf(dt.queue) = {dt.queue[i].id : i \in 1 .. n} /\ IdsOf(dt'.queue) = {dt'.queue[i].id : i \in 1 .. n + 1}
      BY <1>4 DEF IdsOf, n
    <3> QED
      BY <1>2, <1>4, <3>1, <3>2, <3>3, <3>4
  <2>2. \A y \in IdsOf(dt.queue) \union Range(dt.out) \union dt.gone : y \in Nat /\ y < x
    BY <1>1 DEF Conserve, x
  <2>3. IdsInOrder(dt'.queue)
    <3> SUFFICES ASSUME NEW i \in 1 .. n + 1, NEW j \in 1 .. n + 1, i < j PROVE dt'.queue[i].id < dt'.queue[j].id
      BY <1>4 DEF IdsInOrder
    <3>1. i \in 1 .. n /\ dt.queue[i].id \in IdsOf(dt.queue)
      BY <1>1 DEF IdsOf, n
    <3>2. CASE j = n + 1
      BY <1>2, <1>4, <2>2, <3>1, <3>2
    <3>3. CASE j \in 1 .. n
      BY <1>1, <1>4, <3>1, <3>3 DEF Conserve, IdsInOrder, n
    <3> QED
      BY <1>1, <3>2, <3>3
  <2>4. 1 .. x = (1 .. dt.scheduled) \union {x}
    BY <1>1 DEF x
  <2>5. \A a \in Range(dt'.out), b \in IdsOf(dt'.queue) : a < b
    BY <1>1, <1>3, <2>1, <2>2 DEF Conserve
  <2>6. IdsOf(dt'.queue) \union Range(dt'.out) \union dt'.gone = 1 .. dt'.scheduled
    BY <1>1, <1>3, <2>1, <2>4 DEF Conserve
  <2>7. x \notin dt.gone
    BY <1>2, <2>2
  <2>8. dt'.gone \intersect (IdsOf(dt'.queue) \union Range(dt'.out)) = {}
    BY <1>1, <1>3, <2>1, <2>7 DEF Conserve
  <2> QED
    BY <1>1, <1>3, <2>3, <2>5, <2>6, <2>8 DEF Conserve
<1>7. SizeShown(dt')
  <2>1. \A q \in Caller : dt'.call[q] = dt.call[q]
    BY <1>1, <1>3 DEF TaskShape, CallStep
  <2>2. CASE During("clear")
    BY <1>3, <2>2 DEF SizeShown
  <2>3. CASE ~During("clear")
    <3>1. \A q \in Caller : dt'.call[q].op # "clear"
      BY <2>1, <2>3 DEF During, TaskAt
    <3> QED
      BY <1>3, <1>4, <3>1 DEF SizeShown
  <2> QED
    BY <2>2, <2>3
<1> HIDE DEF c
<1>8. Throttled(dt')
  BY <1>1, <1>3, ThrottledSame
<1>9. Counting(dt')
  BY <1>1, <1>3, CountingSame DEF c
<1>10. Shown(dt')
  <2>1. c.op \notin Switches /\ dt.call[p].op \notin Switches
    BY <1>1 DEF Switches, c
  <2> QED
    BY <1>1, <1>3, <2>1, ShownSame
<1> QED
  BY <1>5, <1>6, <1>7, <1>8, <1>9, <1>10 DEF TasksInv

LEMMA ProcessKeeps ==
  ASSUME TasksInv(dt), NEW p \in Caller, NEW owner \in {"direct", "processor"}, ProcessBatch(p, owner)
  PROVE  TasksInv(dt')
<1> DEFINE c == IF dt.clock < dt.last + MinInterval THEN NoCall ELSE [op |-> owner, now |-> dt.clock, n |-> dt.takes]
<1>1. /\ TaskShape(dt) /\ Conserve(dt) /\ SizeShown(dt) /\ Throttled(dt) /\ Counting(dt) /\ Shown(dt)
      /\ dt.call[p].op = "none" /\ dt.clock \in Nat /\ dt.takes \in Nat /\ dt.last \in Nat
  BY DEF TasksInv, TaskShape, ProcessBatch, EnterCall, TaskAt
<1>2. c \in CallShape /\ c.op \in {"none", "direct", "processor"}
  BY <1>1 DEF CallShape, Ops, NoCall
<1>3. c.op \in {"direct", "processor"} => Passed(dt, c)
  BY <1>1, TasksAssumption DEF NoCall, Passed
<1>4. dt' = [dt EXCEPT !.calls = @ + 1, !.call[p] = c]
  BY DEF ProcessBatch, EnterCall
<1> HIDE DEF c
<1>5. CallStep(dt, dt', p, c) /\ SameTasks(dt, dt') /\ dt'.starts = dt.starts /\ dt'.running = dt.running /\ dt'.shown = dt.shown
  BY <1>1, <1>2, <1>4 DEF TaskShape, CallStep, SameTasks
<1>6. TaskShape(dt') /\ Conserve(dt')
  BY <1>1, <1>5, ConserveSame DEF TaskShape, SameTasks, CallStep
<1>7. SizeShown(dt')
  BY <1>1, <1>2, <1>5, SizeSame DEF SameTasks
<1>8. Throttled(dt')
  BY <1>1, <1>3, <1>5, ThrottledSame DEF SameTasks
<1>9. Counting(dt')
  BY <1>1, <1>2, <1>5, CountingSame DEF SameTasks
<1>10. Shown(dt')
  <2>1. dt.call[p].op \notin Switches /\ c.op \notin Switches
    BY <1>1, <1>2 DEF Switches
  <2> QED
    BY <1>1, <1>5, <2>1, ShownSame
<1> QED
  BY <1>6, <1>7, <1>8, <1>9, <1>10 DEF TasksInv

LEMMA CountBatchKeeps ==
  ASSUME TasksInv(dt), NEW p \in Caller, CountBatch(p)
  PROVE  TasksInv(dt')
<1>1. /\ TaskShape(dt) /\ Conserve(dt) /\ SizeShown(dt) /\ Throttled(dt) /\ Counting(dt) /\ Shown(dt)
      /\ dt.call[p] \in CallShape /\ dt.call[p].op = "count" /\ dt.call[p].n \in Nat /\ dt.tasks \in Nat /\ dt.processed \in Nat
  BY DEF TasksInv, TaskShape, CountBatch, TaskAt, CallShape
<1>2. NoCall \in CallShape /\ NoCall.op = "none"
  BY DEF CallShape, Ops, NoCall
<1> HIDE DEF NoCall
<1>3. /\ CallStep(dt, dt', p, NoCall) /\ dt'.tasks = dt.tasks + dt.call[p].n
      /\ dt'.queue = dt.queue /\ dt'.out = dt.out /\ dt'.gone = dt.gone /\ dt'.scheduled = dt.scheduled
      /\ dt'.processed = dt.processed /\ dt'.size = dt.size /\ dt'.overtaken = dt.overtaken
      /\ dt'.early = dt.early /\ dt'.last = dt.last /\ dt'.took = dt.took /\ dt'.takes = dt.takes
      /\ dt'.clock = dt.clock /\ dt'.starts = dt.starts /\ dt'.running = dt.running /\ dt'.shown = dt.shown
  BY <1>1, <1>2 DEF TaskShape, CountBatch, CallStep
<1>4. TaskShape(dt') /\ Conserve(dt')
  <2>1. TaskShape(dt')
    BY <1>1, <1>3 DEF TaskShape, CallStep
  <2>2. Conserve(dt')
    BY <1>1, <1>3, ConserveSame
  <2> QED
    BY <2>1, <2>2
<1>5. SizeShown(dt')
  BY <1>1, <1>2, <1>3, SizeSame
<1>6. Throttled(dt')
  BY <1>1, <1>2, <1>3, ThrottledSame
<1>7. Counting(dt')
  <2> DEFINE a == Sum(Flight(dt), Caller)
             b == Sum(Flight(dt'), Caller)
  <2>1. dt'.call[p] = NoCall
    BY <1>1, <1>3 DEF TaskShape, CallStep
  <2>2. Flight(dt)[p] = dt.call[p].n /\ Flight(dt')[p] = 0
    BY <1>1, <1>2, <2>1 DEF Flight
  <2>3. a \in Nat /\ b \in Nat /\ b + Flight(dt)[p] = a + Flight(dt')[p]
    BY <1>1, <1>3, FlightStep
  <2> HIDE DEF a, b
  <2>4. b + dt.call[p].n = a
    BY <1>1, <2>2, <2>3
  <2>5. dt.tasks + a <= dt.processed
    BY <1>1 DEF Counting, a
  <2>6. dt'.tasks + b <= dt'.processed
    BY <1>1, <1>3, <2>3, <2>4, <2>5
  <2> QED
    BY <2>6 DEF Counting, b
<1>8. Shown(dt')
  <2>1. dt.call[p].op \notin Switches /\ NoCall.op \notin Switches
    BY <1>1, <1>2 DEF Switches
  <2> QED
    BY <1>1, <1>3, <2>1, ShownSame
<1> QED
  BY <1>4, <1>5, <1>6, <1>7, <1>8 DEF TasksInv

LEMMA ClearStatsKeeps ==
  ASSUME TasksInv(dt), NEW p \in Caller, ClearStats(p)
  PROVE  TasksInv(dt')
<1> DEFINE c == dt.call[p]
<1>1. /\ TaskShape(dt) /\ Conserve(dt) /\ SizeShown(dt) /\ Throttled(dt) /\ Counting(dt) /\ Shown(dt)
      /\ c \in CallShape /\ c.op = "none" /\ dt.tasks \in Nat /\ dt.processed \in Nat
  BY DEF TasksInv, TaskShape, ClearStats, EnterCall, TaskAt
<1>2. /\ CallStep(dt, dt', p, c) /\ dt'.tasks = 0
      /\ dt'.queue = dt.queue /\ dt'.out = dt.out /\ dt'.gone = dt.gone /\ dt'.scheduled = dt.scheduled
      /\ dt'.processed = dt.processed /\ dt'.size = dt.size /\ dt'.overtaken = dt.overtaken
      /\ dt'.early = dt.early /\ dt'.last = dt.last /\ dt'.took = dt.took /\ dt'.takes = dt.takes
      /\ dt'.clock = dt.clock /\ dt'.starts = dt.starts /\ dt'.running = dt.running /\ dt'.shown = dt.shown
  BY <1>1 DEF TaskShape, ClearStats, EnterCall, CallStep
<1> HIDE DEF c
<1>3. TaskShape(dt') /\ Conserve(dt')
  <2>1. TaskShape(dt')
    BY <1>1, <1>2 DEF TaskShape, CallStep
  <2>2. Conserve(dt')
    BY <1>1, <1>2, ConserveSame
  <2> QED
    BY <2>1, <2>2
<1>4. SizeShown(dt')
  BY <1>1, <1>2, SizeSame DEF c
<1>5. Throttled(dt')
  BY <1>1, <1>2, ThrottledSame
<1>6. Counting(dt')
  <2>1. Flight(dt') = Flight(dt)
    BY <1>1, <1>2 DEF Flight, TaskShape, CallStep, c
  <2>2. Sum(Flight(dt), Caller) \in Nat
    BY <1>1, <1>2, FlightStep
  <2>3. Sum(Flight(dt), Caller) <= dt.processed
    BY <1>1, <2>2 DEF Counting
  <2> QED
    BY <1>2, <2>1, <2>2, <2>3 DEF Counting
<1>7. Shown(dt')
  <2>1. c.op \notin Switches /\ dt.call[p].op \notin Switches
    BY <1>1 DEF Switches, c
  <2> QED
    BY <1>1, <1>2, <2>1, ShownSame
<1> QED
  BY <1>3, <1>4, <1>5, <1>6, <1>7 DEF TasksInv

LEMMA ClearQueueKeeps ==
  ASSUME TasksInv(dt), NEW p \in Caller, ClearQueue(p)
  PROVE  TasksInv(dt')
<1> DEFINE c == [dt.call[p] EXCEPT !.op = "clear"]
           ids == {task.id : task \in Range(dt.queue)}
<1>1. /\ TaskShape(dt) /\ Conserve(dt) /\ SizeShown(dt) /\ Throttled(dt) /\ Counting(dt) /\ Shown(dt)
      /\ dt.call[p] \in CallShape /\ dt.call[p].op = "none" /\ dt.queue \in Seq(Task)
  BY DEF TasksInv, TaskShape, ClearQueue, EnterCall, TaskAt
<1>2. c \in CallShape /\ c.op = "clear"
  BY <1>1 DEF CallShape, Ops
<1>3. ids = IdsOf(dt.queue)
  <2>1. DOMAIN dt.queue = 1 .. Len(dt.queue)
    BY <1>1
  <2> QED
    BY <2>1 DEF Range, IdsOf
<1> HIDE DEF ids
<1>4. /\ CallStep(dt, dt', p, c) /\ dt'.queue = <<>> /\ dt'.gone = dt.gone \union ids
      /\ dt'.tasks = dt.tasks /\ dt'.out = dt.out /\ dt'.scheduled = dt.scheduled
      /\ dt'.processed = dt.processed /\ dt'.size = dt.size /\ dt'.overtaken = dt.overtaken
      /\ dt'.early = dt.early /\ dt'.last = dt.last /\ dt'.took = dt.took /\ dt'.takes = dt.takes
      /\ dt'.clock = dt.clock /\ dt'.starts = dt.starts /\ dt'.running = dt.running /\ dt'.shown = dt.shown
  BY <1>1, <1>2 DEF TaskShape, ClearQueue, EnterCall, CallStep, ids
<1> HIDE DEF c
<1>5. TaskShape(dt')
  BY <1>1, <1>4 DEF TaskShape, CallStep
<1>6. Conserve(dt')
  <2>1. IdsOf(dt'.queue) = {} /\ IdsInOrder(dt'.queue)
    BY <1>4 DEF IdsOf, IdsInOrder
  <2>2. \A x \in Range(dt.out) : x \notin ids
    <3>1. \A x \in Range(dt.out), y \in ids : x < y
      BY <1>1, <1>3 DEF Conserve
    <3>2. \A x \in Range(dt.out) : x \in Nat
      BY <1>1 DEF TaskShape, Range
    <3> QED
      BY <3>1, <3>2
  <2>3. dt'.gone \intersect (IdsOf(dt'.queue) \union Range(dt'.out)) = {}
    BY <1>1, <1>3, <1>4, <2>1, <2>2 DEF Conserve
  <2>4. IdsOf(dt'.queue) \union Range(dt'.out) \union dt'.gone = 1 .. dt'.scheduled
    BY <1>1, <1>3, <1>4, <2>1 DEF Conserve
  <2> QED
    BY <1>1, <1>4, <2>1, <2>3, <2>4 DEF Conserve
<1>7. SizeShown(dt')
  <2>1. dt'.call[p].op = "clear"
    BY <1>1, <1>2, <1>4 DEF TaskShape, CallStep
  <2> QED
    BY <1>4, <2>1 DEF SizeShown
<1>8. Throttled(dt')
  BY <1>1, <1>2, <1>4, ThrottledSame
<1>9. Counting(dt')
  BY <1>1, <1>2, <1>4, CountingSame
<1>10. Shown(dt')
  <2>1. dt.call[p].op \notin Switches /\ c.op \notin Switches
    BY <1>1, <1>2 DEF Switches
  <2> QED
    BY <1>1, <1>4, <2>1, ShownSame
<1> QED
  BY <1>5, <1>6, <1>7, <1>8, <1>9, <1>10 DEF TasksInv

LEMMA ClearSizeKeeps ==
  ASSUME TasksInv(dt), NEW p \in Caller, ClearSize(p)
  PROVE  TasksInv(dt')
<1>1. /\ TaskShape(dt) /\ Conserve(dt) /\ SizeShown(dt) /\ Throttled(dt) /\ Counting(dt) /\ Shown(dt)
      /\ dt.call[p] \in CallShape /\ dt.call[p].op = "clear"
  BY DEF TasksInv, TaskShape, ClearSize, TaskAt
<1>2. NoCall \in CallShape /\ NoCall.op = "none"
  BY DEF CallShape, Ops, NoCall
<1> HIDE DEF NoCall
<1>3. /\ CallStep(dt, dt', p, NoCall) /\ dt'.size = 0
      /\ dt'.queue = dt.queue /\ dt'.out = dt.out /\ dt'.gone = dt.gone /\ dt'.scheduled = dt.scheduled
      /\ dt'.processed = dt.processed /\ dt'.tasks = dt.tasks /\ dt'.overtaken = dt.overtaken
      /\ dt'.early = dt.early /\ dt'.last = dt.last /\ dt'.took = dt.took /\ dt'.takes = dt.takes
      /\ dt'.clock = dt.clock /\ dt'.starts = dt.starts /\ dt'.running = dt.running /\ dt'.shown = dt.shown
  BY <1>1, <1>2 DEF TaskShape, ClearSize, CallStep
<1>4. TaskShape(dt') /\ Conserve(dt')
  <2>1. TaskShape(dt')
    BY <1>1, <1>3 DEF TaskShape, CallStep
  <2>2. Conserve(dt')
    BY <1>1, <1>3, ConserveSame
  <2> QED
    BY <2>1, <2>2
<1>5. SizeShown(dt')
  <2>1. dt.overtaken \/ dt.queue = <<>>
    BY <1>1 DEF SizeShown
  <2>2. CASE dt.overtaken
    BY <1>3, <2>2 DEF SizeShown
  <2>3. CASE dt.queue = <<>>
    <3>1. dt'.queue = <<>> /\ dt'.size = Len(dt'.queue)
      BY <1>3, <2>3
    <3> QED
      BY <3>1 DEF SizeShown
  <2> QED
    BY <2>1, <2>2, <2>3
<1>6. Throttled(dt')
  BY <1>1, <1>2, <1>3, ThrottledSame
<1>7. Counting(dt')
  BY <1>1, <1>2, <1>3, CountingSame
<1>8. Shown(dt')
  <2>1. dt.call[p].op \notin Switches /\ NoCall.op \notin Switches
    BY <1>1, <1>2 DEF Switches
  <2> QED
    BY <1>1, <1>3, <2>1, ShownSame
<1> QED
  BY <1>4, <1>5, <1>6, <1>7, <1>8 DEF TasksInv

\* the queue without its front
LEMMA RestOfQueue ==
  ASSUME NEW q \in Seq(Task), IdsInOrder(q), NEW k \in 0 .. Len(q)
  PROVE  LET rest == SubSeq(q, k + 1, Len(q))
         IN  /\ rest \in Seq(Task) /\ IdsInOrder(rest) /\ Len(rest) = Len(q) - k
             /\ IdsOf(q) = IdsOf(rest) \union {q[i].id : i \in 1 .. k}
             /\ \A i \in 1 .. k, y \in IdsOf(rest) : q[i].id < y
<1> DEFINE n == Len(q)
           rest == SubSeq(q, k + 1, n)
           m == n - k
<1>1. n \in Nat /\ k \in Nat /\ m \in Nat /\ \A i \in 1 .. n : q[i] \in Task
  OBVIOUS
<1>2. rest \in Seq(Task) /\ Len(rest) = m /\ \A i \in 1 .. m : rest[i] = q[k + i]
  BY <1>1
<1> HIDE DEF rest
<1>3. \A i \in 1 .. m : k + i \in 1 .. n /\ k + i > k
  BY <1>1
<1>4. IdsInOrder(rest)
  <2> SUFFICES ASSUME NEW i \in 1 .. m, NEW j \in 1 .. m, i < j PROVE rest[i].id < rest[j].id
    BY <1>2 DEF IdsInOrder
  <2>1. k + i \in 1 .. n /\ k + j \in 1 .. n /\ k + i < k + j
    BY <1>1
  <2> QED
    BY <1>2, <2>1 DEF IdsInOrder
<1>5. IdsOf(q) = IdsOf(rest) \union {q[i].id : i \in 1 .. k}
  <2>1. ASSUME NEW i \in 1 .. n PROVE q[i].id \in IdsOf(rest) \union {q[j].id : j \in 1 .. k}
    <3>1. CASE i \in 1 .. k
      BY <3>1
    <3>2. CASE i \notin 1 .. k
      <4>1. i - k \in 1 .. m /\ k + (i - k) = i
        BY <1>1, <3>2
      <4>2. rest[i - k] = q[i]
        BY <1>2, <4>1
      <4> QED
        BY <1>2, <4>1, <4>2 DEF IdsOf
    <3> QED
      BY <3>1, <3>2
  <2>2. ASSUME NEW i \in 1 .. m PROVE rest[i].id \in IdsOf(q)
    BY <1>2, <1>3 DEF IdsOf
  <2>3. ASSUME NEW i \in 1 .. k PROVE q[i].id \in IdsOf(q)
    BY <1>1 DEF IdsOf
  <2>4. IdsOf(rest) = {rest[i].id : i \in 1 .. m} /\ IdsOf(q) = {q[i].id : i \in 1 .. n}
    BY <1>2 DEF IdsOf
  <2> QED
    BY <2>1, <2>2, <2>3, <2>4
<1>6. ASSUME NEW i \in 1 .. k, NEW j \in 1 .. m PROVE q[i].id < rest[j].id
  <2>1. i \in 1 .. n /\ k + j \in 1 .. n /\ i < k + j
    BY <1>1
  <2> QED
    BY <1>2, <2>1 DEF IdsInOrder
<1>7. \A i \in 1 .. k, y \in IdsOf(rest) : q[i].id < y
  BY <1>2, <1>6 DEF IdsOf
<1> QED
  BY <1>2, <1>4, <1>5, <1>7 DEF rest

\* a batch leaves the front of the queue
LEMMA TakeKeeps ==
  ASSUME TasksInv(dt), NEW p \in Caller, dt.call[p].op \in {"direct", "processor"}, NEW c \in CallShape,
         LET r == Drained(dt.queue, dt.call[p].now)
         IN  /\ c.op = "none" \/ (c.op = "count" /\ c.n = Len(r.batch))
             /\ dt' = [TakeTasks(p, r) EXCEPT !.call[p] = c]
  PROVE  TasksInv(dt')
<1> DEFINE r == Drained(dt.queue, dt.call[p].now)
           k == r.popped
           rest == SubSeq(dt.queue, k + 1, Len(dt.queue))
           front == {dt.queue[i].id : i \in 1 .. k}
           L == Len(r.batch)
<1>1. /\ TaskShape(dt) /\ Conserve(dt) /\ SizeShown(dt) /\ Throttled(dt) /\ Counting(dt) /\ Shown(dt)
      /\ dt.call[p] \in CallShape /\ dt.call[p].now \in Nat /\ dt.queue \in Seq(Task) /\ IdsInOrder(dt.queue)
      /\ dt.out \in Seq(Nat) /\ Increasing(dt.out) /\ dt.clock \in Nat /\ dt.takes \in Nat /\ dt.processed \in Nat
  BY DEF TasksInv, TaskShape, CallShape, Conserve
<1>2. /\ k \in 0 .. Len(dt.queue) /\ r.batch \in Seq(Nat) /\ r.old \in SUBSET Nat
      /\ Range(r.batch) \union r.old = front
      /\ Range(r.batch) \intersect r.old = {} /\ Increasing(r.batch)
  BY <1>1, DrainSound
<1> HIDE DEF r
<1>3. L \in Nat /\ Len(dt.queue) \in Nat /\ k \in Nat
  BY <1>1, <1>2
<1>4. /\ rest \in Seq(Task) /\ IdsInOrder(rest) /\ Len(rest) = Len(dt.queue) - k
      /\ IdsOf(dt.queue) = IdsOf(rest) \union front
      /\ \A i \in 1 .. k, y \in IdsOf(rest) : dt.queue[i].id < y
  <2> HIDE DEF k
  <2> QED
    BY <1>1, <1>2, RestOfQueue
<1>5. c.op = "none" \/ (c.op = "count" /\ c.n = L)
  BY DEF r
<1>6. dt' = [TakeTasks(p, r) EXCEPT !.call[p] = c]
  BY DEF r
<1> HIDE DEF L
<1>7. /\ CallStep(dt, dt', p, c) /\ dt'.queue = rest /\ dt'.last = dt.clock /\ dt'.processed = dt.processed + L
      /\ dt'.size = Len(dt.queue) - k /\ dt'.out = dt.out \o r.batch /\ dt'.gone = dt.gone \union r.old
      /\ dt'.took = dt.clock /\ dt'.takes = dt.takes + 1
      /\ dt'.early = (dt.early \/ (dt.clock < dt.took + MinInterval /\ dt.call[p].n = dt.takes))
      /\ dt'.overtaken = (dt.overtaken \/ During("clear"))
      /\ dt'.scheduled = dt.scheduled /\ dt'.tasks = dt.tasks /\ dt'.clock = dt.clock
      /\ dt'.starts = dt.starts /\ dt'.running = dt.running /\ dt'.shown = dt.shown
  <2> DEFINE t == TakeTasks(p, r)
  <2>1. /\ DOMAIN t = DOMAIN dt /\ t.call = dt.call /\ t.queue = rest /\ t.last = dt.clock /\ t.processed = dt.processed + L
        /\ t.size = Len(dt.queue) - k /\ t.out = dt.out \o r.batch /\ t.gone = dt.gone \union r.old
        /\ t.took = dt.clock /\ t.takes = dt.takes + 1
        /\ t.early = (dt.early \/ (dt.clock < dt.took + MinInterval /\ dt.call[p].n = dt.takes))
        /\ t.overtaken = (dt.overtaken \/ During("clear"))
        /\ t.scheduled = dt.scheduled /\ t.tasks = dt.tasks /\ t.clock = dt.clock
        /\ t.starts = dt.starts /\ t.running = dt.running /\ t.shown = dt.shown
    BY <1>1 DEF TaskShape, TakeTasks, BatchTime, L
  <2>2. dt' = [t EXCEPT !.call[p] = c]
    BY <1>6
  <2> HIDE DEF t
  <2>3. DOMAIN t = DOMAIN dt /\ DOMAIN dt = {"queue", "last", "scheduled", "processed", "expired", "size", "running", "shown",
                 "batches", "tasks", "clock", "calls", "call", "out", "gone", "took", "takes", "early", "overtaken", "starts"}
    BY <1>1, <2>1 DEF TaskShape
  <2>4. CallStep(dt, dt', p, c)
    BY <2>1, <2>2, <2>3 DEF CallStep
  <2>5. /\ dt'.queue = t.queue /\ dt'.last = t.last /\ dt'.processed = t.processed /\ dt'.size = t.size
        /\ dt'.out = t.out /\ dt'.gone = t.gone /\ dt'.took = t.took /\ dt'.takes = t.takes
        /\ dt'.early = t.early /\ dt'.overtaken = t.overtaken /\ dt'.scheduled = t.scheduled
        /\ dt'.tasks = t.tasks /\ dt'.clock = t.clock /\ dt'.starts = t.starts
        /\ dt'.running = t.running /\ dt'.shown = t.shown
    BY <2>2, <2>3
  <2> QED
    BY <2>1, <2>4, <2>5
<1> HIDE DEF rest, k, front
<1>8. dt'.call[p] = c /\ \A q \in Caller : q # p => dt'.call[q] = dt.call[q]
  BY <1>1, <1>7 DEF TaskShape, CallStep
<1>9. \A x \in front, y \in IdsOf(rest) : x < y
  BY <1>4 DEF front
<1>10. Range(dt.out) \subseteq Nat /\ front \subseteq IdsOf(dt.queue) /\ IdsOf(rest) \subseteq IdsOf(dt.queue)
  BY <1>1, <1>4 DEF Range
<1>11. \A x \in Range(dt.out), y \in IdsOf(dt.queue) : x < y
  BY <1>1 DEF Conserve
<1>12. /\ dt'.out \in Seq(Nat) /\ Increasing(dt'.out) /\ Range(dt'.out) = Range(dt.out) \union Range(r.batch)
       /\ Len(dt'.out) = Len(dt.out) + L
  <2>1. \A x \in Range(dt.out), y \in Range(r.batch) : x < y
    BY <1>2, <1>10, <1>11
  <2> QED
    BY <1>1, <1>2, <1>7, <2>1, ConcatIncreasing DEF L
<1>13. TaskShape(dt')
  <2>1. dt'.processed \in Nat /\ dt'.takes \in Nat
    BY <1>1, <1>3, <1>7
  <2> QED
    BY <1>1, <1>4, <1>7, <1>12, <2>1 DEF TaskShape, CallStep
<1>14. Conserve(dt')
  <2>1. \A x \in Range(dt'.out), y \in IdsOf(dt'.queue) : x < y
    BY <1>2, <1>7, <1>9, <1>10, <1>11, <1>12
  <2>2. IdsOf(dt'.queue) \union Range(dt'.out) \union dt'.gone = 1 .. dt'.scheduled
    <3>1. IdsOf(dt.queue) \union Range(dt.out) \union dt.gone = 1 .. dt.scheduled
      BY <1>1 DEF Conserve
    <3>2. IdsOf(dt'.queue) \union Range(dt'.out) \union dt'.gone = IdsOf(dt.queue) \union Range(dt.out) \union dt.gone
      BY <1>2, <1>4, <1>7, <1>12
    <3> QED
      BY <1>7, <3>1, <3>2
  <2>3. dt'.gone \intersect (IdsOf(dt'.queue) \union Range(dt'.out)) = {}
    <3>1. dt.gone \intersect (IdsOf(dt.queue) \union Range(dt.out)) = {}
      BY <1>1 DEF Conserve
    <3>2. r.old \intersect IdsOf(rest) = {}
      <4>1. \A x \in r.old : x \in Nat /\ x \in front
        BY <1>2
      <4> QED
        BY <1>9, <4>1
    <3>3. r.old \intersect Range(dt.out) = {}
      <4>1. \A x \in r.old : x \in IdsOf(dt.queue)
        BY <1>2, <1>10
      <4>2. \A x \in Range(dt.out) : x \in Nat
        BY <1>10
      <4> QED
        BY <1>11, <4>1, <4>2
    <3>4. Range(r.batch) \subseteq IdsOf(dt.queue)
      BY <1>2, <1>10
    <3> QED
      BY <1>2, <1>7, <1>10, <1>12, <3>1, <3>2, <3>3, <3>4
  <2>4. dt'.processed = Len(dt'.out)
    BY <1>1, <1>7, <1>12 DEF Conserve
  <2> QED
    BY <1>4, <1>7, <1>12, <2>1, <2>2, <2>3, <2>4 DEF Conserve
<1>15. SizeShown(dt')
  <2>1. CASE During("clear")
    BY <1>7, <2>1 DEF SizeShown
  <2>2. CASE ~During("clear")
    <3>1. \A q \in Caller : dt'.call[q].op # "clear"
      BY <1>5, <1>8, <2>2 DEF During, TaskAt
    <3> QED
      BY <1>4, <1>7, <3>1 DEF SizeShown
  <2> QED
    BY <2>1, <2>2
<1>16. Throttled(dt')
  <2>1. Passed(dt, dt.call[p]) /\ ~dt.early /\ dt.last = dt.took
    BY <1>1 DEF Throttled
  <2>2. ~(dt.clock < dt.took + MinInterval /\ dt.call[p].n = dt.takes)
    BY <1>1, <2>1, TasksAssumption DEF Passed, TaskShape
  <2>3. ASSUME NEW q \in Caller, dt'.call[q].op \in {"direct", "processor"} PROVE Passed(dt', dt'.call[q])
    <3>1. q # p /\ dt'.call[q] = dt.call[q]
      BY <1>5, <1>8, <2>3
    <3>2. Passed(dt, dt.call[q]) /\ dt.call[q].n \in Nat
      BY <1>1, <2>3, <3>1 DEF Throttled, TaskShape, CallShape
    <3> QED
      BY <1>1, <1>7, <3>1, <3>2 DEF Passed
  <2>4. ~dt'.early
    BY <1>7, <2>1, <2>2
  <2>5. dt'.last = dt'.took /\ dt'.last <= dt'.clock
    BY <1>1, <1>7
  <2> QED
    BY <2>3, <2>4, <2>5 DEF Throttled
<1>17. Counting(dt')
  <2> DEFINE a == Sum(Flight(dt), Caller)
             b == Sum(Flight(dt'), Caller)
             d == Flight(dt')[p]
  <2>1. Flight(dt)[p] = 0
    BY <1>1 DEF Flight
  <2>2. d = IF c.op = "count" THEN c.n ELSE 0
    BY <1>8 DEF Flight
  <2>3. a \in Nat /\ b \in Nat /\ d \in Nat /\ b + Flight(dt)[p] = a + d
    BY <1>1, <1>7, FlightStep
  <2> HIDE DEF a, b, d
  <2>4. d <= L
    BY <1>3, <1>5, <2>2
  <2>5. dt.tasks + a <= dt.processed /\ dt.tasks \in Nat
    BY <1>1 DEF Counting, a, TaskShape
  <2>6. dt'.tasks + b <= dt'.processed
    BY <1>1, <1>3, <1>7, <2>1, <2>3, <2>4, <2>5
  <2> QED
    BY <2>6 DEF Counting, b
<1>18. Shown(dt')
  <2>1. dt.call[p].op \notin Switches /\ c.op \notin Switches
    BY <1>1, <1>5 DEF Switches
  <2> QED
    BY <1>1, <1>7, <2>1, ShownSame
<1> QED
  BY <1>13, <1>14, <1>15, <1>16, <1>17, <1>18 DEF TasksInv

LEMMA TaskTickKeeps ==
  ASSUME TasksInv(dt), TaskTick
  PROVE  TasksInv(dt')
<1>1. /\ TaskShape(dt) /\ Conserve(dt) /\ SizeShown(dt) /\ Throttled(dt) /\ Counting(dt) /\ Shown(dt)
      /\ dt.clock \in Nat /\ dt.last \in Nat
  BY DEF TasksInv, TaskShape
<1>2. /\ DOMAIN dt' = DOMAIN dt /\ dt'.call = dt.call /\ dt'.clock = dt.clock + 1
      /\ dt'.queue = dt.queue /\ dt'.out = dt.out /\ dt'.gone = dt.gone /\ dt'.scheduled = dt.scheduled
      /\ dt'.processed = dt.processed /\ dt'.tasks = dt.tasks /\ dt'.size = dt.size /\ dt'.overtaken = dt.overtaken
      /\ dt'.early = dt.early /\ dt'.last = dt.last /\ dt'.took = dt.took /\ dt'.takes = dt.takes
      /\ dt'.starts = dt.starts /\ dt'.running = dt.running /\ dt'.shown = dt.shown
  BY <1>1 DEF TaskShape, TaskTick
<1>3. TaskShape(dt')
  BY <1>1, <1>2 DEF TaskShape
<1>4. Conserve(dt')
  BY <1>1, <1>2, ConserveSame
<1>5. SizeShown(dt') /\ Shown(dt')
  BY <1>1, <1>2 DEF SizeShown, Shown, OneSwitch
<1>6. Throttled(dt')
  <2>1. ASSUME NEW q \in Caller, dt.call[q].op \in {"direct", "processor"} PROVE Passed(dt', dt.call[q])
    <3>1. Passed(dt, dt.call[q]) /\ dt.call[q].now \in Nat
      BY <1>1, <2>1 DEF Throttled, TaskShape, CallShape
    <3> QED
      BY <1>1, <1>2, <3>1 DEF Passed
  <2> QED
    BY <1>1, <1>2, <2>1 DEF Throttled
<1>7. Counting(dt')
  BY <1>1, <1>2 DEF Counting, Flight
<1> QED
  BY <1>3, <1>4, <1>5, <1>6, <1>7 DEF TasksInv

LEMMA SumOfZeros ==
  ASSUME NEW D, IsFiniteSet(D), NEW w, \A x \in D : w[x] = 0
  PROVE  Sum(w, D) = 0
<1> DEFINE G == {s \in SUBSET D : Sum(w, s) = 0}
<1>1. {} \in G
  BY SumRemove
<1>2. ASSUME NEW s \in SUBSET D, NEW x \in s, s \ {x} \in G PROVE s \in G
  <2>1. IsFiniteSet(s) /\ \A y \in s : w[y] \in Nat
    BY FS_Subset
  <2>2. Sum(w, s) = Sum(w, s \ {x}) + w[x]
    BY <2>1, SumRemove
  <2> QED
    BY <1>2, <2>2
<1> HIDE DEF G
<1>3. \A s \in SUBSET D : s # {} => \E x \in s : s \ {x} \in G => s \in G
  BY <1>2
<1>4. D \in G
  BY <1>1, <1>3, Subsets
<1> QED
  BY <1>4 DEF G

LEMMA FirstTasks == DtInit => TasksInv(dt)
<1> SUFFICES ASSUME DtInit PROVE TasksInv(dt)
  OBVIOUS
<1>1. NoCall \in CallShape /\ NoCall.op = "none"
  BY DEF CallShape, Ops, NoCall
<1> HIDE DEF NoCall
<1>2. /\ dt.queue = <<>> /\ dt.out = <<>> /\ dt.gone = {} /\ dt.scheduled = 0 /\ dt.processed = 0
      /\ dt.size = 0 /\ dt.tasks = 0 /\ dt.early = FALSE /\ dt.last = 0 /\ dt.took = 0 /\ dt.clock = 0 /\ dt.takes = 0
      /\ dt.running = FALSE /\ dt.shown = FALSE /\ dt.call = [p \in Caller |-> NoCall]
  BY DEF DtInit
<1>2a. \A p \in Caller : dt.call[p] = NoCall
  BY <1>2
<1>2b. TaskShape(dt)
  <2>1. <<>> \in Seq(Task) /\ <<>> \in Seq(Nat) /\ [p \in Caller |-> NoCall] \in [Caller -> CallShape]
    BY <1>1
  <2>2. DOMAIN dt = {"queue", "last", "scheduled", "processed", "expired", "size", "running", "shown", "batches", "tasks",
                     "clock", "calls", "call", "out", "gone", "took", "takes", "early", "overtaken", "starts"}
    BY DEF DtInit
  <2> QED
    BY <1>2, <2>1, <2>2 DEF TaskShape
<1>3. Conserve(dt)
  <2>1. IdsOf(dt.queue) = {} /\ Range(dt.out) = {} /\ 1 .. dt.scheduled = {} /\ Len(dt.out) = 0
    BY <1>2 DEF IdsOf, Range
  <2>2. IdsInOrder(dt.queue) /\ Increasing(dt.out)
    BY <1>2 DEF IdsInOrder, Increasing
  <2> QED
    BY <1>2, <2>1, <2>2 DEF Conserve
<1>4. SizeShown(dt) /\ Throttled(dt)
  BY <1>1, <1>2, <1>2a DEF SizeShown, Throttled
<1>5. "none" \notin Switches /\ "show" \in Switches /\ "hide" \in Switches
  BY DEF Switches
<1>6. Shown(dt)
  BY <1>1, <1>2, <1>2a, <1>5 DEF Shown, OneSwitch
<1>7. Counting(dt)
  <2> DEFINE v == Flight(dt)
  <2>1. \A q \in Caller : v[q] = 0
    BY <1>1, <1>2a DEF Flight
  <2> HIDE DEF v
  <2>2. Sum(v, Caller) = 0
    BY <2>1, TasksAssumption, SumOfZeros
  <2> QED
    BY <1>2, <2>2 DEF Counting, v
<1> QED
  BY <1>2b, <1>3, <1>4, <1>6, <1>7 DEF TasksInv

(* For any number of threads, interval, age and batch size, however their  *)
(* calls interleave: every scheduled task is queued, handed over or gone,  *)
(* in one of these only and handed over in order; batches that do not      *)
(* overlap keep their distance, the processor counts no more than was      *)
(* handed over, and what the statistics show is so unless calls overlap.   *)
THEOREM TasksAlwaysKept == TasksSpec => []TasksKept
<1>1. DtInit => TasksInv(dt)
  BY FirstTasks
<1>2. TasksInv(dt) /\ [DtNext]_dt => TasksInv(dt)'
  <2> SUFFICES ASSUME TasksInv(dt), [DtNext]_dt PROVE TasksInv(dt')
    OBVIOUS
  <2>1. ASSUME NEW p \in Caller, TakeBatch(p) PROVE TasksInv(dt')
    <3>1. NoCall \in CallShape /\ NoCall.op = "none"
      BY DEF CallShape, Ops, NoCall
    <3>2. dt.call[p].op \in {"direct", "processor"}
      BY <2>1 DEF TakeBatch, TaskAt
    <3>3. dt' = [TakeTasks(p, Drained(dt.queue, dt.call[p].now)) EXCEPT !.call[p] = NoCall]
      BY <2>1 DEF TakeBatch
    <3> QED
      BY <3>1, <3>2, <3>3, TakeKeeps
  <2>2. ASSUME NEW p \in Caller, TakeForProcessor(p) PROVE TasksInv(dt')
    <3> DEFINE r == Drained(dt.queue, dt.call[p].now)
               c == IF r.batch = <<>> THEN NoCall ELSE [NoCall EXCEPT !.op = "count", !.n = Len(r.batch)]
    <3>1. dt.call[p].op \in {"direct", "processor"}
      BY <2>2 DEF TakeForProcessor, TaskAt
    <3>2. dt' = [TakeTasks(p, r) EXCEPT !.call[p] = c]
      BY <2>2 DEF TakeForProcessor
    <3>3. dt.queue \in Seq(Task) /\ IdsInOrder(dt.queue) /\ dt.call[p].now \in Nat
      BY DEF TasksInv, TaskShape, Conserve, CallShape
    <3>4. Len(r.batch) \in Nat
      <4>1. r.batch \in Seq(Nat)
        BY <3>3, DrainSound
      <4> QED
        BY <4>1
    <3> HIDE DEF r
    <3>5. c \in CallShape /\ (c.op = "none" \/ (c.op = "count" /\ c.n = Len(r.batch)))
      BY <3>4 DEF CallShape, Ops, NoCall
    <3> HIDE DEF c
    <3> QED
      BY <3>1, <3>2, <3>5, TakeKeeps DEF r
  <2>3. CASE TaskTick
    BY <2>3, TaskTickKeeps
  <2>4. CASE UNCHANGED dt
    BY <2>4
  <2>5. ASSUME NEW p \in Caller, StartShow(p) \/ StopShow(p) PROVE TasksInv(dt')
    BY <2>5, SwitchEnds
  <2>6. ASSUME NEW p \in Caller, ProcessBatch(p, "direct") \/ ProcessBatch(p, "processor") PROVE TasksInv(dt')
    BY <2>6, ProcessKeeps
  <2>7. ASSUME NEW p \in Caller,
               \/ ScheduleResolution(p) \/ CountBatch(p) \/ ClearStats(p) \/ ClearQueue(p) \/ ClearSize(p)
               \/ Start(p) \/ StartSet(p) \/ Stop(p)
        PROVE  TasksInv(dt')
    BY <2>7, ScheduleKeeps, CountBatchKeeps, ClearStatsKeeps, ClearQueueKeeps, ClearSizeKeeps,
       StartKeeps, StartSetKeeps, StopKeeps, Zenon
  <2> QED
    BY <2>1, <2>2, <2>3, <2>4, <2>5, <2>6, <2>7, Zenon DEF DtNext
<1>3. TasksInv(dt) => TasksConserved
  <2> SUFFICES ASSUME TasksInv(dt) PROVE TasksConserved
    OBVIOUS
  <2> DEFINE queued == {task.id : task \in Range(dt.queue)}
  <2>1. TaskShape(dt) /\ Conserve(dt) /\ SizeShown(dt)
    BY DEF TasksInv
  <2>2. queued = IdsOf(dt.queue)
    <3>1. DOMAIN dt.queue = 1 .. Len(dt.queue)
      BY <2>1 DEF TaskShape
    <3> QED
      BY <3>1 DEF Range, IdsOf
  <2> HIDE DEF queued
  <2>3. queued \intersect Range(dt.out) = {}
    <3>1. \A x \in Range(dt.out), y \in queued : x < y
      BY <2>1, <2>2 DEF Conserve
    <3>2. \A x \in Range(dt.out) : x \in Nat
      BY <2>1 DEF TaskShape, Range
    <3> QED
      BY <3>1, <3>2
  <2>4. During("clear") \/ dt.overtaken \/ dt.size = Len(dt.queue)
    BY <2>1 DEF SizeShown, During, TaskAt
  <2> QED
    BY <2>1, <2>2, <2>3, <2>4 DEF Conserve, Increasing, TasksConserved, queued
<1>4. TasksInv(dt) => BatchesThrottled
  <2> SUFFICES ASSUME TasksInv(dt) PROVE BatchesThrottled
    OBVIOUS
  <2>1. TaskShape(dt) /\ Throttled(dt) /\ Counting(dt) /\ Shown(dt) /\ dt.tasks \in Nat /\ dt.processed \in Nat
    BY DEF TasksInv, TaskShape
  <2>2. dt.tasks <= dt.processed
    <3>1. Sum(Flight(dt), Caller) \in Nat
      <4>1. \A q \in Caller : Flight(dt)[q] \in Nat
        BY <2>1 DEF TaskShape, CallShape, Flight
      <4> QED
        BY <4>1, TasksAssumption, SumRemove
    <3> QED
      BY <2>1, <3>1 DEF Counting
  <2>3. dt.starts \/ Switching \/ dt.shown = dt.running
    BY <2>1 DEF Shown, Switching, Switches
  <2> QED
    BY <2>1, <2>2, <2>3 DEF Throttled, BatchesThrottled
<1>5. TasksInv(dt) => TasksKept
  BY <1>3, <1>4 DEF TasksKept
<1> QED
  BY <1>1, <1>2, <1>5, PTL DEF TasksSpec

-----------------------------------------------------------------------------
(* Priority pool and ordering engine *)
OrderingSpec == OpInit /\ [][OpNext]_prio

Asking == INSTANCE Folding WITH Step <- LAMBDA ask, sel, c : TakeEntry(ask, sel, c[1][1])
Deduping == INSTANCE Folding WITH Step <- LAMBDA x, sel, t : TakeOnce(sel, t)
Filtering == INSTANCE Folding WITH Step <- LAMBDA known, sel, t : EngineStep(known, sel, t)

Distinct(s) == \A i, j \in DOMAIN s : s[i] = s[j] => i = j
\* every transaction comes once and after its ancestors
AncestorsFirst(s) == \A i \in DOMAIN s : /\ Anc[s[i]] \subseteq {s[j] : j \in 1 .. i - 1}
                                         /\ s[i] \notin {s[j] : j \in 1 .. i - 1}

LEMMA AppendShape ==
  ASSUME NEW S, NEW s \in Seq(S), NEW x \in S
  PROVE  /\ Append(s, x) \in Seq(S) /\ Len(s) \in Nat /\ DOMAIN s = 1 .. Len(s)
         /\ Len(Append(s, x)) = Len(s) + 1 /\ DOMAIN Append(s, x) = 1 .. Len(s) + 1
         /\ Append(s, x)[Len(s) + 1] = x /\ \A i \in 1 .. Len(s) : Append(s, x)[i] = s[i]
  OBVIOUS

\* what the pool draws from the heap are hashes
LEMMA PoolOrderShape ==
  ASSUME NEW ask, NEW S, NEW seq \in Seq(S), \A c \in S : c[1][1] \in Hash
  PROVE  PoolOrder(ask, seq) \in Seq(Hash)
<1> DEFINE n == Len(seq)
<1>1. n \in Nat /\ DOMAIN seq = 1 .. n /\ \A i \in 1 .. n : seq[i][1][1] \in Hash
  OBVIOUS
<1>2. PoolOrder(ask, seq) = Asking!Fold(ask, <<>>, seq)
  BY Zenon DEF PoolOrder, FoldLeft, MapThenFoldSet, Max, Asking!Fold, Asking!IsIter, Asking!Latest
<1>3. PICK f : Asking!IsTrace(ask, f, <<>>, seq) /\ Asking!Fold(ask, <<>>, seq) = f[n]
  <2>1. Len(seq) \in Nat /\ DOMAIN seq = 1 .. Len(seq)
    BY <1>1
  <2> QED
    BY <2>1, Leasts, Asking!FoldTrace, Zenon
<1>4. f[0] = <<>> /\ \A i \in 1 .. n : f[i] = TakeEntry(ask, f[i - 1], seq[i][1][1])
  BY <1>1, <1>3, Asking!TraceStep
<1> HIDE DEF n
<1> DEFINE G == {i \in 0 .. n : f[i] \in Seq(Hash)}
<1>5. 0 \in G
  <2>1. 0 \in 0 .. n /\ <<>> \in Seq(Hash)
    BY <1>1
  <2>2. f[0] \in Seq(Hash)
    BY <1>4, <2>1
  <2> QED
    BY <2>1, <2>2
<1>6. ASSUME NEW i \in 0 .. n - 1, i \in G PROVE i + 1 \in G
  <2>1. i + 1 \in 1 .. n /\ i + 1 \in 0 .. n /\ (i + 1) - 1 = i /\ f[i] \in Seq(Hash)
    BY <1>1, <1>6
  <2>2. f[i + 1] = TakeEntry(ask, f[i], seq[i + 1][1][1]) /\ seq[i + 1][1][1] \in Hash
    BY <1>1, <1>4, <2>1
  <2>3. f[i + 1] \in Seq(Hash)
    BY <2>1, <2>2 DEF TakeEntry
  <2> QED
    BY <1>1, <2>1, <2>3
<1>7. n \in G
  <2> HIDE DEF G
  <2>1. \A i \in 0 .. n : i \in G
    BY <1>1, <1>5, <1>6, UpTo
  <2> QED
    BY <1>1, <2>1
<1> QED
  BY <1>2, <1>3, <1>7

\* the first copies of what was drawn
LEMMA OnceDistinct ==
  ASSUME NEW q \in Seq(Hash)
  PROVE  FoldLeft(TakeOnce, <<>>, q) \in Seq(Hash) /\ Distinct(FoldLeft(TakeOnce, <<>>, q))
<1> DEFINE n == Len(q)
           Good(s) == s \in Seq(Hash) /\ Distinct(s)
<1>1. n \in Nat /\ DOMAIN q = 1 .. n /\ \A i \in 1 .. n : q[i] \in Hash
  OBVIOUS
<1>2. FoldLeft(TakeOnce, <<>>, q) = Deduping!Fold(0, <<>>, q)
  BY Zenon DEF FoldLeft, MapThenFoldSet, Max, Deduping!Fold, Deduping!IsIter, Deduping!Latest
<1>3. PICK f : Deduping!IsTrace(0, f, <<>>, q) /\ Deduping!Fold(0, <<>>, q) = f[n]
  <2>1. Len(q) \in Nat /\ DOMAIN q = 1 .. Len(q)
    BY <1>1
  <2> QED
    BY <2>1, Leasts, Deduping!FoldTrace, Zenon
<1>4. f[0] = <<>> /\ \A i \in 1 .. n : f[i] = TakeOnce(f[i - 1], q[i])
  BY <1>1, <1>3, Deduping!TraceStep
<1> HIDE DEF n
<1> DEFINE G == {i \in 0 .. n : Good(f[i])}
<1>5. 0 \in G
  <2>1. <<>> \in Seq(Hash) /\ Distinct(<<>>)
    BY DEF Distinct
  <2>2. Good(f[0]) /\ 0 \in 0 .. n
    BY <1>1, <1>4, <2>1
  <2> QED
    BY <2>2
<1>6. ASSUME NEW i \in 0 .. n - 1, i \in G PROVE i + 1 \in G
  <2> DEFINE s == f[i]
             x == q[i + 1]
  <2>1. i + 1 \in 1 .. n /\ i + 1 \in 0 .. n /\ (i + 1) - 1 = i /\ Good(s)
    BY <1>1, <1>6
  <2>2. f[i + 1] = TakeOnce(s, x) /\ x \in Hash
    BY <1>1, <1>4, <2>1
  <2> HIDE DEF s, x
  <2>3. CASE x \in ToSet(s)
    BY <2>1, <2>2, <2>3 DEF TakeOnce
  <2>4. CASE x \notin ToSet(s)
    <3> DEFINE t == Append(s, x)
               k == Len(s)
    <3>1. /\ t \in Seq(Hash) /\ k \in Nat /\ DOMAIN s = 1 .. k /\ DOMAIN t = 1 .. k + 1
          /\ t[k + 1] = x /\ \A j \in 1 .. k : t[j] = s[j]
      BY <2>1, <2>2, AppendShape
    <3>2. f[i + 1] = t
      BY <2>2, <2>4 DEF TakeOnce
    <3> HIDE DEF t, k
    <3>3. Distinct(t)
      <4> SUFFICES ASSUME NEW a \in 1 .. k + 1, NEW b \in 1 .. k + 1, t[a] = t[b] PROVE a = b
        BY <3>1 DEF Distinct
      <4>1. \A j \in 1 .. k : t[j] # x
        BY <2>4, <3>1 DEF ToSet
      <4>2. CASE a \in 1 .. k /\ b \in 1 .. k
        BY <2>1, <3>1, <4>2 DEF Distinct
      <4>3. CASE a = k + 1 \/ b = k + 1
        BY <3>1, <4>1, <4>3
      <4> QED
        BY <3>1, <4>2, <4>3
    <3> QED
      BY <2>1, <3>1, <3>2, <3>3
  <2> QED
    BY <2>1, <2>3, <2>4
<1>7. n \in G
  <2> HIDE DEF G
  <2>1. \A i \in 0 .. n : i \in G
    BY <1>1, <1>5, <1>6, UpTo
  <2> QED
    BY <1>1, <2>1
<1> QED
  BY <1>2, <1>3, <1>7

\* the filter of the engine keeps each after its ancestors
LEMMA EngineOrderSound ==
  ASSUME NEW known, NEW q \in Seq(Hash), Distinct(q)
  PROVE  EngineOrder(known, q) \in Seq(Hash) /\ AncestorsFirst(EngineOrder(known, q))
<1> DEFINE n == Len(q)
           Good(i, s) == s \in Seq(Hash) /\ AncestorsFirst(s) /\ \A j \in DOMAIN s : s[j] \in {q[k] : k \in 1 .. i}
<1>1. n \in Nat /\ DOMAIN q = 1 .. n /\ \A i \in 1 .. n : q[i] \in Hash
  OBVIOUS
<1>2. EngineOrder(known, q) = Filtering!Fold(known, <<>>, q)
  BY Zenon DEF EngineOrder, FoldLeft, MapThenFoldSet, Max, Filtering!Fold, Filtering!IsIter, Filtering!Latest
<1>3. PICK f : Filtering!IsTrace(known, f, <<>>, q) /\ Filtering!Fold(known, <<>>, q) = f[n]
  <2>1. Len(q) \in Nat /\ DOMAIN q = 1 .. Len(q)
    BY <1>1
  <2> QED
    BY <2>1, Leasts, Filtering!FoldTrace, Zenon
<1>4. f[0] = <<>> /\ \A i \in 1 .. n : f[i] = EngineStep(known, f[i - 1], q[i])
  BY <1>1, <1>3, Filtering!TraceStep
<1> HIDE DEF n
<1> DEFINE G == {i \in 0 .. n : Good(i, f[i])}
<1>5. 0 \in G
  <2>1. <<>> \in Seq(Hash) /\ AncestorsFirst(<<>>) /\ DOMAIN <<>> = {}
    BY DEF AncestorsFirst
  <2>2. f[0] = <<>>
    BY <1>4
  <2>3. Good(0, f[0])
    BY <2>1, <2>2
  <2> QED
    BY <1>1, <2>3
<1>6. ASSUME NEW i \in 0 .. n - 1, i \in G PROVE i + 1 \in G
  <2> DEFINE s == f[i]
             x == q[i + 1]
  <2>1. i + 1 \in 1 .. n /\ i + 1 \in 0 .. n /\ (i + 1) - 1 = i /\ Good(i, s) /\ i \in Nat
    BY <1>1, <1>6
  <2>2. f[i + 1] = EngineStep(known, s, x) /\ x \in Hash
    BY <1>1, <1>4, <2>1
  <2>3. {q[k] : k \in 1 .. i} \subseteq {q[k] : k \in 1 .. i + 1} /\ x \in {q[k] : k \in 1 .. i + 1}
    BY <2>1
  <2>4. \A k \in 1 .. i : q[k] # x
    BY <1>1, <2>1 DEF Distinct
  <2> HIDE DEF s
  <2>5. CASE ~EngineTakes(known, s, x)
    BY <2>1, <2>2, <2>3, <2>5 DEF EngineStep
  <2>6. CASE EngineTakes(known, s, x)
    <3> DEFINE t == Append(s, x)
               k == Len(s)
    <3>1. /\ t \in Seq(Hash) /\ k \in Nat /\ DOMAIN s = 1 .. k /\ DOMAIN t = 1 .. k + 1
          /\ t[k + 1] = x /\ \A j \in 1 .. k : t[j] = s[j]
      BY <2>1, <2>2, AppendShape
    <3>2. f[i + 1] = t
      BY <2>2, <2>6 DEF EngineStep
    <3>3. Anc[x] \subseteq {s[j] : j \in 1 .. k}
      BY <2>6, <3>1 DEF EngineTakes, ToSet
    <3>4. x \notin {s[j] : j \in 1 .. k}
      BY <2>1, <2>4, <3>1
    <3> HIDE DEF t, k, x
    <3>5. AncestorsFirst(t)
      <4> SUFFICES ASSUME NEW a \in 1 .. k + 1
                   PROVE  Anc[t[a]] \subseteq {t[j] : j \in 1 .. a - 1} /\ t[a] \notin {t[j] : j \in 1 .. a - 1}
        BY <3>1 DEF AncestorsFirst
      <4>1. {t[j] : j \in 1 .. a - 1} = {s[j] : j \in 1 .. a - 1}
        <5>1. \A j \in 1 .. a - 1 : t[j] = s[j]
          BY <3>1
        <5> QED
          BY <5>1
      <4>2. CASE a \in 1 .. k
        BY <2>1, <3>1, <4>1, <4>2 DEF AncestorsFirst
      <4>3. CASE a = k + 1
        <5>1. a - 1 = k
          BY <3>1, <4>3
        <5> QED
          BY <3>1, <3>3, <3>4, <4>1, <4>3, <5>1
      <4> QED
        BY <3>1, <4>2, <4>3
    <3>6. \A j \in DOMAIN t : t[j] \in {q[y] : y \in 1 .. i + 1}
      <4> SUFFICES ASSUME NEW j \in 1 .. k + 1 PROVE t[j] \in {q[y] : y \in 1 .. i + 1}
        BY <3>1
      <4>1. CASE j \in 1 .. k
        BY <2>1, <2>3, <3>1, <4>1
      <4>2. CASE j = k + 1
        BY <2>3, <3>1, <4>2
      <4> QED
        BY <3>1, <4>1, <4>2
    <3> QED
      BY <2>1, <3>1, <3>2, <3>5, <3>6
  <2> QED
    BY <2>5, <2>6
<1>7. n \in G
  <2> HIDE DEF G
  <2>1. \A i \in 0 .. n : i \in G
    BY <1>1, <1>5, <1>6, UpTo
  <2> QED
    BY <1>1, <2>1
<1> QED
  BY <1>2, <1>3, <1>7

InsertPlaces == {"idle", "cache", "map", "push", "stats"}
PrioShape(g) ==
  /\ DOMAIN g = {"map", "heap", "cache", "ins", "ord", "result", "clearing", "raced"}
  /\ g.map \in [Hash -> Nat] /\ g.heap \in [HeapKeys -> Nat] /\ g.cache \in [Hash -> Nat] /\ g.result \in Seq(Hash)
  /\ g.ins.at \in InsertPlaces
  /\ g.ins.at \in {"cache", "map"} => g.ins \in [at : {"cache", "map"}, tx : Hash, rate : FeeRates]

Pushing(g, t) == g.ins.at = "map" /\ g.ins.tx = t
InSomeEntry(g, t) == \E r \in FeeRates : g.heap[<<t, r>>] > 0
\* what is prioritised is in the heap or about to be
Covered(g) == ~g.raced => \A t \in Hash : g.map[t] # None => InSomeEntry(g, t) \/ Pushing(g, t)
\* what an order's copy of the map lacks has not reached the heap
CloneBehind(g) ==
  ~g.raced /\ g.ord.at = "cloned" => \A t \in Hash : g.map[t] # None => g.ord.map[t] # None \/ Pushing(g, t)

PrioInv(g) == PrioShape(g) /\ Covered(g) /\ CloneBehind(g) /\ AncestorsFirst(g.result)

LEMMA KeysAre ==
  /\ \A t \in Hash, r \in FeeRates : <<t, r>> \in HeapKeys /\ <<t, r>>[1] = t /\ <<t, r>>[2] = r
  /\ \A e \in HeapKeys : e = <<e[1], e[2]>> /\ e[1] \in Hash /\ e[2] \in FeeRates
  /\ \A r \in FeeRates : r \in Nat /\ r # None
  /\ \A t \in Hash : t \in Nat
  BY OrderingAssumption DEF HeapKeys, None

LEMMA RegisterCacheKeeps ==
  ASSUME PrioInv(prio), NEW t \in Hash, NEW r \in FeeRates, RegisterCache(t, r)
  PROVE  PrioInv(prio')
<1> DEFINE c == [at |-> "cache", tx |-> t, rate |-> r]
           known == [prio.cache EXCEPT ![t] = r]
<1>1. PrioShape(prio) /\ prio.ins.at = "idle" /\ prio.ord.at = "idle"
  BY DEF PrioInv, RegisterCache, CacheFree, AtRest
<1>2. known \in [Hash -> Nat] /\ c \in [at : {"cache", "map"}, tx : Hash, rate : FeeRates] /\ c.at = "cache"
  BY <1>1, KeysAre DEF PrioShape
<1>3. prio' = [prio EXCEPT !.cache = known, !.ins = c]
  BY DEF RegisterCache
<1> HIDE DEF c, known
<1>4. /\ PrioShape(prio') /\ prio'.ins.at = "cache" /\ prio'.ord = prio.ord /\ prio'.map = prio.map /\ prio'.heap = prio.heap
      /\ prio'.raced = prio.raced /\ prio'.result = prio.result
  BY <1>1, <1>2, <1>3 DEF PrioShape, InsertPlaces
<1>5. Covered(prio') /\ CloneBehind(prio')
  BY <1>1, <1>4 DEF PrioInv, Covered, CloneBehind, InSomeEntry, Pushing
<1> QED
  BY <1>4, <1>5 DEF PrioInv

LEMMA RegisterMapKeeps ==
  ASSUME PrioInv(prio), RegisterMap
  PROVE  PrioInv(prio')
<1> DEFINE t == prio.ins.tx
           map == [prio.map EXCEPT ![t] = prio.ins.rate]
           c == [at |-> "map", tx |-> t, rate |-> prio.ins.rate]
<1>1. PrioShape(prio) /\ prio.ins.at = "cache" /\ prio.ins \in [at : {"cache", "map"}, tx : Hash, rate : FeeRates]
  BY DEF PrioInv, PrioShape, RegisterMap
<1>2. t \in Hash /\ prio.ins.rate \in FeeRates /\ prio.ins.rate \in Nat /\ [prio.ins EXCEPT !.at = "map"] = c
  BY <1>1, KeysAre
<1>3. map \in [Hash -> Nat] /\ \A u \in Hash : u # t => map[u] = prio.map[u]
  BY <1>1, <1>2 DEF PrioShape
<1>4. c \in [at : {"cache", "map"}, tx : Hash, rate : FeeRates] /\ c.at = "map" /\ c.tx = t
  BY <1>2
<1>5. prio' = [prio EXCEPT !.map = map, !.ins = c]
  BY <1>1, <1>2 DEF RegisterMap, PrioShape
<1> HIDE DEF c, map, t
<1>6. /\ PrioShape(prio') /\ prio'.ins.at = "map" /\ prio'.ins.tx = t /\ prio'.ord = prio.ord /\ prio'.map = map
      /\ prio'.heap = prio.heap /\ prio'.raced = prio.raced /\ prio'.result = prio.result
  BY <1>1, <1>3, <1>4, <1>5 DEF PrioShape, InsertPlaces
<1>7. Covered(prio') /\ CloneBehind(prio')
  BY <1>1, <1>3, <1>6 DEF PrioInv, Covered, CloneBehind, InSomeEntry, Pushing
<1> QED
  BY <1>6, <1>7 DEF PrioInv

LEMMA RegisterHeapKeeps ==
  ASSUME PrioInv(prio), RegisterHeap
  PROVE  PrioInv(prio')
<1> DEFINE t == prio.ins.tx
           e == <<prio.ins.tx, prio.ins.rate>>
           heap == [prio.heap EXCEPT ![e] = prio.heap[e] + 1]
           c == [at |-> "push"]
           late == prio.ord.at = "cloned" /\ prio.ord.map[t] = None
<1>1. PrioShape(prio) /\ prio.ins.at = "map" /\ prio.ins \in [at : {"cache", "map"}, tx : Hash, rate : FeeRates]
  BY DEF PrioInv, PrioShape, RegisterHeap
<1>2. t \in Hash /\ prio.ins.rate \in FeeRates /\ e \in HeapKeys
  BY <1>1, KeysAre
<1>3. /\ heap \in [HeapKeys -> Nat] /\ heap[<<t, prio.ins.rate>>] > 0
      /\ \A x \in HeapKeys : prio.heap[x] > 0 => heap[x] > 0
  <2>1. e = <<t, prio.ins.rate>>
    OBVIOUS
  <2> HIDE DEF e, t
  <2>2. prio.heap \in [HeapKeys -> Nat] /\ e \in HeapKeys /\ prio.heap[e] \in Nat
    BY <1>1, <1>2 DEF PrioShape
  <2>3. heap \in [HeapKeys -> Nat] /\ heap[e] > 0 /\ \A x \in HeapKeys : x # e => heap[x] = prio.heap[x]
    BY <2>2
  <2> QED
    BY <2>1, <2>3
<1>4. prio' = [prio EXCEPT !.heap = heap, !.ins = c, !.raced = prio.raced \/ late]
  BY <1>1 DEF RegisterHeap, PrioShape
<1> HIDE DEF e, heap, c, late
<1>5. /\ DOMAIN prio' = DOMAIN prio /\ prio'.ins = c /\ prio'.ord = prio.ord /\ prio'.map = prio.map /\ prio'.cache = prio.cache
      /\ prio'.heap = heap /\ prio'.result = prio.result /\ prio'.raced = (prio.raced \/ late)
  BY <1>1, <1>4 DEF PrioShape
<1>6. PrioShape(prio') /\ prio'.ins.at = "push"
  BY <1>1, <1>3, <1>5 DEF PrioShape, InsertPlaces, c
<1>7. ~prio'.raced => ~prio.raced /\ ~late
  BY <1>5
<1>8. Covered(prio')
  <2> SUFFICES ASSUME ~prio'.raced, NEW u \in Hash, prio.map[u] # None PROVE InSomeEntry(prio', u)
    BY <1>5 DEF Covered
  <2>1. CASE u = t
    BY <1>2, <1>3, <1>5, <2>1 DEF InSomeEntry
  <2>2. CASE u # t
    <3>1. PICK r \in FeeRates : prio.heap[<<u, r>>] > 0
      BY <1>7, <2>2 DEF PrioInv, Covered, InSomeEntry, Pushing
    <3> QED
      BY <1>3, <1>5, <3>1, KeysAre DEF InSomeEntry
  <2> QED
    BY <2>1, <2>2
<1>9. CloneBehind(prio')
  <2> SUFFICES ASSUME ~prio'.raced, prio.ord.at = "cloned", NEW u \in Hash, prio.map[u] # None
               PROVE  prio.ord.map[u] # None
    BY <1>5 DEF CloneBehind
  <2>1. CASE u = t
    BY <1>7, <2>1 DEF late
  <2>2. CASE u # t
    BY <1>7, <2>2 DEF PrioInv, CloneBehind, Pushing
  <2> QED
    BY <2>1, <2>2
<1> QED
  BY <1>5, <1>6, <1>8, <1>9 DEF PrioInv

LEMMA RegisterEndKeeps ==
  ASSUME PrioInv(prio), RegisterStats \/ RegisterPeak
  PROVE  PrioInv(prio')
<1>1. PICK c \in {[at |-> "stats"], AtRest} : prio' = [prio EXCEPT !.ins = c]
  BY DEF RegisterStats, RegisterPeak
<1>2. PrioShape(prio) /\ prio.ins.at # "map" /\ c.at \in {"stats", "idle"}
  BY <1>1 DEF PrioInv, RegisterStats, RegisterPeak, AtRest
<1>3. /\ PrioShape(prio') /\ prio'.ins.at \in {"stats", "idle"} /\ prio'.ord = prio.ord /\ prio'.map = prio.map
      /\ prio'.heap = prio.heap /\ prio'.raced = prio.raced /\ prio'.result = prio.result
  BY <1>1, <1>2 DEF PrioShape, InsertPlaces
<1>4. Covered(prio') /\ CloneBehind(prio')
  BY <1>2, <1>3 DEF PrioInv, Covered, CloneBehind, InSomeEntry, Pushing
<1> QED
  BY <1>3, <1>4 DEF PrioInv

LEMMA OrderCloneKeeps ==
  ASSUME PrioInv(prio), OrderClone \/ OrderStats
  PROVE  PrioInv(prio')
<1>1. PICK c \in {[at |-> "cloned", map |-> prio.map], AtRest} : prio' = [prio EXCEPT !.ord = c]
  BY DEF OrderClone, OrderStats
<1>2. PrioShape(prio) /\ (c.at = "cloned" => c.map = prio.map)
  BY <1>1 DEF PrioInv, AtRest
<1>3. /\ PrioShape(prio') /\ prio'.ins = prio.ins /\ prio'.ord = c /\ prio'.map = prio.map
      /\ prio'.heap = prio.heap /\ prio'.raced = prio.raced /\ prio'.result = prio.result
  BY <1>1, <1>2 DEF PrioShape
<1>4. Covered(prio') /\ CloneBehind(prio')
  BY <1>2, <1>3 DEF PrioInv, Covered, CloneBehind, InSomeEntry, Pushing
<1> QED
  BY <1>3, <1>4 DEF PrioInv

\* an order is one of the heap's entries, each once and after its ancestors
LEMMA OrderSound ==
  ASSUME PrioShape(prio), NEW map, NEW known, NEW limit \in Nat, NEW seq \in HeapOrders(prio.heap)
  PROVE  LET r == EngineOrder(known, TopologicalOrder(map, seq, limit)) IN r \in Seq(Hash) /\ AncestorsFirst(r)
<1> DEFINE ask == [map |-> map, limit |-> 2 * limit, min |-> 0]
           once == FoldLeft(TakeOnce, <<>>, PoolOrder(ask, seq))
           m == IF limit < Len(once) THEN limit ELSE Len(once)
           q == SubSeq(once, 1, m)
           copies == Copies(prio.heap)
<1>1. seq \in Seq(copies)
  <2>1. seq \in SetToSeqs(copies)
    BY DEF HeapOrders
  <2>2. IsFiniteSet(copies)
    <3>1. IsFiniteSet(HeapKeys)
      BY OrderingAssumption, FS_Product DEF HeapKeys
    <3>2. IsFiniteSet(1 .. MaxHeap)
      BY OrderingAssumption, FS_Interval
    <3>3. IsFiniteSet(HeapKeys \X (1 .. MaxHeap))
      BY <3>1, <3>2, FS_Product
    <3> QED
      BY <3>3, FS_Subset DEF Copies
  <2> HIDE DEF copies
  <2>3. Cardinality(copies) \in Nat
    BY <2>2, FS_CardinalityType
  <2> QED
    BY <2>1, <2>3 DEF SetToSeqs
<1>2. \A c \in copies : c[1][1] \in Hash
  BY KeysAre DEF Copies
<1> HIDE DEF copies
<1>3. PoolOrder(ask, seq) \in Seq(Hash)
  <2> HIDE DEF ask
  <2> QED
    BY <1>1, <1>2, PoolOrderShape
<1>4. once \in Seq(Hash) /\ Distinct(once)
  BY <1>3, OnceDistinct
<1>5. TopologicalOrder(map, seq, limit) = q
  BY DEF TopologicalOrder
<1> HIDE DEF once, ask
<1>6. m \in Nat /\ m <= Len(once) /\ Len(once) \in Nat /\ DOMAIN once = 1 .. Len(once)
  BY <1>4
<1> HIDE DEF m
<1>7. q \in Seq(Hash) /\ Len(q) = m /\ \A i \in 1 .. m : q[i] = once[i]
  <2>1. \A i \in 1 .. m : once[i] \in Hash
    BY <1>4, <1>6
  <2>2. /\ SubSeq(once, 1, m) \in Seq(Hash) /\ Len(SubSeq(once, 1, m)) = IF 1 <= m THEN m - 1 + 1 ELSE 0
        /\ \A i \in 1 .. m - 1 + 1 : SubSeq(once, 1, m)[i] = once[1 + i - 1]
    BY <1>6, <2>1, SubSeqProperties
  <2>3. m - 1 + 1 = m /\ \A i \in 1 .. m : 1 + i - 1 = i
    BY <1>6
  <2> QED
    BY <1>6, <2>2, <2>3
<1> HIDE DEF q
<1>8. Distinct(q)
  <2>1. DOMAIN q = 1 .. m
    BY <1>7
  <2>2. \A i \in 1 .. m : i \in DOMAIN once
    BY <1>6
  <2> QED
    BY <1>4, <1>7, <2>1, <2>2 DEF Distinct
<1> QED
  BY <1>5, <1>7, <1>8, EngineOrderSound

LEMMA OrderHeapKeeps ==
  ASSUME PrioInv(prio), NEW limit \in Nat, OrderHeap(limit)
  PROVE  PrioInv(prio')
<1>1. PICK seq \in HeapOrders(prio.heap) :
        prio' = [prio EXCEPT !.heap = Cleaned(prio.ord.map, prio.heap), !.ord = [at |-> "heap"],
                             !.result = EngineOrder(prio.cache, TopologicalOrder(prio.ord.map, seq, limit))]
  BY DEF OrderHeap
<1> DEFINE r == EngineOrder(prio.cache, TopologicalOrder(prio.ord.map, seq, limit))
           heap == Cleaned(prio.ord.map, prio.heap)
           c == [at |-> "heap"]
<1>2. PrioShape(prio) /\ prio.ord.at = "cloned"
  BY DEF PrioInv, OrderHeap
<1>3. r \in Seq(Hash) /\ AncestorsFirst(r)
  BY <1>1, <1>2, OrderSound
<1>4. /\ heap \in [HeapKeys -> Nat]
      /\ \A x \in HeapKeys : prio.heap[x] > 0 /\ prio.ord.map[x[1]] # None => heap[x] > 0
  BY <1>2 DEF Cleaned, PrioShape
<1>5. prio' = [prio EXCEPT !.heap = heap, !.ord = c, !.result = r] /\ c.at = "heap"
  BY <1>1
<1> HIDE DEF r, heap, c
<1>6. /\ PrioShape(prio') /\ prio'.ins = prio.ins /\ prio'.ord = c /\ prio'.map = prio.map
      /\ prio'.heap = heap /\ prio'.raced = prio.raced /\ prio'.result = r
  BY <1>2, <1>3, <1>4, <1>5 DEF PrioShape
<1>7. Covered(prio')
  <2> SUFFICES ASSUME ~prio.raced, NEW u \in Hash, prio.map[u] # None, ~Pushing(prio, u) PROVE InSomeEntry(prio', u)
    BY <1>6 DEF Covered, Pushing
  <2>1. PICK x \in FeeRates : prio.heap[<<u, x>>] > 0
    BY DEF PrioInv, Covered, InSomeEntry
  <2>2. prio.ord.map[u] # None
    BY <1>2 DEF PrioInv, CloneBehind
  <2> QED
    BY <1>4, <1>6, <2>1, <2>2, KeysAre DEF InSomeEntry
<1>8. CloneBehind(prio')
  BY <1>5, <1>6 DEF CloneBehind
<1> QED
  BY <1>3, <1>6, <1>7, <1>8 DEF PrioInv

LEMMA PeekKeeps ==
  ASSUME PrioInv(prio), PeekHighest
  PROVE  PrioInv(prio')
<1> DEFINE heap == [e \in HeapKeys |-> IF e \in Popped(prio.map, prio.heap) THEN 0 ELSE prio.heap[e]]
<1>1. PrioShape(prio) /\ prio' = [prio EXCEPT !.heap = heap]
  BY DEF PrioInv, PeekHighest
<1>2. \A x \in HeapKeys : prio.map[x[1]] # None => x \notin Popped(prio.map, prio.heap)
  <2> SUFFICES ASSUME NEW x \in HeapKeys, prio.map[x[1]] # None, x \in Popped(prio.map, prio.heap) PROVE FALSE
    OBVIOUS
  <2>1. Better(x, x)
    BY DEF Popped
  <2>2. x[1] \in Nat /\ x[2] \in Nat
    BY KeysAre
  <2> QED
    BY <2>1, <2>2 DEF Better
<1>3. heap \in [HeapKeys -> Nat] /\ \A x \in HeapKeys : prio.heap[x] > 0 /\ prio.map[x[1]] # None => heap[x] > 0
  BY <1>1, <1>2 DEF PrioShape
<1> HIDE DEF heap
<1>4. /\ PrioShape(prio') /\ prio'.ins = prio.ins /\ prio'.ord = prio.ord /\ prio'.map = prio.map
      /\ prio'.heap = heap /\ prio'.raced = prio.raced /\ prio'.result = prio.result
  BY <1>1, <1>3 DEF PrioShape
<1>5. Covered(prio')
  <2> SUFFICES ASSUME ~prio.raced, NEW u \in Hash, prio.map[u] # None, ~Pushing(prio, u) PROVE InSomeEntry(prio', u)
    BY <1>4 DEF Covered, Pushing
  <2>1. PICK x \in FeeRates : prio.heap[<<u, x>>] > 0
    BY DEF PrioInv, Covered, InSomeEntry
  <2> QED
    BY <1>3, <1>4, <2>1, KeysAre DEF InSomeEntry
<1>6. CloneBehind(prio')
  BY <1>4 DEF PrioInv, CloneBehind, Pushing
<1> QED
  BY <1>4, <1>5, <1>6 DEF PrioInv

LEMMA RemoveKeeps ==
  ASSUME PrioInv(prio), NEW t \in Hash, RemoveTransaction(t)
  PROVE  PrioInv(prio')
<1> DEFINE map == [prio.map EXCEPT ![t] = None]
           known == [prio.cache EXCEPT ![t] = None]
<1>1. PrioShape(prio) /\ prio' = [prio EXCEPT !.cache = known, !.map = map] /\ prio.ord.at = "idle"
  BY DEF PrioInv, RemoveTransaction, CacheFree, AtRest
<1>2. map \in [Hash -> Nat] /\ known \in [Hash -> Nat] /\ \A u \in Hash : map[u] # None => map[u] = prio.map[u]
  BY <1>1 DEF PrioShape, None
<1> HIDE DEF map, known
<1>3. /\ PrioShape(prio') /\ prio'.ins = prio.ins /\ prio'.ord = prio.ord /\ prio'.map = map
      /\ prio'.heap = prio.heap /\ prio'.raced = prio.raced /\ prio'.result = prio.result
  BY <1>1, <1>2 DEF PrioShape
<1>4. Covered(prio') /\ CloneBehind(prio')
  BY <1>1, <1>2, <1>3 DEF PrioInv, Covered, CloneBehind, InSomeEntry, Pushing
<1> QED
  BY <1>3, <1>4 DEF PrioInv

LEMMA UpdateKeeps ==
  ASSUME PrioInv(prio), NEW t \in Hash, NEW r \in FeeRates, UpdateTransaction(t, r)
  PROVE  PrioInv(prio')
<1> DEFINE map == [prio.map EXCEPT ![t] = r]
<1>1. PrioShape(prio) /\ prio' = [prio EXCEPT !.map = map] /\ prio.map[t] # None
  BY DEF PrioInv, UpdateTransaction
<1>2. map \in [Hash -> Nat] /\ \A u \in Hash : map[u] # None => prio.map[u] # None
  BY <1>1, KeysAre DEF PrioShape
<1> HIDE DEF map
<1>3. /\ PrioShape(prio') /\ prio'.ins = prio.ins /\ prio'.ord = prio.ord /\ prio'.map = map
      /\ prio'.heap = prio.heap /\ prio'.raced = prio.raced /\ prio'.result = prio.result
  BY <1>1, <1>2 DEF PrioShape
<1>4. Covered(prio') /\ CloneBehind(prio')
  BY <1>2, <1>3 DEF PrioInv, Covered, CloneBehind, InSomeEntry, Pushing
<1> QED
  BY <1>3, <1>4 DEF PrioInv

LEMMA ClearPrioritiesKeeps ==
  ASSUME PrioInv(prio), ClearPriorities
  PROVE  PrioInv(prio')
<1>1. PrioShape(prio) /\ prio' = [prio EXCEPT !.cache = Unranked, !.map = Unranked, !.clearing = TRUE]
  BY DEF PrioInv, ClearPriorities
<1>2. Unranked \in [Hash -> Nat] /\ \A u \in Hash : Unranked[u] = None
  BY DEF Unranked, None
<1>3. /\ PrioShape(prio') /\ prio'.map = Unranked /\ prio'.result = prio.result
  BY <1>1, <1>2 DEF PrioShape
<1>4. Covered(prio') /\ CloneBehind(prio')
  BY <1>2, <1>3 DEF Covered, CloneBehind
<1> QED
  BY <1>3, <1>4 DEF PrioInv

LEMMA ClearHeapKeeps ==
  ASSUME PrioInv(prio), ClearHeap
  PROVE  PrioInv(prio')
<1> DEFINE under == \E t \in Hash : prio.map[t] # None
<1>1. PrioShape(prio) /\ prio' = [prio EXCEPT !.heap = NoEntry, !.clearing = FALSE, !.raced = prio.raced \/ under]
  BY DEF PrioInv, ClearHeap
<1>2. NoEntry \in [HeapKeys -> Nat]
  BY DEF NoEntry
<1> HIDE DEF under
<1>3. /\ DOMAIN prio' = DOMAIN prio /\ prio'.ins = prio.ins /\ prio'.ord = prio.ord /\ prio'.map = prio.map
      /\ prio'.cache = prio.cache /\ prio'.heap = NoEntry /\ prio'.result = prio.result /\ prio'.raced = (prio.raced \/ under)
  BY <1>1 DEF PrioShape
<1>4. PrioShape(prio')
  BY <1>1, <1>2, <1>3 DEF PrioShape
<1>5. ~prio'.raced => \A t \in Hash : prio'.map[t] = None
  BY <1>3 DEF under
<1>6. Covered(prio') /\ CloneBehind(prio')
  BY <1>5 DEF Covered, CloneBehind
<1> QED
  BY <1>3, <1>4, <1>6 DEF PrioInv

(* However inserts, orders, peeks, updates and clears interleave at the    *)
(* locks of the priority pool: what is prioritised is in the heap or about *)
(* to be pushed, unless an order worked on a map older than the heap or a  *)
(* clear came between the two halves of an insert, and an order lists each *)
(* transaction once and after its ancestors, whatever the order in which   *)
(* the heap gave its entries.  The invariant adds that what the order's    *)
(* copy of the map lacks has not reached the heap.                         *)
THEOREM OrdersAlwaysComplete ==
  OrderingSpec => []OrdersComplete
<1>1. OpInit => PrioInv(prio)
  <2> SUFFICES ASSUME OpInit PROVE PrioInv(prio)
    OBVIOUS
  <2>1. /\ Unranked \in [Hash -> Nat] /\ (\A u \in Hash : Unranked[u] = None) /\ NoEntry \in [HeapKeys -> Nat]
        /\ AtRest.at = "idle"
    BY DEF Unranked, NoEntry, None, AtRest
  <2>2. /\ DOMAIN prio = {"map", "heap", "cache", "ins", "ord", "result", "clearing", "raced"} /\ prio.map = Unranked
        /\ prio.heap = NoEntry /\ prio.cache = Unranked /\ prio.ins = AtRest /\ prio.result = <<>>
    BY DEF OpInit
  <2>3. PrioShape(prio)
    BY <2>1, <2>2 DEF PrioShape, InsertPlaces
  <2>4. Covered(prio) /\ CloneBehind(prio)
    BY <2>1, <2>2 DEF Covered, CloneBehind
  <2>5. AncestorsFirst(prio.result)
    BY <2>2 DEF AncestorsFirst
  <2> QED
    BY <2>3, <2>4, <2>5 DEF PrioInv
<1>2. PrioInv(prio) /\ [OpNext]_prio => PrioInv(prio)'
  <2> SUFFICES ASSUME PrioInv(prio), [OpNext]_prio PROVE PrioInv(prio')
    OBVIOUS
  <2>1. CASE OpNext
    BY <2>1, RegisterCacheKeeps, RegisterMapKeeps, RegisterHeapKeeps, RegisterEndKeeps, OrderCloneKeeps, OrderHeapKeeps,
       PeekKeeps, RemoveKeeps, UpdateKeeps, ClearPrioritiesKeeps, ClearHeapKeeps, OrderingAssumption DEF OpNext
  <2>2. CASE UNCHANGED prio
    BY <2>2
  <2> QED
    BY <2>1, <2>2
<1>3. PrioInv(prio) => OrdersComplete
  <2> SUFFICES ASSUME PrioInv(prio) PROVE OrdersComplete
    OBVIOUS
  <2>1. HeapCoversMap
    <3> SUFFICES ASSUME ~prio.raced, NEW t \in Hash, prio.map[t] # None, ~Pushing(prio, t)
                 PROVE  \E e \in InHeap(prio.heap) : e[1] = t
      BY DEF HeapCoversMap, Pushing
    <3>1. PICK r \in FeeRates : prio.heap[<<t, r>>] > 0
      BY DEF PrioInv, Covered, InSomeEntry
    <3> QED
      BY <3>1, KeysAre DEF InHeap
  <2>2. OrderTopological
    <3> DEFINE s == prio.result
    <3>1. s \in Seq(Hash) /\ AncestorsFirst(s)
      BY DEF PrioInv, PrioShape
    <3> SUFFICES ASSUME NEW i \in DOMAIN s
                 PROVE  /\ Anc[s[i]] \subseteq ToSet(SubSeq(s, 1, i - 1))
                        /\ s[i] \notin ToSet(SubSeq(s, 1, i - 1))
      BY DEF OrderTopological
    <3> HIDE DEF s
    <3> DEFINE m == i - 1
               p == SubSeq(s, 1, m)
    <3>2. i \in 1 .. Len(s) /\ Len(s) \in Nat /\ m \in Nat /\ m < Len(s)
      BY <3>1
    <3> HIDE DEF m
    <3>3. \A j \in 1 .. m : s[j] \in Hash
      BY <3>1, <3>2
    <3>4. /\ p \in Seq(Hash) /\ Len(p) = (IF 1 <= m THEN m - 1 + 1 ELSE 0)
          /\ \A j \in 1 .. m - 1 + 1 : p[j] = s[1 + j - 1]
      BY <3>2, <3>3, SubSeqProperties
    <3> HIDE DEF p
    <3>5. DOMAIN p = 1 .. m /\ \A j \in 1 .. m : p[j] = s[j]
      <4>1. m - 1 + 1 = m /\ (\A j \in 1 .. m : 1 + j - 1 = j) /\ Len(p) = m
        BY <3>2, <3>4
      <4> QED
        BY <3>4, <4>1
    <3>6. ToSet(p) = {s[j] : j \in 1 .. m}
      BY <3>5 DEF ToSet
    <3> QED
      BY <3>1, <3>6 DEF AncestorsFirst, m, p
  <2> QED
    BY <2>1, <2>2 DEF OrdersComplete
<1> QED
  BY <1>1, <1>2, <1>3, PTL DEF OrderingSpec

============================================================================
