---------------------------- MODULE PartsProofs -----------------------------
(***************************************************************************)
(* Proofs about the structures around the pool and the network tables, for *)
(* all constants.  They share no state, so that each has a specification   *)
(* of its own here.                                                        *)
(***************************************************************************)
EXTENDS DependencyGraph, DependencyTracker, OwnershipPool, ConflictRbf, FeeQueues, ShardedPool, ResourceTiers, PeerTables,
        PoolMaintenance, FiniteInduction, SequenceTheorems

-----------------------------------------------------------------------------
(* Claims *)
Checking == INSTANCE Folding WITH Step <- LAMBDA t, acc, o : CheckInput(t, acc, o)
Replacing == INSTANCE Folding WITH Step <- LAMBDA t, acc, o : ReplaceClaimant(t, acc, o)

InputsOf(t) == ToSet(Spends[t])

ClaimTables == [claims : [Outpoints -> Tx \union {0}], held : [Tx -> SUBSET Outpoints], tracked : SUBSET Tx]
ClaimsBy(u) == \A o \in Outpoints :
  u.claims[o] # 0 => u.claims[o] \in u.tracked /\ o \in u.held[u.claims[o]]

LEMMA InputsAreOutputs ==
  ASSUME NEW t \in Tx
  PROVE  /\ InputsOf(t) \subseteq Outpoints
         /\ Len(Spends[t]) \in Nat /\ DOMAIN Spends[t] = 1 .. Len(Spends[t])
         /\ \A i \in 1 .. Len(Spends[t]) : Spends[t][i] \in Outpoints /\ Spends[t][i] \in InputsOf(t)
  BY TransactionsAssumption DEF InputsOf, ToSet

(* The first pass of register_claims takes claims away and does nothing    *)
(* else.                                                                   *)
LEMMA ChecksOnlyDrop ==
  ASSUME NEW t \in Tx, NEW u \in ClaimTables
  PROVE  LET r == CheckInputs(u, t)
         IN  /\ r.ok \in BOOLEAN /\ r.u \in ClaimTables
             /\ r.u.held = u.held /\ r.u.tracked = u.tracked
             /\ \A o \in Outpoints : r.u.claims[o] \in {u.claims[o], 0}
<1> DEFINE base == [ok |-> TRUE, u |-> u]
           Dropped(s) == /\ s.u.held = u.held /\ s.u.tracked = u.tracked
                         /\ \A o \in Outpoints : s.u.claims[o] \in {u.claims[o], 0}
           G == {s \in [ok : BOOLEAN, u : ClaimTables] : Dropped(s)}
<1>1. CheckInputs(u, t) = Checking!Fold(t, base, Spends[t])
  BY Zenon DEF CheckInputs, FoldLeft, MapThenFoldSet, Max, Checking!Fold, Checking!IsIter, Checking!Latest
<1>2. Len(Spends[t]) \in Nat /\ DOMAIN Spends[t] = 1 .. Len(Spends[t])
  BY InputsAreOutputs
<1>3. base \in G
  OBVIOUS
<1>4. ASSUME NEW s \in G, NEW i \in 1 .. Len(Spends[t]) PROVE CheckInput(t, s, Spends[t][i]) \in G
  <2> DEFINE o == Spends[t][i]
             dropped == [s EXCEPT !.u.claims[o] = NoTx]
  <2>1. o \in Outpoints
    BY InputsAreOutputs
  <2>2. CheckInput(t, s, o) \in {[s EXCEPT !.ok = FALSE], dropped}
    BY DEF CheckInput
  <2>3. [s EXCEPT !.ok = FALSE] \in G
    BY DEF ClaimTables
  <2>4. dropped \in G
    BY <2>1 DEF ClaimTables, NoTx
  <2> QED
    BY <2>2, <2>3, <2>4
<1> HIDE DEF G, base
<1>5. Checking!Fold(t, base, Spends[t]) \in G
  BY <1>2, <1>3, <1>4, Leasts, Checking!FoldKeeps
<1> QED
  BY <1>1, <1>5 DEF G

LEMMA ReleaseTables ==
  ASSUME NEW t \in Tx, NEW u \in ClaimTables
  PROVE  LET r == Released(u, t)
         IN  /\ r \in ClaimTables
             /\ r.tracked = u.tracked \ {t}
             /\ \A x \in Tx : r.held[x] = IF x = t THEN {} ELSE u.held[x]
             /\ \A o \in Outpoints : r.claims[o] = IF o \in u.held[t] THEN 0 ELSE u.claims[o]
  BY DEF Released, ClaimTables, NoTx

LEMMA ClaimTablesOf ==
  ASSUME NEW t \in Tx, NEW u \in ClaimTables
  PROVE  LET r == Claimed(u, t)
         IN  /\ r \in ClaimTables
             /\ r.tracked = u.tracked \union {t}
             /\ \A x \in Tx : r.held[x] = IF x = t THEN InputsOf(t) ELSE u.held[x]
             /\ \A o \in Outpoints : r.claims[o] = IF o \in InputsOf(t) THEN t ELSE u.claims[o]
<1>1. InputsOf(t) \subseteq Outpoints
  BY InputsAreOutputs
<1> QED
  BY <1>1 DEF Claimed, ClaimTables, InputsOf

ClaimsInv == ut \in ClaimTables /\ pending \in SUBSET Tx /\ ClaimsBy(ut)
             /\ \A t \in Tx : ut.held[t] \subseteq InputsOf(t)
ClaimsSpec == UtInit /\ [][UtNext]_utVars

(* Dropping claims keeps the rest held by their claimants; so does giving  *)
(* up all that a transaction holds.                                        *)
LEMMA DroppingKeepsClaims ==
  ASSUME NEW u \in ClaimTables, ClaimsBy(u), NEW v \in ClaimTables,
         v.held = u.held, v.tracked = u.tracked, \A o \in Outpoints : v.claims[o] \in {u.claims[o], 0}
  PROVE  ClaimsBy(v)
  BY DEF ClaimsBy, ClaimTables

LEMMA ReleaseKeepsClaims ==
  ASSUME NEW t \in Tx, NEW u \in ClaimTables, ClaimsBy(u)
  PROVE  ClaimsBy(Released(u, t))
<1> DEFINE r == Released(u, t)
<1>1. /\ r.tracked = u.tracked \ {t}
      /\ \A x \in Tx : r.held[x] = IF x = t THEN {} ELSE u.held[x]
      /\ \A o \in Outpoints : r.claims[o] = IF o \in u.held[t] THEN 0 ELSE u.claims[o]
  BY ReleaseTables
<1> HIDE DEF r
<1>2. ASSUME NEW o \in Outpoints, r.claims[o] # 0
      PROVE  r.claims[o] \in r.tracked /\ o \in r.held[r.claims[o]]
  <2>1. r.claims[o] = u.claims[o] /\ o \notin u.held[t]
    BY <1>1, <1>2
  <2>2. u.claims[o] \in u.tracked /\ o \in u.held[u.claims[o]] /\ u.claims[o] \in Tx
    BY <1>2, <2>1 DEF ClaimsBy, ClaimTables
  <2>3. u.claims[o] # t
    BY <2>1, <2>2
  <2> QED
    BY <1>1, <2>1, <2>2, <2>3
<1> QED
  BY <1>2 DEF ClaimsBy, r

(* register_claims, release_claims, attempt_rbf_replacement and clear_all  *)
(* of conflict.rs, in any order and with calls between the two passes of   *)
(* register_claims: whoever claims an output has it among the outputs it   *)
(* holds, so that its release frees it.                                    *)
THEOREM ClaimsAlwaysHeld ==
  ClaimsSpec => []ClaimsHeld
<1>1. UtInit => ClaimsInv
  <2> SUFFICES ASSUME UtInit PROVE ClaimsInv
    OBVIOUS
  <2>1. ut.claims = [o \in Outpoints |-> 0] /\ ut.held = [t \in Tx |-> {}] /\ ut.tracked = {} /\ pending = {}
    BY DEF UtInit, NewUtxoTracker, NoTx
  <2>2. ut \in ClaimTables
    BY DEF UtInit, NewUtxoTracker, NoTx, ClaimTables
  <2> QED
    BY <2>1, <2>2 DEF ClaimsInv, ClaimsBy
<1>2. ClaimsInv /\ [UtNext]_utVars => ClaimsInv'
  <2> SUFFICES ASSUME ClaimsInv, [UtNext]_utVars PROVE ClaimsInv'
    OBVIOUS
  <2>1. /\ ut \in ClaimTables /\ pending \in SUBSET Tx /\ ClaimsBy(ut)
        /\ \A t \in Tx : ut.held[t] \subseteq InputsOf(t)
    BY DEF ClaimsInv
  <2>2. SUFFICES /\ ut' \in ClaimTables /\ pending' \in SUBSET Tx /\ ClaimsBy(ut')
                 /\ \A t \in Tx : ut'.held[t] \subseteq InputsOf(t)
    BY DEF ClaimsInv, ClaimTables, ClaimsBy, InputsOf
  <2>3. ASSUME NEW t \in Tx, RegisterCheck(t)
        PROVE  /\ ut' \in ClaimTables /\ pending' \in SUBSET Tx /\ ClaimsBy(ut')
               /\ \A x \in Tx : ut'.held[x] \subseteq InputsOf(x)
    <3> DEFINE r == CheckInputs(ut, t)
    <3>1. /\ r.u \in ClaimTables /\ r.u.held = ut.held /\ r.u.tracked = ut.tracked
          /\ \A o \in Outpoints : r.u.claims[o] \in {ut.claims[o], 0}
      BY <2>1, ChecksOnlyDrop
    <3>2. ut' = r.u /\ pending' \in {pending \union {t}, pending}
      BY <2>3 DEF RegisterCheck
    <3> HIDE DEF r
    <3>3. ClaimsBy(r.u)
      BY <2>1, <3>1, DroppingKeepsClaims
    <3> QED
      BY <2>1, <3>1, <3>2, <3>3
  <2>4. ASSUME NEW t \in Tx, RegisterClaim(t)
        PROVE  /\ ut' \in ClaimTables /\ pending' \in SUBSET Tx /\ ClaimsBy(ut')
               /\ \A x \in Tx : ut'.held[x] \subseteq InputsOf(x)
    <3>1. ut' = Claimed(ut, t) /\ pending' = pending \ {t}
      BY <2>4 DEF RegisterClaim
    <3>2. /\ ut' \in ClaimTables /\ ut'.tracked = ut.tracked \union {t}
          /\ \A x \in Tx : ut'.held[x] = IF x = t THEN InputsOf(t) ELSE ut.held[x]
          /\ \A o \in Outpoints : ut'.claims[o] = IF o \in InputsOf(t) THEN t ELSE ut.claims[o]
      BY <2>1, <3>1, ClaimTablesOf
    <3>3. ASSUME NEW o \in Outpoints, ut'.claims[o] # 0
          PROVE  ut'.claims[o] \in ut'.tracked /\ o \in ut'.held[ut'.claims[o]]
      <4>1. CASE o \in InputsOf(t)
        BY <3>2, <4>1
      <4>2. CASE o \notin InputsOf(t)
        <5>1. ut'.claims[o] = ut.claims[o] /\ ut.claims[o] \in ut.tracked /\ o \in ut.held[ut.claims[o]] /\ ut.claims[o] \in Tx
          BY <2>1, <3>2, <3>3, <4>2 DEF ClaimsBy, ClaimTables
        <5>2. ut.claims[o] # t
          BY <2>1, <4>2, <5>1
        <5> QED
          BY <3>2, <5>1, <5>2
      <4> QED
        BY <4>1, <4>2
    <3> QED
      BY <2>1, <3>1, <3>2, <3>3 DEF ClaimsBy
  <2>5. ASSUME NEW t \in Tx, ReleaseClaims(t)
        PROVE  /\ ut' \in ClaimTables /\ pending' \in SUBSET Tx /\ ClaimsBy(ut')
               /\ \A x \in Tx : ut'.held[x] \subseteq InputsOf(x)
    <3>1. ut' = Released(ut, t) /\ pending' = pending
      BY <2>5 DEF ReleaseClaims
    <3> QED
      BY <2>1, <3>1, ReleaseTables, ReleaseKeepsClaims
  <2>6. ASSUME NEW a \in Tx, NEW b \in Tx, AttemptRbfReplacement(a, b)
        PROVE  /\ ut' \in ClaimTables /\ pending' \in SUBSET Tx /\ ClaimsBy(ut')
               /\ \A x \in Tx : ut'.held[x] \subseteq InputsOf(x)
    <3> DEFINE u == Released(ut, a)
               r == CheckInputs(u, b)
    <3>1. ut' = r.u /\ pending' \in {pending \union {b}, pending}
      BY <2>6 DEF AttemptRbfReplacement
    <3>2. u \in ClaimTables /\ ClaimsBy(u) /\ \A x \in Tx : u.held[x] \subseteq InputsOf(x)
      BY <2>1, ReleaseTables, ReleaseKeepsClaims
    <3> HIDE DEF u
    <3>3. /\ r.u \in ClaimTables /\ r.u.held = u.held /\ r.u.tracked = u.tracked
          /\ \A o \in Outpoints : r.u.claims[o] \in {u.claims[o], 0}
      BY <3>2, ChecksOnlyDrop
    <3> HIDE DEF r
    <3>4. ClaimsBy(r.u)
      BY <3>2, <3>3, DroppingKeepsClaims
    <3> QED
      BY <2>1, <3>1, <3>2, <3>3, <3>4
  <2>7. CASE ClearAll
    <3>1. ut' = NewUtxoTracker /\ pending' = pending
      BY <2>7 DEF ClearAll
    <3>2. NewUtxoTracker \in ClaimTables
      BY DEF NewUtxoTracker, NoTx, ClaimTables
    <3>3. ClaimsBy(NewUtxoTracker) /\ \A x \in Tx : NewUtxoTracker.held[x] = {}
      BY DEF NewUtxoTracker, NoTx, ClaimsBy
    <3> QED
      BY <2>1, <3>1, <3>2, <3>3
  <2>8. CASE UNCHANGED utVars
    BY <2>1, <2>8 DEF utVars
  <2> QED
    BY <2>3, <2>4, <2>5, <2>6, <2>7, <2>8 DEF UtNext
<1>3. ClaimsInv => ClaimsHeld
  BY DEF ClaimsInv, ClaimsBy, ClaimsHeld, NoTx
<1> QED
  BY <1>1, <1>2, <1>3, PTL DEF ClaimsSpec

-----------------------------------------------------------------------------
(* The ownership manager *)
Statuses == {"none", "Pending", "Validated", "Rejected", "InBlock"}
Ownerships == [status : [Tx -> Statuses], tainted : BOOLEAN]
OwnershipSpec == OwInit /\ [][OwNext]_<<ut, pending, own>>

(* Whatever claims something holds all the claims it made, and has only    *)
(* made them on its inputs.                                                *)
WithinInputs(u) == \A t \in Tx : u.held[t] \subseteq InputsOf(t)
HoldAll(u) == \A c \in u.tracked : \A o \in InputsOf(c) : u.claims[o] = c
LiveTracked(u, status) == \A t \in Tx : status[t] \in Live => t \in u.tracked
Owned(u, status) == HoldAll(u) /\ LiveTracked(u, status)

OwnershipInv == /\ ut \in ClaimTables /\ WithinInputs(ut)
                /\ own \in Ownerships /\ pending \in SUBSET Tx
                /\ ~own.tainted => Owned(ut, own.status)

(* A release frees the outputs of one transaction, which nobody else       *)
(* claims, if all hold what they claimed.                                  *)
LEMMA ReleaseKeepsHolders ==
  ASSUME NEW u \in ClaimTables, WithinInputs(u), NEW c \in u.tracked
  PROVE  /\ Released(u, c) \in ClaimTables /\ WithinInputs(Released(u, c))
         /\ Released(u, c).tracked = u.tracked \ {c}
         /\ HoldAll(u) => HoldAll(Released(u, c))
<1> DEFINE r == Released(u, c)
<1>0. c \in Tx
  BY DEF ClaimTables
<1>1. /\ r \in ClaimTables /\ r.tracked = u.tracked \ {c}
      /\ \A x \in Tx : r.held[x] = IF x = c THEN {} ELSE u.held[x]
      /\ \A o \in Outpoints : r.claims[o] = IF o \in u.held[c] THEN 0 ELSE u.claims[o]
  BY <1>0, ReleaseTables
<1> HIDE DEF r
<1>2. ASSUME HoldAll(u), NEW d \in r.tracked, NEW o \in InputsOf(d) PROVE r.claims[o] = d
  <2>1. d \in u.tracked /\ d # c /\ d \in Tx
    BY <1>1 DEF ClaimTables
  <2>2. o \in Outpoints /\ u.claims[o] = d
    BY <1>2, <2>1, InputsAreOutputs DEF HoldAll
  <2>3. o \notin u.held[c]
    BY <1>0, <1>2, <2>1, <2>2 DEF HoldAll, WithinInputs
  <2> QED
    BY <1>1, <2>2, <2>3
<1>3. HoldAll(u) => HoldAll(r)
  BY <1>2 DEF HoldAll
<1>4. WithinInputs(r)
  BY <1>1 DEF WithinInputs
<1> QED
  BY <1>1, <1>3, <1>4 DEF r

(* The replacements of an add, finished or broken off, leave every live    *)
(* transaction with its claims.                                            *)
LEMMA ReplacementsKeepHolders ==
  ASSUME OwnershipInv, NEW t \in Tx
  PROVE  LET r == ReplaceRivals(t)
         IN  /\ r.u \in ClaimTables /\ WithinInputs(r.u) /\ r.status \in [Tx -> Statuses] /\ r.ok \in BOOLEAN
             /\ ~own.tainted => Owned(r.u, r.status)
<1> DEFINE base == [ok |-> TRUE, u |-> ut, status |-> own.status]
           G == {s \in [ok : BOOLEAN, u : ClaimTables, status : [Tx -> Statuses]] :
                   WithinInputs(s.u) /\ (~own.tainted => Owned(s.u, s.status))}
<1>1. ReplaceRivals(t) = Replacing!Fold(t, base, Spends[t])
  BY Zenon DEF ReplaceRivals, FoldLeft, MapThenFoldSet, Max, Replacing!Fold, Replacing!IsIter, Replacing!Latest
<1>2. Len(Spends[t]) \in Nat /\ DOMAIN Spends[t] = 1 .. Len(Spends[t])
  BY InputsAreOutputs
<1>3. base \in G
  BY DEF OwnershipInv, Ownerships
<1>4. ASSUME NEW s \in G, NEW i \in 1 .. Len(Spends[t]) PROVE ReplaceClaimant(t, s, Spends[t][i]) \in G
  <2> DEFINE o == Spends[t][i]
             c == s.u.claims[o]
             refused == [s EXCEPT !.ok = FALSE, !.status[c] = IF Fee[t] > Fee[c] THEN "none" ELSE @]
             replaced == [s EXCEPT !.status[c] = "none", !.u = Released(@, c)]
  <2>1. o \in Outpoints /\ s.u \in ClaimTables /\ s.status \in [Tx -> Statuses]
        /\ WithinInputs(s.u) /\ (~own.tainted => Owned(s.u, s.status))
    BY InputsAreOutputs
  <2>2. CASE c = 0 \/ ~s.ok
    BY <2>2 DEF ReplaceClaimant, NoTx
  <2>3. CASE c # 0 /\ s.ok
    <3>1. c \in Tx
      BY <2>1, <2>3 DEF ClaimTables
    <3>2. ReplaceClaimant(t, s, o) = ReplaceRival(s, t, c)
      BY <2>3, Zenon DEF ReplaceClaimant, NoTx
    <3>3. refused \in G
      <4>1. refused \in [ok : BOOLEAN, u : ClaimTables, status : [Tx -> Statuses]] /\ refused.u = s.u
        BY <2>1, <3>1 DEF Statuses
      <4>2. \A x \in Tx : refused.status[x] \in {s.status[x], "none"}
        BY <2>1, <3>1
      <4>3. "none" \notin Live
        BY DEF Live
      <4> HIDE DEF refused
      <4>4. LiveTracked(s.u, s.status) => LiveTracked(s.u, refused.status)
        BY <4>2, <4>3 DEF LiveTracked
      <4> QED
        BY <2>1, <4>1, <4>4 DEF Owned
    <3>4. ASSUME c \in s.u.tracked PROVE replaced \in G
      <4> DEFINE v == Released(s.u, c)
      <4>1. v \in ClaimTables /\ WithinInputs(v) /\ v.tracked = s.u.tracked \ {c} /\ (HoldAll(s.u) => HoldAll(v))
        BY <2>1, <3>4, ReleaseKeepsHolders
      <4> HIDE DEF v
      <4>2. replaced = [s EXCEPT !.status[c] = "none", !.u = v]
        BY DEF v
      <4>3. /\ replaced \in [ok : BOOLEAN, u : ClaimTables, status : [Tx -> Statuses]] /\ replaced.u = v
            /\ \A x \in Tx : replaced.status[x] = IF x = c THEN "none" ELSE s.status[x]
        BY <2>1, <3>1, <4>1, <4>2 DEF Statuses
      <4>4. "none" \notin Live
        BY DEF Live
      <4> HIDE DEF replaced
      <4>5. LiveTracked(s.u, s.status) => LiveTracked(v, replaced.status)
        BY <4>1, <4>3, <4>4 DEF LiveTracked
      <4> QED
        BY <2>1, <4>1, <4>3, <4>5 DEF Owned
    <3>5. \/ ReplaceRival(s, t, c) = refused
          \/ c \in s.u.tracked /\ ReplaceRival(s, t, c) = replaced
      BY Zenon DEF ReplaceRival
    <3> HIDE DEF refused, replaced
    <3> QED
      BY <3>2, <3>3, <3>4, <3>5
  <2> QED
    BY <2>2, <2>3
<1> HIDE DEF G, base
<1>5. Replacing!Fold(t, base, Spends[t]) \in G
  BY <1>2, <1>3, <1>4, Leasts, Replacing!FoldKeeps
<1> QED
  BY <1>1, <1>5 DEF G

(* register_claims and the entry into the pool: unless a claim is pushed   *)
(* aside, the others keep theirs.                                          *)
LEMMA ClaimKeepsHolders ==
  ASSUME OwnershipInv, NEW t \in Tx, ClaimAndEnter(t)
  PROVE  /\ ut' \in ClaimTables /\ WithinInputs(ut') /\ own' \in Ownerships
         /\ ~own'.tainted => Owned(ut', own'.status)
<1> DEFINE r == CheckInputs(ut, t)
           u == IF r.ok THEN Claimed(r.u, t) ELSE r.u
           lost == own.tainted \/ \E o \in Outpoints : ut.claims[o] \notin {0, u.claims[o]}
           entered == [own EXCEPT !.status[t] = "Pending", !.tainted = lost]
<1>1. /\ ut' = u
      /\ \/ own' = [own EXCEPT !.tainted = lost]
         \/ r.ok /\ own' = entered
  BY Zenon DEF ClaimAndEnter, NoTx
<1>2. ut \in ClaimTables /\ WithinInputs(ut) /\ own \in Ownerships /\ (~own.tainted => Owned(ut, own.status))
  BY DEF OwnershipInv
<1>3. /\ r.ok \in BOOLEAN /\ r.u \in ClaimTables /\ r.u.held = ut.held /\ r.u.tracked = ut.tracked
  BY <1>2, ChecksOnlyDrop
<1> HIDE DEF r
<1>4. /\ u \in ClaimTables
      /\ u.tracked = IF r.ok THEN ut.tracked \union {t} ELSE ut.tracked
      /\ \A x \in Tx : u.held[x] \in {InputsOf(x), ut.held[x]}
      /\ r.ok => \A o \in InputsOf(t) : u.claims[o] = t
  <2>1. CASE r.ok
    <3>1. /\ u \in ClaimTables /\ u.tracked = r.u.tracked \union {t}
          /\ \A x \in Tx : u.held[x] = IF x = t THEN InputsOf(t) ELSE r.u.held[x]
          /\ \A o \in Outpoints : u.claims[o] = IF o \in InputsOf(t) THEN t ELSE r.u.claims[o]
      BY <1>3, <2>1, ClaimTablesOf
    <3>2. InputsOf(t) \subseteq Outpoints
      BY InputsAreOutputs
    <3> HIDE DEF u
    <3> QED
      BY <1>3, <2>1, <3>1, <3>2
  <2>2. CASE ~r.ok
    BY <1>3, <2>2
  <2> QED
    BY <2>1, <2>2
<1> HIDE DEF u
<1>5. WithinInputs(u)
  BY <1>2, <1>4 DEF WithinInputs
<1>6. ASSUME ~lost PROVE HoldAll(u)
  <2>1. ASSUME NEW c \in u.tracked, NEW o \in InputsOf(c) PROVE u.claims[o] = c
    <3>1. CASE c \in ut.tracked
      <4>1. c \in Tx /\ c # 0 /\ o \in Outpoints
        BY <1>2, <2>1, <3>1, InputsAreOutputs, TransactionsAssumption DEF ClaimTables
      <4>2. ut.claims[o] = c
        BY <1>2, <1>6, <2>1, <3>1 DEF Owned, HoldAll
      <4> QED
        BY <1>6, <4>1, <4>2
    <3>2. CASE c \notin ut.tracked
      BY <1>4, <2>1, <3>2
    <3> QED
      BY <3>1, <3>2
  <2> QED
    BY <2>1 DEF HoldAll
<1>7. lost \in BOOLEAN
  BY <1>2 DEF Ownerships
<1>8. ~lost => ~own.tainted
  OBVIOUS
<1> HIDE DEF lost
<1>9. CASE own' = [own EXCEPT !.tainted = lost]
  <2>1. own' \in Ownerships /\ own'.status = own.status /\ own'.tainted = lost
    BY <1>2, <1>7, <1>9 DEF Ownerships
  <2>2. ASSUME ~lost PROVE LiveTracked(u, own.status)
    BY <1>2, <1>4, <1>8, <2>2 DEF Owned, LiveTracked
  <2> QED
    BY <1>1, <1>4, <1>5, <1>6, <2>1, <2>2 DEF Owned
<1>10. CASE r.ok /\ own' = entered
  <2>1. /\ own' \in Ownerships /\ own'.tainted = lost
        /\ \A x \in Tx : own'.status[x] = IF x = t THEN "Pending" ELSE own.status[x]
    BY <1>2, <1>7, <1>10 DEF Ownerships, Statuses
  <2>2. ASSUME ~lost PROVE LiveTracked(u, own'.status)
    BY <1>2, <1>4, <1>8, <1>10, <2>1, <2>2 DEF Owned, LiveTracked
  <2> QED
    BY <1>1, <1>4, <1>5, <1>6, <2>1, <2>2 DEF Owned
<1> QED
  BY <1>1, <1>9, <1>10

(* A release together with a change of the status of the same transaction, *)
(* which is not live afterwards.                                           *)
LEMMA LeavingKeepsHolders ==
  ASSUME OwnershipInv, NEW t \in Tx, NEW s \in Statuses \ Live
  PROVE  LET status == [own.status EXCEPT ![t] = s]
         IN  /\ status \in [Tx -> Statuses]
             /\ ~own.tainted => Owned(ut, status)
             /\ t \in ut.tracked /\ ~own.tainted => Owned(Released(ut, t), status)
<1> DEFINE status == [own.status EXCEPT ![t] = s]
<1>1. ut \in ClaimTables /\ WithinInputs(ut) /\ own.status \in [Tx -> Statuses] /\ (~own.tainted => Owned(ut, own.status))
  BY DEF OwnershipInv, Ownerships
<1>2. status \in [Tx -> Statuses] /\ \A x \in Tx : status[x] = IF x = t THEN s ELSE own.status[x]
  BY <1>1
<1> HIDE DEF status
<1>3. LiveTracked(ut, own.status) => LiveTracked(ut, status)
  BY <1>2 DEF LiveTracked
<1>4. ASSUME t \in ut.tracked, Owned(ut, own.status) PROVE Owned(Released(ut, t), status)
  <2>1. Released(ut, t).tracked = ut.tracked \ {t} /\ (HoldAll(ut) => HoldAll(Released(ut, t)))
    BY <1>1, <1>4, ReleaseKeepsHolders
  <2>2. LiveTracked(Released(ut, t), status)
    BY <1>2, <1>4, <2>1 DEF Owned, LiveTracked
  <2> QED
    BY <1>4, <2>1, <2>2 DEF Owned
<1> QED
  BY <1>1, <1>2, <1>3, <1>4 DEF status, Owned

(* add_transaction_with_ownership in its two halves, removals, changes of  *)
(* status, expiry and confirmed blocks, in any order (ownership.rs): as    *)
(* long as no claim was pushed aside and no claims of a live transaction   *)
(* were given up, a live pooled transaction holds the claim on each of its *)
(* inputs, so that no two of them spend one output.                        *)
THEOREM LiveAlwaysHoldClaims ==
  OwnershipSpec => []LiveHoldClaims
<1>1. OwInit => OwnershipInv
  <2> SUFFICES ASSUME OwInit PROVE OwnershipInv
    OBVIOUS
  <2>1. ut = NewUtxoTracker /\ pending = {} /\ own = [status |-> [t \in Tx |-> "none"], tainted |-> FALSE]
    BY DEF OwInit, UtInit
  <2>2. ut \in ClaimTables /\ ut.tracked = {} /\ \A t \in Tx : ut.held[t] = {}
    BY <2>1 DEF NewUtxoTracker, NoTx, ClaimTables
  <2>3. own \in Ownerships /\ \A t \in Tx : own.status[t] \notin Live
    BY <2>1 DEF Ownerships, Statuses, Live
  <2> QED
    BY <2>1, <2>2, <2>3 DEF OwnershipInv, WithinInputs, Owned, HoldAll, LiveTracked
<1>2. OwnershipInv /\ [OwNext]_<<ut, pending, own>> => OwnershipInv'
  <2> SUFFICES ASSUME OwnershipInv, [OwNext]_<<ut, pending, own>> PROVE OwnershipInv'
    OBVIOUS
  <2>1. /\ ut \in ClaimTables /\ WithinInputs(ut) /\ own \in Ownerships /\ pending \in SUBSET Tx
        /\ own.status \in [Tx -> Statuses] /\ own.tainted \in BOOLEAN
        /\ ~own.tainted => Owned(ut, own.status)
    BY DEF OwnershipInv, Ownerships
  <2> DEFINE Good == /\ ut' \in ClaimTables /\ WithinInputs(ut') /\ own' \in Ownerships /\ pending' \in SUBSET Tx
                     /\ ~own'.tainted => Owned(ut', own'.status)
  <2>2. SUFFICES Good
    BY DEF OwnershipInv, ClaimTables, WithinInputs, InputsOf, Owned, HoldAll, LiveTracked, 
           Ownerships
  <2>3. ASSUME NEW t \in Tx, AddBegin(t) PROVE Good
    <3> DEFINE r == ReplaceRivals(t)
    <3>1. /\ r.u \in ClaimTables /\ WithinInputs(r.u) /\ r.status \in [Tx -> Statuses]
          /\ ~own.tainted => Owned(r.u, r.status)
      BY ReplacementsKeepHolders
    <3>2. ut' = r.u /\ own' = [own EXCEPT !.status = r.status] /\ pending' \in {pending \union {t}, pending}
      BY <2>3 DEF AddBegin
    <3> HIDE DEF r
    <3>3. own' \in Ownerships /\ own'.status = r.status /\ own'.tainted = own.tainted
      BY <2>1, <3>1, <3>2 DEF Ownerships
    <3> QED
      BY <2>1, <3>1, <3>2, <3>3
  <2>4. ASSUME NEW t \in Tx, AddFinish(t) PROVE Good
    <3>1. ClaimAndEnter(t) /\ pending' = pending \ {t}
      BY <2>4 DEF AddFinish
    <3> QED
      BY <2>1, <3>1, ClaimKeepsHolders
  <2>5. ASSUME NEW t \in Tx, AddUnchecked(t) PROVE Good
    <3>1. ClaimAndEnter(t) /\ pending' = pending
      BY <2>5 DEF AddUnchecked
    <3> QED
      BY <2>1, <3>1, ClaimKeepsHolders
  <2>6. ASSUME NEW t \in Tx, RemoveOwned(t) \/ SyncWithNewBlock(t) PROVE Good
    <3> DEFINE status == [own.status EXCEPT ![t] = "none"]
    <3>1. /\ own' = [own EXCEPT !.status[t] = "none"] /\ pending' = pending
          /\ \/ t \in ut.tracked /\ ut' = Released(ut, t)
             \/ ut' = ut
      BY <2>6 DEF RemoveOwned, SyncWithNewBlock
    <3>2. "none" \in Statuses \ Live
      BY DEF Statuses, Live
    <3>3. /\ status \in [Tx -> Statuses]
          /\ ~own.tainted => Owned(ut, status)
          /\ t \in ut.tracked /\ ~own.tainted => Owned(Released(ut, t), status)
      BY <3>2, LeavingKeepsHolders
    <3>4. own' \in Ownerships /\ own'.status = status /\ own'.tainted = own.tainted
      BY <2>1, <3>1, <3>3 DEF Ownerships
    <3>5. t \in ut.tracked => Released(ut, t) \in ClaimTables /\ WithinInputs(Released(ut, t))
      BY <2>1, ReleaseKeepsHolders
    <3> HIDE DEF status
    <3> QED
      BY <2>1, <3>1, <3>3, <3>4, <3>5
  <2>7. ASSUME NEW t \in Tx, NEW s \in {"Validated", "Rejected", "InBlock"}, TransitionStatus(t, s) PROVE Good
    <3> DEFINE status == [own.status EXCEPT ![t] = s]
               can == CanTransition(own.status[t], s)
               spoilt == s = "InBlock" /\ own.status[t] \in Live
    <3>1. /\ s = "InBlock" => t \in ut.tracked
          /\ ut' = IF s = "InBlock" THEN Released(ut, t) ELSE ut
          /\ own' = IF can THEN [own EXCEPT !.status[t] = s] ELSE [own EXCEPT !.tainted = @ \/ spoilt]
          /\ pending' = pending
      BY <2>7, Zenon DEF TransitionStatus
    <3>2. s = "InBlock" => Released(ut, t) \in ClaimTables /\ WithinInputs(Released(ut, t))
      BY <2>1, <3>1, ReleaseKeepsHolders
    <3>3. CASE s # "Validated" /\ can
      <4>1. s \in Statuses \ Live
        BY <3>3 DEF Statuses, Live
      <4>2. /\ status \in [Tx -> Statuses]
            /\ ~own.tainted => Owned(ut, status)
            /\ t \in ut.tracked /\ ~own.tainted => Owned(Released(ut, t), status)
        BY <4>1, LeavingKeepsHolders
      <4>3. own' \in Ownerships /\ own'.status = status /\ own'.tainted = own.tainted
        BY <2>1, <3>1, <3>3, <4>2 DEF Ownerships
      <4> HIDE DEF status
      <4> QED
        BY <2>1, <3>1, <3>2, <3>3, <4>2, <4>3
    <3>4. CASE s = "Validated" /\ can
      <4>1. own.status[t] \in Live
        BY <3>4 DEF CanTransition, Live
      <4>2. /\ own' \in Ownerships /\ own'.tainted = own.tainted /\ ut' = ut
            /\ \A x \in Tx : own'.status[x] = IF x = t THEN s ELSE own.status[x]
        BY <2>1, <3>1, <3>4 DEF Ownerships, Statuses
      <4>3. LiveTracked(ut, own.status) => LiveTracked(ut, own'.status)
        BY <4>1, <4>2 DEF LiveTracked
      <4> QED
        BY <2>1, <3>1, <4>2, <4>3 DEF Owned
    <3>5. CASE ~can
      <4>1. spoilt \in BOOLEAN
        OBVIOUS
      <4>2. own' \in Ownerships /\ own'.status = own.status /\ (own'.tainted <=> own.tainted \/ spoilt)
        <5> HIDE DEF spoilt, can
        <5> QED
          BY <2>1, <3>1, <3>5, <4>1 DEF Ownerships
      <4>3. CASE s # "InBlock"
        BY <2>1, <3>1, <4>2, <4>3
      <4>4. CASE s = "InBlock"
        <5>1. t \in ut.tracked /\ ut' = Released(ut, t)
          BY <3>1, <4>4
        <5>2. ut'.tracked = ut.tracked \ {t} /\ (HoldAll(ut) => HoldAll(ut'))
          BY <2>1, <5>1, ReleaseKeepsHolders
        <5>3. ASSUME ~spoilt, LiveTracked(ut, own.status) PROVE LiveTracked(ut', own'.status)
          BY <4>2, <4>4, <5>2, <5>3 DEF LiveTracked
        <5> QED
          BY <2>1, <3>1, <3>2, <4>2, <4>4, <5>1, <5>2, <5>3 DEF Owned
      <4> QED
        BY <4>3, <4>4
    <3> QED
      BY <3>3, <3>4, <3>5
  <2>8. ASSUME NEW S \in SUBSET Tx, CleanupExpired(S) PROVE Good
    <3>1. own' = [own EXCEPT !.status = [t \in Tx |-> IF t \in S THEN "none" ELSE @[t]]] /\ ut' = ut /\ pending' = pending
      BY <2>8 DEF CleanupExpired, utVars
    <3>2. own'.tainted = own.tainted /\ own'.status = [t \in Tx |-> IF t \in S THEN "none" ELSE own.status[t]]
      BY <2>1, <3>1 DEF Ownerships
    <3>3. own' \in Ownerships
      BY <2>1, <3>1, <3>2 DEF Ownerships, Statuses
    <3>4. "none" \notin Live
      BY DEF Live
    <3>5. LiveTracked(ut, own.status) => LiveTracked(ut, own'.status)
      BY <3>2, <3>4 DEF LiveTracked
    <3> QED
      BY <2>1, <3>1, <3>2, <3>3, <3>5 DEF Owned
  <2>9. CASE UNCHANGED <<ut, pending, own>>
    BY <2>1, <2>9
  <2> HIDE DEF Good
  <2> QED
    BY <2>3, <2>4, <2>5, <2>6, <2>7, <2>8, <2>9 DEF OwNext
<1>3. OwnershipInv => LiveHoldClaims
  <2> SUFFICES ASSUME OwnershipInv, ~own.tainted, NEW t \in Tx, own.status[t] \in Live
               PROVE  t \in ut.tracked /\ \A o \in ToSet(Spends[t]) : ut.claims[o] = t
    BY DEF LiveHoldClaims
  <2> QED
    BY DEF OwnershipInv, Owned, HoldAll, LiveTracked, InputsOf
<1> QED
  BY <1>1, <1>2, <1>3, PTL DEF OwnershipSpec

-----------------------------------------------------------------------------
(* Queues *)
Promoting == INSTANCE Folding WITH Step <- LAMBDA a, acc, t : Promote(acc, t)

QueuesSpec == MqInit /\ [][MqNext]_mq

QueueStates == [q : [Queues -> SUBSET Tx], since : [Tx -> Nat], avg : Averages \union {100}, now : Nat,
                admitted : SUBSET Tx, lost : SUBSET Tx]
Accounted(g) == g.q["high"] \union g.q["std"] \union g.q["low"] \union g.lost
Bounded(g) == \A x \in Queues : IsFiniteSet(g.q[x]) /\ Cardinality(g.q[x]) <= Cap[x]
Conserved(g) == g.admitted = Accounted(g) /\ Bounded(g)
QueuesInv == mq \in QueueStates /\ Conserved(mq)

LEMMA CapsAreNumbers == \A x \in Queues : Cap[x] \in Nat
  BY QueuesAssumption DEF Queues, Cap

(* An entry into a queue with room, of a transaction that may have been    *)
(* missed before.                                                          *)
LEMMA AddConserves ==
  ASSUME NEW g \in QueueStates, Bounded(g), NEW t \in Tx, NEW x \in Queues, HasRoom(g, x),
         g.admitted \union {t} = Accounted(g) \union {t}
  PROVE  LET h == AddTo(g, x, t)
         IN  h \in QueueStates /\ Conserved(h) /\ h.admitted = g.admitted \union {t}
<1> DEFINE h == AddTo(g, x, t)
<1>1. h.admitted = g.admitted \union {t} /\ h.lost = g.lost \ {t}
  BY DEF AddTo, QueueStates
<1>2. \A y \in Queues : h.q[y] = IF y = x THEN g.q[x] \union {t} ELSE g.q[y]
  BY DEF AddTo, QueueStates
<1>3. h \in QueueStates
  <2> DEFINE s == IF x = "low" THEN g.now ELSE g.since[t]
  <2>1. s \in Nat
    BY DEF QueueStates
  <2>2. h = [g EXCEPT !.q[x] = @ \union {t}, !.since[t] = s, !.admitted = @ \union {t}, !.lost = @ \ {t}]
    BY Zenon DEF AddTo
  <2> HIDE DEF s, h
  <2>3. h = [q |-> [g.q EXCEPT ![x] = @ \union {t}], since |-> [g.since EXCEPT ![t] = s], avg |-> g.avg, now |-> g.now,
             admitted |-> g.admitted \union {t}, lost |-> g.lost \ {t}]
    BY <2>2 DEF QueueStates
  <2>4. [g.q EXCEPT ![x] = @ \union {t}] \in [Queues -> SUBSET Tx] /\ [g.since EXCEPT ![t] = s] \in [Tx -> Nat]
    BY <2>1 DEF QueueStates
  <2> QED
    BY <2>3, <2>4 DEF QueueStates
<1>4. Cardinality(g.q[x]) < Cap[x]
  BY DEF HasRoom
<1>5. IsFiniteSet(g.q[x] \union {t}) /\ Cardinality(g.q[x] \union {t}) <= Cap[x]
  <2>1. IsFiniteSet(g.q[x]) /\ Cardinality(g.q[x]) \in Nat /\ Cap[x] \in Nat
    BY FS_CardinalityType, CapsAreNumbers DEF Bounded
  <2>2. IsFiniteSet(g.q[x] \union {t})
        /\ Cardinality(g.q[x] \union {t}) = IF t \in g.q[x] THEN Cardinality(g.q[x]) ELSE Cardinality(g.q[x]) + 1
    BY <2>1, FS_AddElement
  <2> QED
    BY <1>4, <2>1, <2>2
<1> HIDE DEF h
<1>6. Bounded(h)
  BY <1>2, <1>5 DEF Bounded
<1>7. h.admitted = Accounted(h)
  BY <1>1, <1>2 DEF Accounted, Queues
<1> QED
  BY <1>1, <1>3, <1>6, <1>7 DEF Conserved, h

(* A promotion, into the standard queue or into nowhere. *)
LEMMA PromoteConserves ==
  ASSUME NEW g \in QueueStates, Conserved(g), NEW t \in g.admitted
  PROVE  LET r == Promote([ok |-> TRUE, g |-> g], t)
         IN  r \in [ok : BOOLEAN, g : QueueStates] /\ Conserved(r.g) /\ r.g.admitted = g.admitted
<1> DEFINE out == [g EXCEPT !.q["low"] = @ \ {t}]
           gone == [out EXCEPT !.lost = @ \union ({t} \ (out.q["std"] \union out.q["high"]))]
           base == [ok |-> TRUE, g |-> g]
           r == Promote(base, t)
<1>0. t \in Tx
  BY DEF QueueStates
<1>1. /\ out \in QueueStates /\ out.admitted = g.admitted /\ out.lost = g.lost
      /\ \A y \in Queues : out.q[y] = IF y = "low" THEN g.q["low"] \ {t} ELSE g.q[y]
  BY DEF QueueStates, Queues
<1>2. Bounded(out)
  <2>1. ASSUME NEW y \in Queues PROVE IsFiniteSet(out.q[y]) /\ Cardinality(out.q[y]) <= Cap[y]
    <3>1. out.q[y] \subseteq g.q[y] /\ IsFiniteSet(g.q[y]) /\ Cardinality(g.q[y]) <= Cap[y]
      BY <1>1 DEF Conserved, Bounded
    <3>2. IsFiniteSet(out.q[y]) /\ Cardinality(out.q[y]) <= Cardinality(g.q[y])
      BY <3>1, FS_Subset
    <3>3. Cardinality(out.q[y]) \in Nat /\ Cardinality(g.q[y]) \in Nat /\ Cap[y] \in Nat
      BY <3>1, <3>2, FS_CardinalityType, CapsAreNumbers
    <3> HIDE DEF out
    <3> QED
      BY <3>1, <3>2, <3>3
  <2> QED
    BY <2>1 DEF Bounded
<1>3. r = IF HasRoom(out, "std") THEN [base EXCEPT !.g = AddTo(out, "std", t)] ELSE [ok |-> FALSE, g |-> gone]
  BY DEF Promote
<1> SUFFICES r \in [ok : BOOLEAN, g : QueueStates] /\ Conserved(r.g) /\ r.g.admitted = g.admitted
  OBVIOUS
<1>4. CASE ~HasRoom(out, "std")
  <2>1. /\ gone \in QueueStates /\ gone.admitted = g.admitted /\ gone.q = out.q
        /\ gone.lost = g.lost \union ({t} \ (g.q["std"] \union g.q["high"]))
    <3>1. out.q["std"] = g.q["std"] /\ out.q["high"] = g.q["high"]
      BY <1>1 DEF Queues
    <3> HIDE DEF out
    <3> QED
      BY <1>0, <1>1, <3>1 DEF QueueStates
  <2>2. r = [ok |-> FALSE, g |-> gone]
    BY <1>3, <1>4
  <2> HIDE DEF gone, out, r
  <2>3. gone.admitted = Accounted(gone)
    BY <1>1, <2>1 DEF Conserved, Accounted, Queues
  <2>4. Bounded(gone)
    BY <1>2, <2>1 DEF Bounded
  <2> QED
    BY <2>1, <2>2, <2>3, <2>4 DEF Conserved
<1>5. CASE HasRoom(out, "std")
  <2>1. r = [ok |-> TRUE, g |-> AddTo(out, "std", t)]
    BY <1>3, <1>5
  <2> HIDE DEF out, r
  <2>2. out.admitted \union {t} = Accounted(out) \union {t}
    BY <1>1 DEF Conserved, Accounted, Queues
  <2>3. "std" \in Queues
    BY DEF Queues
  <2> DEFINE h == AddTo(out, "std", t)
  <2>4. h \in QueueStates /\ Conserved(h) /\ h.admitted = out.admitted \union {t}
    BY <1>0, <1>1, <1>2, <1>5, <2>2, <2>3, AddConserves
  <2> HIDE DEF h
  <2> QED
    BY <1>1, <2>1, <2>4 DEF h
<1> QED
  BY <1>4, <1>5

(* A rebalance, in whatever order it takes the candidates. *)
LEMMA RebalanceConserves ==
  ASSUME QueuesInv, RebalanceQueues
  PROVE  mq' \in QueueStates /\ Conserved(mq')
<1> DEFINE S == PromotionCandidates(mq)
           base == [ok |-> TRUE, g |-> mq]
           G == {s \in [ok : BOOLEAN, g : QueueStates] : Conserved(s.g) /\ s.g.admitted = mq.admitted}
<1>1. PICK order \in SetToSeqs(S) : mq' = FoldLeft(Promote, base, order).g
  BY Zenon DEF RebalanceQueues
<1>2. S \subseteq mq.admitted /\ IsFiniteSet(S)
  <2>1. S \subseteq mq.q["low"] /\ "low" \in Queues
    BY DEF PromotionCandidates, Queues
  <2>2. IsFiniteSet(mq.q["low"]) /\ mq.q["low"] \subseteq mq.admitted
    BY <2>1 DEF QueuesInv, Conserved, Bounded, Accounted
  <2> QED
    BY <2>1, <2>2, FS_Subset
<1> HIDE DEF S
<1>3. Len(order) \in Nat /\ DOMAIN order = 1 .. Len(order) /\ \A i \in 1 .. Len(order) : order[i] \in mq.admitted
  <2>1. Cardinality(S) \in Nat
    BY <1>2, FS_CardinalityType
  <2>2. order \in [1 .. Cardinality(S) -> S]
    BY DEF SetToSeqs
  <2> QED
    BY <1>2, <2>1, <2>2
<1>4. FoldLeft(Promote, base, order) = Promoting!Fold(0, base, order)
  BY Zenon DEF FoldLeft, MapThenFoldSet, Max, Promoting!Fold, Promoting!IsIter, Promoting!Latest
<1>5. base \in G
  BY DEF QueuesInv
<1>6. ASSUME NEW s \in G, NEW i \in 1 .. Len(order) PROVE Promote(s, order[i]) \in G
  <2>1. CASE ~s.ok
    <3>1. Promote(s, order[i]) = s
      BY <2>1, Zenon DEF Promote
    <3> QED
      BY <3>1, Zenon
  <2>2. CASE s.ok
    <3>1. s = [ok |-> TRUE, g |-> s.g] /\ s.g \in QueueStates /\ Conserved(s.g) /\ order[i] \in s.g.admitted
      BY <1>3, <2>2
    <3> DEFINE r == Promote([ok |-> TRUE, g |-> s.g], order[i])
    <3>2. r \in [ok : BOOLEAN, g : QueueStates] /\ Conserved(r.g) /\ r.g.admitted = s.g.admitted
      BY <3>1, PromoteConserves
    <3>3. Promote(s, order[i]) = r
      BY <3>1, Zenon
    <3> HIDE DEF r
    <3> QED
      BY <3>2, <3>3
  <2> QED
    BY <2>1, <2>2
<1> HIDE DEF G, base
<1>7. Promoting!Fold(0, base, order) \in G
  BY <1>3, <1>5, <1>6, Leasts, Promoting!FoldKeeps
<1> QED
  BY <1>1, <1>4, <1>7 DEF G

(* admit_transaction, rebalance_queues and the market average of           *)
(* multi_queue.rs: whatever was admitted is in a queue, or a promotion     *)
(* into the full standard queue has dropped it, and no queue outgrows its  *)
(* bound, however rates, averages and waiting times fall.                  *)
THEOREM QueuesAlwaysConserve ==
  QueuesSpec => []QueuesConserve
<1>1. MqInit => QueuesInv
  <2> SUFFICES ASSUME MqInit PROVE QueuesInv
    OBVIOUS
  <2>1. mq \in QueueStates /\ mq.admitted = {} /\ mq.lost = {} /\ \A x \in Queues : mq.q[x] = {}
    BY DEF MqInit, QueueStates
  <2>2. IsFiniteSet({}) /\ Cardinality({}) = 0
    BY FS_EmptySet
  <2>3. \A x \in Queues : Cap[x] \in Nat
    BY CapsAreNumbers
  <2>4. Bounded(mq)
    BY <2>1, <2>2, <2>3 DEF Bounded
  <2> QED
    BY <2>1, <2>4 DEF QueuesInv, Conserved, Accounted, Queues
<1>2. QueuesInv /\ [MqNext]_mq => QueuesInv'
  <2> SUFFICES ASSUME QueuesInv, [MqNext]_mq PROVE QueuesInv'
    OBVIOUS
  <2>1. mq \in QueueStates /\ Conserved(mq)
    BY DEF QueuesInv
  <2>2. SUFFICES mq' \in QueueStates /\ Conserved(mq')
    BY DEF QueuesInv, QueueStates, Conserved, Accounted, Bounded, Queues, Cap
  <2>3. ASSUME NEW t \in Tx, AdmitTransaction(t) PROVE mq' \in QueueStates /\ Conserved(mq')
    <3> DEFINE x == QueueFor(mq, t)
    <3>1. x \in Queues
      BY DEF QueueFor, Queues
    <3>2. HasRoom(mq, x) /\ mq' = AddTo(mq, x, t)
      BY <2>3 DEF AdmitTransaction
    <3> HIDE DEF x
    <3>3. Bounded(mq) /\ mq.admitted \union {t} = Accounted(mq) \union {t}
      BY <2>1 DEF Conserved
    <3> QED
      BY <2>1, <3>1, <3>2, <3>3, AddConserves
  <2>4. ASSUME NEW a \in Averages, UpdateMarketAvg(a) PROVE mq' \in QueueStates /\ Conserved(mq')
    <3>1. mq' \in QueueStates /\ mq'.q = mq.q /\ mq'.admitted = mq.admitted /\ mq'.lost = mq.lost
      BY <2>1, <2>4 DEF UpdateMarketAvg, QueueStates
    <3> QED
      BY <2>1, <3>1 DEF Conserved, Accounted, Bounded
  <2>5. CASE RebalanceQueues
    BY <2>5, RebalanceConserves
  <2>6. CASE MqTick
    <3>1. mq' \in QueueStates /\ mq'.q = mq.q /\ mq'.admitted = mq.admitted /\ mq'.lost = mq.lost
      BY <2>1, <2>6 DEF MqTick, QueueStates
    <3> QED
      BY <2>1, <3>1 DEF Conserved, Accounted, Bounded
  <2>7. CASE UNCHANGED mq
    BY <2>1, <2>7
  <2> QED
    BY <2>3, <2>4, <2>5, <2>6, <2>7 DEF MqNext
<1>3. QueuesInv => QueuesConserve
  <2> DEFINE U == UNION {mq.q[x] : x \in Queues}
  <2>1. U = mq.q["high"] \union mq.q["std"] \union mq.q["low"]
    BY DEF Queues
  <2> HIDE DEF U
  <2> SUFFICES ASSUME QueuesInv PROVE QueuesConserve
    OBVIOUS
  <2>2. mq.admitted = U \union mq.lost
    BY <2>1 DEF QueuesInv, Conserved, Accounted
  <2>3. \A x \in Queues : Cardinality(mq.q[x]) <= Cap[x]
    BY DEF QueuesInv, Conserved, Bounded
  <2> QED
    BY <2>2, <2>3 DEF QueuesConserve, U
<1> QED
  BY <1>1, <1>2, <1>3, PTL DEF QueuesSpec

-----------------------------------------------------------------------------
(* Shards *)

ShardWriters == SpInit /\ [][SpNext]_sp

Marks == UNION {ExtractOutpoints(t) : t \in Tx}
EntryStates == {"Pending", "Validated", "Invalid", "Conflicted"}
Entries == UNION {[D -> EntryStates] : D \in SUBSET Tx}
Results == {<<t, ValidateSingle(t)>> : t \in Tx}
ShardStates == [entries : [Shard -> Entries], used : [Shard -> SUBSET Marks], batch : Seq(Shard \X Tx),
                results : Seq(Results), clearing : SUBSET Shard, batches : Nat,
                leaked : [Shard -> SUBSET Marks], torn : SUBSET Shard]

(* What a shard with these entries and these marks satisfies when nothing  *)
(* has slipped into a clear of it.                                         *)
MarkedFor(e, used, leaked) ==
  /\ \A t, u \in DOMAIN e : t # u => ExtractOutpoints(t) \intersect ExtractOutpoints(u) = {}
  /\ \A t \in DOMAIN e : ExtractOutpoints(t) \subseteq used /\ ExtractOutpoints(t) \intersect leaked = {}
  /\ leaked \subseteq used
  /\ \A o \in used : o \in leaked \/ \E t \in DOMAIN e : o \in ExtractOutpoints(t)
ValidIn(e) == \A t \in DOMAIN e : e[t] = "Validated" => t \in WellFormed
ShardSound(g, s) == /\ s \notin g.clearing \union g.torn => MarkedFor(g.entries[s], g.used[s], g.leaked[s])
                    /\ s \in g.clearing \ g.torn => DOMAIN g.entries[s] = {}
                    /\ ValidIn(g.entries[s])
(* The thread that clears is at one shard at a time. *)
Sound(g) == /\ g \in ShardStates
            /\ \A s \in Shard : ShardSound(g, s)
            /\ \A x, y \in g.clearing : x = y
ShardsInv == Sound(sp)

LEMMA EntriesAre ==
  /\ \A e \in Entries : DOMAIN e \subseteq Tx /\ \A t \in DOMAIN e : e[t] \in EntryStates
  /\ NoEntries \in Entries /\ DOMAIN NoEntries = {}
<1>1. ASSUME NEW e \in Entries PROVE DOMAIN e \subseteq Tx /\ \A t \in DOMAIN e : e[t] \in EntryStates
  BY DEF Entries
<1>2. NoEntries \in [{} -> EntryStates] /\ {} \in SUBSET Tx
  BY DEF NoEntries
<1>3. NoEntries \in Entries
  BY <1>2, Zenon DEF Entries
<1>4. DOMAIN NoEntries = {}
  BY DEF NoEntries
<1> QED
  BY <1>1, <1>3, <1>4

LEMMA EntriesWith ==
  ASSUME NEW e \in Entries, NEW t \in Tx, NEW st \in EntryStates
  PROVE  LET f == WithStatus(e, t, st)
         IN  f \in Entries /\ DOMAIN f = DOMAIN e \union {t} /\ f[t] = st /\ \A x \in DOMAIN e : x # t => f[x] = e[x]
<1> DEFINE f == WithStatus(e, t, st)
           D == DOMAIN e \union {t}
<1>1. DOMAIN e \subseteq Tx /\ \A x \in DOMAIN e : e[x] \in EntryStates
  BY EntriesAre
<1>2. f = [x \in D |-> IF x = t THEN st ELSE e[x]]
  BY Zenon DEF WithStatus
<1>3. D \in SUBSET Tx /\ f \in [D -> EntryStates]
  <2>1. \A x \in D : (IF x = t THEN st ELSE e[x]) \in EntryStates
    BY <1>1
  <2> QED
    BY <1>1, <1>2, <2>1
<1>4. f \in Entries
  BY <1>3, Zenon DEF Entries
<1> QED
  BY <1>2, <1>4

LEMMA EntriesWithout ==
  ASSUME NEW e \in Entries, NEW t
  PROVE  LET f == Restrict(e, DOMAIN e \ {t})
         IN  f \in Entries /\ DOMAIN f = DOMAIN e \ {t} /\ \A x \in DOMAIN f : f[x] = e[x]
<1> DEFINE f == Restrict(e, DOMAIN e \ {t})
           D == DOMAIN e \ {t}
<1>1. f = [x \in D |-> e[x]]
  BY Zenon DEF Restrict
<1>2. D \in SUBSET Tx /\ f \in [D -> EntryStates]
  BY <1>1, EntriesAre
<1>3. f \in Entries
  BY <1>2, Zenon DEF Entries
<1> QED
  BY <1>1, <1>3

(* What an add marks is not marked yet, whether it gets through or not. *)
LEMMA FreshMarks ==
  ASSUME NEW s, NEW t \in Tx
  PROVE  /\ MarkedBefore(s, t) \subseteq ExtractOutpoints(t)
         /\ MarkedBefore(s, t) \intersect sp.used[s] = {}
         /\ ExtractOutpoints(t) \subseteq Marks
<1> DEFINE taken == {i \in DOMAIN Spends[t] : Spends[t][i] \in sp.used[s]}
           early == {j \in DOMAIN Spends[t] : \A k \in taken : j < k}
<1>1. MarkedBefore(s, t) = {Spends[t][i] : i \in early}
  BY Zenon DEF MarkedBefore
<1>2. ASSUME NEW i \in early PROVE Spends[t][i] \in ExtractOutpoints(t) /\ Spends[t][i] \notin sp.used[s]
  <2>1. i \in DOMAIN Spends[t] /\ i \in Nat /\ ~(i < i)
    BY TransactionsAssumption
  <2>2. i \notin taken
    BY <1>2, <2>1
  <2> QED
    BY <2>1, <2>2 DEF ExtractOutpoints, Range
<1>3. ExtractOutpoints(t) \subseteq Marks
  BY DEF Marks
<1> HIDE DEF early
<1> QED
  BY <1>1, <1>2, <1>3

(* The effects of the calls on the entries and the marks of one shard. *)
LEMMA MarkAdd ==
  ASSUME NEW e, NEW f, NEW used, NEW leaked, NEW t, MarkedFor(e, used, leaked), t \notin DOMAIN e,
         ExtractOutpoints(t) \intersect used = {}, DOMAIN f = DOMAIN e \union {t}
  PROVE  MarkedFor(f, used \union ExtractOutpoints(t), leaked)
<1> DEFINE O(x) == ExtractOutpoints(x)
<1>1. /\ \A x, y \in DOMAIN e : x # y => O(x) \intersect O(y) = {}
      /\ \A x \in DOMAIN e : O(x) \subseteq used /\ O(x) \intersect leaked = {}
      /\ leaked \subseteq used
      /\ \A o \in used : o \in leaked \/ \E x \in DOMAIN e : o \in O(x)
  BY DEF MarkedFor
<1>2. O(t) \intersect used = {}
  OBVIOUS
<1> HIDE DEF O
<1>3. \A x, y \in DOMAIN f : x # y => O(x) \intersect O(y) = {}
  BY <1>1, <1>2
<1>4. \A x \in DOMAIN f : O(x) \subseteq used \union O(t) /\ O(x) \intersect leaked = {}
  BY <1>1, <1>2
<1>5. \A o \in used \union O(t) : o \in leaked \/ \E x \in DOMAIN f : o \in O(x)
  BY <1>1
<1> QED
  BY <1>1, <1>3, <1>4, <1>5 DEF MarkedFor, O

LEMMA MarkLeak ==
  ASSUME NEW e, NEW used, NEW leaked, NEW marks, MarkedFor(e, used, leaked), marks \intersect used = {}
  PROVE  MarkedFor(e, used \union marks, leaked \union marks)
  BY DEF MarkedFor

LEMMA MarkRemove ==
  ASSUME NEW e, NEW f, NEW used, NEW leaked, NEW t, MarkedFor(e, used, leaked), t \in DOMAIN e,
         DOMAIN f = DOMAIN e \ {t}
  PROVE  MarkedFor(f, used \ ExtractOutpoints(t), leaked)
<1> DEFINE O(x) == ExtractOutpoints(x)
<1>1. /\ \A x, y \in DOMAIN e : x # y => O(x) \intersect O(y) = {}
      /\ \A x \in DOMAIN e : O(x) \subseteq used /\ O(x) \intersect leaked = {}
      /\ leaked \subseteq used
      /\ \A o \in used : o \in leaked \/ \E x \in DOMAIN e : o \in O(x)
  BY DEF MarkedFor
<1> HIDE DEF O
<1>2. \A x, y \in DOMAIN f : x # y => O(x) \intersect O(y) = {}
  BY <1>1
<1>3. \A x \in DOMAIN f : O(x) \subseteq used \ O(t) /\ O(x) \intersect leaked = {}
  BY <1>1
<1>4. leaked \subseteq used \ O(t)
  BY <1>1
<1>5. \A o \in used \ O(t) : o \in leaked \/ \E x \in DOMAIN f : o \in O(x)
  BY <1>1
<1> QED
  BY <1>2, <1>3, <1>4, <1>5 DEF MarkedFor, O

LEMMA MarkSame ==
  ASSUME NEW e, NEW f, NEW used, NEW leaked, MarkedFor(e, used, leaked), DOMAIN f = DOMAIN e
  PROVE  MarkedFor(f, used, leaked)
  BY DEF MarkedFor

(* A step that touches the entries of one shard. *)
LEMMA OneShard ==
  ASSUME ShardsInv, NEW g \in ShardStates, NEW s \in Shard, ShardSound(g, s), \A x, y \in g.clearing : x = y,
         \A x \in Shard : x # s => /\ g.entries[x] = sp.entries[x] /\ g.used[x] = sp.used[x] /\ g.leaked[x] = sp.leaked[x]
                                   /\ x \in g.clearing <=> x \in sp.clearing
                                   /\ x \in g.torn <=> x \in sp.torn
  PROVE  Sound(g)
<1>1. ASSUME NEW x \in Shard, x # s PROVE ShardSound(g, x)
  BY <1>1 DEF ShardSound, ShardsInv, Sound
<1> QED
  BY <1>1 DEF Sound

LEMMA AddNextSound ==
  ASSUME ShardsInv, AddNext
  PROVE  Sound(sp')
<1> DEFINE s == sp.batch[1][1]
           t == sp.batch[1][2]
           marks == MarkedBefore(s, t)
           fits == marks = ExtractOutpoints(t)
           e == sp.entries[s]
<1>1. sp \in ShardStates /\ (\A x \in Shard : ShardSound(sp, x)) /\ (\A x, y \in sp.clearing : x = y)
  BY DEF ShardsInv, Sound
<1>2. sp.batch # <<>> /\ sp.batch \in Seq(Shard \X Tx)
  BY <1>1 DEF AddNext, ShardStates
<1>3. s \in Shard /\ t \in Tx /\ Tail(sp.batch) \in Seq(Shard \X Tx)
  <2>1. sp.batch[1] \in Shard \X Tx /\ Tail(sp.batch) \in Seq(Shard \X Tx)
    BY <1>2
  <2> QED
    BY <2>1
<1>4. sp' = [AddToShard(s, t) EXCEPT !.batch = Tail(@)]
  BY DEF AddNext
<1>5. /\ marks \subseteq ExtractOutpoints(t) /\ marks \intersect sp.used[s] = {} /\ marks \subseteq Marks
  BY <1>3, FreshMarks
<1>6. e \in Entries /\ ShardSound(sp, s) /\ sp.used[s] \subseteq Marks /\ sp.leaked[s] \subseteq Marks
  BY <1>1, <1>3 DEF ShardStates
<1> HIDE DEF s, t
<1>7. CASE t \in DOMAIN e
  <2>1. sp' = [sp EXCEPT !.batch = Tail(@)]
    BY <1>4, <1>7, Zenon DEF AddToShard
  <2>2. sp' \in ShardStates /\ sp'.entries = sp.entries /\ sp'.used = sp.used /\ sp'.leaked = sp.leaked
        /\ sp'.clearing = sp.clearing /\ sp'.torn = sp.torn
    BY <1>1, <1>3, <2>1 DEF ShardStates
  <2> QED
    BY <1>1, <2>2 DEF ShardSound, Sound
<1>8. CASE t \notin DOMAIN e
  <2> DEFINE en == IF fits THEN WithStatus(e, t, "Pending") ELSE e
             lk == IF fits THEN sp.leaked[s] ELSE sp.leaked[s] \union marks
             tn == IF fits /\ s \in sp.clearing THEN sp.torn \union {s} ELSE sp.torn
             us == sp.used[s] \union marks
  <2>1. sp' = [sp EXCEPT !.used[s] = us, !.entries[s] = en, !.leaked[s] = lk, !.torn = tn, !.batch = Tail(@)]
    <3>1. AddToShard(s, t) = [sp EXCEPT !.used[s] = us, !.entries[s] = en, !.leaked[s] = lk, !.torn = tn]
      BY <1>8, Zenon DEF AddToShard
    <3> HIDE DEF us, en, lk, tn
    <3> QED
      BY <1>1, <1>4, <3>1 DEF ShardStates
  <2>2. "Pending" \in EntryStates /\ "Pending" # "Validated"
    BY DEF EntryStates
  <2>3. /\ en \in Entries
        /\ DOMAIN en = IF fits THEN DOMAIN e \union {t} ELSE DOMAIN e
        /\ ValidIn(en)
    <3>1. ValidIn(e)
      BY <1>6 DEF ShardSound
    <3>2. CASE fits
      <4>1. en = WithStatus(e, t, "Pending")
        BY <3>2, Zenon
      <4>2. /\ en \in Entries /\ DOMAIN en = DOMAIN e \union {t} /\ en[t] = "Pending"
            /\ \A x \in DOMAIN e : x # t => en[x] = e[x]
        <5> HIDE DEF e, marks, fits, en
        <5> QED
          BY <1>3, <1>6, <2>2, <4>1, EntriesWith
      <4> HIDE DEF en
      <4> QED
        BY <2>2, <3>1, <3>2, <4>2 DEF ValidIn
    <3>3. CASE ~fits
      BY <1>6, <3>1, <3>3
    <3> QED
      BY <3>2, <3>3
  <2>4. us \subseteq Marks /\ lk \subseteq Marks /\ tn \subseteq Shard
    BY <1>1, <1>3, <1>5, <1>6 DEF ShardStates
  <2>5. s \notin sp.clearing \union tn => MarkedFor(en, us, lk)
    <3> SUFFICES ASSUME s \notin sp.clearing \union tn PROVE MarkedFor(en, us, lk)
      OBVIOUS
    <3>1. MarkedFor(e, sp.used[s], sp.leaked[s])
      BY <1>6 DEF ShardSound
    <3>2. CASE fits
      BY <1>5, <1>8, <2>3, <3>1, <3>2, MarkAdd
    <3>3. CASE ~fits
      BY <1>5, <3>1, <3>3, MarkLeak
    <3> QED
      BY <3>2, <3>3
  <2>6. s \in sp.clearing \ tn => DOMAIN en = {}
    <3> HIDE DEF en
    <3> QED
      BY <1>6, <2>3 DEF ShardSound
  <2>7. tn \ {s} = sp.torn \ {s}
    OBVIOUS
  <2> HIDE DEF en, us, lk, tn, fits, marks, e
  <2>8. /\ sp' \in ShardStates /\ sp'.clearing = sp.clearing /\ sp'.torn = tn
        /\ sp'.entries[s] = en /\ sp'.used[s] = us /\ sp'.leaked[s] = lk
        /\ \A x \in Shard : x # s => sp'.entries[x] = sp.entries[x] /\ sp'.used[x] = sp.used[x] /\ sp'.leaked[x] = sp.leaked[x]
    BY <1>1, <1>3, <2>1, <2>3, <2>4 DEF ShardStates
  <2>9. ShardSound(sp', s)
    BY <2>3, <2>5, <2>6, <2>8 DEF ShardSound
  <2> QED
    BY <1>1, <1>3, <2>7, <2>8, <2>9, OneShard
<1> QED
  BY <1>7, <1>8

(* A change of status: of an entry that is there, to a status that is      *)
(* "Validated" only for what is well formed.                               *)
LEMMA StatusSound ==
  ASSUME ShardsInv, NEW t \in Tx, NEW s \in Homes(t), NEW st \in EntryStates, st = "Validated" => t \in WellFormed,
         NEW rest \in Seq(Results)
  PROVE  Sound([UpdatedIn(s, t, st) EXCEPT !.results = rest]) /\ Sound(UpdatedIn(s, t, st))
<1> DEFINE e == sp.entries[s]
           f == WithStatus(e, t, st)
           g == [sp EXCEPT !.entries[s] = f]
           h == [g EXCEPT !.results = rest]
<1>1. sp \in ShardStates /\ (\A x \in Shard : ShardSound(sp, x)) /\ (\A x, y \in sp.clearing : x = y)
  BY DEF ShardsInv, Sound
<1>2. s \in Shard /\ t \in DOMAIN e
  BY DEF Homes
<1>3. e \in Entries /\ ShardSound(sp, s)
  BY <1>1, <1>2 DEF ShardStates
<1>4. UpdatedIn(s, t, st) = g
  BY Zenon DEF UpdatedIn
<1>5. f \in Entries /\ DOMAIN f = DOMAIN e /\ f[t] = st /\ \A x \in DOMAIN e : x # t => f[x] = e[x]
  <2> HIDE DEF e
  <2>1. f \in Entries /\ DOMAIN f = DOMAIN e \union {t} /\ f[t] = st /\ \A x \in DOMAIN e : x # t => f[x] = e[x]
    BY <1>3, EntriesWith
  <2> HIDE DEF f
  <2> QED
    BY <1>2, <2>1
<1> HIDE DEF f
<1>6. ValidIn(f)
  BY <1>3, <1>5 DEF ValidIn, ShardSound
<1>7. s \notin sp.clearing \union sp.torn => MarkedFor(f, sp.used[s], sp.leaked[s])
  BY <1>3, <1>5, MarkSame DEF ShardSound
<1>8. s \in sp.clearing \ sp.torn => DOMAIN f = {}
  BY <1>3, <1>5 DEF ShardSound
<1> HIDE DEF e
<1>9. /\ g \in ShardStates /\ g.clearing = sp.clearing /\ g.torn = sp.torn /\ g.entries[s] = f
      /\ g.used = sp.used /\ g.leaked = sp.leaked
      /\ \A x \in Shard : x # s => g.entries[x] = sp.entries[x]
  BY <1>1, <1>2, <1>5 DEF ShardStates
<1> HIDE DEF g
<1>10. /\ h \in ShardStates /\ h.clearing = sp.clearing /\ h.torn = sp.torn /\ h.entries[s] = f
       /\ h.used = sp.used /\ h.leaked = sp.leaked
       /\ \A x \in Shard : x # s => h.entries[x] = sp.entries[x]
  BY <1>9 DEF ShardStates
<1> HIDE DEF h
<1>11. ShardSound(g, s) /\ ShardSound(h, s)
  BY <1>6, <1>7, <1>8, <1>9, <1>10 DEF ShardSound
<1>12. Sound(g)
  BY <1>1, <1>2, <1>9, <1>11, OneShard
<1>13. Sound(h)
  BY <1>1, <1>2, <1>10, <1>11, OneShard
<1> QED
  BY <1>4, <1>12, <1>13 DEF h

LEMMA RemoveSound ==
  ASSUME ShardsInv, NEW t \in Tx, NEW s \in Homes(t)
  PROVE  Sound(RemoveFromShard(s, t))
<1> DEFINE e == sp.entries[s]
           f == Restrict(e, DOMAIN e \ {t})
           us == sp.used[s] \ ExtractOutpoints(t)
           g == [sp EXCEPT !.entries[s] = f, !.used[s] = us]
<1>1. sp \in ShardStates /\ (\A x \in Shard : ShardSound(sp, x)) /\ (\A x, y \in sp.clearing : x = y)
  BY DEF ShardsInv, Sound
<1>2. s \in Shard /\ t \in DOMAIN e
  BY DEF Homes
<1>3. e \in Entries /\ ShardSound(sp, s) /\ us \subseteq Marks
  BY <1>1, <1>2 DEF ShardStates
<1>4. RemoveFromShard(s, t) = g
  BY Zenon DEF RemoveFromShard
<1>5. f \in Entries /\ DOMAIN f = DOMAIN e \ {t} /\ \A x \in DOMAIN f : f[x] = e[x]
  <2> HIDE DEF e
  <2> QED
    BY <1>3, EntriesWithout
<1> HIDE DEF f
<1>6. ValidIn(f)
  BY <1>3, <1>5 DEF ValidIn, ShardSound
<1>7. s \notin sp.clearing \union sp.torn => MarkedFor(f, us, sp.leaked[s])
  BY <1>2, <1>3, <1>5, MarkRemove DEF ShardSound
<1>8. s \in sp.clearing \ sp.torn => DOMAIN f = {}
  BY <1>3, <1>5 DEF ShardSound
<1> HIDE DEF e, us
<1>9. /\ g \in ShardStates /\ g.clearing = sp.clearing /\ g.torn = sp.torn /\ g.entries[s] = f /\ g.used[s] = us
      /\ g.leaked = sp.leaked
      /\ \A x \in Shard : x # s => g.entries[x] = sp.entries[x] /\ g.used[x] = sp.used[x]
  BY <1>1, <1>2, <1>3, <1>5 DEF ShardStates
<1> HIDE DEF g
<1>10. ShardSound(g, s)
  BY <1>6, <1>7, <1>8, <1>9 DEF ShardSound
<1> QED
  BY <1>1, <1>2, <1>4, <1>9, <1>10, OneShard

(* The two halves of a clear: between them the shard has no entries, or an *)
(* add has slipped in and the shard is torn.                               *)
LEMMA ClearSound ==
  ASSUME ShardsInv
  PROVE  /\ \A s \in Shard : ClearEntries(s) => Sound(sp')
         /\ ClearOutpoints => Sound(sp')
<1>1. sp \in ShardStates /\ (\A x \in Shard : ShardSound(sp, x)) /\ (\A x, y \in sp.clearing : x = y)
  BY DEF ShardsInv, Sound
<1>2. NoEntries \in Entries /\ DOMAIN NoEntries = {} /\ ValidIn(NoEntries)
  BY EntriesAre DEF ValidIn
<1>3. ASSUME NEW s \in Shard, ClearEntries(s) PROVE Sound(sp')
  <2>1. sp.clearing = {} /\ sp' = [sp EXCEPT !.entries[s] = NoEntries, !.clearing = {s}, !.torn = @ \ {s}]
    BY <1>3, Zenon DEF ClearEntries
  <2>2. /\ sp' \in ShardStates /\ sp'.clearing = {s} /\ sp'.torn = sp.torn \ {s} /\ sp'.entries[s] = NoEntries
        /\ sp'.used = sp.used /\ sp'.leaked = sp.leaked
        /\ \A x \in Shard : x # s => sp'.entries[x] = sp.entries[x]
    BY <1>1, <1>2, <2>1 DEF ShardStates
  <2>3. ShardSound(sp', s)
    BY <1>2, <2>2 DEF ShardSound
  <2>4. \A x, y \in sp'.clearing : x = y
    BY <2>2
  <2> QED
    BY <2>1, <2>2, <2>3, <2>4, OneShard
<1>4. ASSUME ClearOutpoints PROVE Sound(sp')
  <2>1. PICK s \in sp.clearing : sp' = [sp EXCEPT !.used[s] = {}, !.leaked[s] = {}, !.clearing = {}]
    BY <1>4, Zenon DEF ClearOutpoints
  <2>2. s \in Shard /\ sp.clearing = {s}
    BY <1>1 DEF ShardStates
  <2>3. /\ sp' \in ShardStates /\ sp'.clearing = {} /\ sp'.torn = sp.torn /\ sp'.entries = sp.entries
        /\ sp'.used[s] = {} /\ sp'.leaked[s] = {}
        /\ \A x \in Shard : x # s => sp'.used[x] = sp.used[x] /\ sp'.leaked[x] = sp.leaked[x]
    BY <1>1, <2>1, <2>2 DEF ShardStates
  <2>4. s \notin sp.torn => MarkedFor(sp.entries[s], {}, {})
    BY <1>1, <2>2 DEF ShardSound, MarkedFor
  <2>5. ShardSound(sp', s)
    BY <1>1, <2>2, <2>3, <2>4 DEF ShardSound
  <2> QED
    BY <2>2, <2>3, <2>5, OneShard
<1> QED
  BY <1>3, <1>4

(* The orders of the elements of a finite set are sequences of them. *)
LEMMA OrdersAreSequences ==
  ASSUME NEW S, IsFiniteSet(S), NEW order \in SetToSeqs(S)
  PROVE  order \in Seq(S)
<1>1. Cardinality(S) \in Nat
  BY FS_CardinalityType
<1>2. order \in [1 .. Cardinality(S) -> S]
  BY DEF SetToSeqs
<1>3. order \in [1 .. Cardinality(S) -> S]
  BY <1>2
<1> QED
  BY <1>1, <1>3

LEMMA BatchSound ==
  ASSUME ShardsInv, NEW S \in SUBSET Tx, NEW txs \in SetToSeqs(S), StartBatch(txs)
  PROVE  Sound(sp')
<1> DEFINE Pairs == {<<ShardOf(txs[k]), txs[k]>> : k \in DOMAIN txs}
<1>1. sp \in ShardStates /\ (\A x \in Shard : ShardSound(sp, x)) /\ (\A x, y \in sp.clearing : x = y)
  BY DEF ShardsInv, Sound
<1>2. PICK order \in Partition(txs) :
        sp' = [sp EXCEPT !.batches = @ + 1,
                         !.batch = IF WithinCapacity(txs) /\ VerifyPartitionSafety(txs) THEN order ELSE <<>>]
  BY Zenon DEF StartBatch
<1>3. order \in SetToSeqs(Pairs)
  BY Zenon DEF Partition
<1>4. Pairs \subseteq Shard \X Tx
  <2>1. IsFiniteSet(S)
    BY FS_Subset, ShardsAssumption
  <2>2. txs \in Seq(S)
    BY <2>1, OrdersAreSequences
  <2>3. \A k \in DOMAIN txs : txs[k] \in Tx
    BY <2>2
  <2> QED
    BY <2>3, ShardsAssumption
<1> HIDE DEF Pairs
<1>5. IsFiniteSet(Pairs)
  <2>1. IsFiniteSet(Shard \X Tx)
    BY FS_Product, ShardsAssumption
  <2> QED
    BY <1>4, <2>1, FS_Subset
<1>6. order \in Seq(Shard \X Tx)
  <2>1. order \in Seq(Pairs)
    BY <1>3, <1>5, OrdersAreSequences
  <2> QED
    BY <1>4, <2>1
<1>7. PICK b \in Seq(Shard \X Tx) : sp' = [sp EXCEPT !.batches = @ + 1, !.batch = b]
  <2>1. <<>> \in Seq(Shard \X Tx)
    OBVIOUS
  <2>2. CASE WithinCapacity(txs) /\ VerifyPartitionSafety(txs)
    BY <1>2, <1>6, <2>2, Zenon
  <2>3. CASE ~(WithinCapacity(txs) /\ VerifyPartitionSafety(txs))
    BY <1>2, <2>1, <2>3, Zenon
  <2> QED
    BY <2>2, <2>3
<1>8. /\ sp' \in ShardStates /\ sp'.entries = sp.entries /\ sp'.used = sp.used /\ sp'.leaked = sp.leaked
      /\ sp'.clearing = sp.clearing /\ sp'.torn = sp.torn
  <2>1. sp.batches + 1 \in Nat
    BY <1>1 DEF ShardStates
  <2>2. sp' = [entries |-> sp.entries, used |-> sp.used, batch |-> b, results |-> sp.results, clearing |-> sp.clearing,
               batches |-> sp.batches + 1, leaked |-> sp.leaked, torn |-> sp.torn]
    BY <1>1, <1>7 DEF ShardStates
  <2>3. /\ sp.entries \in [Shard -> Entries] /\ sp.used \in [Shard -> SUBSET Marks] /\ sp.results \in Seq(Results)
        /\ sp.clearing \in SUBSET Shard /\ sp.leaked \in [Shard -> SUBSET Marks] /\ sp.torn \in SUBSET Shard
    BY <1>1 DEF ShardStates
  <2> QED
    BY <2>1, <2>2, <2>3 DEF ShardStates
<1> QED
  BY <1>1, <1>8 DEF ShardSound, Sound

LEMMA ValidateSound ==
  ASSUME ShardsInv, ValidateParallel
  PROVE  Sound(sp')
<1> DEFINE Pending == {t \in Tx : \E s \in Homes(t) : sp.entries[s][t] = "Pending"}
<1>1. sp \in ShardStates /\ (\A x \in Shard : ShardSound(sp, x)) /\ (\A x, y \in sp.clearing : x = y)
  BY DEF ShardsInv, Sound
<1>2. PICK order \in SetToSeqs(Pending) :
        sp' = [sp EXCEPT !.results = [i \in DOMAIN order |-> <<order[i], ValidateSingle(order[i])>>]]
  BY Zenon DEF ValidateParallel
<1>3. order \in Seq(Tx)
  <2>1. Pending \subseteq Tx
    OBVIOUS
  <2> HIDE DEF Pending
  <2>2. order \in Seq(Pending)
    BY <2>1, FS_Subset, OrdersAreSequences, ShardsAssumption
  <2> QED
    BY <2>1, <2>2
<1> HIDE DEF Pending
<1> DEFINE verdicts == [i \in DOMAIN order |-> <<order[i], ValidateSingle(order[i])>>]
<1>4. verdicts \in Seq(Results)
  <2>1. Len(order) \in Nat /\ DOMAIN order = 1 .. Len(order) /\ \A i \in 1 .. Len(order) : order[i] \in Tx
    BY <1>3
  <2>2. \A i \in 1 .. Len(order) : <<order[i], ValidateSingle(order[i])>> \in Results
    BY <2>1 DEF Results
  <2>3. verdicts \in [1 .. Len(order) -> Results]
    BY <2>1, <2>2
  <2> QED
    BY <2>1, <2>3
<1> HIDE DEF verdicts
<1>5. sp' = [sp EXCEPT !.results = verdicts]
  BY <1>2 DEF verdicts
<1>6. /\ sp' \in ShardStates /\ sp'.entries = sp.entries /\ sp'.used = sp.used /\ sp'.leaked = sp.leaked
      /\ sp'.clearing = sp.clearing /\ sp'.torn = sp.torn
  BY <1>1, <1>4, <1>5 DEF ShardStates
<1> QED
  BY <1>1, <1>6 DEF ShardSound, Sound

(* A result is applied to the entry there is now, which need not be the    *)
(* one that was judged: it is a verdict on the same transaction.           *)
LEMMA ApplySound ==
  ASSUME ShardsInv, ApplyResult
  PROVE  Sound(sp')
<1> DEFINE r == Head(sp.results)
           rest == Tail(sp.results)
<1>1. sp \in ShardStates /\ (\A x \in Shard : ShardSound(sp, x)) /\ (\A x, y \in sp.clearing : x = y)
  BY DEF ShardsInv, Sound
<1>2. r \in Results /\ rest \in Seq(Results)
  <2>1. sp.results \in Seq(Results) /\ sp.results # <<>>
    BY <1>1 DEF ShardStates, ApplyResult
  <2> QED
    BY <2>1
<1>3. IF Homes(r[1]) = {} THEN sp' = [sp EXCEPT !.results = rest]
      ELSE \E s \in Homes(r[1]) : sp' = [UpdatedIn(s, r[1], r[2]) EXCEPT !.results = rest]
  BY Zenon DEF ApplyResult
<1> HIDE DEF r, rest
<1>4. r[1] \in Tx /\ r[2] \in EntryStates /\ (r[2] = "Validated" => r[1] \in WellFormed)
  BY <1>2 DEF Results, EntryStates, ValidateSingle
<1>5. CASE Homes(r[1]) = {}
  <2>1. sp' = [sp EXCEPT !.results = rest]
    BY <1>3, <1>5
  <2>2. /\ sp' \in ShardStates /\ sp'.entries = sp.entries /\ sp'.used = sp.used /\ sp'.leaked = sp.leaked
        /\ sp'.clearing = sp.clearing /\ sp'.torn = sp.torn
    BY <1>1, <1>2, <2>1 DEF ShardStates
  <2> QED
    BY <1>1, <2>2 DEF ShardSound, Sound
<1>6. CASE Homes(r[1]) # {}
  <2>1. PICK s \in Homes(r[1]) : sp' = [UpdatedIn(s, r[1], r[2]) EXCEPT !.results = rest]
    BY <1>3, <1>6, Zenon
  <2>2. Sound([UpdatedIn(s, r[1], r[2]) EXCEPT !.results = rest])
    BY <1>2, <1>4, StatusSound
  <2> QED
    BY <2>1, <2>2, Zenon
<1> QED
  BY <1>5, <1>6

(* ParallelMempool: for every number of shards and every batch, however    *)
(* the adding, the validating, the removing and the clearing threads       *)
(* interleave at the locks of the sub-pools.  The invariant adds that      *)
(* between the two halves of a clear the shard is empty unless an add has  *)
(* slipped in, that one shard is being cleared at a time, and that the     *)
(* results waiting to be applied are verdicts of the validator.            *)
LEMMA ShardsAlwaysMarked ==
  ShardWriters => [](OutputsMarked /\ OnlyWellFormedValidated)
<1>1. SpInit => ShardsInv
  <2> SUFFICES ASSUME SpInit PROVE ShardsInv
    OBVIOUS
  <2>1. NoEntries \in Entries /\ DOMAIN NoEntries = {}
    BY EntriesAre
  <2>2. /\ sp \in ShardStates /\ sp.clearing = {}
        /\ \A s \in Shard : sp.entries[s] = NoEntries /\ sp.used[s] = {} /\ sp.leaked[s] = {}
    <3> DEFINE none == [s \in Shard |-> NoEntries]
               marks == [s \in Shard |-> {}]
    <3>1. none \in [Shard -> Entries] /\ marks \in [Shard -> SUBSET Marks]
      BY <2>1
    <3>2. \A s \in Shard : none[s] = NoEntries /\ marks[s] = {}
      OBVIOUS
    <3>3. sp = [entries |-> none, used |-> marks, batch |-> <<>>, results |-> <<>>, clearing |-> {}, batches |-> 0,
                leaked |-> marks, torn |-> {}]
      BY DEF SpInit
    <3> HIDE DEF none, marks
    <3> QED
      BY <3>1, <3>2, <3>3 DEF ShardStates
  <2>3. \A s \in Shard : ShardSound(sp, s)
    BY <2>1, <2>2 DEF ShardSound, MarkedFor, ValidIn
  <2> QED
    BY <2>2, <2>3 DEF ShardsInv, Sound
<1>2. ShardsInv /\ [SpNext]_sp => ShardsInv'
  <2> SUFFICES ASSUME ShardsInv, [SpNext]_sp PROVE ShardsInv'
    OBVIOUS
  <2>1. SUFFICES Sound(sp')
    BY DEF ShardsInv, Sound, ShardStates, ShardSound, MarkedFor, ValidIn, Entries, Marks, Results, EntryStates,
           Outpoints, Range, ValidateSingle
  <2>2. ASSUME NEW txs \in UNION {SetToSeqs(S) : S \in SUBSET Tx}, StartBatch(txs) PROVE Sound(sp')
    <3>1. PICK S \in SUBSET Tx : txs \in SetToSeqs(S)
      BY Zenon
    <3> QED
      BY <2>2, <3>1, BatchSound
  <2>3. ASSUME NEW t \in Tx, RemoveTransaction(t) PROVE Sound(sp')
    <3>1. PICK s \in Homes(t) : sp' = RemoveFromShard(s, t)
      BY <2>3, Zenon DEF RemoveTransaction
    <3>2. Sound(RemoveFromShard(s, t))
      BY RemoveSound
    <3> QED
      BY <3>1, <3>2, Zenon
  <2>4. ASSUME NEW t \in Tx, UpdateStatus(t, "Conflicted") PROVE Sound(sp')
    <3>1. PICK s \in Homes(t) : sp' = UpdatedIn(s, t, "Conflicted")
      BY <2>4, Zenon DEF UpdateStatus
    <3>2. "Conflicted" \in EntryStates /\ "Conflicted" # "Validated" /\ <<>> \in Seq(Results)
      BY DEF EntryStates
    <3>3. Sound(UpdatedIn(s, t, "Conflicted"))
      BY <3>2, StatusSound
    <3> QED
      BY <3>1, <3>3, Zenon
  <2>5. CASE UNCHANGED sp
    BY <2>5 DEF ShardsInv
  <2> QED
    BY <2>2, <2>3, <2>4, <2>5, AddNextSound, ValidateSound, ApplySound, ClearSound DEF SpNext
<1>3. ShardsInv => (OutputsMarked /\ OnlyWellFormedValidated)
  <2> SUFFICES ASSUME ShardsInv PROVE (OutputsMarked /\ OnlyWellFormedValidated)
    OBVIOUS
  <2>1. \A s \in Shard : ShardSound(sp, s)
    BY DEF ShardsInv, Sound
  <2>2. OnlyWellFormedValidated
    BY <2>1 DEF OnlyWellFormedValidated, ShardSound, ValidIn
  <2>3. ASSUME NEW s \in Shard \ (sp.clearing \union sp.torn)
        PROVE  /\ \A t, u \in DOMAIN sp.entries[s] : t # u => ExtractOutpoints(t) \intersect ExtractOutpoints(u) = {}
               /\ sp.used[s] = (UNION {ExtractOutpoints(t) : t \in DOMAIN sp.entries[s]}) \union sp.leaked[s]
               /\ \A t \in DOMAIN sp.entries[s] : ExtractOutpoints(t) \intersect sp.leaked[s] = {}
    <3>1. MarkedFor(sp.entries[s], sp.used[s], sp.leaked[s])
      BY <2>1 DEF ShardSound
    <3>2. sp.used[s] = (UNION {ExtractOutpoints(t) : t \in DOMAIN sp.entries[s]}) \union sp.leaked[s]
      BY <3>1 DEF MarkedFor
    <3> QED
      BY <3>1, <3>2 DEF MarkedFor
  <2> QED
    BY <2>2, <2>3 DEF OutputsMarked
<1> QED
  BY <1>1, <1>2, <1>3, PTL DEF ShardWriters

-----------------------------------------------------------------------------
(* Snapshots of the sharded pool *)
SnapshotsSpec == LsInit /\ [][LsNext]_ls

Snaps == {Snap(i, data) : i \in Nat, data \in Contents \union {{}}}
Errands == [op : {"none", "push", "roll"}, old : Snaps]
LsShape(g) ==
  /\ DOMAIN g = {"current", "history", "call", "updates", "back", "cleared", "pushed", "lost"}
  /\ g.current \in Snaps /\ g.history \in Seq(Snaps) /\ g.call \in [Thread -> Errands]
  /\ g.updates \in Nat /\ g.back \in Nat /\ g.pushed \in Seq(Nat)

Hands(g) == {q \in Thread : g.call[q].op = "push"}
HandIds(g) == {g.call[q].old.id : q \in Hands(g)}

\* every snapshot made is current, in a writer's hands, was pushed or was replaced by a rollback
SnapsKnown(g) == 0 .. g.updates = {g.current.id} \union HandIds(g) \union Range(g.pushed) \union g.lost
\* until a rollback no snapshot is in two of these places
SnapsOnce(g) ==
  g.back = 0 => /\ IsInjective(g.pushed) /\ g.current.id \notin Range(g.pushed)
                /\ \A q \in Thread : g.call[q].op # "roll"
                /\ \A q \in Hands(g) : g.call[q].old.id \notin Range(g.pushed) /\ g.call[q].old.id # g.current.id
                /\ \A q, r \in Hands(g) : g.call[q].old.id = g.call[r].old.id => q = r
\* what a rollback puts back was made before
RollsMade(g) == \A q \in Thread : g.call[q].op = "roll" => g.call[q].old.id \in 0 .. g.updates
\* the history is the end of what was pushed
LastPushed(g) ==
  LET n == Len(g.history)
      k == Len(g.pushed)
  IN /\ n <= MaxHistory /\ n <= k
     /\ \A i \in 1 .. n : g.history[i].id = g.pushed[k - n + i]
     /\ g.cleared \/ n = MaxHistory \/ n = k

SnapInv(g) == LsShape(g) /\ SnapsKnown(g) /\ SnapsOnce(g) /\ RollsMade(g) /\ LastPushed(g)

LEMMA SnapsAre ==
  /\ \A i \in Nat, data \in Contents \union {{}} : Snap(i, data) \in Snaps /\ Snap(i, data).id = i
  /\ \A s \in Snaps : s.id \in Nat
<1>1. \A i \in Nat, data \in Contents \union {{}} : Snap(i, data) \in Snaps
  BY DEF Snaps
<1>2. \A i, data : Snap(i, data).id = i
  BY DEF Snap
<1>3. \A s \in Snaps : \E i \in Nat, data \in Contents \union {{}} : s = Snap(i, data)
  BY DEF Snaps
<1> QED
  BY <1>1, <1>2, <1>3

LEMMA SwapKeeps ==
  ASSUME SnapInv(ls), NEW p \in Thread, NEW data \in Contents, UpdateSwap(p, data)
  PROVE  SnapInv(ls')
<1> DEFINE new == Snap(ls.updates + 1, data)
           c == [op |-> "push", old |-> ls.current]
<1>1. LsShape(ls) /\ ls.call[p].op = "none" /\ ls.updates \in Nat /\ ls.current \in Snaps /\ ls.current.id \in Nat
  BY SnapsAre DEF SnapInv, LsShape, UpdateSwap, At
<1>2. new \in Snaps /\ new.id = ls.updates + 1 /\ c \in Errands /\ c.op = "push" /\ c.old = ls.current
  BY <1>1, SnapsAre DEF Errands
<1>3. ls' = [ls EXCEPT !.current = new, !.updates = @ + 1, !.call[p] = c]
  BY DEF UpdateSwap
<1> HIDE DEF new, c
<1>4. /\ LsShape(ls') /\ ls'.current = new /\ ls'.updates = ls.updates + 1 /\ ls'.call = [ls.call EXCEPT ![p] = c]
      /\ ls'.history = ls.history /\ ls'.pushed = ls.pushed /\ ls'.lost = ls.lost /\ ls'.back = ls.back
      /\ ls'.cleared = ls.cleared
  <2> DEFINE calls == [ls.call EXCEPT ![p] = c]
  <2>1. calls \in [Thread -> Errands]
    BY <1>1, <1>2 DEF LsShape
  <2>2. ls' = [ls EXCEPT !.current = new, !.updates = ls.updates + 1, !.call = calls]
    BY <1>1, <1>3 DEF LsShape
  <2> HIDE DEF calls
  <2>3. /\ LsShape(ls') /\ ls'.current = new /\ ls'.updates = ls.updates + 1 /\ ls'.call = calls
        /\ ls'.history = ls.history /\ ls'.pushed = ls.pushed /\ ls'.lost = ls.lost /\ ls'.back = ls.back
        /\ ls'.cleared = ls.cleared
    BY <1>1, <1>2, <2>1, <2>2 DEF LsShape
  <2> QED
    BY <2>3 DEF calls
<1>5. ls'.call[p] = c /\ \A q \in Thread : q # p => ls'.call[q] = ls.call[q]
  BY <1>1, <1>4 DEF LsShape
<1>6. Hands(ls') = Hands(ls) \union {p} /\ p \notin Hands(ls)
  BY <1>1, <1>2, <1>5 DEF Hands
<1>7. HandIds(ls') = HandIds(ls) \union {ls.current.id}
  <2>1. ls'.call[p].old.id = ls.current.id /\ \A q \in Hands(ls) : ls'.call[q] = ls.call[q]
    BY <1>2, <1>5, <1>6 DEF Hands
  <2> HIDE DEF Hands
  <2> QED
    BY <1>6, <2>1 DEF HandIds
<1>8. SnapsKnown(ls')
  <2>1. 0 .. ls.updates + 1 = (0 .. ls.updates) \union {ls.updates + 1}
    BY <1>1
  <2>2. 0 .. ls.updates = {ls.current.id} \union HandIds(ls) \union Range(ls.pushed) \union ls.lost
    BY DEF SnapInv, SnapsKnown
  <2> QED
    BY <1>2, <1>4, <1>7, <2>1, <2>2 DEF SnapsKnown
<1>9. SnapsOnce(ls')
  <2> SUFFICES ASSUME ls.back = 0 PROVE SnapsOnce(ls')
    BY <1>4 DEF SnapsOnce
  <2>1. /\ IsInjective(ls.pushed) /\ ls.current.id \notin Range(ls.pushed)
        /\ \A q \in Thread : ls.call[q].op # "roll"
        /\ \A q \in Hands(ls) : ls.call[q].old.id \notin Range(ls.pushed) /\ ls.call[q].old.id # ls.current.id
        /\ \A q, r \in Hands(ls) : ls.call[q].old.id = ls.call[r].old.id => q = r
    BY DEF SnapInv, SnapsOnce
  <2>2. \A x \in {ls.current.id} \union HandIds(ls) \union Range(ls.pushed) : x # ls.updates + 1
    <3>1. \A x \in {ls.current.id} \union HandIds(ls) \union Range(ls.pushed) : x \in 0 .. ls.updates
      BY DEF SnapInv, SnapsKnown
    <3> QED
      BY <1>1, <3>1
  <2>3. \A q \in Hands(ls) : q # p /\ q \in Thread /\ ls'.call[q] = ls.call[q] /\ ls.call[q].old.id \in HandIds(ls)
    BY <1>5, <1>6 DEF Hands, HandIds
  <2>4. ls'.call[p].old.id = ls.current.id /\ ls'.call[p].op = "push"
    BY <1>2, <1>5
  <2>5. \A q \in Thread : ls'.call[q].op # "roll"
    BY <1>5, <2>1, <2>4
  <2>6. ls'.current.id = ls.updates + 1 /\ ls'.current.id \notin Range(ls'.pushed)
    BY <1>2, <1>4, <2>2
  <2>7. \A q \in Hands(ls') : ls'.call[q].old.id \notin Range(ls'.pushed) /\ ls'.call[q].old.id # ls'.current.id
    BY <1>4, <1>6, <2>1, <2>2, <2>3, <2>4, <2>6
  <2>8. \A q, r \in Hands(ls') : ls'.call[q].old.id = ls'.call[r].old.id => q = r
    BY <1>6, <2>1, <2>3, <2>4
  <2> QED
    BY <1>4, <2>1, <2>5, <2>6, <2>7, <2>8 DEF SnapsOnce
<1>10. RollsMade(ls')
  BY <1>1, <1>2, <1>4, <1>5 DEF SnapInv, RollsMade
<1>11. LastPushed(ls')
  BY <1>4 DEF SnapInv, LastPushed
<1> QED
  BY <1>4, <1>8, <1>9, <1>10, <1>11 DEF SnapInv

LEMMA HistoryKeeps ==
  ASSUME SnapInv(ls), NEW p \in Thread, UpdateHistory(p)
  PROVE  SnapInv(ls')
<1> DEFINE kept == ls.call[p].old
           c == [op |-> "none", old |-> kept]
           more == Append(ls.history, kept)
           pushed == Append(ls.pushed, kept.id)
           calls == [ls.call EXCEPT ![p] = c]
           trimmed == Trimmed(more)
<1>1. /\ LsShape(ls) /\ ls.call[p] \in Errands /\ ls.call[p].op = "push" /\ kept \in Snaps /\ kept.id \in Nat
      /\ ls.history \in Seq(Snaps) /\ ls.pushed \in Seq(Nat) /\ MaxHistory \in Nat
  <2>1. LsShape(ls) /\ ls.call[p] \in Errands /\ ls.call[p].op = "push" /\ ls.history \in Seq(Snaps) /\ ls.pushed \in Seq(Nat)
    BY DEF SnapInv, LsShape, UpdateHistory, At
  <2>2. kept \in Snaps
    BY <2>1 DEF Errands
  <2> QED
    BY <2>1, <2>2, SnapsAre, SnapshotsAssumption
<1>2. c \in Errands /\ c.op = "none" /\ calls \in [Thread -> Errands]
  BY <1>1 DEF Errands, LsShape
<1>3. /\ more \in Seq(Snaps) /\ Len(more) = Len(ls.history) + 1 /\ more[Len(ls.history) + 1] = kept
      /\ \A i \in 1 .. Len(ls.history) : more[i] = ls.history[i]
  BY <1>1
<1>4. /\ pushed \in Seq(Nat) /\ Len(pushed) = Len(ls.pushed) + 1 /\ pushed[Len(ls.pushed) + 1] = kept.id
      /\ \A i \in 1 .. Len(ls.pushed) : pushed[i] = ls.pushed[i]
  BY <1>1
<1>5. /\ trimmed \in Seq(Snaps)
      /\ Len(trimmed) = IF Len(more) > MaxHistory THEN MaxHistory ELSE Len(more)
      /\ \A i \in 1 .. Len(trimmed) : trimmed[i] = more[Len(more) - Len(trimmed) + i]
  <2>1. CASE Len(more) > MaxHistory
    <3> DEFINE m == Len(more) - MaxHistory + 1
               n == Len(more)
    <3>1. m \in Int /\ n \in Int /\ n - m + 1 = MaxHistory /\ \A i \in m .. n : more[i] \in Snaps
      BY <1>1, <1>3, <2>1
    <3>2. trimmed = SubSeq(more, m, n)
      BY <2>1 DEF Trimmed
    <3> HIDE DEF more, trimmed
    <3>3. /\ SubSeq(more, m, n) \in Seq(Snaps)
          /\ Len(SubSeq(more, m, n)) = IF m <= n THEN n - m + 1 ELSE 0
          /\ \A i \in 1 .. n - m + 1 : SubSeq(more, m, n)[i] = more[m + i - 1]
      <4> HIDE DEF m, n
      <4> QED
        BY <3>1, SubSeqProperties
    <3>4. Len(more) \in Nat /\ (m <= n <=> MaxHistory # 0)
      BY <1>1, <1>3
    <3>5. Len(trimmed) = MaxHistory
      BY <1>1, <3>1, <3>2, <3>3, <3>4
    <3>6. \A i \in 1 .. MaxHistory : trimmed[i] = more[Len(more) - MaxHistory + i]
      <4> SUFFICES ASSUME NEW i \in 1 .. MaxHistory PROVE trimmed[i] = more[Len(more) - MaxHistory + i]
        OBVIOUS
      <4>1. m + i - 1 = Len(more) - MaxHistory + i
        BY <1>1, <3>4
      <4>2. trimmed[i] = more[m + i - 1]
        BY <3>1, <3>2, <3>3
      <4> QED
        BY <4>1, <4>2
    <3> QED
      BY <2>1, <3>2, <3>3, <3>5, <3>6
  <2>2. CASE ~(Len(more) > MaxHistory)
    <3>1. trimmed = more
      BY <2>2 DEF Trimmed
    <3> HIDE DEF more, trimmed
    <3> QED
      BY <1>1, <1>3, <2>2, <3>1
  <2> QED
    BY <2>1, <2>2
<1>6. ls' = [ls EXCEPT !.history = trimmed, !.pushed = pushed, !.call = calls]
  <2>1. ls' = [ls EXCEPT !.history = trimmed, !.pushed = pushed, !.call = [ls.call EXCEPT ![p] = [ls.call[p] EXCEPT !.op = "none"]]]
    BY <1>1 DEF UpdateHistory, Kept, LsShape
  <2>2. [ls.call[p] EXCEPT !.op = "none"] = c
    BY <1>1 DEF Errands
  <2> QED
    BY <2>1, <2>2
<1> HIDE DEF trimmed, pushed, calls, more
<1>7. /\ LsShape(ls') /\ ls'.current = ls.current /\ ls'.updates = ls.updates /\ ls'.call = calls
      /\ ls'.history = trimmed /\ ls'.pushed = pushed /\ ls'.lost = ls.lost /\ ls'.back = ls.back /\ ls'.cleared = ls.cleared
  BY <1>1, <1>2, <1>4, <1>5, <1>6 DEF LsShape
<1>8. ls'.call[p].op = "none" /\ \A q \in Thread : q # p => ls'.call[q] = ls.call[q]
  BY <1>1, <1>2, <1>7 DEF LsShape, calls
<1>9. Hands(ls') = Hands(ls) \ {p} /\ p \in Hands(ls)
  BY <1>1, <1>8 DEF Hands
<1> HIDE DEF kept, c
<1>10. Range(pushed) = Range(ls.pushed) \union {kept.id}
  <2>1. DOMAIN pushed = 1 .. Len(ls.pushed) + 1 /\ DOMAIN ls.pushed = 1 .. Len(ls.pushed) /\ Len(ls.pushed) \in Nat
    BY <1>1, <1>4
  <2>2. DOMAIN pushed = DOMAIN ls.pushed \union {Len(ls.pushed) + 1}
    BY <2>1
  <2>3. \A i \in DOMAIN ls.pushed : pushed[i] = ls.pushed[i]
    BY <1>4, <2>1
  <2> QED
    BY <1>4, <2>2, <2>3 DEF Range
<1>11. HandIds(ls) = HandIds(ls') \union {kept.id}
  <2>1. \A q \in Hands(ls') : ls'.call[q] = ls.call[q]
    BY <1>8, <1>9 DEF Hands
  <2> QED
    BY <1>9, <2>1 DEF HandIds, kept
<1>12. SnapsKnown(ls')
  BY <1>7, <1>10, <1>11 DEF SnapInv, SnapsKnown
<1>13. SnapsOnce(ls')
  <2> SUFFICES ASSUME ls.back = 0 PROVE SnapsOnce(ls')
    BY <1>7 DEF SnapsOnce
  <2>1. /\ IsInjective(ls.pushed) /\ ls.current.id \notin Range(ls.pushed)
        /\ \A q \in Thread : ls.call[q].op # "roll"
        /\ \A q \in Hands(ls) : ls.call[q].old.id \notin Range(ls.pushed) /\ ls.call[q].old.id # ls.current.id
        /\ \A q, r \in Hands(ls) : ls.call[q].old.id = ls.call[r].old.id => q = r
    BY DEF SnapInv, SnapsOnce
  <2>2. kept.id \notin Range(ls.pushed) /\ kept.id # ls.current.id /\ kept.id = ls.call[p].old.id
    BY <1>9, <2>1 DEF kept
  <2>3. \A q \in Hands(ls') : q \in Hands(ls) /\ q # p /\ q \in Thread /\ ls'.call[q] = ls.call[q]
    BY <1>8, <1>9 DEF Hands
  <2>4. \A q \in Hands(ls') : ls'.call[q].old.id # kept.id
    BY <1>9, <2>1, <2>2, <2>3
  <2>5. IsInjective(pushed)
    <3> DEFINE k == Len(ls.pushed)
    <3>1. k \in Nat /\ DOMAIN ls.pushed = 1 .. k /\ DOMAIN pushed = 1 .. k + 1
      BY <1>1, <1>4
    <3> SUFFICES ASSUME NEW i \in 1 .. k + 1, NEW j \in 1 .. k + 1, pushed[i] = pushed[j] PROVE i = j
      BY <3>1 DEF IsInjective
    <3>2. \A x \in 1 .. k : pushed[x] = ls.pushed[x] /\ pushed[x] \in Range(ls.pushed)
      BY <1>4, <3>1 DEF Range
    <3>3. CASE i \in 1 .. k /\ j \in 1 .. k
      BY <2>1, <3>1, <3>2, <3>3 DEF IsInjective
    <3>4. CASE i = k + 1 \/ j = k + 1
      <4>1. pushed[k + 1] = kept.id
        BY <1>4
      <4> QED
        BY <2>2, <3>1, <3>2, <3>4, <4>1
    <3> QED
      BY <3>1, <3>3, <3>4
  <2>6. \A q \in Thread : ls'.call[q].op # "roll"
    BY <1>8, <2>1
  <2>7. /\ ls'.current.id \notin Range(ls'.pushed)
        /\ \A q \in Hands(ls') : ls'.call[q].old.id \notin Range(ls'.pushed) /\ ls'.call[q].old.id # ls'.current.id
    BY <1>7, <1>10, <2>1, <2>2, <2>3, <2>4
  <2>8. \A q, r \in Hands(ls') : ls'.call[q].old.id = ls'.call[r].old.id => q = r
    BY <2>1, <2>3
  <2> QED
    BY <1>7, <2>5, <2>6, <2>7, <2>8 DEF SnapsOnce
<1>14. RollsMade(ls')
  BY <1>7, <1>8 DEF SnapInv, RollsMade
<1>15. LastPushed(ls')
  <2> DEFINE n == Len(ls.history)
             k == Len(ls.pushed)
             m == Len(trimmed)
  <2>0. n \in Nat /\ k \in Nat /\ MaxHistory \in Nat /\ Len(more) = n + 1 /\ Len(pushed) = k + 1
    BY <1>1, <1>3, <1>4
  <2>1. /\ n <= MaxHistory /\ n <= k /\ (n # MaxHistory /\ n # k => ls.cleared)
        /\ \A i \in 1 .. n : ls.history[i].id = ls.pushed[k - n + i]
    BY Zenon DEF SnapInv, LastPushed
  <2>2. m = IF n + 1 > MaxHistory THEN MaxHistory ELSE n + 1
    BY <1>5, <2>0
  <2>10. \A i \in 1 .. m : trimmed[i] = more[(n + 1) - m + i]
    BY <1>5, <2>0
  <2>11. more[n + 1] = kept /\ pushed[k + 1] = kept.id
    BY <1>3, <1>4
  <2>12. (\A i \in 1 .. n : more[i] = ls.history[i]) /\ (\A i \in 1 .. k : pushed[i] = ls.pushed[i])
    BY <1>3, <1>4
  <2> HIDE DEF n, k, m
  <2>3. m \in Nat /\ m <= MaxHistory /\ m <= n + 1 /\ m <= k + 1 /\ (m # MaxHistory /\ m # k + 1 => n # MaxHistory /\ n # k)
    BY <2>0, <2>1, <2>2
  <2>4. \A j \in 1 .. n + 1 : more[j].id = pushed[k - n + j]
    <3> SUFFICES ASSUME NEW j \in 1 .. n + 1 PROVE more[j].id = pushed[k - n + j]
      OBVIOUS
    <3>1. CASE j = n + 1
      <4>1. k - n + j = k + 1
        BY <2>0, <2>1, <3>1
      <4> QED
        BY <2>11, <3>1, <4>1
    <3>2. CASE j \in 1 .. n
      <4>1. k - n + j \in 1 .. k
        BY <2>0, <2>1, <3>2
      <4>2. more[j] = ls.history[j] /\ ls.history[j].id = ls.pushed[k - n + j] /\ pushed[k - n + j] = ls.pushed[k - n + j]
        BY <2>1, <2>12, <3>2, <4>1
      <4> QED
        BY <4>2
    <3> QED
      BY <2>0, <3>1, <3>2
  <2>5. \A i \in 1 .. m : trimmed[i].id = pushed[(k + 1) - m + i]
    <3> SUFFICES ASSUME NEW i \in 1 .. m PROVE trimmed[i].id = pushed[(k + 1) - m + i]
      OBVIOUS
    <3> DEFINE j == n + 1 - m + i
    <3>1. trimmed[i] = more[j] /\ j \in 1 .. n + 1 /\ k - n + j = (k + 1) - m + i
      BY <2>0, <2>1, <2>3, <2>10
    <3> HIDE DEF j
    <3> QED
      BY <2>4, <3>1
  <2>6. ls'.history = trimmed /\ ls'.pushed = pushed /\ ls'.cleared = ls.cleared /\ Len(pushed) = k + 1
    BY <1>7, <2>0
  <2>7. m = MaxHistory \/ m = k + 1 \/ ls'.cleared
    BY <2>1, <2>3, <2>6
  <2> QED
    BY <2>3, <2>5, <2>6, <2>7 DEF LastPushed, m
<1> QED
  BY <1>7, <1>12, <1>13, <1>14, <1>15 DEF SnapInv

\* the ids in the history were pushed, and what was pushed was made
LEMMA HistoryMade ==
  ASSUME SnapInv(ls), NEW i \in DOMAIN ls.history
  PROVE  ls.history[i] \in Snaps /\ ls.history[i].id \in 0 .. ls.updates
<1> DEFINE n == Len(ls.history)
           k == Len(ls.pushed)
<1>1. ls.history \in Seq(Snaps) /\ ls.pushed \in Seq(Nat)
  BY DEF SnapInv, LsShape
<1>2. n \in Nat /\ k \in Nat /\ i \in 1 .. n /\ ls.history[i] \in Snaps /\ DOMAIN ls.pushed = 1 .. k
  BY <1>1
<1>3. n <= k /\ ls.history[i].id = ls.pushed[k - n + i]
  BY <1>2, Zenon DEF SnapInv, LastPushed
<1> HIDE DEF n, k
<1>4. k - n + i \in DOMAIN ls.pushed
  BY <1>2, <1>3
<1>5. ls.history[i].id \in Range(ls.pushed)
  BY <1>3, <1>4 DEF Range
<1> QED
  BY <1>2, <1>5 DEF SnapInv, SnapsKnown

LEMMA RollbackKeeps ==
  ASSUME SnapInv(ls), NEW p \in Thread, NEW i, RollbackRead(p, i)
  PROVE  SnapInv(ls')
<1> DEFINE c == [op |-> "roll", old |-> ls.history[i]]
           calls == [ls.call EXCEPT ![p] = c]
<1>1. LsShape(ls) /\ ls.call[p].op = "none" /\ ls.history[i] \in Snaps /\ ls.history[i].id \in 0 .. ls.updates
  BY HistoryMade DEF SnapInv, RollbackRead, At
<1>2. c \in Errands /\ c.op = "roll" /\ c.old = ls.history[i] /\ calls \in [Thread -> Errands]
  BY <1>1 DEF Errands, LsShape
<1>3. ls' = [ls EXCEPT !.call = calls, !.back = ls.back + 1]
  BY <1>1 DEF RollbackRead, LsShape
<1> HIDE DEF c, calls
<1>4. /\ LsShape(ls') /\ ls'.current = ls.current /\ ls'.updates = ls.updates /\ ls'.call = calls /\ ls'.back = ls.back + 1
      /\ ls'.history = ls.history /\ ls'.pushed = ls.pushed /\ ls'.lost = ls.lost /\ ls'.cleared = ls.cleared /\ ls.back \in Nat
  BY <1>1, <1>2, <1>3 DEF LsShape
<1>5. ls'.call[p] = c /\ \A q \in Thread : q # p => ls'.call[q] = ls.call[q]
  BY <1>1, <1>4 DEF LsShape, calls
<1>6. Hands(ls') = Hands(ls) /\ \A q \in Hands(ls) : ls'.call[q] = ls.call[q]
  BY <1>1, <1>2, <1>5 DEF Hands
<1>7. HandIds(ls') = HandIds(ls)
  BY <1>6 DEF HandIds
<1>8. SnapsKnown(ls')
  BY <1>4, <1>7 DEF SnapInv, SnapsKnown
<1>9. SnapsOnce(ls')
  BY <1>4 DEF SnapsOnce
<1>10. RollsMade(ls')
  BY <1>1, <1>2, <1>4, <1>5 DEF SnapInv, RollsMade
<1>11. LastPushed(ls')
  BY <1>4 DEF SnapInv, LastPushed
<1> QED
  BY <1>4, <1>8, <1>9, <1>10, <1>11 DEF SnapInv

LEMMA PutBackKeeps ==
  ASSUME SnapInv(ls), NEW p \in Thread, RollbackSwap(p)
  PROVE  SnapInv(ls')
<1> DEFINE old == ls.call[p].old
           c == [op |-> "none", old |-> old]
           calls == [ls.call EXCEPT ![p] = c]
           gone == ls.lost \union {ls.current.id}
<1>1. LsShape(ls) /\ ls.call[p] \in Errands /\ ls.call[p].op = "roll" /\ old \in Snaps /\ old.id \in 0 .. ls.updates
  <2>1. LsShape(ls) /\ ls.call[p] \in Errands /\ ls.call[p].op = "roll"
    BY DEF SnapInv, LsShape, RollbackSwap, At
  <2> QED
    BY <2>1 DEF Errands, SnapInv, RollsMade
<1>2. c \in Errands /\ c.op = "none" /\ calls \in [Thread -> Errands]
  BY <1>1 DEF Errands, LsShape
<1>3. ls' = [ls EXCEPT !.current = old, !.call = calls, !.lost = gone]
  <2>1. ls' = [ls EXCEPT !.current = old, !.call = [ls.call EXCEPT ![p] = [ls.call[p] EXCEPT !.op = "none"]], !.lost = gone]
    BY <1>1 DEF RollbackSwap, LsShape
  <2>2. [ls.call[p] EXCEPT !.op = "none"] = c
    BY <1>1 DEF Errands
  <2> QED
    BY <2>1, <2>2
<1> HIDE DEF calls, gone, old, c
<1>4. /\ LsShape(ls') /\ ls'.current = old /\ ls'.updates = ls.updates /\ ls'.call = calls /\ ls'.back = ls.back
      /\ ls'.history = ls.history /\ ls'.pushed = ls.pushed /\ ls'.lost = gone /\ ls'.cleared = ls.cleared
  BY <1>1, <1>2, <1>3 DEF LsShape
<1>5. ls'.call[p] = c /\ \A q \in Thread : q # p => ls'.call[q] = ls.call[q]
  BY <1>1, <1>4 DEF LsShape, calls
<1>6. Hands(ls') = Hands(ls) /\ \A q \in Hands(ls) : ls'.call[q] = ls.call[q]
  BY <1>1, <1>2, <1>5 DEF Hands
<1>7. HandIds(ls') = HandIds(ls)
  BY <1>6 DEF HandIds
<1>8. SnapsKnown(ls')
  <2>1. 0 .. ls.updates = {ls.current.id} \union HandIds(ls) \union Range(ls.pushed) \union ls.lost
    BY DEF SnapInv, SnapsKnown
  <2> QED
    BY <1>1, <1>4, <1>7, <2>1 DEF SnapsKnown, gone
<1>9. SnapsOnce(ls')
  <2>1. ls.back # 0
    BY <1>1 DEF SnapInv, SnapsOnce
  <2> QED
    BY <1>4, <2>1 DEF SnapsOnce
<1>10. RollsMade(ls')
  BY <1>1, <1>2, <1>4, <1>5 DEF SnapInv, RollsMade
<1>11. LastPushed(ls')
  BY <1>4 DEF SnapInv, LastPushed
<1> QED
  BY <1>4, <1>8, <1>9, <1>10, <1>11 DEF SnapInv

LEMMA ClearKeeps ==
  ASSUME SnapInv(ls), NEW p \in Thread, ClearHistory(p)
  PROVE  SnapInv(ls')
<1>1. LsShape(ls) /\ ls' = [ls EXCEPT !.history = <<>>, !.cleared = TRUE]
  BY DEF SnapInv, ClearHistory
<1>2. /\ LsShape(ls') /\ ls'.current = ls.current /\ ls'.updates = ls.updates /\ ls'.call = ls.call /\ ls'.back = ls.back
      /\ ls'.history = <<>> /\ ls'.pushed = ls.pushed /\ ls'.lost = ls.lost /\ ls'.cleared
  BY <1>1 DEF LsShape
<1>3. Hands(ls') = Hands(ls) /\ HandIds(ls') = HandIds(ls)
  BY <1>2 DEF Hands, HandIds
<1>4. SnapsKnown(ls') /\ SnapsOnce(ls') /\ RollsMade(ls')
  BY <1>2, <1>3 DEF SnapInv, SnapsKnown, SnapsOnce, RollsMade
<1>5. LastPushed(ls')
  <2>1. Len(ls'.history) = 0 /\ MaxHistory \in Nat /\ Len(ls'.pushed) \in Nat
    BY <1>1, <1>2, SnapshotsAssumption DEF LsShape
  <2>2. Len(ls'.history) <= MaxHistory /\ Len(ls'.history) <= Len(ls'.pushed) /\ 1 .. Len(ls'.history) = {}
    BY <2>1
  <2> QED
    BY <1>2, <2>2, Zenon DEF LastPushed
<1> QED
  BY <1>2, <1>4, <1>5 DEF SnapInv

LEMMA DisjointUnion ==
  ASSUME NEW S, NEW T, IsFiniteSet(S), IsFiniteSet(T), S \intersect T = {}
  PROVE  IsFiniteSet(S \union T) /\ Cardinality(S \union T) = Cardinality(S) + Cardinality(T)
<1>1. IsFiniteSet(S \union T) /\ Cardinality(S \union T) = Cardinality(S) + Cardinality(T) - Cardinality(S \intersect T)
  BY FS_Union
<1>2. Cardinality(S) \in Nat /\ Cardinality(T) \in Nat
  BY FS_CardinalityType
<1>3. Cardinality(S \intersect T) = 0
  BY FS_EmptySet
<1> QED
  BY <1>1, <1>2, <1>3

\* the counts of a snapshot are those of its entries
LEMMA SnapCounted ==
  ASSUME NEW snap \in Snaps
  PROVE  /\ VerifySnapshotConsistency(snap)
         /\ \A s \in Counted : Cardinality(FilterByStatus(snap, s)) = snap.counts[s]
         /\ snap.total + CountOf(snap.data, "confirmed") = Cardinality(snap.data)
<1>1. PICK i \in Nat, data \in Contents \union {{}} : snap = Snap(i, data)
  BY DEF Snaps
<1> DEFINE Of(s) == {e \in data : e.status = s}
<1>2. snap.data = data /\ snap.counts = [s \in Counted |-> Cardinality(Of(s))]
  BY <1>1 DEF Snap, CountOf
<1>3. snap.total = snap.counts["pending"] + snap.counts["validated"] + snap.counts["invalid"]
  BY <1>1 DEF Snap
<1>4. /\ snap.counts["pending"] = Cardinality(Of("pending")) /\ snap.counts["validated"] = Cardinality(Of("validated"))
      /\ snap.counts["invalid"] = Cardinality(Of("invalid"))
  BY <1>2 DEF Counted
<1>5. IsFiniteSet(data) /\ \A e \in data : e.status \in {"pending", "validated", "invalid", "confirmed"}
  <2>1. CASE data \in Contents
    BY <2>1, SnapshotsAssumption DEF Counted
  <2>2. CASE data = {}
    BY <2>2, FS_EmptySet
  <2> QED
    BY <2>1, <2>2
<1>6. \A s : IsFiniteSet(Of(s)) /\ Cardinality(Of(s)) \in Nat
  <2> TAKE s
  <2>1. Of(s) \subseteq data
    OBVIOUS
  <2> QED
    BY <1>5, <2>1, FS_Subset, FS_CardinalityType
<1> DEFINE a == Of("pending")
           b == Of("validated")
           d == Of("invalid")
           f == Of("confirmed")
<1>7. data = ((a \union b) \union d) \union f
  BY <1>5
<1>8. a \intersect b = {} /\ (a \union b) \intersect d = {} /\ ((a \union b) \union d) \intersect f = {}
  OBVIOUS
<1>9. /\ IsFiniteSet(a) /\ IsFiniteSet(b) /\ IsFiniteSet(d) /\ IsFiniteSet(f)
      /\ Cardinality(a) \in Nat /\ Cardinality(b) \in Nat /\ Cardinality(d) \in Nat /\ Cardinality(f) \in Nat
  BY <1>6
<1>10. Cardinality(data) = Cardinality(a) + Cardinality(b) + Cardinality(d) + Cardinality(f)
  <2> HIDE DEF a, b, d, f
  <2>1. IsFiniteSet(a \union b) /\ Cardinality(a \union b) = Cardinality(a) + Cardinality(b)
    BY <1>8, <1>9, DisjointUnion
  <2>2. /\ IsFiniteSet((a \union b) \union d)
        /\ Cardinality((a \union b) \union d) = Cardinality(a \union b) + Cardinality(d)
    BY <1>8, <1>9, <2>1, DisjointUnion
  <2>3. Cardinality(((a \union b) \union d) \union f) = Cardinality((a \union b) \union d) + Cardinality(f)
    BY <1>8, <1>9, <2>1, <2>2, DisjointUnion
  <2> QED
    BY <1>7, <1>9, <2>1, <2>2, <2>3
<1>11. VerifySnapshotConsistency(snap)
  BY <1>3 DEF VerifySnapshotConsistency
<1>12. \A s \in Counted : Cardinality(FilterByStatus(snap, s)) = snap.counts[s]
  BY <1>2 DEF FilterByStatus
<1>13. snap.total + CountOf(snap.data, "confirmed") = Cardinality(snap.data)
  <2>1. CountOf(snap.data, "confirmed") = Cardinality(f)
    BY <1>2 DEF CountOf
  <2> QED
    BY <1>2, <1>3, <1>4, <1>9, <1>10, <2>1
<1> QED
  BY <1>11, <1>12, <1>13

(* The first n entries of a snapshot sorted by fee pay no less than the    *)
(* others.                                                                 *)
LEMMA SnapTops ==
  ASSUME NEW snap \in Snaps, NEW order \in FeeOrders(snap), NEW n \in 0 .. Cardinality(snap.data)
  PROVE  LET top == GetTopByFee(order, n) IN \A a \in top, b \in snap.data \ top : a.fee >= b.fee
<1> DEFINE D == snap.data
           R == {e \in D \X D : e[1].fee >= e[2].fee}
           top == {order[i] : i \in 1 .. n}
<1>1. PICK id \in Nat, data \in Contents \union {{}} : snap = Snap(id, data)
  BY DEF Snaps
<1>2. IsFiniteSet(D)
  BY <1>1, SnapshotsAssumption, FS_EmptySet DEF Snap
<1>3. order \in SetToSeqs(D) /\ \A i, j \in DOMAIN order : i < j => order[i].fee >= order[j].fee
  BY DEF FeeOrders
<1> HIDE DEF D
<1>4. \A k \in DOMAIN order : order[k] \in D
  BY <1>2, <1>3, ListsEach
<1>5. \A a, b \in D : <<a, b>> \in R <=> a.fee >= b.fee
  OBVIOUS
<1> HIDE DEF R
<1>6. InOrder(order, R)
  BY <1>3, <1>4, <1>5 DEF InOrder
<1>7. n \in 0 .. Cardinality(D)
  BY DEF D
<1>8. Cardinality(top) = n /\ top \subseteq D /\ \A a \in top, b \in D \ top : <<a, b>> \in R
  BY <1>2, <1>3, <1>6, <1>7, FirstOfOrder
<1> HIDE DEF top
<1>9. \A a \in top, b \in D \ top : a.fee >= b.fee
  BY <1>5, <1>8
<1> QED
  BY <1>9 DEF GetTopByFee, top, D

(* No snapshot is lost or kept twice between the pointer that the writers  *)
(* swap and the history behind its lock, and each counts its own entries,  *)
(* for any threads, contents and bound on the history.  The invariant adds *)
(* that the snapshots in the hands of the writers differ from one another, *)
(* from the current one and from those pushed, as long as no rollback has  *)
(* put one back, and that what a rollback has read was made before.        *)
LEMMA SnapshotsAlwaysKept ==
  SnapshotsSpec => [](SnapshotsKept /\ SnapshotsCounted /\ TopsPayMost)
<1>1. LsInit => SnapInv(ls)
  <2> SUFFICES ASSUME LsInit PROVE SnapInv(ls)
    OBVIOUS
  <2> DEFINE first == Snap(0, {})
             rest == [p \in Thread |-> [op |-> "none", old |-> first]]
  <2>1. first \in Snaps /\ first.id = 0
    BY SnapsAre
  <2>2. rest \in [Thread -> Errands] /\ \A p \in Thread : rest[p].op = "none"
    BY <2>1 DEF Errands
  <2>3. ls = [current |-> first, history |-> <<>>, call |-> rest, updates |-> 0, back |-> 0, cleared |-> FALSE,
              pushed |-> <<>>, lost |-> {}]
    BY DEF LsInit
  <2> HIDE DEF first, rest
  <2>4. LsShape(ls) /\ ls.current.id = 0 /\ ls.updates = 0 /\ ls.lost = {} /\ ls.call = rest /\ ls.history = <<>> /\ ls.pushed = <<>>
    BY <2>1, <2>2, <2>3 DEF LsShape
  <2>5. Hands(ls) = {} /\ Range(ls.pushed) = {} /\ 0 .. 0 = {0} /\ IsInjective(ls.pushed)
    BY <2>2, <2>4 DEF Hands, Range, IsInjective
  <2>6. HandIds(ls) = {}
    BY <2>5 DEF HandIds
  <2>7. SnapsKnown(ls) /\ SnapsOnce(ls) /\ RollsMade(ls)
    BY <2>2, <2>4, <2>5, <2>6 DEF SnapsKnown, SnapsOnce, RollsMade
  <2>8. LastPushed(ls)
    <3>1. Len(ls.history) = 0 /\ MaxHistory \in Nat /\ Len(ls.pushed) = 0
      BY <2>4, SnapshotsAssumption
    <3> QED
      BY <3>1 DEF LastPushed
  <2> QED
    BY <2>4, <2>7, <2>8 DEF SnapInv
<1>2. SnapInv(ls) /\ [LsNext]_ls => SnapInv(ls)'
  <2> SUFFICES ASSUME SnapInv(ls), [LsNext]_ls PROVE SnapInv(ls')
    OBVIOUS
  <2>1. CASE LsNext
    BY <2>1, SwapKeeps, HistoryKeeps, RollbackKeeps, PutBackKeeps, ClearKeeps DEF LsNext
  <2>2. CASE UNCHANGED ls
    BY <2>2
  <2> QED
    BY <2>1, <2>2
<1>3. SnapInv(ls) => SnapshotsKept
  <2> SUFFICES ASSUME SnapInv(ls) PROVE SnapshotsKept
    OBVIOUS
  <2> DEFINE n == Len(ls.history)
             k == Len(ls.pushed)
  <2>1. HandIds(ls) = {ls.call[p].old.id : p \in {q \in Thread : At(q, "push")}}
    BY DEF HandIds, Hands, At
  <2>2. 0 .. ls.updates = {ls.current.id} \union HandIds(ls) \union Range(ls.pushed) \union ls.lost
    BY DEF SnapInv, SnapsKnown
  <2>3. ls.back = 0 => /\ IsInjective(ls.pushed)
                       /\ {ls.current.id} \union HandIds(ls) \subseteq (0 .. ls.updates) \ Range(ls.pushed)
    <3> SUFFICES ASSUME ls.back = 0
                 PROVE  /\ IsInjective(ls.pushed)
                        /\ {ls.current.id} \union HandIds(ls) \subseteq (0 .. ls.updates) \ Range(ls.pushed)
      OBVIOUS
    <3>1. /\ IsInjective(ls.pushed) /\ ls.current.id \notin Range(ls.pushed)
          /\ \A q \in Hands(ls) : ls.call[q].old.id \notin Range(ls.pushed)
      BY DEF SnapInv, SnapsOnce
    <3>2. \A x \in HandIds(ls) : x \notin Range(ls.pushed)
      BY <3>1 DEF HandIds
    <3> QED
      BY <2>2, <3>1, <3>2
  <2>4. ls.history \in Seq(Snaps) /\ ls.pushed \in Seq(Nat) /\ n \in Nat /\ k \in Nat
    BY DEF SnapInv, LsShape
  <2>5. n <= MaxHistory /\ n <= k /\ \A i \in 1 .. n : ls.history[i].id = ls.pushed[k - n + i]
    BY Zenon DEF SnapInv, LastPushed
  <2>6. ls.cleared \/ n = MaxHistory \/ n = k
    BY Zenon DEF SnapInv, LastPushed
  <2>7. [i \in 1 .. n |-> ls.history[i].id] = SubSeq(ls.pushed, k - n + 1, k)
    <3> DEFINE sub == SubSeq(ls.pushed, k - n + 1, k)
               ids == [i \in 1 .. n |-> ls.history[i].id]
    <3>0. \A j \in 1 .. k : ls.pushed[j] \in Nat
      BY <2>4
    <3> HIDE DEF n, k
    <3>1. /\ k - n + 1 \in Int /\ k \in Int /\ (k - (k - n + 1)) + 1 = n /\ (k - n + 1 <= k <=> n # 0)
          /\ \A j \in k - n + 1 .. k : j \in 1 .. k
      BY <2>4, <2>5
    <3>2. \A j \in k - n + 1 .. k : ls.pushed[j] \in Nat
      BY <3>0, <3>1
    <3>3. /\ sub \in Seq(Nat) /\ Len(sub) = IF k - n + 1 <= k THEN k - (k - n + 1) + 1 ELSE 0
          /\ \A i \in 1 .. k - (k - n + 1) + 1 : sub[i] = ls.pushed[k - n + 1 + i - 1]
      BY <3>1, <3>2, SubSeqProperties
    <3> HIDE DEF sub
    <3>4. Len(sub) = n /\ \A i \in 1 .. n : sub[i] = ls.pushed[k - n + i]
      <4>1. \A i \in 1 .. n : k - n + 1 + i - 1 = k - n + i
        BY <2>4
      <4> QED
        BY <2>4, <3>1, <3>3, <4>1
    <3>5. sub = [i \in 1 .. n |-> sub[i]]
      BY <3>3, <3>4
    <3>6. \A i \in 1 .. n : sub[i] = ls.history[i].id
      BY <2>5, <3>4
    <3> QED
      BY <3>5, <3>6 DEF sub
  <2> QED
    BY <2>1, <2>2, <2>3, <2>5, <2>6, <2>7, Zenon DEF SnapshotsKept
<1>4. SnapInv(ls) => SnapshotsCounted /\ TopsPayMost
  <2> SUFFICES ASSUME SnapInv(ls) PROVE SnapshotsCounted /\ TopsPayMost
    OBVIOUS
  <2>1. ls.history \in Seq(Snaps) /\ ls.current \in Snaps
    BY DEF SnapInv, LsShape
  <2>2. \A snap \in Range(ls.history) \union {ls.current} : snap \in Snaps
    BY <2>1 DEF Range
  <2> QED
    BY <2>2, SnapCounted, SnapTops DEF SnapshotsCounted, TopsPayMost
<1> QED
  BY <1>1, <1>2, <1>3, <1>4, PTL DEF SnapshotsSpec

ShardsSpec == /\ SpInit /\ LsInit
              /\ [][(SpNext /\ UNCHANGED ls) \/ (LsNext /\ UNCHANGED sp)]_<<sp, ls>>

(* The sharded pool with the snapshots its readers get, for every number   *)
(* of shards, every batch, any threads and any interleaving at the locks:  *)
(* the marked outputs are those of the entries and of adds that failed, no *)
(* output is spent twice in a shard, nothing malformed is validated; no    *)
(* snapshot is lost or kept twice, each counts its own entries, and the    *)
(* top by fee of each leaves out nothing that pays more.                   *)
THEOREM ShardsAlwaysConsistent ==
  ShardsSpec => []ShardsConsistent
<1>1. [(SpNext /\ UNCHANGED ls) \/ (LsNext /\ UNCHANGED sp)]_<<sp, ls>> => [SpNext]_sp /\ [LsNext]_ls
  OBVIOUS
<1>2. (OutputsMarked /\ OnlyWellFormedValidated) /\ (SnapshotsKept /\ SnapshotsCounted /\ TopsPayMost) => ShardsConsistent
  BY DEF ShardsConsistent
<1> QED
  BY <1>1, <1>2, ShardsAlwaysMarked, SnapshotsAlwaysKept, PTL DEF ShardsSpec, ShardWriters, SnapshotsSpec

-----------------------------------------------------------------------------
(* Discovery *)

DiscoverySpec == PdInit /\ [][PdNext]_pd

DiscoveryStates ==
  [seeds : SUBSET Seeds, kad : SUBSET Seeds, known : SUBSET (Seeds \union Found), boots : Nat, sleep : Nat, attempts : Nat,
   mark : {"none", "success", "failed"}, ticks : Nat, lastWalk : Nat, walks : SUBSET Nat, running : SUBSET Nat,
   nextId : Nat, registered : SUBSET Range(RNodes), marked : SUBSET Found, skipped : Nat, failed : SUBSET Nat]
(* The last walk was started by the last tick that was not passed over, at *)
(* most one unit late.                                                     *)
OnPace(g) == /\ g.skipped \in {0, 1} /\ (g.skipped = 1 => g.ticks > 0)
             /\ g.lastWalk <= Interval * (g.ticks - g.skipped) + 1
Going(g) == g.kad # {} /\ g.mark # "success" => g.boots > 0 \/ g.sleep > 0
Remembered(g) == g.walks \ g.running \subseteq g.failed
Discovering(g) == g \in DiscoveryStates /\ OnPace(g) /\ Going(g) /\ Remembered(g)
DiscoveryInv == Discovering(pd)

(* A power of two counts the subsets of a set: it is not zero. *)
LEMMA PowersPositive == \A n \in Nat : 2 ^ n \in Nat \ {0}
<1> SUFFICES ASSUME NEW n \in Nat PROVE 2 ^ n \in Nat \ {0}
  OBVIOUS
<1>1. IsFiniteSet(1 .. n) /\ Cardinality(1 .. n) = n
  BY FS_Interval
<1>2. IsFiniteSet(SUBSET (1 .. n)) /\ Cardinality(SUBSET (1 .. n)) = 2 ^ n
  BY <1>1, FS_SUBSET
<1>3. {} \in SUBSET (1 .. n)
  OBVIOUS
<1>4. Cardinality(SUBSET (1 .. n)) \in Nat /\ Cardinality(SUBSET (1 .. n)) # 0
  BY <1>2, <1>3, FS_CardinalityType, FS_EmptySet
<1> QED
  BY <1>2, <1>4

LEMMA BackoffPositive ==
  ASSUME NEW n \in Nat
  PROVE  NextBackoff(n + 1) \in Nat \ {0}
<1>1. NextBackoff(n + 1) = Smaller(2 ^ n, MaxBackoff)
  <2>1. (n + 1) - 1 = n
    OBVIOUS
  <2> QED
    BY <2>1 DEF NextBackoff
<1> QED
  BY <1>1, PowersPositive, DiscoveryAssumption DEF Smaller

(* A step of the bootstrap or of its timer. *)
LEMMA BootstrapKeepsGoing ==
  ASSUME NEW g \in DiscoveryStates, OnPace(g), Remembered(g),
         NEW a \in Nat, NEW z \in Nat, NEW m \in {"none", "success", "failed"}, NEW b \in Nat,
         m = "success" \/ b > 0 \/ z > 0
  PROVE  Discovering([g EXCEPT !.attempts = a, !.sleep = z, !.mark = m, !.boots = b])
<1> DEFINE h == [g EXCEPT !.attempts = a, !.sleep = z, !.mark = m, !.boots = b]
<1>1. h \in DiscoveryStates
  BY DEF DiscoveryStates
<1>2. /\ h.skipped = g.skipped /\ h.ticks = g.ticks /\ h.lastWalk = g.lastWalk /\ h.walks = g.walks
      /\ h.running = g.running /\ h.failed = g.failed /\ h.boots = b /\ h.sleep = z /\ h.mark = m
  BY DEF DiscoveryStates
<1> HIDE DEF h
<1>3. OnPace(h) /\ Remembered(h) /\ Going(h)
  BY <1>2 DEF OnPace, Remembered, Going
<1> QED
  BY <1>1, <1>3 DEF Discovering, h

(* A step of the walks or of their timer. *)
WalkFields == [ticks : Nat, skipped : Nat, lastWalk : Nat, nextId : Nat, walks : SUBSET Nat, running : SUBSET Nat,
               marked : SUBSET Found, failed : SUBSET Nat]
WithWalks(g, w) == [g EXCEPT !.ticks = w.ticks, !.skipped = w.skipped, !.lastWalk = w.lastWalk, !.nextId = w.nextId,
                             !.walks = w.walks, !.running = w.running, !.marked = w.marked, !.failed = w.failed]

LEMMA WalkKeepsGoing ==
  ASSUME NEW g \in DiscoveryStates, Going(g), NEW w \in WalkFields, OnPace(w), Remembered(w)
  PROVE  Discovering(WithWalks(g, w))
<1> DEFINE h == WithWalks(g, w)
<1>1. h \in DiscoveryStates
  BY DEF DiscoveryStates, WalkFields, WithWalks
<1>2. /\ h.skipped = w.skipped /\ h.ticks = w.ticks /\ h.lastWalk = w.lastWalk /\ h.walks = w.walks
      /\ h.running = w.running /\ h.failed = w.failed
      /\ h.boots = g.boots /\ h.sleep = g.sleep /\ h.mark = g.mark /\ h.kad = g.kad
  BY DEF DiscoveryStates, WithWalks
<1> HIDE DEF h
<1>3. OnPace(h) /\ Remembered(h) /\ Going(h)
  BY <1>2 DEF OnPace, Remembered, Going
<1> QED
  BY <1>1, <1>3 DEF Discovering, h

(* PeerDiscoveryManager and the event loop: in whatever order results and  *)
(* timers come, a node that was given bootstrap nodes has bootstrapped, is *)
(* at it or has a retry armed, since next_backoff never runs dry, and a    *)
(* walk that is passed over is made up for at the next tick.               *)
THEOREM DiscoveryAlwaysGoing ==
  DiscoverySpec => []DiscoveryKeepsGoing
<1>1. PdInit => DiscoveryInv
  <2> SUFFICES ASSUME PdInit PROVE DiscoveryInv
    OBVIOUS
  <2>1. PICK seeds \in {{}, Seeds} : \E kad \in {{}, seeds} : pd = StartBootstrap(SeedKademlia(NewDiscovery(seeds, kad)))
    BY Zenon DEF PdInit
  <2>2. PICK kad \in {{}, seeds} : pd = StartBootstrap(SeedKademlia(NewDiscovery(seeds, kad)))
    BY <2>1, Zenon
  <2> DEFINE g == NewDiscovery(seeds, kad)
             h == SeedKademlia(g)
             Fresh(x) == /\ x.kad = kad /\ x.sleep = 0 /\ x.attempts = 0
                         /\ x.ticks = 0 /\ x.lastWalk = 0 /\ x.skipped = 0 /\ x.walks = {}
  <2>3. g \in DiscoveryStates /\ Fresh(g)
    BY DEF NewDiscovery, DiscoveryStates
  <2>4. pd = StartBootstrap(h)
    BY <2>2, Zenon
  <2> HIDE DEF g
  <2>5. h \in DiscoveryStates /\ Fresh(h)
    BY <2>3 DEF SeedKademlia, DiscoveryStates
  <2> HIDE DEF h
  <2>6. pd \in DiscoveryStates /\ Fresh(pd) /\ (kad # {} => pd.boots = 1)
    BY <2>4, <2>5 DEF StartBootstrap, DiscoveryStates
  <2>7. Interval * (0 - 0) + 1 = 1
    BY DiscoveryAssumption
  <2> QED
    BY <2>6, <2>7 DEF DiscoveryInv, Discovering, OnPace, Going, Remembered
<1>2. DiscoveryInv /\ [PdNext]_pd => DiscoveryInv'
  <2> SUFFICES ASSUME DiscoveryInv, [PdNext]_pd PROVE DiscoveryInv'
    OBVIOUS
  <2>1. pd \in DiscoveryStates /\ OnPace(pd) /\ Going(pd) /\ Remembered(pd)
    BY DEF DiscoveryInv, Discovering
  <2>2. SUFFICES Discovering(pd')
    BY DEF DiscoveryInv, Discovering, DiscoveryStates, OnPace, Going, Remembered, Range
  <2>3. NextBackoff(pd.attempts + 1) \in Nat \ {0}
    BY <2>1, BackoffPositive DEF DiscoveryStates
  <2>4. ASSUME NEW last \in BOOLEAN, BootstrapOk(last) PROVE Discovering(pd')
    <3> DEFINE b == IF last THEN pd.boots - 1 ELSE pd.boots
    <3>1. b \in Nat
      BY <2>1, <2>4 DEF BootstrapOk, DiscoveryStates
    <3>2. pd' = [pd EXCEPT !.attempts = 0, !.sleep = 0, !.mark = "success", !.boots = b]
      BY <2>1, <2>4 DEF BootstrapOk, Disarm, DiscoveryStates
    <3> HIDE DEF b
    <3> QED
      BY <2>1, <3>1, <3>2, BootstrapKeepsGoing
  <2>5. ASSUME NEW last \in BOOLEAN, BootstrapErr(last) PROVE Discovering(pd')
    <3> DEFINE b == IF last THEN pd.boots - 1 ELSE pd.boots
               a == pd.attempts + 1
               z == NextBackoff(pd.attempts + 1)
    <3>1. b \in Nat /\ a \in Nat /\ z \in Nat /\ z > 0
      BY <2>1, <2>3, <2>5 DEF BootstrapErr, DiscoveryStates
    <3>2. pd' = [pd EXCEPT !.attempts = a, !.sleep = z, !.mark = "failed", !.boots = b]
      BY <2>1, <2>5 DEF BootstrapErr, Rearm, DiscoveryStates
    <3> HIDE DEF b, a, z
    <3> QED
      BY <2>1, <3>1, <3>2, BootstrapKeepsGoing
  <2>6. CASE BootstrapRetry
    <3> DEFINE g == SeedKademlia(pd)
    <3>1. g \in DiscoveryStates /\ OnPace(g) /\ Going(g) /\ Remembered(g) /\ g.attempts = pd.attempts
      BY <2>1 DEF SeedKademlia, DiscoveryStates, OnPace, Going, Remembered
    <3>2. pd' = Retry(g)
      BY <2>6 DEF BootstrapRetry
    <3> HIDE DEF g
    <3>3. g.mark \in {"none", "success", "failed"} /\ g.boots \in Nat /\ g.boots + 1 \in Nat /\ g.boots + 1 > 0
      BY <3>1 DEF DiscoveryStates
    <3> DEFINE a == pd.attempts + 1
               z == NextBackoff(pd.attempts + 1)
    <3>4. a \in Nat /\ z \in Nat /\ z > 0
      BY <2>1, <2>3 DEF DiscoveryStates
    <3>5. CASE g.known = {}
      <4>1. pd' = [g EXCEPT !.attempts = a, !.sleep = z, !.mark = g.mark, !.boots = g.boots]
        BY <3>1, <3>2, <3>5 DEF Retry, Rearm, DiscoveryStates
      <4> HIDE DEF a, z
      <4> QED
        BY <3>1, <3>3, <3>4, <4>1, BootstrapKeepsGoing
    <3>6. CASE g.known # {}
      <4> DEFINE b == g.boots + 1
      <4>1. pd' = [g EXCEPT !.attempts = 0, !.sleep = 0, !.mark = g.mark, !.boots = b]
        BY <3>1, <3>2, <3>6 DEF Retry, Disarm, DiscoveryStates
      <4>2. b \in Nat /\ b > 0
        BY <3>3
      <4> HIDE DEF b
      <4> QED
        BY <3>1, <3>3, <4>1, <4>2, BootstrapKeepsGoing
    <3> QED
      BY <3>5, <3>6
  <2>7. ASSUME NEW late \in {0, 1}, RandomWalkTick(late) PROVE Discovering(pd')
    <3> DEFINE time == Interval * (pd.ticks + 1) + late
               g == [pd EXCEPT !.ticks = @ + 1]
    <3>1. Interval \in Nat /\ Interval > 0 /\ pd.ticks \in Nat /\ pd.lastWalk \in Nat /\ pd.skipped \in {0, 1} /\ late \in Nat
      BY <2>1, DiscoveryAssumption DEF DiscoveryStates, OnPace
    <3>2. /\ Interval * (pd.ticks + 1) = Interval * pd.ticks + Interval /\ Interval * pd.ticks \in Nat
          /\ Interval * (pd.ticks - 1) = Interval * pd.ticks - Interval
      BY <3>1
    <3>3. time \in Nat /\ time <= Interval * ((pd.ticks + 1) - 0) + 1 /\ time >= Interval * (pd.ticks + 1)
      BY <3>1, <3>2
    <3>4. /\ pd.walks \in SUBSET Nat /\ pd.running \in SUBSET Nat /\ pd.failed \in SUBSET Nat /\ pd.marked \in SUBSET Found
          /\ pd.nextId \in Nat /\ pd.walks \ pd.running \subseteq pd.failed
      BY <2>1 DEF DiscoveryStates, Remembered
    <3> DEFINE n == pd.ticks + 1
               i == pd.nextId + 1
               W == pd.walks \union {pd.nextId}
               R == pd.running \union {pd.nextId}
    <3>5. n \in Nat /\ i \in Nat /\ W \in SUBSET Nat /\ R \in SUBSET Nat /\ W \ R \subseteq pd.failed
      BY <3>1, <3>4
    <3>6. CASE ShouldWalk(pd, time)
      <4>1. pd' = StartWalk(g, time)
        BY <2>7, <3>6, Zenon DEF RandomWalkTick
      <4>2. time <= Interval * (n - 0) + 1
        BY <3>3
      <4> HIDE DEF time
      <4> DEFINE w == [ticks |-> n, skipped |-> 0, lastWalk |-> time, nextId |-> i, walks |-> W, running |-> R,
                       marked |-> pd.marked, failed |-> pd.failed]
      <4>3. pd' = WithWalks(pd, w)
        BY <2>1, <4>1 DEF StartWalk, DiscoveryStates, WithWalks
      <4> HIDE DEF n, i, W, R
      <4>4. w \in WalkFields /\ OnPace(w) /\ Remembered(w)
        BY <3>3, <3>4, <3>5, <4>2 DEF WalkFields, OnPace, Remembered
      <4> HIDE DEF w
      <4> QED
        BY <2>1, <4>3, <4>4, WalkKeepsGoing
    <3>7. CASE ~ShouldWalk(pd, time)
      <4>1. pd' = [pd EXCEPT !.ticks = @ + 1, !.skipped = @ + 1]
        BY <2>7, <3>7, Zenon DEF RandomWalkTick
      <4>2. ~(time - pd.lastWalk >= Interval)
        BY <3>7, Zenon DEF ShouldWalk
      <4>3. pd.skipped = 0
        BY <2>1, <3>1, <3>2, <3>3, <4>2 DEF OnPace
      <4>4. pd.lastWalk <= Interval * (n - 1) + 1 /\ n > 0
        BY <2>1, <3>1, <4>3 DEF OnPace
      <4>5. pd' = [pd EXCEPT !.ticks = n, !.skipped = 1]
        BY <2>1, <4>1, <4>3 DEF DiscoveryStates
      <4> HIDE DEF n
      <4> DEFINE w == [ticks |-> n, skipped |-> 1, lastWalk |-> pd.lastWalk, nextId |-> pd.nextId, walks |-> pd.walks,
                       running |-> pd.running, marked |-> pd.marked, failed |-> pd.failed]
      <4>6. pd' = WithWalks(pd, w)
        BY <2>1, <4>5 DEF DiscoveryStates, WithWalks
      <4>7. w \in WalkFields /\ OnPace(w) /\ Remembered(w)
        BY <3>1, <3>4, <3>5, <4>4 DEF WalkFields, OnPace, Remembered
      <4> HIDE DEF w
      <4> QED
        BY <2>1, <4>6, <4>7, WalkKeepsGoing
    <3> QED
      BY <3>6, <3>7
  <2>8. ASSUME NEW id \in pd.running, NEW S \in SUBSET Found, WalkFound(id, S) PROVE Discovering(pd')
    <3> DEFINE W == pd.walks \ {id}
               R == pd.running \ {id}
               M == IF id \in pd.walks THEN pd.marked \union S ELSE pd.marked
    <3>1. /\ W \in SUBSET Nat /\ R \in SUBSET Nat /\ M \in SUBSET Found /\ pd.failed \in SUBSET Nat /\ W \ R \subseteq pd.failed
          /\ pd.ticks \in Nat /\ pd.skipped \in Nat /\ pd.lastWalk \in Nat /\ pd.nextId \in Nat
          /\ pd.skipped \in {0, 1} /\ (pd.skipped = 1 => pd.ticks > 0)
          /\ pd.lastWalk <= Interval * (pd.ticks - pd.skipped) + 1
      BY <2>1 DEF DiscoveryStates, Remembered, OnPace
    <3>2. ClosestOk(pd, id, S) = [pd EXCEPT !.walks = W, !.marked = M]
      <4>1. CASE id \in pd.walks
        BY <4>1 DEF ClosestOk
      <4>2. CASE id \notin pd.walks
        <5>1. W = pd.walks /\ M = pd.marked /\ ClosestOk(pd, id, S) = pd
          BY <4>2 DEF ClosestOk
        <5> QED
          BY <2>1, <5>1 DEF DiscoveryStates
      <4> QED
        BY <4>1, <4>2
    <3>3. pd' = [ClosestOk(pd, id, S) EXCEPT !.running = @ \ {id}]
      BY <2>8, Zenon DEF WalkFound
    <3> HIDE DEF W, M
    <3> DEFINE w == [ticks |-> pd.ticks, skipped |-> pd.skipped, lastWalk |-> pd.lastWalk, nextId |-> pd.nextId,
                     walks |-> W, running |-> R, marked |-> M, failed |-> pd.failed]
    <3>4. pd' = WithWalks(pd, w)
      BY <2>1, <3>2, <3>3 DEF DiscoveryStates, WithWalks
    <3> HIDE DEF R
    <3>5. w \in WalkFields /\ OnPace(w) /\ Remembered(w)
      BY <3>1 DEF WalkFields, OnPace, Remembered
    <3> HIDE DEF w
    <3> QED
      BY <2>1, <3>4, <3>5, WalkKeepsGoing
  <2>9. ASSUME NEW id \in pd.running, WalkFailed(id) PROVE Discovering(pd')
    BY <2>1, <2>9 DEF WalkFailed, Discovering, DiscoveryStates, OnPace, Going, Remembered
  <2>10. ASSUME NEW S \in SUBSET Range(RNodes), RendezvousTick(S) PROVE Discovering(pd')
    <3>1. RegisterAll(pd, S) \subseteq Range(RNodes)
      BY DEF RegisterAll, Range
    <3> QED
      BY <2>1, <2>10, <3>1 DEF RendezvousTick, Discovering, DiscoveryStates, OnPace, Going, Remembered
  <2>11. ASSUME NEW S \in SUBSET Found, Discovered(S) PROVE Discovering(pd')
    BY <2>1, <2>11 DEF Discovered, Discovering, DiscoveryStates, OnPace, Going, Remembered
  <2>12. ASSUME NEW p \in Found, RoutingUpdated(p) PROVE Discovering(pd')
    BY <2>1, <2>12 DEF RoutingUpdated, Discovering, DiscoveryStates, OnPace, Going, Remembered
  <2>13. ASSUME NEW p \in Found, NEW n \in PeerIdLengths, IdentifyReceived(p, n) PROVE Discovering(pd')
    <3>1. pd' = [pd EXCEPT !.marked = @ \union {p}] \/ pd' = pd
      BY <2>13 DEF IdentifyReceived
    <3> QED
      BY <2>1, <3>1 DEF Discovering, DiscoveryStates, OnPace, Going, Remembered
  <2>14. CASE UNCHANGED pd
    BY <2>1, <2>14 DEF Discovering
  <2> QED
    BY <2>4, <2>5, <2>6, <2>7, <2>8, <2>9, <2>10, <2>11, <2>12, <2>13, <2>14 DEF PdNext
<1>3. DiscoveryInv => DiscoveryKeepsGoing
  BY DEF DiscoveryInv, Discovering, OnPace, Going, Remembered, DiscoveryKeepsGoing, NeverStranded, WalksKeepPace
<1> QED
  BY <1>1, <1>2, <1>3, PTL DEF DiscoverySpec

-----------------------------------------------------------------------------
(* The routing table *)

(* Peers are finitely many, and the bounds are numbers. *)
RoutingSpec == RtInit /\ [][RtNext]_rt

Records == [seen : Nat, count : Nat, addrs : SUBSET Addr]
Tables == UNION {[D -> Records] : D \in SUBSET Peer}
RoutingStates == [cache : Tables, db : Tables, now : Nat, torn : SUBSET Peer, undeleted : SUBSET Peer, faults : Nat]

(* The peers whose record in the database has not expired. *)
FreshIn(db, now) == {p \in DOMAIN db : ~IsExpired(db[p], now)}
(* Memory and database agree about the peers that no failed call was       *)
(* about; what is fresh in the database and not in memory, the database    *)
(* has refused to delete; and there is room for what a restart would bring *)
(* back beside what is in memory.                                          *)
Agree(g) == \A p \in Peer \ g.torn :
  /\ p \in DOMAIN g.cache => p \in DOMAIN g.db /\ g.db[p] = g.cache[p]
  /\ p \in FreshIn(g.db, g.now) => p \in DOMAIN g.cache
Returning(g) == FreshIn(g.db, g.now) \ DOMAIN g.cache \subseteq g.undeleted
Room(g) == Cardinality(DOMAIN g.cache \union FreshIn(g.db, g.now)) <= MaxPeers + Cardinality(g.undeleted)
Routing(g) == g \in RoutingStates /\ Agree(g) /\ Returning(g) /\ Room(g)

LEMMA TablesAre == \A f \in Tables : DOMAIN f \subseteq Peer /\ \A p \in DOMAIN f : f[p] \in Records
  BY DEF Tables

LEMMA WithIs ==
  ASSUME NEW f \in Tables, NEW p \in Peer, NEW r \in Records
  PROVE  /\ With(f, p, r) \in Tables /\ DOMAIN With(f, p, r) = DOMAIN f \union {p}
         /\ With(f, p, r)[p] = r /\ \A x \in DOMAIN f : x # p => With(f, p, r)[x] = f[x]
<1> DEFINE D == DOMAIN f \union {p}
           h == With(f, p, r)
<1>1. h = [x \in D |-> IF x = p THEN r ELSE f[x]]
  BY Zenon DEF With
<1>2. \A x \in D : (IF x = p THEN r ELSE f[x]) \in Records
  BY TablesAre
<1>3. D \in SUBSET Peer /\ h \in [D -> Records]
  BY <1>1, <1>2, TablesAre
<1>4. h \in Tables
  BY <1>3, Zenon DEF Tables
<1> QED
  BY <1>1, <1>4

LEMMA RestrictIs ==
  ASSUME NEW f \in Tables, NEW D \in SUBSET DOMAIN f
  PROVE  Restrict(f, D) \in Tables /\ DOMAIN Restrict(f, D) = D /\ \A x \in D : Restrict(f, D)[x] = f[x]
<1> DEFINE h == Restrict(f, D)
<1>1. h = [x \in D |-> f[x]]
  BY Zenon DEF Restrict
<1>2. D \in SUBSET Peer /\ h \in [D -> Records]
  BY <1>1, TablesAre
<1>3. h \in Tables
  BY <1>2, Zenon DEF Tables
<1> QED
  BY <1>1, <1>3

LEMMA MinusIs ==
  ASSUME NEW f \in Tables, NEW S
  PROVE  /\ Minus(f, S) \in Tables /\ DOMAIN Minus(f, S) = DOMAIN f \ S
         /\ \A x \in DOMAIN f \ S : Minus(f, S)[x] = f[x]
<1> DEFINE D == DOMAIN f \ S
<1>1. Minus(f, S) = Restrict(f, D) /\ D \in SUBSET DOMAIN f
  BY Zenon DEF Minus
<1> HIDE DEF D
<1>2. Restrict(f, D) \in Tables /\ DOMAIN Restrict(f, D) = D /\ \A x \in D : Restrict(f, D)[x] = f[x]
  BY <1>1, RestrictIs
<1> QED
  BY <1>1, <1>2 DEF D

(* What the bound on the table is about are finite sets of peers. *)
LEMMA FiniteTables ==
  ASSUME NEW S \in SUBSET Peer
  PROVE  IsFiniteSet(S) /\ Cardinality(S) \in Nat /\ \A T \in SUBSET S : Cardinality(T) <= Cardinality(S)
<1>1. IsFiniteSet(S)
  BY FS_Subset, RoutingAssumption
<1> QED
  BY <1>1, FS_CardinalityType, FS_Subset

(* Entries leave the memory, and the database with or without success: g   *)
(* is the table before, gone the peers.                                    *)
LEMMA LeavingKeepsRouting ==
  ASSUME NEW g, Routing(g), NEW gone \in SUBSET Peer, NEW ok \in BOOLEAN
  PROVE  LET h == Erased([g EXCEPT !.cache = Minus(@, gone)], gone, ok)
         IN  Routing(h) /\ h.now = g.now /\ DOMAIN h.cache = DOMAIN g.cache \ gone
             /\ (ok => DOMAIN h.cache \union FreshIn(h.db, h.now) = (DOMAIN g.cache \union FreshIn(g.db, g.now)) \ gone
                       /\ h.undeleted = g.undeleted)
<1> DEFINE c == Minus(g.cache, gone)
           d == IF ok THEN Minus(g.db, gone) ELSE g.db
           t == IF ok THEN g.torn \ gone ELSE g.torn \union (gone \intersect DOMAIN g.db)
           u == IF ok THEN g.undeleted ELSE g.undeleted \union (gone \intersect DOMAIN g.db)
           n == IF ok THEN g.faults ELSE g.faults + 1
           h == Erased([g EXCEPT !.cache = Minus(@, gone)], gone, ok)
<1>1. g \in RoutingStates /\ Agree(g) /\ Returning(g) /\ Room(g)
  BY DEF Routing
<1>2. g.cache \in Tables /\ g.db \in Tables /\ g.now \in Nat /\ g.torn \subseteq Peer /\ g.undeleted \subseteq Peer /\ g.faults \in Nat
  BY <1>1 DEF RoutingStates
<1>3. DOMAIN g.cache \subseteq Peer /\ DOMAIN g.db \subseteq Peer
  BY <1>2, TablesAre
<1>4. h = [cache |-> c, db |-> d, now |-> g.now, torn |-> t, undeleted |-> u, faults |-> n]
  <2> DEFINE g1 == [g EXCEPT !.cache = c]
  <2>1. h = Erased(g1, gone, ok)
    BY Zenon
  <2> HIDE DEF c
  <2>2. g1 = [cache |-> c, db |-> g.db, now |-> g.now, torn |-> g.torn, undeleted |-> g.undeleted, faults |-> g.faults]
    BY <1>1 DEF RoutingStates
  <2> DEFINE m == Minus(g.db, gone)
  <2>3. CASE ok
    <3>1. h = [g1 EXCEPT !.db = Minus(g1.db, gone), !.torn = g1.torn \ gone]
      BY <2>1, <2>3, Zenon DEF Erased
    <3>2. g1.db = g.db /\ g1.torn = g.torn
      BY <2>2
    <3>3. h = [g1 EXCEPT !.db = m, !.torn = g.torn \ gone]
      BY <3>1, <3>2, Zenon
    <3>4. d = m /\ t = g.torn \ gone /\ u = g.undeleted /\ n = g.faults
      BY <2>3
    <3>5. h = [g1 EXCEPT !.db = d, !.torn = t]
      BY <3>3, <3>4, Zenon
    <3> HIDE DEF m, g1, h, d, t
    <3>6. h = [cache |-> c, db |-> d, now |-> g.now, torn |-> t, undeleted |-> g.undeleted, faults |-> g.faults]
      BY <2>2, <3>5
    <3> QED
      BY <3>4, <3>6, Zenon
  <2>4. CASE ~ok
    <3>1. h = [g1 EXCEPT !.torn = g1.torn \union (gone \intersect DOMAIN g1.db),
                         !.undeleted = g1.undeleted \union (gone \intersect DOMAIN g1.db), !.faults = g1.faults + 1]
      BY <2>1, <2>4, Zenon DEF Erased
    <3>2. g1.db = g.db /\ g1.torn = g.torn /\ g1.undeleted = g.undeleted /\ g1.faults = g.faults
      BY <2>2
    <3>3. d = g.db
      BY <2>4
    <3>4. t = g.torn \union (gone \intersect DOMAIN g.db) /\ u = g.undeleted \union (gone \intersect DOMAIN g.db) /\ n = g.faults + 1
      BY <2>4
    <3>5. h = [g1 EXCEPT !.torn = t, !.undeleted = u, !.faults = n]
      BY <3>1, <3>2, <3>4
    <3> HIDE DEF g1, h, d, t, u, n
    <3>6. h = [cache |-> c, db |-> g.db, now |-> g.now, torn |-> t, undeleted |-> u, faults |-> n]
      BY <2>2, <3>5
    <3> QED
      BY <3>3, <3>6, Zenon
  <2> QED
    BY <2>3, <2>4
<1>5. c \in Tables /\ DOMAIN c = DOMAIN g.cache \ gone /\ \A x \in DOMAIN g.cache \ gone : c[x] = g.cache[x]
  BY <1>2, MinusIs
<1>6. /\ d \in Tables /\ DOMAIN d = (IF ok THEN DOMAIN g.db \ gone ELSE DOMAIN g.db)
      /\ \A x \in DOMAIN d : d[x] = g.db[x]
  <2>1. CASE ok
    <3>1. d = Minus(g.db, gone)
      BY <2>1
    <3>2. /\ Minus(g.db, gone) \in Tables /\ DOMAIN Minus(g.db, gone) = DOMAIN g.db \ gone
          /\ \A x \in DOMAIN g.db \ gone : Minus(g.db, gone)[x] = g.db[x]
      BY <1>2, MinusIs
    <3> HIDE DEF d
    <3> QED
      BY <2>1, <3>1, <3>2
  <2>2. CASE ~ok
    BY <1>2, <2>2
  <2> QED
    BY <2>1, <2>2
<1>7. t \subseteq Peer /\ u \subseteq Peer /\ n \in Nat /\ g.undeleted \subseteq u
  BY <1>2, <1>3
<1> HIDE DEF c, d, h
<1>8. h.cache = c /\ h.db = d /\ h.torn = t /\ h.undeleted = u /\ h.now = g.now
  BY <1>1, <1>4 DEF RoutingStates
<1>9. h \in RoutingStates
  <2> HIDE DEF t, u, n
  <2> QED
    BY <1>1, <1>4, <1>5, <1>6, <1>7 DEF RoutingStates
<1>10. FreshIn(d, g.now) = IF ok THEN FreshIn(g.db, g.now) \ gone ELSE FreshIn(g.db, g.now)
  BY <1>6 DEF FreshIn
<1>11. Agree(h)
  <2> SUFFICES ASSUME NEW p \in Peer \ t
               PROVE  /\ p \in DOMAIN c => p \in DOMAIN d /\ d[p] = c[p]
                      /\ p \in FreshIn(d, g.now) => p \in DOMAIN c
    BY <1>8 DEF Agree
  <2>1. CASE p \in gone
    BY <1>5, <1>6, <1>10, <2>1 DEF FreshIn
  <2>2. CASE p \notin gone
    <3>1. p \in Peer \ g.torn
      BY <2>2
    <3>2. /\ p \in DOMAIN g.cache => p \in DOMAIN g.db /\ g.db[p] = g.cache[p]
          /\ p \in FreshIn(g.db, g.now) => p \in DOMAIN g.cache
      BY <1>1, <3>1 DEF Agree
    <3> QED
      BY <1>5, <1>6, <1>10, <2>2, <3>2
  <2> QED
    BY <2>1, <2>2
<1>12. Returning(h)
  <2>1. FreshIn(d, g.now) \ DOMAIN c \subseteq u
    BY <1>1, <1>5, <1>10 DEF Returning, FreshIn
  <2> QED
    BY <1>8, <2>1 DEF Returning
<1> DEFINE before == DOMAIN g.cache \union FreshIn(g.db, g.now)
           after == DOMAIN c \union FreshIn(d, g.now)
<1>13. before \in SUBSET Peer /\ after \in SUBSET before /\ (ok => after = before \ gone)
  BY <1>3, <1>5, <1>10 DEF FreshIn
<1>14. Room(h)
  <2> HIDE DEF before, after
  <2>1. Cardinality(after) <= Cardinality(before) /\ Cardinality(before) \in Nat
    BY <1>13, FiniteTables
  <2>2. after \in SUBSET Peer
    BY <1>13
  <2>3. Cardinality(after) \in Nat
    BY <2>2, FiniteTables
  <2>4. Cardinality(g.undeleted) <= Cardinality(u) /\ Cardinality(u) \in Nat
    BY <1>7, FiniteTables
  <2>5. Cardinality(g.undeleted) \in Nat /\ MaxPeers \in Nat
    BY <1>2, FiniteTables, RoutingAssumption
  <2>6. Cardinality(before) <= MaxPeers + Cardinality(g.undeleted)
    BY <1>1 DEF Room, before
  <2>7. Cardinality(after) <= MaxPeers + Cardinality(u)
    BY <2>1, <2>3, <2>4, <2>5, <2>6
  <2> QED
    BY <1>8, <2>7 DEF Room, after
<1> QED
  BY <1>5, <1>8, <1>9, <1>11, <1>12, <1>13, <1>14 DEF Routing, h

(* Below the bound there is room for one more, whatever a restart would    *)
(* bring back.                                                             *)
LEMMA RoomBelow ==
  ASSUME NEW g, Routing(g), Cardinality(DOMAIN g.cache) < MaxPeers
  PROVE  Cardinality(DOMAIN g.cache \union FreshIn(g.db, g.now)) < MaxPeers + Cardinality(g.undeleted)
<1> DEFINE C == DOMAIN g.cache
           R == FreshIn(g.db, g.now) \ DOMAIN g.cache
<1>1. g.cache \in Tables /\ g.db \in Tables /\ g.undeleted \in SUBSET Peer /\ R \subseteq g.undeleted
  BY DEF Routing, RoutingStates, Returning
<1>2. C \in SUBSET Peer /\ R \in SUBSET Peer
  BY <1>1, TablesAre DEF FreshIn
<1>3. C \union FreshIn(g.db, g.now) = C \union R /\ C \intersect R = {}
  OBVIOUS
<1>4. Cardinality(C) < MaxPeers
  OBVIOUS
<1> HIDE DEF C, R
<1>5. /\ IsFiniteSet(C) /\ IsFiniteSet(R) /\ Cardinality(C) \in Nat /\ Cardinality(R) \in Nat
  BY <1>2, FiniteTables
<1>6. Cardinality(R) <= Cardinality(g.undeleted) /\ Cardinality(g.undeleted) \in Nat
  BY <1>1, FiniteTables
<1>7. Cardinality(C \union R) = Cardinality(C) + Cardinality(R) - Cardinality(C \intersect R)
  BY <1>5, FS_Union
<1>8. Cardinality(C \intersect R) = 0
  BY <1>3, FS_EmptySet
<1>9. Cardinality(C \union R) < MaxPeers + Cardinality(g.undeleted)
  BY <1>4, <1>5, <1>6, <1>7, <1>8, RoutingAssumption
<1> QED
  BY <1>3, <1>9 DEF C

(* The record of a peer seen now. *)
LEMMA SeenIsRecord ==
  ASSUME NEW f \in Tables, NEW p \in Peer, NEW addrs \in SUBSET Addr, NEW now \in Nat
  PROVE  Seen(f, p, addrs, now) \in Records /\ Seen(f, p, addrs, now).seen = now
<1> DEFINE r == IF p \in DOMAIN f THEN f[p] ELSE NewRecord(addrs, now)
           c == IF r.count < MaxSeen THEN r.count + 1 ELSE r.count
<1>1. r \in Records
  BY TablesAre DEF NewRecord, Records
<1>2. Seen(f, p, addrs, now) = [r EXCEPT !.seen = now, !.count = c, !.addrs = r.addrs \union addrs]
  BY Zenon DEF Seen
<1>3. r.count \in Nat /\ r.addrs \in SUBSET Addr
  BY <1>1 DEF Records
<1> HIDE DEF r
<1>4. c \in Nat
  BY <1>3, RoutingAssumption
<1> HIDE DEF c
<1> QED
  BY <1>1, <1>2, <1>3, <1>4 DEF Records

LEMMA PutKeepsRouting ==
  ASSUME NEW g, Routing(g), NEW p \in Peer, NEW addrs \in SUBSET Addr, NEW ok \in BOOLEAN,
         \/ p \in DOMAIN g.cache \union FreshIn(g.db, g.now)
         \/ Cardinality(DOMAIN g.cache \union FreshIn(g.db, g.now)) < MaxPeers + Cardinality(g.undeleted)
  PROVE  Routing(Put(g, p, addrs, ok))
<1> DEFINE r == Seen(g.cache, p, addrs, g.now)
           c == With(g.cache, p, r)
           d == IF ok THEN With(g.db, p, r) ELSE g.db
           t == IF ok THEN g.torn \ {p} ELSE g.torn \union {p}
           n == IF ok THEN g.faults ELSE g.faults + 1
           h == Put(g, p, addrs, ok)
<1>1. g \in RoutingStates /\ Agree(g) /\ Returning(g) /\ Room(g)
  BY DEF Routing
<1>2. g.cache \in Tables /\ g.db \in Tables /\ g.now \in Nat /\ g.torn \subseteq Peer /\ g.undeleted \subseteq Peer /\ g.faults \in Nat
  BY <1>1 DEF RoutingStates
<1>3. r \in Records /\ r.seen = g.now
  BY <1>2, SeenIsRecord
<1>4. h = [g EXCEPT !.cache = c, !.db = d, !.torn = t, !.faults = n]
  BY Zenon DEF Put, Written
<1> HIDE DEF r, h
<1>5. c \in Tables /\ DOMAIN c = DOMAIN g.cache \union {p} /\ c[p] = r /\ \A x \in DOMAIN g.cache : x # p => c[x] = g.cache[x]
  BY <1>2, <1>3, WithIs
<1>6. With(g.db, p, r) \in Tables /\ DOMAIN With(g.db, p, r) = DOMAIN g.db \union {p} /\ With(g.db, p, r)[p] = r
      /\ \A x \in DOMAIN g.db : x # p => With(g.db, p, r)[x] = g.db[x]
  BY <1>2, <1>3, WithIs
<1>7. /\ d \in Tables /\ DOMAIN d = (IF ok THEN DOMAIN g.db \union {p} ELSE DOMAIN g.db)
      /\ (ok => d[p] = r) /\ (~ok => d = g.db)
      /\ \A x \in DOMAIN g.db : x # p => d[x] = g.db[x]
  <2>1. CASE ok
    <3>1. d = With(g.db, p, r)
      BY <2>1
    <3> HIDE DEF d
    <3> QED
      BY <1>6, <2>1, <3>1
  <2>2. CASE ~ok
    BY <1>2, <2>2
  <2> QED
    BY <2>1, <2>2
<1>8. t \subseteq Peer /\ n \in Nat
  BY <1>2
<1> HIDE DEF c, d
<1>9. h.cache = c /\ h.db = d /\ h.torn = t /\ h.undeleted = g.undeleted /\ h.now = g.now
  BY <1>1, <1>4 DEF RoutingStates
<1>10. h \in RoutingStates
  <2> HIDE DEF t, n
  <2> QED
    BY <1>1, <1>4, <1>5, <1>7, <1>8 DEF RoutingStates
<1>11. ~IsExpired(r, g.now)
  BY <1>2, <1>3, RoutingAssumption DEF IsExpired
<1>12. FreshIn(d, g.now) = IF ok THEN FreshIn(g.db, g.now) \union {p} ELSE FreshIn(g.db, g.now)
  BY <1>7, <1>11 DEF FreshIn
<1>13. Agree(h)
  <2> SUFFICES ASSUME NEW x \in Peer \ t
               PROVE  /\ x \in DOMAIN c => x \in DOMAIN d /\ d[x] = c[x]
                      /\ x \in FreshIn(d, g.now) => x \in DOMAIN c
    BY <1>9 DEF Agree
  <2>1. CASE x = p
    <3>1. ok
      BY <2>1
    <3> QED
      BY <1>5, <1>7, <2>1, <3>1
  <2>2. CASE x # p
    <3>1. x \in Peer \ g.torn
      BY <2>2
    <3>2. /\ x \in DOMAIN g.cache => x \in DOMAIN g.db /\ g.db[x] = g.cache[x]
          /\ x \in FreshIn(g.db, g.now) => x \in DOMAIN g.cache
      BY <1>1, <3>1 DEF Agree
    <3> QED
      BY <1>5, <1>7, <1>12, <2>2, <3>2
  <2> QED
    BY <2>1, <2>2
<1>14. Returning(h)
  <2>1. FreshIn(d, g.now) \ DOMAIN c \subseteq g.undeleted
    BY <1>1, <1>5, <1>12 DEF Returning
  <2> QED
    BY <1>9, <2>1 DEF Returning
<1>15. Room(h)
  <2> DEFINE before == DOMAIN g.cache \union FreshIn(g.db, g.now)
             after == DOMAIN c \union FreshIn(d, g.now)
  <2>1. after = before \union {p}
    BY <1>5, <1>12
  <2>2. before \in SUBSET Peer
    BY <1>2, TablesAre DEF FreshIn
  <2>3. Cardinality(before) <= MaxPeers + Cardinality(g.undeleted)
    BY <1>1 DEF Room
  <2>4. p \in before \/ Cardinality(before) < MaxPeers + Cardinality(g.undeleted)
    OBVIOUS
  <2> HIDE DEF before, after
  <2>5. IsFiniteSet(before) /\ Cardinality(before) \in Nat /\ Cardinality(g.undeleted) \in Nat
    BY <1>2, <2>2, FiniteTables
  <2>6. Cardinality(after) = IF p \in before THEN Cardinality(before) ELSE Cardinality(before) + 1
    BY <2>1, <2>5, FS_AddElement
  <2>7. Cardinality(after) <= MaxPeers + Cardinality(g.undeleted)
    BY <2>3, <2>4, <2>5, <2>6, RoutingAssumption
  <2> QED
    BY <1>9, <2>7 DEF Room, after
<1> QED
  BY <1>10, <1>13, <1>14, <1>15 DEF Routing, h

LEMMA AddPeerKeepsRouting ==
  ASSUME Routing(rt), NEW p \in Peer, NEW addrs \in SUBSET Addr, NEW evictOk \in BOOLEAN, NEW putOk \in BOOLEAN,
         AddPeer(p, addrs, evictOk, putOk)
  PROVE  Routing(rt')
<1>1. rt.cache \in Tables /\ rt.db \in Tables /\ rt.undeleted \in SUBSET Peer /\ DOMAIN rt.cache \subseteq Peer
  BY TablesAre DEF Routing, RoutingStates
<1>2. DOMAIN rt.cache \union FreshIn(rt.db, rt.now) \in SUBSET Peer
  BY <1>1, TablesAre DEF FreshIn
<1>3. Full(rt, p) <=> Cardinality(DOMAIN rt.cache) >= MaxPeers /\ p \notin DOMAIN rt.cache
  BY Zenon DEF Full
<1>4. CASE ~Full(rt, p)
  <2>1. rt' = Put(rt, p, addrs, putOk)
    BY <1>4, Zenon DEF AddPeer
  <2>2. \/ p \in DOMAIN rt.cache \union FreshIn(rt.db, rt.now)
        \/ Cardinality(DOMAIN rt.cache \union FreshIn(rt.db, rt.now)) < MaxPeers + Cardinality(rt.undeleted)
    <3>1. CASE p \in DOMAIN rt.cache
      BY <3>1
    <3>2. CASE p \notin DOMAIN rt.cache
      <4>1. Cardinality(DOMAIN rt.cache) \in Nat /\ MaxPeers \in Nat
        BY <1>1, FiniteTables, RoutingAssumption
      <4>2. Cardinality(DOMAIN rt.cache) < MaxPeers
        BY <1>3, <1>4, <3>2, <4>1
      <4> QED
        BY <4>2, RoomBelow
    <3> QED
      BY <3>1, <3>2
  <2>3. Routing(Put(rt, p, addrs, putOk))
    BY <2>2, PutKeepsRouting
  <2> QED
    BY <2>1, <2>3, Zenon
<1>5. CASE Full(rt, p)
  <2>1. PICK old \in Oldest(rt) :
          rt' = IF evictOk THEN Put(Removed(rt, old, TRUE), p, addrs, putOk) ELSE Removed(rt, old, FALSE)
    BY <1>5, Zenon DEF AddPeer
  <2>2. old \in DOMAIN rt.cache /\ {old} \in SUBSET Peer
    BY <1>1 DEF Oldest
  <2>3. CASE ~evictOk
    <3>1. rt' = Erased([rt EXCEPT !.cache = Minus(@, {old})], {old}, FALSE)
      BY <2>1, <2>3, Zenon DEF Removed
    <3>2. Routing(Erased([rt EXCEPT !.cache = Minus(@, {old})], {old}, FALSE))
      BY <2>2, LeavingKeepsRouting
    <3> QED
      BY <3>1, <3>2, Zenon
  <2>4. CASE evictOk
    <3> DEFINE h == Erased([rt EXCEPT !.cache = Minus(@, {old})], {old}, TRUE)
               before == DOMAIN rt.cache \union FreshIn(rt.db, rt.now)
    <3>1. rt' = Put(h, p, addrs, putOk)
      BY <2>1, <2>4, Zenon DEF Removed
    <3>2. Routing(h) /\ DOMAIN h.cache \union FreshIn(h.db, h.now) = before \ {old} /\ h.undeleted = rt.undeleted
      BY <2>2, LeavingKeepsRouting
    <3> HIDE DEF h
    <3>3. Cardinality(before) <= MaxPeers + Cardinality(rt.undeleted)
      BY DEF Routing, Room
    <3>4. old \in before
      BY <2>2
    <3> HIDE DEF before
    <3>5. IsFiniteSet(before) /\ Cardinality(before) \in Nat /\ Cardinality(rt.undeleted) \in Nat
      BY <1>1, <1>2, FiniteTables DEF before
    <3>6. Cardinality(before \ {old}) = Cardinality(before) - 1
      BY <3>4, <3>5, FS_RemoveElement
    <3>7. Cardinality(DOMAIN h.cache \union FreshIn(h.db, h.now)) < MaxPeers + Cardinality(h.undeleted)
      BY <3>2, <3>3, <3>5, <3>6, RoutingAssumption
    <3>8. Routing(Put(h, p, addrs, putOk))
      BY <3>2, <3>7, PutKeepsRouting
    <3> QED
      BY <3>1, <3>8, Zenon
  <2> QED
    BY <2>3, <2>4
<1> QED
  BY <1>4, <1>5

(* A restart keeps what is fresh in the database; time only expires.       *)
LEMMA OpenKeepsRouting ==
  ASSUME Routing(rt), Open
  PROVE  Routing(rt')
<1> DEFINE F == FreshIn(rt.db, rt.now)
           c == Restrict(rt.db, F)
<1>1. rt \in RoutingStates /\ Room(rt) /\ rt.cache \in Tables /\ rt.db \in Tables /\ rt.undeleted \in SUBSET Peer
  BY DEF Routing, RoutingStates
<1>2. F \in SUBSET DOMAIN rt.db /\ F \in SUBSET Peer /\ DOMAIN rt.cache \in SUBSET Peer
  BY <1>1, TablesAre DEF FreshIn
<1>3. rt' = [rt EXCEPT !.cache = c]
  BY Zenon DEF Open, FreshIn
<1> HIDE DEF F
<1>4. c \in Tables /\ DOMAIN c = F /\ \A x \in F : c[x] = rt.db[x]
  BY <1>1, <1>2, RestrictIs
<1> HIDE DEF c
<1>5. /\ rt' \in RoutingStates /\ rt'.cache = c /\ rt'.db = rt.db /\ rt'.now = rt.now /\ rt'.torn = rt.torn
      /\ rt'.undeleted = rt.undeleted
  BY <1>1, <1>3, <1>4 DEF RoutingStates
<1>6. Agree(rt') /\ Returning(rt')
  BY <1>2, <1>4, <1>5 DEF Agree, Returning, F
<1>7. Room(rt')
  <2> DEFINE before == DOMAIN rt.cache \union F
  <2>1. F \in SUBSET before /\ before \in SUBSET Peer
    BY <1>2
  <2>2. Cardinality(before) <= MaxPeers + Cardinality(rt.undeleted)
    BY <1>1 DEF Room, F
  <2> HIDE DEF before
  <2>3. Cardinality(F) <= Cardinality(before) /\ Cardinality(before) \in Nat /\ Cardinality(F) \in Nat
    BY <1>2, <2>1, FiniteTables
  <2>4. Cardinality(rt.undeleted) \in Nat
    BY <1>1, FiniteTables
  <2>5. Cardinality(F) <= MaxPeers + Cardinality(rt.undeleted)
    BY <2>2, <2>3, <2>4, RoutingAssumption
  <2>6. DOMAIN rt'.cache \union FreshIn(rt'.db, rt'.now) = F
    BY <1>4, <1>5 DEF F
  <2> QED
    BY <1>5, <2>5, <2>6 DEF Room
<1> QED
  BY <1>5, <1>6, <1>7 DEF Routing

LEMMA TickKeepsRouting ==
  ASSUME Routing(rt), RtTick
  PROVE  Routing(rt')
<1>1. /\ rt \in RoutingStates /\ Agree(rt) /\ Returning(rt) /\ Room(rt)
      /\ rt.cache \in Tables /\ rt.db \in Tables /\ rt.now \in Nat /\ rt.undeleted \in SUBSET Peer
  BY DEF Routing, RoutingStates
<1>2. rt' = [rt EXCEPT !.now = @ + 1]
  BY DEF RtTick
<1>3. /\ rt' \in RoutingStates /\ rt'.cache = rt.cache /\ rt'.db = rt.db /\ rt'.now = rt.now + 1 /\ rt'.torn = rt.torn
      /\ rt'.undeleted = rt.undeleted
  BY <1>1, <1>2 DEF RoutingStates
<1>4. FreshIn(rt.db, rt.now + 1) \subseteq FreshIn(rt.db, rt.now)
  <2>1. \A p \in DOMAIN rt.db : rt.db[p].seen \in Nat
    BY <1>1, TablesAre DEF Records
  <2> QED
    BY <1>1, <2>1, RoutingAssumption DEF FreshIn, IsExpired
<1>5. Agree(rt') /\ Returning(rt')
  BY <1>1, <1>3, <1>4 DEF Agree, Returning
<1>6. Room(rt')
  <2> DEFINE before == DOMAIN rt.cache \union FreshIn(rt.db, rt.now)
             after == DOMAIN rt.cache \union FreshIn(rt.db, rt.now + 1)
  <2>1. before \in SUBSET Peer /\ after \in SUBSET before
    BY <1>1, <1>4, TablesAre DEF FreshIn
  <2>2. Cardinality(before) <= MaxPeers + Cardinality(rt.undeleted)
    BY <1>1 DEF Room
  <2> HIDE DEF before, after
  <2>3. after \in SUBSET Peer
    BY <2>1
  <2>4. Cardinality(after) <= Cardinality(before) /\ Cardinality(before) \in Nat /\ Cardinality(after) \in Nat
    BY <2>1, <2>3, FiniteTables
  <2>5. Cardinality(rt.undeleted) \in Nat
    BY <1>1, FiniteTables
  <2>6. Cardinality(after) <= MaxPeers + Cardinality(rt.undeleted)
    BY <2>2, <2>4, <2>5, RoutingAssumption
  <2> QED
    BY <1>3, <2>6 DEF Room, after
<1> QED
  BY <1>3, <1>5, <1>6 DEF Routing

LEMMA RoutingStep ==
  ASSUME Routing(rt), RtNext
  PROVE  Routing(rt')
<1>1. ASSUME NEW p \in Peer, NEW ok \in BOOLEAN, RemovePeer(p, ok) PROVE Routing(rt')
  <2>1. rt' = Erased([rt EXCEPT !.cache = Minus(@, {p})], {p}, ok)
    BY <1>1, Zenon DEF RemovePeer, Removed
  <2>2. Routing(Erased([rt EXCEPT !.cache = Minus(@, {p})], {p}, ok))
    BY LeavingKeepsRouting
  <2> QED
    BY <2>1, <2>2, Zenon
<1>2. ASSUME NEW ok \in BOOLEAN, CleanupExpiredPeers(ok) PROVE Routing(rt')
  <2> DEFINE gone == {p \in DOMAIN rt.cache : IsExpired(rt.cache[p], rt.now)}
  <2>1. rt' = Erased([rt EXCEPT !.cache = Minus(@, gone)], gone, ok)
    BY <1>2, Zenon DEF CleanupExpiredPeers
  <2>2. gone \in SUBSET Peer
    BY TablesAre DEF Routing, RoutingStates
  <2> HIDE DEF gone
  <2>3. Routing(Erased([rt EXCEPT !.cache = Minus(@, gone)], gone, ok))
    BY <2>2, LeavingKeepsRouting
  <2> QED
    BY <2>1, <2>3, Zenon
<1> QED
  BY <1>1, <1>2, AddPeerKeepsRouting, OpenKeepsRouting, TickKeepsRouting DEF RtNext

-----------------------------------------------------------------------------
(* Relay slots *)
Offering == INSTANCE Folding WITH Step <- LAMBDA a, acc, addr : Offer(acc, addr)
Reserving == INSTANCE Folding WITH Step <- LAMBDA a, acc, c : Reserve(acc, c)

(* The addresses that are offered, each of a peer. *)

SlotStates == [candidates : Seq(Listed), active : SUBSET Listed, perPeer : [Relay -> Nat], last : SUBSET Listed, asked : BOOLEAN]
OwnedBy(active, p) == {c \in active : c.owner = p}
SlotsCounted(g) == /\ IsFiniteSet(g.active) /\ IsFiniteSet(g.last) /\ Cardinality(g.active) <= MaxReservations
              /\ \A p \in Relay : g.perPeer[p] = Cardinality(OwnedBy(g.active, p)) /\ g.perPeer[p] <= MaxPerPeer
(* Why a candidate cannot be reserved. *)
Refused(g, c) == Cardinality(g.active) >= MaxReservations \/ c \in g.active \/ g.perPeer[c.owner] >= MaxPerPeer
Exhausted(g) == g.asked /\ g.last = {} => \A i \in DOMAIN g.candidates : Refused(g, g.candidates[i])
Slots(g) == g \in SlotStates /\ SlotsCounted(g) /\ Exhausted(g)

LEMMA OfferKeepsSlots ==
  ASSUME NEW p \in Relay, Slots(rs), RegisterRelayCandidate(p)
  PROVE  Slots(rs')
<1> DEFINE base == [rs EXCEPT !.asked = FALSE]
           G == {g \in SlotStates : SlotsCounted(g) /\ g.asked = FALSE}
<1>1. rs' = Offering!Fold(0, base, Offers[p])
  BY Zenon DEF RegisterRelayCandidate, FoldLeft, MapThenFoldSet, Max, Offering!Fold, Offering!IsIter, Offering!Latest
<1>2. Len(Offers[p]) \in Nat /\ DOMAIN Offers[p] = 1 .. Len(Offers[p])
  BY RelaysAssumption
<1>3. base \in G
  <2>1. /\ base \in SlotStates /\ base.active = rs.active /\ base.last = rs.last /\ base.perPeer = rs.perPeer
        /\ base.asked = FALSE
    BY DEF Slots, SlotStates
  <2>2. SlotsCounted(rs)
    BY DEF Slots
  <2> HIDE DEF base
  <2>3. SlotsCounted(base)
    BY <2>1, <2>2 DEF SlotsCounted
  <2> QED
    BY <2>1, <2>3
<1>4. ASSUME NEW g \in G, NEW i \in 1 .. Len(Offers[p]) PROVE Offer(g, Offers[p][i]) \in G
  <2> DEFINE c == Offers[p][i]
             h == [g EXCEPT !.candidates = Append(@, c)]
  <2>1. c \in Listed
    BY <1>2 DEF Listed, Range
  <2>2. Offer(g, c) = g \/ Offer(g, c) = h
    BY Zenon DEF Offer
  <2> HIDE DEF c
  <2>3. /\ h \in SlotStates /\ h.active = g.active /\ h.last = g.last /\ h.perPeer = g.perPeer /\ h.asked = FALSE
    <3> DEFINE more == Append(g.candidates, c)
    <3>1. g \in SlotStates /\ g.asked = FALSE /\ g.candidates \in Seq(Listed)
      BY DEF SlotStates
    <3>2. more \in Seq(Listed)
      BY <2>1, <3>1
    <3>3. h = [g EXCEPT !.candidates = more]
      BY Zenon
    <3> HIDE DEF more, h
    <3> QED
      BY <3>1, <3>2, <3>3 DEF SlotStates
  <2>4. SlotsCounted(g)
    OBVIOUS
  <2> HIDE DEF h
  <2>5. h \in G
    BY <2>3, <2>4 DEF SlotsCounted
  <2> HIDE DEF G
  <2> QED
    BY <2>2, <2>5 DEF c
<1> HIDE DEF G, base
<1>5. Offering!Fold(0, base, Offers[p]) \in G
  BY <1>2, <1>3, <1>4, Leasts, Offering!FoldKeeps
<1> QED
  BY <1>1, <1>5 DEF G, Slots, Exhausted

(* One candidate: it is refused, or it gets a slot that is counted. *)
LEMMA ReserveOneSlot ==
  ASSUME NEW g \in SlotStates, SlotsCounted(g), NEW c \in Listed
  PROVE  LET h == Reserve(g, c)
         IN  /\ h \in SlotStates /\ SlotsCounted(h) /\ h.candidates = g.candidates /\ h.asked = g.asked
             /\ (h.last = {} => h = g /\ Refused(g, c))
<1> DEFINE h == [g EXCEPT !.active = @ \union {c}, !.last = @ \union {c}, !.perPeer[c.owner] = @ + 1]
           stops == \/ Cardinality(g.active) + Cardinality(g.last) >= MaxReservations
                    \/ c \in g.active
                    \/ g.perPeer[c.owner] >= MaxPerPeer
<1>1. Reserve(g, c) = IF stops THEN g ELSE h
  BY Zenon DEF Reserve, ReserveOne
<1>2. /\ c.owner \in Relay /\ g.perPeer[c.owner] \in Nat /\ MaxReservations \in Nat /\ MaxPerPeer \in Nat
      /\ IsFiniteSet(g.active) /\ IsFiniteSet(g.last)
  BY RelaysAssumption DEF SlotStates, SlotsCounted
<1>3. Cardinality(g.active) \in Nat /\ Cardinality(g.last) \in Nat
  BY <1>2, FS_CardinalityType
<1>4. CASE stops
  <2>1. g.last = {} => Refused(g, c)
    <3>1. g.last = {} => Cardinality(g.last) = 0
      BY FS_EmptySet
    <3> QED
      BY <1>3, <1>4, <3>1 DEF Refused
  <2>2. Reserve(g, c) = g
    BY <1>1, <1>4
  <2> QED
    BY <2>1, <2>2
<1>5. CASE ~stops
  <2>1. Reserve(g, c) = h
    BY <1>1, <1>5
  <2>2. Cardinality(g.active) < MaxReservations /\ c \notin g.active /\ g.perPeer[c.owner] < MaxPerPeer
    BY <1>2, <1>3, <1>5
  <2> HIDE DEF stops
  <2>3. /\ h \in SlotStates /\ h.active = g.active \union {c} /\ h.last = g.last \union {c}
        /\ h.candidates = g.candidates /\ h.asked = g.asked
        /\ h.perPeer[c.owner] = g.perPeer[c.owner] + 1
        /\ \A p \in Relay : p # c.owner => h.perPeer[p] = g.perPeer[p]
    <3> DEFINE counts == [g.perPeer EXCEPT ![c.owner] = @ + 1]
    <3>1. /\ g.perPeer \in [Relay -> Nat] /\ g.active \in SUBSET Listed /\ g.last \in SUBSET Listed
          /\ g.candidates \in Seq(Listed) /\ g.asked \in BOOLEAN
      BY DEF SlotStates
    <3>2. /\ counts \in [Relay -> Nat] /\ counts[c.owner] = g.perPeer[c.owner] + 1
          /\ \A p \in Relay : p # c.owner => counts[p] = g.perPeer[p]
      BY <1>2, <3>1
    <3>3. h = [g EXCEPT !.active = g.active \union {c}, !.last = g.last \union {c}, !.perPeer = counts]
      OBVIOUS
    <3> HIDE DEF counts, h
    <3> QED
      BY <3>1, <3>2, <3>3 DEF SlotStates
  <2> HIDE DEF h
  <2>4. IsFiniteSet(h.active) /\ Cardinality(h.active) = Cardinality(g.active) + 1 /\ IsFiniteSet(h.last)
    <3>1. IsFiniteSet(g.active \union {c}) /\ Cardinality(g.active \union {c}) = Cardinality(g.active) + 1
      BY <1>2, <2>2, FS_AddElement
    <3>2. IsFiniteSet(g.last \union {c})
      BY <1>2, FS_AddElement
    <3> QED
      BY <2>3, <3>1, <3>2
  <2>5. ASSUME NEW p \in Relay PROVE h.perPeer[p] = Cardinality(OwnedBy(h.active, p)) /\ h.perPeer[p] <= MaxPerPeer
    <3>1. g.perPeer[p] = Cardinality(OwnedBy(g.active, p)) /\ g.perPeer[p] <= MaxPerPeer
      BY DEF SlotsCounted
    <3>2. CASE p # c.owner
      <4>1. OwnedBy(h.active, p) = OwnedBy(g.active, p)
        BY <2>3, <3>2 DEF OwnedBy
      <4> QED
        BY <2>3, <3>1, <3>2, <4>1
    <3>3. CASE p = c.owner
      <4>1. OwnedBy(h.active, p) = OwnedBy(g.active, p) \union {c} /\ c \notin OwnedBy(g.active, p)
        BY <2>2, <2>3, <3>3 DEF OwnedBy
      <4>2. IsFiniteSet(OwnedBy(g.active, p))
        BY <1>2, FS_Subset DEF OwnedBy
      <4>3. Cardinality(OwnedBy(h.active, p)) = Cardinality(OwnedBy(g.active, p)) + 1
        BY <4>1, <4>2, FS_AddElement
      <4> QED
        BY <1>2, <2>2, <2>3, <3>1, <3>3, <4>3
    <3> QED
      BY <3>2, <3>3
  <2>6. SlotsCounted(h)
    BY <1>2, <1>3, <2>2, <2>4, <2>5 DEF SlotsCounted
  <2>7. h.last # {}
    BY <2>3
  <2> QED
    BY <2>1, <2>3, <2>6, <2>7
<1> QED
  BY <1>4, <1>5

LEMMA ReserveKeepsSlots ==
  ASSUME Slots(rs), ReserveRelaySlots
  PROVE  Slots(rs')
<1> DEFINE base == [rs EXCEPT !.last = {}, !.asked = TRUE]
           q == rs.candidates
           n == Len(q)
<1>1. rs' = Reserving!Fold(0, base, q)
  BY Zenon DEF ReserveRelaySlots, FoldLeft, MapThenFoldSet, Max, Reserving!Fold, Reserving!IsIter, Reserving!Latest
<1>2. n \in Nat /\ DOMAIN q = 1 .. n /\ \A i \in 1 .. n : q[i] \in Listed
  BY DEF Slots, SlotStates
<1>3. /\ base \in SlotStates /\ base.active = rs.active /\ base.last = {} /\ base.perPeer = rs.perPeer
      /\ base.asked = TRUE /\ base.candidates = q
  BY DEF Slots, SlotStates
<1> HIDE DEF q, base
<1>4. SlotsCounted(base)
  BY <1>3, FS_EmptySet DEF Slots, SlotsCounted
<1>5. PICK f : Reserving!IsTrace(0, f, base, q) /\ Reserving!Fold(0, base, q) = f[n]
  BY <1>2, Leasts, Reserving!FoldTrace, Zenon
<1>6. f[0] = base /\ \A i \in 1 .. n : f[i] = Reserve(f[i - 1], q[i])
  BY <1>2, <1>5, Reserving!TraceStep
<1> DEFINE Turn(i) == /\ f[i] \in SlotStates /\ SlotsCounted(f[i]) /\ f[i].candidates = q /\ f[i].asked = TRUE
                      /\ (f[i].last = {} => f[i] = base /\ \A j \in 1 .. i : Refused(base, q[j]))
           T == {i \in 0 .. n : Turn(i)}
<1>7. 0 \in T
  BY <1>2, <1>3, <1>4, <1>6
<1>8. ASSUME NEW i \in 0 .. n - 1, i \in T PROVE i + 1 \in T
  <2> DEFINE g == f[i]
             h == f[i + 1]
             c == q[i + 1]
  <2>1. /\ g \in SlotStates /\ SlotsCounted(g) /\ g.candidates = q /\ g.asked = TRUE
        /\ (g.last = {} => g = base /\ \A j \in 1 .. i : Refused(base, q[j]))
    BY <1>8
  <2>2. i + 1 \in 1 .. n /\ (i + 1) - 1 = i /\ i + 1 \in 0 .. n /\ \A j \in 1 .. i + 1 : j \in 1 .. i \/ j = i + 1
    BY <1>2
  <2>3. h = Reserve(g, c) /\ c \in Listed
    BY <1>2, <1>6, <2>2
  <2> HIDE DEF g, h, c
  <2>4. /\ h \in SlotStates /\ SlotsCounted(h) /\ h.candidates = g.candidates /\ h.asked = g.asked
        /\ (h.last = {} => h = g /\ Refused(g, c))
    BY <2>1, <2>3, ReserveOneSlot
  <2>5. ASSUME h.last = {} PROVE h = base /\ \A j \in 1 .. i + 1 : Refused(base, q[j])
    <3>1. h = g /\ Refused(g, c) /\ g.last = {}
      BY <2>4, <2>5
    <3>2. g = base /\ \A j \in 1 .. i : Refused(base, q[j])
      BY <2>1, <3>1
    <3>3. Refused(base, q[i + 1])
      BY <3>1, <3>2 DEF c
    <3> QED
      BY <2>2, <3>1, <3>2, <3>3
  <2>6. Turn(i + 1)
    BY <2>1, <2>4, <2>5 DEF h
  <2> HIDE DEF Turn
  <2> QED
    BY <2>2, <2>6
<1>9. n \in T
  <2> HIDE DEF T
  <2>1. \A i \in 0 .. n : i \in T
    BY <1>2, <1>7, <1>8, UpTo
  <2> QED
    BY <1>2, <2>1
<1>10. Turn(n) /\ rs' = f[n]
  BY <1>1, <1>5, <1>9
<1>11. Exhausted(rs')
  BY <1>2, <1>10 DEF Exhausted
<1> QED
  BY <1>10, <1>11 DEF Slots

PeersNext == (RtNext /\ UNCHANGED rs) \/ (RsNext /\ UNCHANGED rt)
PeersSpec == RtInit /\ RsInit /\ [][PeersNext]_<<rt, rs>>
PeersInv == Routing(rt) /\ Slots(rs)

(* PeerRoutingTable and ConnectivityState: for any peers, bounds and       *)
(* addresses, whatever database calls fail and whenever the node starts    *)
(* again, a restart brings back what the table held, the table keeps its   *)
(* bound up to the peers the database refused to delete, and the relay     *)
(* slots counted are those reserved, within both limits.                   *)
THEOREM PeersAlwaysAccounted ==
  PeersSpec => []PeersAccounted
<1>1. RtInit => Routing(rt)
  <2> SUFFICES ASSUME RtInit PROVE Routing(rt)
    OBVIOUS
  <2>1. EmptyTable \in [{} -> Records] /\ {} \in SUBSET Peer /\ DOMAIN EmptyTable = {}
    BY DEF EmptyTable
  <2>2. EmptyTable \in Tables
    BY <2>1, Zenon DEF Tables
  <2>3. rt \in RoutingStates /\ rt.cache = EmptyTable /\ rt.db = EmptyTable /\ rt.undeleted = {}
    BY <2>2 DEF RtInit, RoutingStates
  <2>4. DOMAIN rt.cache \union FreshIn(rt.db, rt.now) = {}
    BY <2>1, <2>3 DEF FreshIn
  <2>5. Agree(rt) /\ Returning(rt)
    BY <2>4 DEF Agree, Returning
  <2>6. Room(rt)
    <3>1. Cardinality(DOMAIN rt.cache \union FreshIn(rt.db, rt.now)) = 0
      BY <2>4, FS_EmptySet
    <3>2. Cardinality(rt.undeleted) = 0
      BY <2>3, FS_EmptySet
    <3>3. MaxPeers \in Nat
      BY RoutingAssumption
    <3> QED
      BY <3>1, <3>2, <3>3 DEF Room
  <2> QED
    BY <2>3, <2>5, <2>6 DEF Routing
<1>2. RsInit => Slots(rs)
  <2> SUFFICES ASSUME RsInit PROVE Slots(rs)
    OBVIOUS
  <2>1. /\ rs \in SlotStates /\ rs.active = {} /\ rs.last = {} /\ rs.asked = FALSE
        /\ \A p \in Relay : rs.perPeer[p] = 0
    BY DEF RsInit, SlotStates
  <2>2. \A p \in Relay : OwnedBy(rs.active, p) = {}
    BY <2>1 DEF OwnedBy
  <2>3. IsFiniteSet({}) /\ Cardinality({}) = 0
    BY FS_EmptySet
  <2>4. SlotsCounted(rs)
    <3>1. \A p \in Relay : rs.perPeer[p] = Cardinality(OwnedBy(rs.active, p))
      BY <2>1, <2>2, <2>3
    <3>2. \A p \in Relay : rs.perPeer[p] <= MaxPerPeer
      BY <2>1, RelaysAssumption
    <3>3. Cardinality(rs.active) <= MaxReservations
      BY <2>1, <2>3, RelaysAssumption
    <3> QED
      BY <2>1, <2>3, <3>1, <3>2, <3>3, Zenon DEF SlotsCounted
  <2> QED
    BY <2>1, <2>4 DEF Slots, Exhausted
<1>3. PeersInv /\ [PeersNext]_<<rt, rs>> => PeersInv'
  <2> SUFFICES ASSUME PeersInv, [PeersNext]_<<rt, rs>>
               PROVE  PeersInv'
    OBVIOUS
  <2>1. SUFFICES Routing(rt') /\ Slots(rs')
    BY DEF PeersInv, Routing, RoutingStates, Agree, Returning, Room, FreshIn, Tables, Records, IsExpired,
           Slots, SlotStates, SlotsCounted, Exhausted, Refused, OwnedBy, Listed, Range
  <2>2. Routing(rt) /\ Slots(rs)
    BY DEF PeersInv
  <2>3. CASE RtNext /\ UNCHANGED rs
    BY <2>2, <2>3, RoutingStep
  <2>4. CASE RsNext /\ UNCHANGED rt
    BY <2>2, <2>4, OfferKeepsSlots, ReserveKeepsSlots DEF RsNext
  <2>5. CASE UNCHANGED <<rt, rs>>
    BY <2>2, <2>5
  <2> QED
    BY <2>3, <2>4, <2>5 DEF PeersNext
<1>4. PeersInv => PeersAccounted
  <2> SUFFICES ASSUME PeersInv PROVE PeersAccounted
    OBVIOUS
  <2>1. RestartRestores
    BY DEF PeersInv, Routing, Agree, FreshIn, RestartRestores
  <2>2. SizeBounded
    <3>1. rt.cache \in Tables /\ rt.db \in Tables /\ rt.undeleted \in SUBSET Peer
      BY DEF PeersInv, Routing, RoutingStates
    <3> DEFINE all == DOMAIN rt.cache \union FreshIn(rt.db, rt.now)
    <3>2. all \in SUBSET Peer /\ DOMAIN rt.cache \in SUBSET all /\ DOMAIN rt.cache \in SUBSET Peer
      BY <3>1, TablesAre DEF FreshIn
    <3>3. Cardinality(all) <= MaxPeers + Cardinality(rt.undeleted)
      BY DEF PeersInv, Routing, Room
    <3> HIDE DEF all
    <3>4. /\ Cardinality(DOMAIN rt.cache) <= Cardinality(all) /\ Cardinality(all) \in Nat
          /\ Cardinality(DOMAIN rt.cache) \in Nat /\ Cardinality(rt.undeleted) \in Nat
      BY <3>1, <3>2, FiniteTables
    <3>5. Cardinality(DOMAIN rt.cache) <= MaxPeers + Cardinality(rt.undeleted)
      BY <3>3, <3>4, RoutingAssumption
    <3> QED
      BY <3>5 DEF SizeBounded
  <2>3. SlotsAccounted
    <3>1. rs \in SlotStates /\ SlotsCounted(rs) /\ Exhausted(rs)
      BY DEF PeersInv, Slots
    <3>2. \A p \in Relay : Held(p) = OwnedBy(rs.active, p)
      BY Zenon DEF Held, OwnedBy
    <3>3. /\ Cardinality(rs.active) <= MaxReservations /\ Cardinality(rs.active) \in Nat
          /\ \A p \in Relay : rs.perPeer[p] = Cardinality(Held(p)) /\ rs.perPeer[p] <= MaxPerPeer
      BY <3>1, <3>2, FS_CardinalityType DEF SlotsCounted
    <3>4. ASSUME rs.asked, rs.last = {}
          PROVE  \/ Cardinality(rs.active) = MaxReservations
                 \/ \A i \in DOMAIN rs.candidates :
                      rs.candidates[i] \in rs.active \/ rs.perPeer[rs.candidates[i].owner] = MaxPerPeer
      <4>1. \A i \in DOMAIN rs.candidates : Refused(rs, rs.candidates[i]) /\ rs.candidates[i].owner \in Relay
        BY <3>1, <3>4, RelaysAssumption DEF Exhausted, SlotStates
      <4>2. \A p \in Relay : rs.perPeer[p] \in Nat
        BY <3>1 DEF SlotStates
      <4> QED
        BY <3>3, <4>1, <4>2, RelaysAssumption DEF Refused
    <3> QED
      BY <3>3, <3>4 DEF SlotsAccounted
  <2> QED
    BY <2>1, <2>2, <2>3 DEF PeersAccounted
<1> QED
  BY <1>1, <1>2, <1>3, <1>4, PTL DEF PeersSpec, PeersInv

-----------------------------------------------------------------------------
(* The dependency graph *)
GraphSpec == DgInit /\ [][DgNext]_dg

Walking == INSTANCE Folding WITH Step <- LAMBDA link, r, i : r \union UNION {link[x] : x \in r}

Graphs == [known : SUBSET Tx, parents : [Tx -> SUBSET Tx], children : [Tx -> SUBSET Tx],
           conflict : SUBSET Tx, partition : [Tx -> 0 .. MaxPartition],
           members : [1 .. MaxPartition -> SUBSET Tx], marked : SUBSET Nat,
           next : 1 .. MaxPartition + 1, gone : SUBSET Tx, again : BOOLEAN]

GraphLinked(g) ==
  \A c, p \in Tx : /\ p \in g.parents[c] <=> c \in g.children[p]
                   /\ p \in g.parents[c] => c \in g.known /\ p \in g.known
Homed(g) == \A t \in g.known : g.partition[t] \in 1 .. g.next - 1
Filed(g) == \A t \in g.known : t \in g.members[g.partition[t]]
Apart(g) == \A x, y \in g.known : y \in g.members[g.partition[x]] => g.partition[y] = g.partition[x]
SeenOnly(g) == \A i \in 1 .. MaxPartition : g.members[i] \subseteq g.known \union g.gone
Together(g) == \A c, p \in Tx : p \in g.parents[c] => g.partition[p] = g.partition[c]

GraphSound(g) == /\ g \in Graphs /\ GraphLinked(g) /\ Homed(g)
                 /\ ~g.again => Filed(g) /\ Apart(g) /\ SeenOnly(g) /\ Together(g)
GraphInv == GraphSound(dg)

(* register_transaction files a new id alone in the next partition.        *)
LEMMA RegisterSound ==
  ASSUME NEW g, GraphSound(g), NEW t \in Tx, t \notin g.known => g.next <= MaxPartition
  PROVE  /\ GraphSound(RegisterIn(g, t)) /\ t \in RegisterIn(g, t).known
         /\ RegisterIn(g, t).known = g.known \union {t}
         /\ RegisterIn(g, t).next = IF t \in g.known THEN g.next ELSE g.next + 1
<1>1. CASE t \in g.known
  BY <1>1 DEF RegisterIn
<1>2. CASE t \notin g.known
  <2> DEFINE h == RegisterIn(g, t)
  <2>1. g \in Graphs /\ GraphLinked(g) /\ Homed(g) /\ MaxPartition \in Nat
    BY GraphAssumption DEF GraphSound
  <2>2. h = [known |-> g.known \union {t}, parents |-> g.parents, children |-> g.children,
             conflict |-> g.conflict \ {t}, partition |-> [g.partition EXCEPT ![t] = g.next],
             members |-> [g.members EXCEPT ![g.next] = {t}], marked |-> g.marked,
             next |-> g.next + 1, gone |-> g.gone, again |-> g.again \/ t \in g.gone]
    BY <1>2, <2>1 DEF RegisterIn, Graphs
  <2> HIDE DEF h
  <2>3. h \in Graphs
    BY <1>2, <2>1, <2>2 DEF Graphs
  <2>4. GraphLinked(h) /\ Homed(h)
    BY <1>2, <2>1, <2>2 DEF Graphs, GraphLinked, Homed
  <2>5. ASSUME ~h.again PROVE Filed(h) /\ Apart(h) /\ SeenOnly(h) /\ Together(h)
    <3>1. ~g.again /\ t \notin g.gone
      BY <2>1, <2>2, <2>5
    <3>2. Filed(g) /\ Apart(g) /\ SeenOnly(g) /\ Together(g)
      BY <3>1 DEF GraphSound
    <3>3. /\ h.partition[t] = g.next /\ h.members[g.next] = {t}
          /\ \A x \in g.known : /\ x # t /\ h.partition[x] = g.partition[x]
                                /\ h.members[h.partition[x]] = g.members[g.partition[x]]
          /\ \A x \in g.known : t \notin g.members[g.partition[x]] /\ g.partition[x] # g.next
      BY <1>2, <2>1, <2>2, <3>1, <3>2 DEF Graphs, Homed, SeenOnly
    <3>4. h.known = g.known \union {t}
      BY <2>2
    <3>5. Filed(h) /\ Apart(h)
      BY <3>2, <3>3, <3>4 DEF Filed, Apart
    <3>6. SeenOnly(h)
      BY <1>2, <2>1, <2>2, <3>2 DEF Graphs, SeenOnly
    <3>7. Together(h)
      BY <1>2, <2>1, <2>2, <3>2 DEF Graphs, Together, GraphLinked
    <3> QED
      BY <3>5, <3>6, <3>7
  <2>6. t \in h.known /\ h.known = g.known \union {t} /\ h.next = g.next + 1
    BY <2>2
  <2> QED
    BY <1>2, <2>3, <2>4, <2>5, <2>6 DEF h, GraphSound
<1> QED
  BY <1>1, <1>2

(* merge_partitions brings the new link into one partition, and the links  *)
(* that were in one stay in one: the ids that move are all of a partition. *)
LEMMA MergeSound ==
  ASSUME NEW g, GraphSound(g), NEW c \in g.known, NEW p \in g.known
  PROVE  GraphSound(MergePartitions(Linked(g, c, p), c, p))
<1> DEFINE l == Linked(g, c, p)
           from == g.partition[c]
           to == g.partition[p]
           h == MergePartitions(l, c, p)
<1>1. g \in Graphs /\ GraphLinked(g) /\ Homed(g) /\ MaxPartition \in Nat
  BY GraphAssumption DEF GraphSound
<1>2. c \in Tx /\ p \in Tx /\ from \in 1 .. g.next - 1 /\ to \in 1 .. g.next - 1
      /\ from \in 1 .. MaxPartition /\ to \in 1 .. MaxPartition
  BY <1>1 DEF Graphs, Homed
<1>3. l = [known |-> g.known, parents |-> [g.parents EXCEPT ![c] = @ \union {p}],
           children |-> [g.children EXCEPT ![p] = @ \union {c}],
           conflict |-> g.conflict, partition |-> g.partition, members |-> g.members,
           marked |-> g.marked, next |-> g.next, gone |-> g.gone, again |-> g.again]
  <2>1. g = [known |-> g.known, parents |-> g.parents, children |-> g.children, conflict |-> g.conflict,
             partition |-> g.partition, members |-> g.members, marked |-> g.marked, next |-> g.next,
             gone |-> g.gone, again |-> g.again]
    BY <1>1 DEF Graphs
  <2>2. /\ l.known = g.known /\ l.conflict = g.conflict /\ l.partition = g.partition /\ l.members = g.members
        /\ l.marked = g.marked /\ l.next = g.next /\ l.gone = g.gone /\ l.again = g.again
    BY <2>1 DEF Linked
  <2>3. l.parents = [g.parents EXCEPT ![c] = @ \union {p}]
    BY <2>1 DEF Linked
  <2>4. l.children = [g.children EXCEPT ![p] = @ \union {c}]
    BY <2>1 DEF Linked
  <2>5. l = [known |-> l.known, parents |-> l.parents, children |-> l.children, conflict |-> l.conflict,
             partition |-> l.partition, members |-> l.members, marked |-> l.marked, next |-> l.next,
             gone |-> l.gone, again |-> l.again]
    <3>1. l \in Graphs
      BY <1>1, <1>2 DEF Linked, Graphs
    <3> HIDE DEF l
    <3> QED
      BY <3>1 DEF Graphs
  <2> HIDE DEF l
  <2> QED
    BY <2>2, <2>3, <2>4, <2>5
<1> HIDE DEF l
<1>4. l \in Graphs /\ GraphLinked(l) /\ Homed(l)
  <2>1. l \in Graphs
    BY <1>1, <1>2, <1>3 DEF Graphs
  <2>2. GraphLinked(l)
    BY <1>1, <1>2, <1>3 DEF Graphs, GraphLinked
  <2>3. Homed(l)
    BY <1>1, <1>3 DEF Homed
  <2> QED
    BY <2>1, <2>2, <2>3
<1>5. ASSUME ~g.again
      PROVE  /\ Filed(l) /\ Apart(l) /\ SeenOnly(l)
             /\ \A x, y \in Tx : y \in l.parents[x] => l.partition[y] = l.partition[x] \/ (x = c /\ y = p)
  <2>1. Filed(g) /\ Apart(g) /\ SeenOnly(g) /\ Together(g)
    BY <1>5 DEF GraphSound
  <2>2. Filed(l) /\ Apart(l) /\ SeenOnly(l)
    BY <1>3, <2>1 DEF Filed, Apart, SeenOnly
  <2>3. ASSUME NEW x \in Tx, NEW y \in Tx, y \in l.parents[x], ~(x = c /\ y = p) PROVE y \in g.parents[x]
    BY <1>1, <1>2, <1>3, <2>3 DEF Graphs
  <2>4. ASSUME NEW x \in Tx, NEW y \in Tx, y \in l.parents[x], ~(x = c /\ y = p)
        PROVE  l.partition[y] = l.partition[x]
    <3>1. y \in g.parents[x] /\ l.partition = g.partition
      BY <1>3, <2>3, <2>4
    <3> QED
      BY <2>1, <3>1 DEF Together
  <2> QED
    BY <2>2, <2>4, Zenon
<1>6. CASE from = to
  <2>1. h = l
    BY <1>3, <1>6 DEF MergePartitions
  <2>2. ~l.again => Together(l)
    BY <1>3, <1>5, <1>6 DEF Together
  <2> QED
    BY <1>3, <1>4, <1>5, <2>1, <2>2 DEF GraphSound, h, l
<1>7. CASE from # to
  <2> DEFINE Moved(x) == IF x \in g.members[from] THEN to ELSE g.partition[x]
  <2>1. h = [known |-> g.known, parents |-> l.parents, children |-> l.children, conflict |-> g.conflict,
             partition |-> [x \in Tx |-> Moved(x)],
             members |-> [g.members EXCEPT ![to] = @ \union g.members[from]],
             marked |-> IF from \in g.marked THEN g.marked \union {to} ELSE g.marked,
             next |-> g.next, gone |-> g.gone, again |-> g.again]
    BY <1>3, <1>7 DEF MergePartitions
  <2> HIDE DEF h
  <2>2. h \in Graphs
    <3>1. l.parents \in [Tx -> SUBSET Tx] /\ l.children \in [Tx -> SUBSET Tx]
      BY <1>4 DEF Graphs
    <3> DEFINE part == [x \in Tx |-> Moved(x)]
               mem == [g.members EXCEPT ![to] = @ \union g.members[from]]
               mark == IF from \in g.marked THEN g.marked \union {to} ELSE g.marked
    <3>2. part \in [Tx -> 0 .. MaxPartition]
      BY <1>1, <1>2 DEF Graphs
    <3>3. mem \in [1 .. MaxPartition -> SUBSET Tx] /\ mark \in SUBSET Nat
      BY <1>1, <1>2 DEF Graphs
    <3> HIDE DEF part, mem, mark
    <3> QED
      BY <1>1, <2>1, <3>1, <3>2, <3>3 DEF Graphs, part, mem, mark
  <2>3. \A x \in Tx : h.partition[x] = Moved(x)
    BY <2>1
  <2>4. GraphLinked(h)
    BY <1>3, <1>4, <2>1 DEF GraphLinked
  <2>5. Homed(h)
    BY <1>1, <1>2, <2>1, <2>3 DEF Homed, Graphs
  <2>6. ASSUME ~g.again PROVE Filed(h) /\ Apart(h) /\ SeenOnly(h) /\ Together(h)
    <3>1. Filed(g) /\ Apart(g) /\ SeenOnly(g) /\ Together(g)
      BY <2>6 DEF GraphSound
    <3>2. \A x \in g.known : x \in Tx /\ (x \in g.members[from] <=> g.partition[x] = from)
      BY <1>1, <3>1 DEF Filed, Apart, Graphs
    <3>3. \A x \in g.known : h.partition[x] = IF g.partition[x] = from THEN to ELSE g.partition[x]
      BY <2>3, <3>2
    <3>4. /\ h.members[to] = g.members[to] \union g.members[from]
          /\ \A i \in 1 .. MaxPartition : i # to => h.members[i] = g.members[i]
      BY <1>1, <1>2, <2>1 DEF Graphs
    <3>5. \A x \in g.known : g.partition[x] \in 1 .. MaxPartition
      BY <1>1 DEF Graphs, Homed
    <3>6. h.known = g.known
      BY <2>1
    <3>7. Filed(h)
      BY <1>7, <3>1, <3>3, <3>4, <3>5, <3>6 DEF Filed
    <3>8. \A y \in g.known : y \in g.members[to] => g.partition[y] = to
      BY <3>1 DEF Apart
    <3>9. Apart(h)
      BY <1>7, <3>1, <3>2, <3>3, <3>4, <3>5, <3>6, <3>8 DEF Apart
    <3>10. SeenOnly(h)
      BY <1>2, <2>1, <3>1, <3>4 DEF SeenOnly
    <3>11. Together(h)
      <4> SUFFICES ASSUME NEW x \in Tx, NEW y \in Tx, y \in h.parents[x] PROVE h.partition[y] = h.partition[x]
        BY DEF Together
      <4>1. y \in l.parents[x] /\ x \in g.known /\ y \in g.known
        BY <1>3, <1>4, <2>1 DEF GraphLinked
      <4>2. g.partition[y] = g.partition[x] \/ (x = c /\ y = p)
        BY <1>3, <1>5, <2>6, <4>1
      <4> QED
        BY <1>7, <3>3, <4>1, <4>2
    <3> QED
      BY <3>7, <3>9, <3>10, <3>11
  <2> QED
    BY <2>1, <2>2, <2>4, <2>5, <2>6 DEF GraphSound, h, l
<1> QED
  BY <1>6, <1>7

(* remove_transaction takes the links with the id.                         *)
LEMMA WithoutSound ==
  ASSUME NEW g, GraphSound(g), NEW t \in Tx
  PROVE  GraphSound(WithoutNode(g, t))
<1> DEFINE h == WithoutNode(g, t)
           pars == [x \in Tx |-> IF x = t THEN {} ELSE g.parents[x] \ {t}]
           kids == [x \in Tx |-> IF x = t THEN {} ELSE g.children[x] \ {t}]
<1>1. g \in Graphs /\ GraphLinked(g) /\ Homed(g) /\ MaxPartition \in Nat
  BY GraphAssumption DEF GraphSound
<1>2. h = [known |-> g.known \ {t}, parents |-> pars, children |-> kids, conflict |-> g.conflict \ {t},
           partition |-> [g.partition EXCEPT ![t] = 0], members |-> g.members, marked |-> g.marked,
           next |-> g.next, gone |-> g.gone \union ({t} \intersect g.known), again |-> g.again]
  <2>1. g = [known |-> g.known, parents |-> g.parents, children |-> g.children, conflict |-> g.conflict,
             partition |-> g.partition, members |-> g.members, marked |-> g.marked, next |-> g.next,
             gone |-> g.gone, again |-> g.again]
    BY <1>1 DEF Graphs
  <2>2. h = [g EXCEPT !.known = @ \ {t}, !.conflict = @ \ {t}, !.partition[t] = 0, !.parents = pars,
                      !.children = kids, !.gone = @ \union ({t} \intersect g.known)]
    BY Zenon DEF WithoutNode
  <2> HIDE DEF h, pars, kids
  <2> QED
    BY <2>1, <2>2
<1>3. pars \in [Tx -> SUBSET Tx] /\ kids \in [Tx -> SUBSET Tx]
  BY <1>1 DEF Graphs
<1>4. \A c, p \in Tx : /\ p \in pars[c] <=> p \in g.parents[c] /\ p # t /\ c # t
                       /\ c \in kids[p] <=> c \in g.children[p] /\ p # t /\ c # t
  OBVIOUS
<1> HIDE DEF h, pars, kids
<1>5. h \in Graphs
  <2>1. [g.partition EXCEPT ![t] = 0] \in [Tx -> 0 .. MaxPartition]
    BY <1>1 DEF Graphs
  <2> QED
    BY <1>1, <1>2, <1>3, <2>1 DEF Graphs
<1>6. GraphLinked(h)
  BY <1>1, <1>2, <1>4 DEF GraphLinked
<1>7. \A x \in g.known \ {t} : h.partition[x] = g.partition[x]
  BY <1>1, <1>2 DEF Graphs
<1>8. Homed(h)
  BY <1>1, <1>2, <1>7 DEF Homed
<1>9. ASSUME ~g.again PROVE Filed(h) /\ Apart(h) /\ SeenOnly(h) /\ Together(h)
  <2>1. Filed(g) /\ Apart(g) /\ SeenOnly(g) /\ Together(g)
    BY <1>9 DEF GraphSound
  <2>2. Filed(h) /\ Apart(h)
    BY <1>2, <1>7, <2>1 DEF Filed, Apart
  <2>3. SeenOnly(h)
    BY <1>2, <2>1 DEF SeenOnly
  <2>4. Together(h)
    BY <1>1, <1>2, <1>4, <1>7, <2>1 DEF Together, GraphLinked
  <2> QED
    BY <2>2, <2>3, <2>4
<1> QED
  BY <1>2, <1>5, <1>6, <1>8, <1>9 DEF GraphSound, h

LEMMA NewGraphSound == GraphSound(NewDependencyGraph)
<1> DEFINE g == NewDependencyGraph
<1>1. MaxPartition \in Nat
  BY GraphAssumption
<1>2. g \in Graphs
  BY <1>1 DEF NewDependencyGraph, Graphs
<1> QED
  BY <1>2 DEF NewDependencyGraph, GraphSound, GraphLinked, Homed, Filed, Apart, SeenOnly, Together

LEMMA GraphStep == GraphInv /\ [DgNext]_dg => GraphInv'
<1> SUFFICES ASSUME GraphSound(dg), [DgNext]_dg PROVE GraphSound(dg')
  BY DEF GraphInv, GraphSound, Graphs, GraphLinked, Homed, Filed, Apart, SeenOnly, Together
<1>1. CASE UNCHANGED dg
  BY <1>1
<1>2. ASSUME NEW t \in Tx, RegisterTransaction(t) PROVE GraphSound(dg')
  BY <1>2, RegisterSound DEF RegisterTransaction
<1>3. ASSUME NEW t \in Tx, MarkConflict(t) PROVE GraphSound(dg')
  <2> DEFINE m == GetPartitionMembers(dg, t) \intersect dg.known
  <2>1. dg \in Graphs /\ MaxPartition \in Nat
    BY GraphAssumption DEF GraphSound
  <2>2. dg' = [dg EXCEPT !.marked = @ \union {dg.partition[t]}, !.conflict = @ \union m]
    BY <1>3 DEF MarkConflict, MarkConflictIn
  <2>3. m \in SUBSET Tx /\ dg.partition[t] \in Nat
    BY <2>1 DEF Graphs
  <2> HIDE DEF m
  <2>4. dg' \in Graphs
    BY <2>1, <2>2, <2>3 DEF Graphs
  <2>5. /\ dg'.known = dg.known /\ dg'.parents = dg.parents /\ dg'.children = dg.children
        /\ dg'.partition = dg.partition /\ dg'.members = dg.members /\ dg'.next = dg.next
        /\ dg'.gone = dg.gone /\ dg'.again = dg.again
    BY <2>1, <2>2 DEF Graphs
  <2> QED
    BY <2>4, <2>5 DEF GraphSound, GraphLinked, Homed, Filed, Apart, SeenOnly, Together
<1>4. ASSUME NEW t \in Tx, RemoveFromGraph(t) PROVE GraphSound(dg')
  BY <1>4, WithoutSound DEF RemoveFromGraph
<1>5. ASSUME NEW c \in Tx, NEW p \in Tx, AddDependency(c, p) PROVE GraphSound(dg')
  <2> DEFINE g == RegisterIn(dg, c)
             h == RegisterIn(g, p)
  <2>1. dg \in Graphs /\ MaxPartition \in Nat /\ dg.next \in Nat
    BY GraphAssumption DEF GraphSound, Graphs
  <2>2. dg.next + Cardinality({c, p} \ dg.known) <= MaxPartition + 1
    BY <1>5 DEF AddDependency
  <2>3. /\ c \notin dg.known /\ p \notin dg.known /\ c # p => Cardinality({c, p} \ dg.known) = 2
        /\ c \notin dg.known \/ p \notin dg.known => Cardinality({c, p} \ dg.known) \in {1, 2}
    <3>1. Cardinality({c}) = 1 /\ Cardinality({p}) = 1 /\ (c # p => Cardinality({c, p}) = 2)
      <4>1. IsFiniteSet({c}) /\ Cardinality({c}) = 1 /\ Cardinality({p}) = 1
        BY FS_Singleton
      <4>2. c # p => Cardinality({c} \union {p}) = Cardinality({c}) + 1
        BY <4>1, FS_AddElement
      <4>3. {c} \union {p} = {c, p}
        OBVIOUS
      <4> QED
        BY <4>1, <4>2, <4>3
    <3>2. {c, p} \ dg.known \in {{}, {c}, {p}, {c, p}}
      OBVIOUS
    <3>3. CASE c \in dg.known
      <4>1. p \notin dg.known => {c, p} \ dg.known = {p}
        BY <3>3
      <4> QED
        BY <3>1, <3>3, <4>1
    <3>4. CASE p \in dg.known
      <4>1. c \notin dg.known => {c, p} \ dg.known = {c}
        BY <3>4
      <4> QED
        BY <3>1, <3>4, <4>1
    <3>5. CASE c \notin dg.known /\ p \notin dg.known
      <4>1. {c, p} \ dg.known = {c, p}
        BY <3>5
      <4>2. c = p => {c, p} = {c}
        OBVIOUS
      <4> QED
        BY <3>1, <3>5, <4>1, <4>2
    <3> QED
      BY <3>3, <3>4, <3>5
  <2>4. c \notin dg.known => dg.next <= MaxPartition
    BY <2>1, <2>2, <2>3
  <2>5. /\ GraphSound(g) /\ c \in g.known /\ g.known = dg.known \union {c}
        /\ g.next = IF c \in dg.known THEN dg.next ELSE dg.next + 1
    BY <2>4, RegisterSound
  <2>6. p \notin g.known => g.next <= MaxPartition
    BY <2>1, <2>2, <2>3, <2>5
  <2> HIDE DEF g
  <2>7. GraphSound(h) /\ c \in h.known /\ p \in h.known
    BY <2>5, <2>6, RegisterSound
  <2> HIDE DEF h
  <2>8. dg' = MergePartitions(Linked(h, c, p), c, p)
    BY <1>5 DEF AddDependency, AddDependencyIn, g, h
  <2> QED
    BY <2>7, <2>8, MergeSound
<1>6. CASE Clear
  BY <1>6, NewGraphSound DEF Clear
<1> QED
  BY <1>1, <1>2, <1>3, <1>4, <1>5, <1>6 DEF DgNext

(* A search that starts in a set closed under the links stays in it.       *)
LEMMA DownstreamWithin ==
  ASSUME NEW g, NEW S, NEW t \in S, \A x \in S : g.children[x] \subseteq S
  PROVE  FindAffectedDownstream(g, t) \subseteq S
<1> DEFINE n == Cardinality(Tx)
           q == [i \in 1 .. n |-> i]
           IsDown(f) == f = [i \in 0 .. n |-> IF i = 0 THEN {t}
                                             ELSE LET d == f[i - 1] IN d \union UNION {GetDependents(g, x) : x \in d}]
<1>1. n \in Nat
  BY GraphAssumption, FS_CardinalityType
<1>2. Len(q) = n /\ DOMAIN q = 1 .. n /\ Len(q) \in Nat
  <2> HIDE DEF n
  <2> QED
    BY <1>1
<1> HIDE DEF q, n
<1>3. \E f : IsDown(f)
  <2>1. PICK f : Walking!IsTrace(g.children, f, {t}, q)
    BY <1>2, Leasts, Walking!FoldTrace, Zenon
  <2>2. IsDown(f)
    BY <1>2, <2>1, Zenon DEF Walking!IsTrace, GetDependents
  <2> QED
    BY <2>2, Zenon
<1> DEFINE f == CHOOSE f : IsDown(f)
<1>4. IsDown(f)
  BY <1>3, Zenon
<1>5. FindAffectedDownstream(g, t) = f[n]
  BY Zenon DEF FindAffectedDownstream, n
<1> HIDE DEF f
<1>6. 0 \in 0 .. n /\ n \in 0 .. n /\ \A i \in 1 .. n : i \in 0 .. n /\ i # 0
  BY <1>1
<1>7. f[0] = {t} /\ \A i \in 1 .. n : f[i] = f[i - 1] \union UNION {g.children[x] : x \in f[i - 1]}
  BY <1>4, <1>6, Zenon DEF GetDependents
<1> DEFINE G == {i \in Nat : f[i] \subseteq S}
<1>8. 0 \in G
  BY <1>7
<1>9. ASSUME NEW i \in 0 .. n - 1, i \in G PROVE i + 1 \in G
  <2>1. i + 1 \in 1 .. n /\ (i + 1) - 1 = i
    BY <1>1
  <2>2. f[i + 1] = f[i] \union UNION {g.children[x] : x \in f[i]}
    BY <1>7, <2>1
  <2>3. f[i] \subseteq S
    BY <1>9
  <2> QED
    BY <2>1, <2>2, <2>3
<1>10. n \in G
  <2> HIDE DEF G
  <2> QED
    BY <1>1, <1>6, <1>8, <1>9, UpTo
<1> QED
  BY <1>5, <1>10

LEMMA GraphInvConsistent == GraphInv => GraphConsistent
<1> SUFFICES ASSUME GraphSound(dg) PROVE GraphConsistent
  BY DEF GraphInv
<1>1. dg \in Graphs /\ GraphLinked(dg) /\ Homed(dg) /\ MaxPartition \in Nat
  BY GraphAssumption DEF GraphSound
<1>2. LinksMirrored
  BY <1>1 DEF GraphLinked, LinksMirrored
<1>3. ASSUME ~dg.again, NEW t \in dg.known
      PROVE  FindAffectedDownstream(dg, t) \subseteq GetPartitionMembers(dg, t)
  <2> DEFINE S == {x \in dg.known : dg.partition[x] = dg.partition[t]}
  <2>1. Filed(dg) /\ Together(dg)
    BY <1>3 DEF GraphSound
  <2>2. t \in S /\ \A x \in S : dg.children[x] \subseteq S
    BY <1>1, <2>1 DEF GraphLinked, Together, Graphs
  <2>3. S \subseteq GetPartitionMembers(dg, t)
    BY <1>1, <2>1 DEF Filed, Homed, GetPartitionMembers
  <2> HIDE DEF S
  <2>4. FindAffectedDownstream(dg, t) \subseteq S
    BY <2>2, DownstreamWithin
  <2> QED
    BY <2>3, <2>4
<1> QED
  BY <1>2, <1>3 DEF GraphConsistent, ConflictReaches

(* The graph mark_conflict works on: links run both ways between ids it    *)
(* knows and, as long as no removed id is registered again, the partition  *)
(* of an id holds whatever a search over the links reaches from it.        *)
THEOREM GraphAlwaysConsistent == GraphSpec => []GraphConsistent
<1>1. DgInit => GraphInv
  BY NewGraphSound DEF DgInit, GraphInv
<1>2. GraphInv /\ [DgNext]_dg => GraphInv'
  BY GraphStep
<1>3. GraphInv => GraphConsistent
  BY GraphInvConsistent
<1> QED
  BY <1>1, <1>2, <1>3, PTL DEF GraphSpec

-----------------------------------------------------------------------------
(* The memory tiers *)
TierSpec == RzInit /\ [][RzNext]_rz

TierOps == {"idle", "insert", "spill", "count", "discount", "thaw", "select", "freed", "freeze", "mark"}
TierCalls == [op : TierOps, tx : SUBSET Item, left : SUBSET (Item \X Nat)]
HoldsOne(c) == c.op \notin {"idle", "select"} => OneOf(c.tx) \in Item /\ c.tx = {OneOf(c.tx)}

TierTyped(z) ==
  /\ z = [hot |-> z.hot, bytes |-> z.bytes, cold |-> z.cold, now |-> z.now, calls |-> z.calls, failures |-> z.failures,
          call |-> z.call, wanted |-> z.wanted, lost |-> z.lost, twice |-> z.twice, back |-> z.back]
  /\ DOMAIN z.hot \in SUBSET Item /\ IsFiniteSet(DOMAIN z.hot) /\ z.hot \in [DOMAIN z.hot -> Nat]
  /\ z.bytes \in Int /\ z.twice \in Nat /\ z.now \in Nat
  /\ z.call \in [Worker -> TierCalls] /\ \A p \in Worker : HoldsOne(z.call[p])

(* What a call has put in and not counted, or taken out and not counted.   *)
Uncounted(c) == IF c.op = "count" THEN Size[OneOf(c.tx)] ELSE 0
Undiscounted(c) == IF c.op \in {"discount", "freed"} THEN Size[OneOf(c.tx)] ELSE 0
UncountedBy(z) == [p \in Worker |-> Uncounted(z.call[p])]
UndiscountedBy(z) == [p \in Worker |-> Undiscounted(z.call[p])]
AtOps(z, ops) == {OneOf(z.call[p].tx) : p \in {q \in Worker : z.call[q].op \in ops}}

Balanced(z) == z.bytes = ((Sum(Size, DOMAIN z.hot) + z.twice) - Sum(UncountedBy(z), Worker)) + Sum(UndiscountedBy(z), Worker)
WantedSomewhere(z) == z.wanted \ z.lost \subseteq (DOMAIN z.hot \union z.cold) \union AtOps(z, {"freed", "freeze"})
HotWanted(z) == DOMAIN z.hot \subseteq z.wanted
ColdWanted(z) == z.cold \ z.wanted \subseteq z.back \union AtOps(z, {"discount", "thaw"})

TierSound(z) == TierTyped(z) /\ Balanced(z) /\ WantedSomewhere(z) /\ HotWanted(z) /\ ColdWanted(z)
TierInv == TierSound(rz)

LEMMA OneOfOne == \A t : OneOf({t}) = t
  BY OneOfIn

LEMMA CallAmounts ==
  ASSUME NEW c \in TierCalls, HoldsOne(c)
  PROVE  Uncounted(c) \in Nat /\ Undiscounted(c) \in Nat
<1>1. c.op \notin {"idle", "select"} => OneOf(c.tx) \in Item
  BY DEF HoldsOne
<1>2. \A t \in Item : Size[t] \in Nat
  BY TiersAssumption
<1> QED
  BY <1>1, <1>2 DEF Uncounted, Undiscounted

SameBut(w, v, p) == \A q \in Worker \ {p} : v[q] = w[q]
Goes(z, y, p, c) == y.call = [z.call EXCEPT ![p] = c]

(* A step of one thread changes the sums by the thread's own part.         *)
LEMMA SumMoves ==
  ASSUME NEW w \in [Worker -> Nat], NEW v \in [Worker -> Nat], NEW p \in Worker, SameBut(w, v, p)
  PROVE  Sum(w, Worker) \in Nat /\ Sum(v, Worker) = (Sum(w, Worker) - w[p]) + v[p]
<1>1. IsFiniteSet(Worker) /\ IsFiniteSet(Worker \ {p})
  BY TiersAssumption, FS_Subset
<1>2. Sum(w, Worker) \in Nat /\ Sum(w, Worker \ {p}) \in Nat /\ Sum(w, Worker) = Sum(w, Worker \ {p}) + w[p]
  BY <1>1, SumRemove
<1>3. Sum(v, Worker) = Sum(v, Worker \ {p}) + v[p] /\ v[p] \in Nat
  BY <1>1, SumRemove
<1>4. Sum(v, Worker \ {p}) = Sum(w, Worker \ {p})
  <2> DEFINE D == Worker \ {p}
  <2>1. \A x \in D : w[x] \in Nat /\ v[x] = w[x]
    BY DEF SameBut
  <2> HIDE DEF D
  <2>2. Sum(v, D) = Sum(w, D)
    BY <1>1, <2>1, SumSame DEF D
  <2> QED
    BY <2>2 DEF D
<1> QED
  BY <1>2, <1>3, <1>4

CallMoved(z, y, p, c) ==
  /\ y.call \in [Worker -> TierCalls] /\ y.call[p] = c /\ \A q \in Worker : HoldsOne(y.call[q])
  /\ Sum(UncountedBy(z), Worker) \in Nat /\ Sum(UndiscountedBy(z), Worker) \in Nat
  /\ Sum(UncountedBy(y), Worker) = (Sum(UncountedBy(z), Worker) - Uncounted(z.call[p])) + Uncounted(c)
  /\ Sum(UndiscountedBy(y), Worker) = (Sum(UndiscountedBy(z), Worker) - Undiscounted(z.call[p])) + Undiscounted(c)
  /\ \A ops : \A x \in AtOps(z, ops) : x \in AtOps(y, ops) \/ (z.call[p].op \in ops /\ x = OneOf(z.call[p].tx))
  /\ \A ops : c.op \in ops => OneOf(c.tx) \in AtOps(y, ops)

LEMMA CallMoves ==
  ASSUME NEW z, TierTyped(z), NEW y, NEW p \in Worker, NEW c \in TierCalls, HoldsOne(c), Goes(z, y, p, c)
  PROVE  CallMoved(z, y, p, c)
<1>1. z.call \in [Worker -> TierCalls] /\ \A q \in Worker : HoldsOne(z.call[q])
  BY DEF TierTyped
<1>2. y.call[p] = c /\ \A q \in Worker \ {p} : y.call[q] = z.call[q]
  BY <1>1 DEF Goes
<1>3. y.call \in [Worker -> TierCalls] /\ \A q \in Worker : HoldsOne(y.call[q])
  BY <1>1, <1>2 DEF Goes
<1>4. \A q \in Worker : /\ Uncounted(z.call[q]) \in Nat /\ Uncounted(y.call[q]) \in Nat
                        /\ Undiscounted(z.call[q]) \in Nat /\ Undiscounted(y.call[q]) \in Nat
  BY <1>1, <1>3, CallAmounts
<1>5. /\ Sum(UncountedBy(z), Worker) \in Nat
      /\ Sum(UncountedBy(y), Worker) = (Sum(UncountedBy(z), Worker) - Uncounted(z.call[p])) + Uncounted(c)
  <2> DEFINE w == UncountedBy(z)
             v == UncountedBy(y)
  <2>1. /\ w \in [Worker -> Nat] /\ v \in [Worker -> Nat] /\ SameBut(w, v, p)
        /\ w[p] = Uncounted(z.call[p]) /\ v[p] = Uncounted(c)
    BY <1>2, <1>4 DEF UncountedBy, SameBut
  <2> HIDE DEF w, v
  <2>2. Sum(w, Worker) \in Nat /\ Sum(v, Worker) = (Sum(w, Worker) - w[p]) + v[p]
    BY <2>1, SumMoves
  <2> QED
    BY <2>1, <2>2 DEF w, v
<1>6. /\ Sum(UndiscountedBy(z), Worker) \in Nat
      /\ Sum(UndiscountedBy(y), Worker) = (Sum(UndiscountedBy(z), Worker) - Undiscounted(z.call[p])) + Undiscounted(c)
  <2> DEFINE w == UndiscountedBy(z)
             v == UndiscountedBy(y)
  <2>1. /\ w \in [Worker -> Nat] /\ v \in [Worker -> Nat] /\ SameBut(w, v, p)
        /\ w[p] = Undiscounted(z.call[p]) /\ v[p] = Undiscounted(c)
    BY <1>2, <1>4 DEF UndiscountedBy, SameBut
  <2> HIDE DEF w, v
  <2>2. Sum(w, Worker) \in Nat /\ Sum(v, Worker) = (Sum(w, Worker) - w[p]) + v[p]
    BY <2>1, SumMoves
  <2> QED
    BY <2>1, <2>2 DEF w, v
<1>7. ASSUME NEW ops, NEW x \in AtOps(z, ops)
      PROVE  x \in AtOps(y, ops) \/ (z.call[p].op \in ops /\ x = OneOf(z.call[p].tx))
  <2>1. PICK q \in Worker : z.call[q].op \in ops /\ x = OneOf(z.call[q].tx)
    BY <1>7 DEF AtOps
  <2>2. CASE q = p
    BY <2>1, <2>2
  <2>3. CASE q # p
    BY <1>2, <2>1, <2>3 DEF AtOps
  <2> QED
    BY <2>2, <2>3
<1>8. ASSUME NEW ops, c.op \in ops PROVE OneOf(c.tx) \in AtOps(y, ops)
  BY <1>2, <1>8 DEF AtOps
<1> QED
  BY <1>2, <1>3, <1>5, <1>6, <1>7, <1>8, Zenon DEF CallMoved

(* A step of one thread keeps the invariant if its own parts add up.       *)
TierMove(z, y, p, c) ==
  /\ c \in TierCalls /\ HoldsOne(c) /\ Goes(z, y, p, c)
  /\ y = [hot |-> y.hot, bytes |-> y.bytes, cold |-> y.cold, now |-> y.now, calls |-> y.calls, failures |-> y.failures,
          call |-> y.call, wanted |-> y.wanted, lost |-> y.lost, twice |-> y.twice, back |-> y.back]
  /\ DOMAIN y.hot \in SUBSET Item /\ IsFiniteSet(DOMAIN y.hot) /\ y.hot \in [DOMAIN y.hot -> Nat]
  /\ y.bytes \in Int /\ y.twice \in Nat /\ y.now \in Nat
BytesMove(z, y, p, c) ==
  y.bytes = (((z.bytes + (Sum(Size, DOMAIN y.hot) - Sum(Size, DOMAIN z.hot))) + (y.twice - z.twice))
             - (Uncounted(c) - Uncounted(z.call[p]))) + (Undiscounted(c) - Undiscounted(z.call[p]))
KeepsMove(z, y, p, c) ==
  /\ \A x \in y.wanted \ y.lost :
       \/ x \in DOMAIN y.hot \/ x \in y.cold \/ (c.op \in {"freed", "freeze"} /\ x = OneOf(c.tx))
       \/ /\ x \in z.wanted \ z.lost /\ x \notin DOMAIN z.hot /\ x \notin z.cold
          /\ ~(z.call[p].op \in {"freed", "freeze"} /\ x = OneOf(z.call[p].tx))
  /\ DOMAIN y.hot \subseteq y.wanted
  /\ \A x \in y.cold \ y.wanted :
       \/ x \in y.back \/ (c.op \in {"discount", "thaw"} /\ x = OneOf(c.tx))
       \/ /\ x \in z.cold \ z.wanted /\ x \notin z.back
          /\ ~(z.call[p].op \in {"discount", "thaw"} /\ x = OneOf(z.call[p].tx))

LEMMA TierStep ==
  ASSUME NEW z, TierSound(z), NEW y, NEW p \in Worker, NEW c,
         TierMove(z, y, p, c), BytesMove(z, y, p, c), KeepsMove(z, y, p, c)
  PROVE  TierSound(y)
<1>1. TierTyped(z) /\ Balanced(z) /\ WantedSomewhere(z) /\ HotWanted(z) /\ ColdWanted(z)
  BY DEF TierSound
<1>2. CallMoved(z, y, p, c)
  BY <1>1, CallMoves DEF TierMove
<1>3. TierTyped(y)
  BY <1>2 DEF TierTyped, TierMove, CallMoved
<1>4. Balanced(y)
  <2>1. z.call[p] \in TierCalls /\ HoldsOne(z.call[p]) /\ z.bytes \in Int /\ z.twice \in Nat
    BY <1>1 DEF TierTyped
  <2>2. /\ Uncounted(z.call[p]) \in Nat /\ Undiscounted(z.call[p]) \in Nat /\ Uncounted(c) \in Nat /\ Undiscounted(c) \in Nat
    BY <2>1, CallAmounts DEF TierMove
  <2>3. /\ Sum(Size, DOMAIN z.hot) \in Nat /\ Sum(Size, DOMAIN y.hot) \in Nat
    BY <1>1, TiersAssumption, SumRemove DEF TierTyped, TierMove
  <2> QED
    BY <1>1, <1>2, <2>1, <2>2, <2>3 DEF Balanced, CallMoved, BytesMove, TierMove
<1>5. WantedSomewhere(y)
  BY <1>1, <1>2 DEF WantedSomewhere, CallMoved, KeepsMove
<1>6. ColdWanted(y)
  BY <1>1, <1>2 DEF ColdWanted, CallMoved, KeepsMove
<1> QED
  BY <1>3, <1>4, <1>5, <1>6 DEF TierSound, HotWanted, KeepsMove

LEMMA TheTxIs ==
  ASSUME TierTyped(rz), NEW p \in Worker, rz.call[p].op \notin {"idle", "select"}
  PROVE  TheTx(p) \in Item /\ rz.call[p].tx = {TheTx(p)} /\ OneOf(rz.call[p].tx) = TheTx(p) /\ Size[TheTx(p)] \in Nat
<1>1. TheTx(p) = OneOf(rz.call[p].tx)
  BY Zenon DEF TheTx, OneOf
<1>2. OneOf(rz.call[p].tx) \in Item /\ rz.call[p].tx = {OneOf(rz.call[p].tx)}
  BY DEF TierTyped, HoldsOne
<1> QED
  BY <1>1, <1>2, TiersAssumption

LEMMA HotPut ==
  ASSUME NEW D \in SUBSET Item, IsFiniteSet(D), NEW t \in Item
  PROVE  /\ IsFiniteSet(D \union {t}) /\ Sum(Size, D) \in Nat
         /\ Sum(Size, D \union {t}) = IF t \in D THEN Sum(Size, D) ELSE Sum(Size, D) + Size[t]
<1>1. \A x \in Item : Size[x] \in Nat
  BY TiersAssumption
<1>2. IsFiniteSet(D \union {t}) /\ Sum(Size, D) \in Nat
  BY <1>1, FS_AddElement, SumRemove
<1>3. CASE t \in D
  <2>1. D \union {t} = D
    BY <1>3
  <2> QED
    BY <1>2, <1>3, <2>1
<1>4. CASE t \notin D
  <2>1. Sum(Size, D \union {t}) = Sum(Size, D) + Size[t]
    BY <1>1, <1>4, SumAdd
  <2> QED
    BY <1>2, <1>4, <2>1
<1> QED
  BY <1>3, <1>4

LEMMA HotDrop ==
  ASSUME NEW D \in SUBSET Item, IsFiniteSet(D), NEW t \in Item
  PROVE  /\ IsFiniteSet(D \ {t}) /\ Sum(Size, D) \in Nat /\ Sum(Size, D \ {t}) \in Nat
         /\ Sum(Size, D \ {t}) = IF t \in D THEN Sum(Size, D) - Size[t] ELSE Sum(Size, D)
<1>1. \A x \in Item : Size[x] \in Nat
  BY TiersAssumption
<1>2. IsFiniteSet(D \ {t}) /\ Sum(Size, D) \in Nat /\ Sum(Size, D \ {t}) \in Nat
  BY <1>1, FS_Subset, SumRemove
<1>3. CASE t \in D
  <2>1. Sum(Size, D) = Sum(Size, D \ {t}) + Size[t]
    BY <1>1, <1>3, SumRemove
  <2> QED
    BY <1>1, <1>2, <1>3, <2>1
<1>4. CASE t \notin D
  <2>1. D \ {t} = D
    BY <1>4
  <2> QED
    BY <1>2, <1>4, <2>1
<1> QED
  BY <1>3, <1>4

(* The hot tier without one of its entries.                                *)
LEMMA HotWithout ==
  ASSUME NEW f, NEW t, f \in [DOMAIN f -> Nat]
  PROVE  LET g == Restrict(f, DOMAIN f \ {t}) IN DOMAIN g = DOMAIN f \ {t} /\ g \in [DOMAIN g -> Nat]
  BY DEF Restrict

LEMMA HotWith ==
  ASSUME NEW f, NEW t, NEW n \in Nat, f \in [DOMAIN f -> Nat]
  PROVE  LET g == Arrived(f, t, n) IN DOMAIN g = DOMAIN f \union {t} /\ g \in [DOMAIN g -> Nat]
  BY DEF Arrived

LEMMA CallTypes ==
  ASSUME NEW t \in Item, NEW op \in TierOps, NEW left \in SUBSET (Item \X Nat)
  PROVE  LET c == [op |-> op, tx |-> {t}, left |-> left]
         IN c \in TierCalls /\ HoldsOne(c) /\ c.op = op /\ c.tx = {t} /\ OneOf(c.tx) = t
<1> DEFINE c == [op |-> op, tx |-> {t}, left |-> left]
<1>1. c \in TierCalls /\ c.op = op /\ c.tx = {t}
  BY DEF TierCalls
<1>2. OneOf(c.tx) = t
  BY <1>1, OneOfOne, Zenon
<1> QED
  BY <1>1, <1>2 DEF HoldsOne

LEMMA IdleTypes == Idle \in TierCalls /\ HoldsOne(Idle) /\ Idle.op = "idle" /\ Uncounted(Idle) = 0 /\ Undiscounted(Idle) = 0
  BY DEF Idle, TierOps, TierCalls, HoldsOne, Uncounted, Undiscounted

(* The steps that touch one tier.                                          *)
LEMMA TierBegins ==
  ASSUME TierSound(rz), NEW p \in Worker, NEW t \in Item, CheckLimits(p, t) \/ RemoveHot(p, t)
  PROVE  TierSound(rz')
<1>1. TierTyped(rz) /\ HotWanted(rz) /\ Doing(p, "idle")
  BY DEF TierSound, CheckLimits, RemoveHot, Begin
<1>2. rz.call[p].op = "idle" /\ Uncounted(rz.call[p]) = 0 /\ Undiscounted(rz.call[p]) = 0 /\ Size[t] \in Nat
  BY <1>1, TiersAssumption DEF Doing, Uncounted, Undiscounted
<1>3. CASE CheckLimits(p, t)
  <2> DEFINE c == [op |-> IF Fits(t) THEN "insert" ELSE "spill", tx |-> {t}, left |-> {}]
  <2>1. rz' = [rz EXCEPT !.calls = rz.calls + 1, !.call = [rz.call EXCEPT ![p] = c]]
    BY <1>1, <1>3 DEF CheckLimits, TierTyped
  <2>2. c \in TierCalls /\ HoldsOne(c) /\ c.op \in {"insert", "spill"}
    <3> DEFINE op == IF Fits(t) THEN "insert" ELSE "spill"
    <3>1. op \in {"insert", "spill"} /\ op \in TierOps
      BY DEF TierOps
    <3> HIDE DEF op
    <3>2. LET d == [op |-> op, tx |-> {t}, left |-> {}] IN d \in TierCalls /\ HoldsOne(d) /\ d.op = op
      BY <3>1, CallTypes
    <3> QED
      BY <3>1, <3>2, Zenon DEF op
  <2>3. Uncounted(c) = 0 /\ Undiscounted(c) = 0
    BY <2>2 DEF Uncounted, Undiscounted
  <2> HIDE DEF c
  <2>4. TierMove(rz, rz', p, c)
    BY <1>1, <2>1, <2>2 DEF TierTyped, TierMove, Goes
  <2>5. BytesMove(rz, rz', p, c)
    <3>1. Sum(Size, DOMAIN rz.hot) \in Nat
      BY <1>1, HotPut DEF TierTyped
    <3> QED
      BY <1>1, <1>2, <2>1, <2>3, <3>1 DEF TierTyped, BytesMove
  <2>6. KeepsMove(rz, rz', p, c)
    BY <1>1, <1>2, <2>1, <2>2 DEF TierTyped, KeepsMove, HotWanted
  <2> QED
    BY <2>4, <2>5, <2>6, TierStep
<1>4. CASE RemoveHot(p, t)
  <2> DEFINE c == [op |-> IF t \in DOMAIN rz.hot THEN "discount" ELSE "thaw", tx |-> {t}, left |-> {}]
             hot == Restrict(rz.hot, DOMAIN rz.hot \ {t})
  <2>1. rz' = [rz EXCEPT !.calls = rz.calls + 1, !.hot = hot, !.wanted = rz.wanted \ {t}, !.call = [rz.call EXCEPT ![p] = c]]
    BY <1>1, <1>4 DEF RemoveHot, TierTyped
  <2>2. c \in TierCalls /\ HoldsOne(c) /\ c.op \in {"discount", "thaw"} /\ OneOf(c.tx) = t
        /\ (c.op = "discount" <=> t \in DOMAIN rz.hot)
    <3> DEFINE op == IF t \in DOMAIN rz.hot THEN "discount" ELSE "thaw"
    <3>1. op \in {"discount", "thaw"} /\ op \in TierOps /\ (op = "discount" <=> t \in DOMAIN rz.hot)
      BY DEF TierOps
    <3> HIDE DEF op
    <3>2. LET d == [op |-> op, tx |-> {t}, left |-> {}] IN d \in TierCalls /\ HoldsOne(d) /\ d.op = op /\ OneOf(d.tx) = t
      BY <3>1, CallTypes
    <3> QED
      BY <3>1, <3>2, Zenon DEF op
  <2>3. Uncounted(c) = 0 /\ Undiscounted(c) = IF t \in DOMAIN rz.hot THEN Size[t] ELSE 0
    BY <2>2 DEF Uncounted, Undiscounted
  <2>4. DOMAIN hot = DOMAIN rz.hot \ {t} /\ hot \in [DOMAIN hot -> Nat]
    BY <1>1, HotWithout, Zenon DEF TierTyped
  <2> HIDE DEF c, hot
  <2>5. /\ IsFiniteSet(DOMAIN hot) /\ Sum(Size, DOMAIN rz.hot) \in Nat /\ Sum(Size, DOMAIN hot) \in Nat
        /\ Sum(Size, DOMAIN hot) = IF t \in DOMAIN rz.hot THEN Sum(Size, DOMAIN rz.hot) - Size[t] ELSE Sum(Size, DOMAIN rz.hot)
    BY <1>1, <2>4, HotDrop DEF TierTyped
  <2>6. TierMove(rz, rz', p, c)
    BY <1>1, <2>1, <2>2, <2>4, <2>5 DEF TierTyped, TierMove, Goes
  <2>7. BytesMove(rz, rz', p, c)
    BY <1>1, <1>2, <2>1, <2>3, <2>5 DEF TierTyped, BytesMove
  <2>8. KeepsMove(rz, rz', p, c)
    BY <1>1, <1>2, <2>1, <2>2, <2>4 DEF TierTyped, KeepsMove, HotWanted
  <2> QED
    BY <2>6, <2>7, <2>8, TierStep
<1> QED
  BY <1>3, <1>4

LEMMA TierInserts ==
  ASSUME TierSound(rz), NEW p \in Worker, Insert(p) \/ Count(p) \/ Spill(p)
  PROVE  TierSound(rz')
<1> DEFINE t == TheTx(p)
<1>1. TierTyped(rz) /\ HotWanted(rz)
  BY DEF TierSound
<1>2. rz.call[p] \in TierCalls /\ rz.call[p].op \in {"insert", "count", "spill"}
  BY <1>1 DEF TierTyped, Insert, Count, Spill, Doing
<1>3. t \in Item /\ rz.call[p].tx = {t} /\ OneOf(rz.call[p].tx) = t /\ Size[t] \in Nat
  BY <1>1, <1>2, TheTxIs
<1>4. Sum(Size, DOMAIN rz.hot) \in Nat
  BY <1>1, <1>3, HotPut DEF TierTyped
<1> HIDE DEF t
<1>5. CASE Insert(p)
  <2> DEFINE c == [rz.call[p] EXCEPT !.op = "count"]
             hot == Arrived(rz.hot, t, rz.now)
             twice == IF t \in DOMAIN rz.hot THEN rz.twice + Size[t] ELSE rz.twice
  <2>1. /\ rz.call[p].op = "insert"
        /\ rz' = [rz EXCEPT !.hot = hot, !.call = [rz.call EXCEPT ![p] = c], !.wanted = rz.wanted \union {t},
                            !.lost = rz.lost \ {t}, !.twice = twice]
    BY <1>1, <1>5 DEF Insert, Doing, TierTyped, t
  <2>2. c \in TierCalls /\ HoldsOne(c) /\ c.op = "count" /\ OneOf(c.tx) = t
    BY <1>2, <1>3 DEF TierCalls, TierOps, HoldsOne
  <2>3. /\ Uncounted(c) = Size[t] /\ Undiscounted(c) = 0
        /\ Uncounted(rz.call[p]) = 0 /\ Undiscounted(rz.call[p]) = 0
    BY <2>1, <2>2 DEF Uncounted, Undiscounted
  <2>4. DOMAIN hot = DOMAIN rz.hot \union {t} /\ hot \in [DOMAIN hot -> Nat]
    BY <1>1, HotWith, Zenon DEF TierTyped
  <2>5. /\ IsFiniteSet(DOMAIN hot)
        /\ Sum(Size, DOMAIN hot) = IF t \in DOMAIN rz.hot THEN Sum(Size, DOMAIN rz.hot) ELSE Sum(Size, DOMAIN rz.hot) + Size[t]
    BY <1>1, <1>3, <2>4, HotPut DEF TierTyped
  <2>6. twice \in Nat /\ twice = IF t \in DOMAIN rz.hot THEN rz.twice + Size[t] ELSE rz.twice
    BY <1>1, <1>3 DEF TierTyped
  <2> HIDE DEF c, hot, twice
  <2>7. TierMove(rz, rz', p, c)
    BY <1>1, <1>3, <2>1, <2>2, <2>4, <2>5, <2>6 DEF TierTyped, TierMove, Goes
  <2>8. BytesMove(rz, rz', p, c)
    BY <1>1, <1>3, <1>4, <2>1, <2>3, <2>5, <2>6 DEF TierTyped, BytesMove
  <2>9. KeepsMove(rz, rz', p, c)
    BY <1>1, <2>1, <2>2, <2>4 DEF TierTyped, KeepsMove, HotWanted
  <2> QED
    BY <2>7, <2>8, <2>9, TierStep
<1>6. CASE Count(p)
  <2>1. /\ rz.call[p].op = "count"
        /\ rz' = [rz EXCEPT !.bytes = rz.bytes + Size[t], !.call = [rz.call EXCEPT ![p] = Idle]]
    BY <1>1, <1>6 DEF Count, CountBytes, Doing, TierTyped, t
  <2>2. Uncounted(rz.call[p]) = Size[t] /\ Undiscounted(rz.call[p]) = 0
    BY <1>3, <2>1 DEF Uncounted, Undiscounted
  <2>3. TierMove(rz, rz', p, Idle)
    <3> DEFINE bytes == rz.bytes + Size[t]
    <3>1. bytes \in Int
      BY <1>1, <1>3 DEF TierTyped
    <3>2. rz' = [rz EXCEPT !.bytes = bytes, !.call = [rz.call EXCEPT ![p] = Idle]]
      BY <2>1
    <3> HIDE DEF bytes
    <3> QED
      BY <1>1, <3>1, <3>2, IdleTypes DEF TierTyped, TierMove, Goes
  <2>4. BytesMove(rz, rz', p, Idle)
    BY <1>1, <1>3, <1>4, <2>1, <2>2, IdleTypes DEF TierTyped, BytesMove
  <2>5. KeepsMove(rz, rz', p, Idle)
    BY <1>1, <2>1, IdleTypes DEF TierTyped, KeepsMove, HotWanted
  <2> QED
    BY <2>3, <2>4, <2>5, TierStep
<1>7. CASE Spill(p)
  <2>1. /\ rz.call[p].op = "spill"
        /\ \/ rz' = [rz EXCEPT !.cold = rz.cold \union {t}, !.wanted = rz.wanted \union {t}, !.lost = rz.lost \ {t},
                               !.call = [rz.call EXCEPT ![p] = Idle]]
           \/ rz' = [rz EXCEPT !.failures = rz.failures + 1, !.call = [rz.call EXCEPT ![p] = Idle]]
    BY <1>1, <1>7 DEF Spill, Doing, TierTyped, t
  <2>2. Uncounted(rz.call[p]) = 0 /\ Undiscounted(rz.call[p]) = 0
    BY <2>1 DEF Uncounted, Undiscounted
  <2>3. CASE rz' = [rz EXCEPT !.cold = rz.cold \union {t}, !.wanted = rz.wanted \union {t}, !.lost = rz.lost \ {t},
                          !.call = [rz.call EXCEPT ![p] = Idle]]
    <3>1. TierMove(rz, rz', p, Idle)
      BY <1>1, <2>3, IdleTypes DEF TierTyped, TierMove, Goes
    <3>2. BytesMove(rz, rz', p, Idle)
      BY <1>1, <1>4, <2>2, <2>3, IdleTypes DEF TierTyped, BytesMove
    <3>3. KeepsMove(rz, rz', p, Idle)
      BY <1>1, <1>3, <2>1, <2>3, IdleTypes DEF TierTyped, KeepsMove, HotWanted
    <3> QED
      BY <3>1, <3>2, <3>3, TierStep
  <2>4. CASE rz' = [rz EXCEPT !.failures = rz.failures + 1, !.call = [rz.call EXCEPT ![p] = Idle]]
    <3>1. TierMove(rz, rz', p, Idle)
      BY <1>1, <2>4, IdleTypes DEF TierTyped, TierMove, Goes
    <3>2. BytesMove(rz, rz', p, Idle)
      BY <1>1, <1>4, <2>2, <2>4, IdleTypes DEF TierTyped, BytesMove
    <3>3. KeepsMove(rz, rz', p, Idle)
      BY <1>1, <1>3, <2>1, <2>4, IdleTypes DEF TierTyped, KeepsMove, HotWanted
    <3> QED
      BY <3>1, <3>2, <3>3, TierStep
  <2> QED
    BY <2>1, <2>3, <2>4
<1> QED
  BY <1>5, <1>6, <1>7

LEMMA TierRemoves ==
  ASSUME TierSound(rz), NEW p \in Worker, Discount(p) \/ RemoveCold(p) \/ Freed(p) \/ Freeze(p)
  PROVE  TierSound(rz')
<1> DEFINE t == TheTx(p)
<1>1. TierTyped(rz) /\ HotWanted(rz)
  BY DEF TierSound
<1>2. rz.call[p] \in TierCalls /\ rz.call[p].op \in {"discount", "thaw", "freed", "freeze"}
  BY <1>1 DEF TierTyped, Discount, RemoveCold, Freed, Freeze, Doing
<1>3. t \in Item /\ rz.call[p].tx = {t} /\ OneOf(rz.call[p].tx) = t /\ Size[t] \in Nat
  BY <1>1, <1>2, TheTxIs
<1>4. Sum(Size, DOMAIN rz.hot) \in Nat
  BY <1>1, <1>3, HotPut DEF TierTyped
<1> HIDE DEF t
<1>5. ASSUME NEW op \in {"thaw", "freeze"}, rz.call[p].op = IF op = "thaw" THEN "discount" ELSE "freed",
             rz' = [rz EXCEPT !.bytes = rz.bytes - Size[t], !.call = [rz.call EXCEPT ![p] = [rz.call[p] EXCEPT !.op = op]]]
      PROVE  TierSound(rz')
  <2> DEFINE c == [rz.call[p] EXCEPT !.op = op]
  <2>1. c \in TierCalls /\ HoldsOne(c) /\ c.op = op /\ OneOf(c.tx) = t
    BY <1>2, <1>3 DEF TierCalls, TierOps, HoldsOne
  <2>2. rz' = [rz EXCEPT !.bytes = rz.bytes - Size[t], !.call = [rz.call EXCEPT ![p] = c]]
    BY <1>5
  <2>3. /\ Uncounted(c) = 0 /\ Undiscounted(c) = 0
        /\ Uncounted(rz.call[p]) = 0 /\ Undiscounted(rz.call[p]) = Size[t]
    BY <1>3, <1>5, <2>1 DEF Uncounted, Undiscounted
  <2> HIDE DEF c
  <2>4. TierMove(rz, rz', p, c)
    <3> DEFINE bytes == rz.bytes - Size[t]
    <3>1. bytes \in Int
      BY <1>1, <1>3 DEF TierTyped
    <3>2. rz' = [rz EXCEPT !.bytes = bytes, !.call = [rz.call EXCEPT ![p] = c]]
      BY <2>2
    <3> HIDE DEF bytes
    <3> QED
      BY <1>1, <2>1, <3>1, <3>2 DEF TierTyped, TierMove, Goes
  <2>5. BytesMove(rz, rz', p, c)
    BY <1>1, <1>3, <1>4, <2>2, <2>3 DEF TierTyped, BytesMove
  <2>6. KeepsMove(rz, rz', p, c)
    BY <1>1, <1>3, <1>5, <2>1, <2>2 DEF TierTyped, KeepsMove, HotWanted
  <2> QED
    BY <2>4, <2>5, <2>6, TierStep
<1>6. CASE Discount(p)
  BY <1>1, <1>5, <1>6 DEF Discount, Doing, TierTyped, t
<1>7. CASE Freed(p)
  BY <1>1, <1>5, <1>7 DEF Freed, Doing, TierTyped, t
<1>8. CASE RemoveCold(p)
  <2> DEFINE wanted == IF t \in DOMAIN rz.hot THEN rz.wanted ELSE rz.wanted \ {t}
  <2>1. /\ rz.call[p].op = "thaw"
        /\ \/ rz' = [rz EXCEPT !.cold = rz.cold \ {t}, !.back = rz.back \ {t}, !.call = [rz.call EXCEPT ![p] = Idle],
                               !.wanted = wanted]
           \/ rz' = [rz EXCEPT !.failures = rz.failures + 1, !.back = rz.back \union (rz.cold \intersect {t}),
                               !.call = [rz.call EXCEPT ![p] = Idle]]
    BY <1>1, <1>8 DEF RemoveCold, Doing, TierTyped, t
  <2>2. Uncounted(rz.call[p]) = 0 /\ Undiscounted(rz.call[p]) = 0
    BY <2>1 DEF Uncounted, Undiscounted
  <2>3. \A x : x \in wanted <=> x \in rz.wanted /\ (x # t \/ t \in DOMAIN rz.hot)
    OBVIOUS
  <2> HIDE DEF wanted
  <2>4. CASE rz' = [rz EXCEPT !.cold = rz.cold \ {t}, !.back = rz.back \ {t}, !.call = [rz.call EXCEPT ![p] = Idle],
                          !.wanted = wanted]
    <3>1. TierMove(rz, rz', p, Idle)
      BY <1>1, <2>4, IdleTypes DEF TierTyped, TierMove, Goes
    <3>2. BytesMove(rz, rz', p, Idle)
      BY <1>1, <1>4, <2>2, <2>4, IdleTypes DEF TierTyped, BytesMove
    <3>3. KeepsMove(rz, rz', p, Idle)
      BY <1>1, <1>3, <2>1, <2>3, <2>4, IdleTypes DEF TierTyped, KeepsMove, HotWanted
    <3> QED
      BY <3>1, <3>2, <3>3, TierStep
  <2>5. CASE rz' = [rz EXCEPT !.failures = rz.failures + 1, !.back = rz.back \union (rz.cold \intersect {t}),
                          !.call = [rz.call EXCEPT ![p] = Idle]]
    <3>1. TierMove(rz, rz', p, Idle)
      BY <1>1, <2>5, IdleTypes DEF TierTyped, TierMove, Goes
    <3>2. BytesMove(rz, rz', p, Idle)
      BY <1>1, <1>4, <2>2, <2>5, IdleTypes DEF TierTyped, BytesMove
    <3>3. KeepsMove(rz, rz', p, Idle)
      BY <1>1, <1>3, <2>1, <2>3, <2>5, IdleTypes DEF TierTyped, KeepsMove, HotWanted
    <3> QED
      BY <3>1, <3>2, <3>3, TierStep
  <2> QED
    BY <2>1, <2>4, <2>5
<1>9. CASE Freeze(p)
  <2> DEFINE back == IF t \in rz.wanted THEN rz.back ELSE rz.back \union {t}
             m == [rz.call[p] EXCEPT !.op = "mark"]
  <2>1. rz.call[p].op = "freeze"
    BY <1>9 DEF Freeze, Doing
  <2>2. \/ rz' = [rz EXCEPT !.cold = rz.cold \union {t}, !.call = [rz.call EXCEPT ![p] = m], !.back = back]
        \/ rz' = [rz EXCEPT !.failures = rz.failures + 1, !.lost = rz.lost \union {t}, !.call = [rz.call EXCEPT ![p] = Idle]]
    BY <1>1, <1>9 DEF Freeze, TierTyped, t
  <2>3. \A x : x \in back <=> x \in rz.back \/ (x = t /\ t \notin rz.wanted)
    OBVIOUS
  <2>4. m \in TierCalls /\ HoldsOne(m) /\ m.op = "mark"
    BY <1>2, <1>3 DEF TierCalls, TierOps, HoldsOne
  <2>5. /\ Uncounted(m) = 0 /\ Undiscounted(m) = 0
        /\ Uncounted(rz.call[p]) = 0 /\ Undiscounted(rz.call[p]) = 0
    BY <2>1, <2>4 DEF Uncounted, Undiscounted
  <2> HIDE DEF m, back
  <2>6. CASE rz' = [rz EXCEPT !.cold = rz.cold \union {t}, !.call = [rz.call EXCEPT ![p] = m], !.back = back]
    <3>1. TierMove(rz, rz', p, m)
      BY <1>1, <2>4, <2>6 DEF TierTyped, TierMove, Goes
    <3>2. BytesMove(rz, rz', p, m)
      BY <1>1, <1>4, <2>5, <2>6 DEF TierTyped, BytesMove
    <3>3. KeepsMove(rz, rz', p, m)
      BY <1>1, <1>3, <2>1, <2>3, <2>4, <2>6 DEF TierTyped, KeepsMove, HotWanted
    <3> QED
      BY <3>1, <3>2, <3>3, TierStep
  <2>7. CASE rz' = [rz EXCEPT !.failures = rz.failures + 1, !.lost = rz.lost \union {t}, !.call = [rz.call EXCEPT ![p] = Idle]]
    <3>1. TierMove(rz, rz', p, Idle)
      BY <1>1, <2>7, IdleTypes DEF TierTyped, TierMove, Goes
    <3>2. BytesMove(rz, rz', p, Idle)
      BY <1>1, <1>4, <2>5, <2>7, IdleTypes DEF TierTyped, BytesMove
    <3>3. KeepsMove(rz, rz', p, Idle)
      BY <1>1, <1>3, <2>1, <2>7, IdleTypes DEF TierTyped, KeepsMove, HotWanted
    <3> QED
      BY <3>1, <3>2, <3>3, TierStep
  <2> QED
    BY <2>2, <2>6, <2>7
<1> QED
  BY <1>6, <1>7, <1>8, <1>9

LEMMA TierReclaims ==
  ASSUME TierSound(rz), NEW p \in Worker, StartReclaim(p) \/ Select(p) \/ Mark(p)
  PROVE  TierSound(rz')
<1>1. TierTyped(rz) /\ HotWanted(rz)
  BY DEF TierSound
<1>2. rz.call[p] \in TierCalls /\ HoldsOne(rz.call[p]) /\ rz.call[p].op \in {"idle", "select", "mark"}
  BY <1>1 DEF TierTyped, StartReclaim, Begin, Select, Mark, Doing
<1>3. Uncounted(rz.call[p]) = 0 /\ Undiscounted(rz.call[p]) = 0
  BY <1>2 DEF Uncounted, Undiscounted
<1>4. Sum(Size, DOMAIN rz.hot) \in Nat
  BY <1>1, TiersAssumption, SumRemove DEF TierTyped
<1>5. ASSUME NEW c \in TierCalls, HoldsOne(c), c.op \in {"idle", "select"}, NEW n,
             rz' = [rz EXCEPT !.calls = n, !.call = [rz.call EXCEPT ![p] = c]]
      PROVE  TierSound(rz')
  <2>1. Uncounted(c) = 0 /\ Undiscounted(c) = 0
    BY <1>5 DEF Uncounted, Undiscounted
  <2>2. TierMove(rz, rz', p, c)
    BY <1>1, <1>5 DEF TierTyped, TierMove, Goes
  <2>3. BytesMove(rz, rz', p, c)
    BY <1>1, <1>3, <1>4, <1>5, <2>1 DEF TierTyped, BytesMove
  <2>4. KeepsMove(rz, rz', p, c)
    BY <1>1, <1>2, <1>5 DEF TierTyped, KeepsMove, HotWanted
  <2> QED
    BY <2>2, <2>3, <2>4, TierStep
<1>6. CASE StartReclaim(p)
  <2> DEFINE left == {<<t, rz.hot[t]>> : t \in DOMAIN rz.hot}
             c == [op |-> "select", tx |-> {}, left |-> left]
  <2>1. rz' = [rz EXCEPT !.calls = rz.calls + 1, !.call = [rz.call EXCEPT ![p] = c]]
    BY <1>1, <1>6 DEF StartReclaim, TierTyped
  <2>2. left \in SUBSET (Item \X Nat)
    BY <1>1 DEF TierTyped
  <2> HIDE DEF left
  <2>3. c \in TierCalls /\ HoldsOne(c) /\ c.op = "select"
    BY <2>2 DEF TierCalls, TierOps, HoldsOne
  <2> HIDE DEF c
  <2> QED
    BY <1>5, <2>1, <2>3
<1>7. CASE Mark(p)
  <2> DEFINE c == IF BelowMark(rz.bytes) THEN Idle ELSE [rz.call[p] EXCEPT !.op = "select"]
  <2>1. rz' = [rz EXCEPT !.calls = rz.calls, !.call = [rz.call EXCEPT ![p] = c]]
    BY <1>1, <1>7 DEF Mark, TierTyped
  <2>2. c \in TierCalls /\ HoldsOne(c) /\ c.op \in {"idle", "select"}
    <3>1. CASE BelowMark(rz.bytes)
      BY <3>1, IdleTypes
    <3>2. CASE ~BelowMark(rz.bytes)
      BY <1>2, <3>2 DEF TierCalls, TierOps, HoldsOne
    <3> QED
      BY <3>1, <3>2
  <2> HIDE DEF c
  <2> QED
    BY <1>5, <2>1, <2>2
<1>8. CASE Select(p)
  <2>1. rz.call[p].op = "select"
    BY <1>8 DEF Select, Doing
  <2>2. CASE rz' = [rz EXCEPT !.call[p] = Idle]
    <3>1. rz' = [rz EXCEPT !.calls = rz.calls, !.call = [rz.call EXCEPT ![p] = Idle]]
      BY <1>1, <2>2 DEF TierTyped
    <3> QED
      BY <1>5, <3>1, IdleTypes
  <2>3. ASSUME NEW e \in Victims(rz.call[p].left),
               rz' = [rz EXCEPT !.hot = Restrict(@, DOMAIN @ \ {e[1]}),
                                !.call[p] = [op |-> IF e[1] \in DOMAIN rz.hot THEN "freed" ELSE "mark", tx |-> {e[1]}, left |-> @.left \ {e}]]
        PROVE  TierSound(rz')
    <3> DEFINE t == e[1]
               op == IF t \in DOMAIN rz.hot THEN "freed" ELSE "mark"
               left == rz.call[p].left \ {e}
               c == [op |-> op, tx |-> {t}, left |-> left]
               hot == Restrict(rz.hot, DOMAIN rz.hot \ {t})
    <3>1. rz' = [rz EXCEPT !.hot = hot, !.call = [rz.call EXCEPT ![p] = c]]
      BY <1>1, <2>3 DEF TierTyped
    <3>2. t \in Item /\ left \in SUBSET (Item \X Nat) /\ Size[t] \in Nat
      BY <1>2, TiersAssumption DEF Victims, TierCalls
    <3>3. op \in {"freed", "mark"} /\ op \in TierOps /\ (op = "freed" <=> t \in DOMAIN rz.hot)
      BY DEF TierOps
    <3> HIDE DEF op, t, left
    <3>4. c \in TierCalls /\ HoldsOne(c) /\ c.op = op /\ OneOf(c.tx) = t
      BY <3>2, <3>3, CallTypes, Zenon
    <3>5. Uncounted(c) = 0 /\ Undiscounted(c) = IF t \in DOMAIN rz.hot THEN Size[t] ELSE 0
      BY <3>3, <3>4 DEF Uncounted, Undiscounted
    <3>6. DOMAIN hot = DOMAIN rz.hot \ {t} /\ hot \in [DOMAIN hot -> Nat]
      BY <1>1, HotWithout, Zenon DEF TierTyped
    <3> HIDE DEF c, hot
    <3>7. /\ IsFiniteSet(DOMAIN hot) /\ Sum(Size, DOMAIN hot) \in Nat
          /\ Sum(Size, DOMAIN hot) = IF t \in DOMAIN rz.hot THEN Sum(Size, DOMAIN rz.hot) - Size[t] ELSE Sum(Size, DOMAIN rz.hot)
      BY <1>1, <3>2, <3>6, HotDrop DEF TierTyped
    <3>8. TierMove(rz, rz', p, c)
      BY <1>1, <3>1, <3>4, <3>6, <3>7 DEF TierTyped, TierMove, Goes
    <3>9. BytesMove(rz, rz', p, c)
      BY <1>1, <1>3, <1>4, <3>1, <3>2, <3>5, <3>7 DEF TierTyped, BytesMove
    <3>10. KeepsMove(rz, rz', p, c)
      BY <1>1, <1>2, <2>1, <3>1, <3>3, <3>4, <3>6 DEF TierTyped, KeepsMove, HotWanted
    <3> QED
      BY <3>8, <3>9, <3>10, TierStep
  <2> QED
    BY <1>8, <2>2, <2>3 DEF Select
<1> QED
  BY <1>6, <1>7, <1>8

LEMMA TierTicks ==
  ASSUME TierSound(rz), Tick \/ UNCHANGED rz
  PROVE  TierSound(rz')
<1>1. CASE UNCHANGED rz
  BY <1>1
<1>2. CASE Tick
  <2>1. TierTyped(rz)
    BY DEF TierSound
  <2>2. /\ rz' = [rz EXCEPT !.now = rz.now + 1] /\ rz.now + 1 \in Nat
    BY <1>2, <2>1 DEF Tick, TierTyped
  <2>3. /\ rz'.hot = rz.hot /\ rz'.bytes = rz.bytes /\ rz'.cold = rz.cold /\ rz'.call = rz.call
        /\ rz'.wanted = rz.wanted /\ rz'.lost = rz.lost /\ rz'.twice = rz.twice /\ rz'.back = rz.back
    BY <2>1, <2>2 DEF TierTyped
  <2>4. TierTyped(rz')
    BY <2>1, <2>2 DEF TierTyped
  <2>5. /\ UncountedBy(rz') = UncountedBy(rz) /\ UndiscountedBy(rz') = UndiscountedBy(rz)
        /\ \A ops : AtOps(rz', ops) = AtOps(rz, ops)
    BY <2>3, Zenon DEF UncountedBy, UndiscountedBy, AtOps
  <2> QED
    BY <2>3, <2>4, <2>5 DEF TierSound, Balanced, WantedSomewhere, HotWanted, ColdWanted
<1> QED
  BY <1>1, <1>2

LEMMA TiersBegin == RzInit => TierInv
<1> SUFFICES ASSUME RzInit PROVE TierSound(rz)
  BY DEF TierInv
<1>1. rz.hot = [t \in {} |-> 0] /\ rz.bytes = 0 /\ rz.twice = 0 /\ rz.wanted = {} /\ rz.cold = {}
      /\ rz.call = [p \in Worker |-> Idle]
  BY DEF RzInit
<1>2. DOMAIN rz.hot = {}
  BY <1>1
<1>3. TierTyped(rz)
  <2>1. IsFiniteSet(DOMAIN rz.hot)
    BY <1>2, FS_EmptySet
  <2>2. DOMAIN rz.hot \in SUBSET Item /\ rz.hot \in [DOMAIN rz.hot -> Nat]
    BY <1>1, <1>2
  <2>3. rz.call \in [Worker -> TierCalls] /\ \A p \in Worker : HoldsOne(rz.call[p])
    BY <1>1, IdleTypes
  <2>4. rz = [hot |-> rz.hot, bytes |-> rz.bytes, cold |-> rz.cold, now |-> rz.now, calls |-> rz.calls, failures |-> rz.failures,
              call |-> rz.call, wanted |-> rz.wanted, lost |-> rz.lost, twice |-> rz.twice, back |-> rz.back]
        /\ rz.now = 0
    BY DEF RzInit
  <2> QED
    BY <1>1, <2>1, <2>2, <2>3, <2>4 DEF TierTyped
<1>4. Balanced(rz)
  <2> DEFINE w == UncountedBy(rz)
             v == UndiscountedBy(rz)
             zero == [p \in Worker |-> 0]
  <2>1. w = zero /\ v = zero
    BY <1>1, IdleTypes DEF UncountedBy, UndiscountedBy
  <2>2. Sum(zero, Worker) \in Nat
    <3>1. \A x \in Worker : zero[x] \in Nat
      OBVIOUS
    <3> HIDE DEF zero
    <3> QED
      BY <3>1, TiersAssumption, SumRemove
  <2>3. Sum(Size, {}) = 0
    BY FS_EmptySet, SumRemove
  <2> HIDE DEF w, v, zero
  <2>4. Sum(w, Worker) = Sum(v, Worker) /\ Sum(v, Worker) \in Nat
    BY <2>1, <2>2
  <2> QED
    BY <1>1, <1>2, <2>3, <2>4 DEF Balanced, w, v
<1> QED
  BY <1>1, <1>2, <1>3, <1>4 DEF TierSound, WantedSomewhere, HotWanted, ColdWanted

LEMMA TierInvSound == TierInv => TiersSound
<1> SUFFICES ASSUME TierSound(rz), \A p \in Worker : Doing(p, "idle")
             PROVE  /\ rz.bytes = MapThenSumSet(LAMBDA t : Size[t], DOMAIN rz.hot) + rz.twice
                    /\ rz.wanted \ rz.lost \subseteq DOMAIN rz.hot \union rz.cold
                    /\ DOMAIN rz.hot \subseteq rz.wanted
                    /\ rz.cold \ rz.wanted \subseteq rz.back
  BY DEF TierInv, TiersSound, BytesAccounted, NothingLost
<1>1. TierTyped(rz) /\ Balanced(rz) /\ WantedSomewhere(rz) /\ HotWanted(rz) /\ ColdWanted(rz)
  BY DEF TierSound
<1>2. \A p \in Worker : rz.call[p].op = "idle"
  BY DEF Doing
<1>3. AtOps(rz, {"freed", "freeze"}) = {} /\ AtOps(rz, {"discount", "thaw"}) = {}
  BY <1>2 DEF AtOps
<1>4. MapThenSumSet(LAMBDA t : Size[t], DOMAIN rz.hot) = Sum(Size, DOMAIN rz.hot)
  BY Zenon DEF Sum
<1>5. rz.bytes = Sum(Size, DOMAIN rz.hot) + rz.twice
  <2> DEFINE w == UncountedBy(rz)
             v == UndiscountedBy(rz)
             zero == [p \in Worker |-> 0]
  <2>1. w = zero /\ v = zero
    BY <1>2 DEF UncountedBy, UndiscountedBy, Uncounted, Undiscounted
  <2>2. Sum(zero, Worker) \in Nat
    <3>1. \A x \in Worker : zero[x] \in Nat
      OBVIOUS
    <3> HIDE DEF zero
    <3> QED
      BY <3>1, TiersAssumption, SumRemove
  <2>3. Sum(Size, DOMAIN rz.hot) \in Nat /\ rz.bytes \in Int /\ rz.twice \in Nat
    BY <1>1, TiersAssumption, SumRemove DEF TierTyped
  <2> HIDE DEF w, v, zero
  <2>4. Sum(w, Worker) = Sum(v, Worker) /\ Sum(v, Worker) \in Nat
    BY <2>1, <2>2
  <2> QED
    BY <1>1, <2>3, <2>4 DEF Balanced, w, v
<1>6. rz.wanted \ rz.lost \subseteq DOMAIN rz.hot \union rz.cold /\ rz.cold \ rz.wanted \subseteq rz.back
  BY <1>1, <1>3 DEF WantedSomewhere, ColdWanted
<1> QED
  BY <1>1, <1>4, <1>5, <1>6 DEF HotWanted

(* The memory tiers, with any number of threads that add, remove and       *)
(* reclaim: whenever no call is under way the counter is the bytes of the  *)
(* hot tier and of what was overwritten in it, what was added and not      *)
(* removed is in a tier unless the store refused it, and what was removed  *)
(* is in none unless a reclaim or a failed deletion brought it back.       *)
THEOREM TiersAlwaysSound == TierSpec => []TiersSound
<1>1. RzInit => TierInv
  BY TiersBegin
<1>2. TierInv /\ [RzNext]_rz => TierInv'
  <2> SUFFICES ASSUME TierSound(rz), [RzNext]_rz PROVE TierSound(rz')
    BY DEF TierInv, TierSound, TierTyped, Balanced, WantedSomewhere, HotWanted, ColdWanted, AtOps, UncountedBy,
           UndiscountedBy, Uncounted, Undiscounted, HoldsOne
  <2> QED
    BY TierBegins, TierInserts, TierRemoves, TierReclaims, TierTicks DEF RzNext
<1>3. TierInv => TiersSound
  BY TierInvSound
<1> QED
  BY <1>1, <1>2, <1>3, PTL DEF TierSpec

-----------------------------------------------------------------------------
(* The conflict map *)
MapSpec == AmInit /\ [][AmNext]_am

Claiming == INSTANCE Folding WITH Step <- LAMBDA t, acc, o : ClaimOutput(t, acc, o)

MapTyped(g) ==
  /\ g = [claims |-> g.claims, arrival |-> g.arrival, pool |-> g.pool, now |-> g.now, cleared |-> g.cleared]
  /\ g.claims \in [Outpoints -> SUBSET Tx] /\ g.pool \in SUBSET Tx /\ g.cleared \in BOOLEAN
HoldsItsClaims(g) == \A t \in g.pool : \A o \in InputsOf(t) : t \in g.claims[o] /\ g.claims[o] \intersect g.pool = {t}
SpendersOnly(g) == \A o \in Outpoints : \A x \in g.claims[o] : o \in InputsOf(x)
MapSound(g) == MapTyped(g) /\ SpendersOnly(g) /\ (~g.cleared => HoldsItsClaims(g))
MapInv == MapSound(am)

(* What register_transaction_internal has done after the first i inputs.   *)
ClaimsSoFar(g, t, s, i) ==
  /\ MapTyped(s.g) /\ s.g.pool = g.pool /\ s.g.cleared = g.cleared
  /\ \A o \in Outpoints : g.claims[o] \subseteq s.g.claims[o]
  /\ \A o \in Outpoints : \A x \in s.g.claims[o] : x \in g.claims[o] \/ (x = t /\ o \in InputsOf(t))
  /\ s.rivals \in SUBSET Tx /\ \A x \in s.rivals : \E o \in InputsOf(t) : x \in s.g.claims[o]
  /\ s.rivals = {} => \A j \in 1 .. i : g.claims[Spends[t][j]] = {} /\ t \in s.g.claims[Spends[t][j]]

LEMMA ClaimsNext ==
  ASSUME NEW g, MapTyped(g), NEW t \in Tx, NEW s, NEW i \in 1 .. Len(Spends[t]), ClaimsSoFar(g, t, s, i - 1)
  PROVE  ClaimsSoFar(g, t, ClaimOutput(t, s, Spends[t][i]), i)
<1> DEFINE o == Spends[t][i]
           n == ClaimOutput(t, s, o)
<1>1. o \in Outpoints /\ o \in InputsOf(t) /\ Len(Spends[t]) \in Nat
  BY InputsAreOutputs
<1>2. i \in Nat /\ \A j \in 1 .. i : j \in 1 .. i - 1 \/ j = i
  BY <1>1
<1>3. CASE s.rivals # {}
  <2>1. n = s
    BY <1>3 DEF ClaimOutput
  <2> QED
    BY <1>3, <2>1 DEF ClaimsSoFar
<1>4. CASE s.rivals = {}
  <2> DEFINE old == s.g.claims[o]
             claims == [s.g.claims EXCEPT ![o] = @ \union {t}]
             h == [s.g EXCEPT !.claims = claims]
  <2>1. n = [g |-> h, rivals |-> old]
    BY <1>4 DEF ClaimOutput
  <2>2. MapTyped(s.g) /\ s.g.pool = g.pool /\ s.g.cleared = g.cleared
    BY DEF ClaimsSoFar
  <2>3. claims \in [Outpoints -> SUBSET Tx] /\ \A x \in Outpoints : claims[x] = IF x = o THEN old \union {t} ELSE s.g.claims[x]
    BY <1>1, <2>2 DEF MapTyped
  <2>4. old \in SUBSET Tx
    BY <1>1, <2>2 DEF MapTyped
  <2> HIDE DEF claims, old
  <2>5. MapTyped(h) /\ h.pool = g.pool /\ h.cleared = g.cleared /\ h.claims = claims
    BY <2>2, <2>3 DEF MapTyped
  <2> HIDE DEF h, n
  <2>6. n.g = h /\ n.rivals = old
    BY <2>1
  <2>7. \A x \in Outpoints : g.claims[x] \subseteq s.g.claims[x] /\ s.g.claims[x] \subseteq claims[x]
    BY <1>1, <2>3 DEF ClaimsSoFar, old
  <2>8. \A p \in Outpoints : \A x \in claims[p] : x \in g.claims[p] \/ (x = t /\ p \in InputsOf(t))
    BY <1>1, <2>3 DEF ClaimsSoFar, old
  <2>9. \A x \in old : x \in claims[o]
    BY <1>1, <2>3
  <2>10. ASSUME old = {}, NEW j \in 1 .. i PROVE g.claims[Spends[t][j]] = {} /\ t \in claims[Spends[t][j]]
    <3>1. CASE j = i
      BY <1>1, <2>3, <2>7, <2>10, <3>1 DEF old
    <3>2. CASE j \in 1 .. i - 1
      <4>1. j \in 1 .. Len(Spends[t])
        BY <1>1, <3>2
      <4>2. Spends[t][j] \in Outpoints
        BY <4>1, InputsAreOutputs
      <4>3. g.claims[Spends[t][j]] = {} /\ t \in s.g.claims[Spends[t][j]]
        BY <1>4, <3>2 DEF ClaimsSoFar
      <4> QED
        BY <2>7, <4>2, <4>3
    <3> QED
      BY <1>2, <3>1, <3>2
  <2>11. MapTyped(n.g) /\ n.g.pool = g.pool /\ n.g.cleared = g.cleared /\ n.g.claims = claims
    BY <2>5, <2>6
  <2>12. \A p \in Outpoints : g.claims[p] \subseteq n.g.claims[p]
    BY <2>7, <2>11
  <2>13. \A p \in Outpoints : \A x \in n.g.claims[p] : x \in g.claims[p] \/ (x = t /\ p \in InputsOf(t))
    BY <2>8, <2>11
  <2>14. n.rivals \in SUBSET Tx /\ \A x \in n.rivals : \E p \in InputsOf(t) : x \in n.g.claims[p]
    BY <1>1, <2>4, <2>6, <2>9, <2>11
  <2>15. n.rivals = {} => \A j \in 1 .. i : g.claims[Spends[t][j]] = {} /\ t \in n.g.claims[Spends[t][j]]
    BY <2>6, <2>10, <2>11
  <2>16. ClaimsSoFar(g, t, n, i)
    BY <2>11, <2>12, <2>13, <2>14, <2>15, Zenon DEF ClaimsSoFar
  <2> QED
    BY <2>16, Zenon DEF n
<1> QED
  BY <1>3, <1>4

LEMMA ClaimsAreRegistered ==
  ASSUME NEW g, MapTyped(g), NEW t \in Tx
  PROVE  ClaimsSoFar(g, t, RegisterClaims(g, t), Len(Spends[t]))
<1> DEFINE base == [g |-> [g EXCEPT !.arrival[t] = g.now], rivals |-> {}]
           n == Len(Spends[t])
           r == RegisterClaims(g, t)
<1>1. r = Claiming!Fold(t, base, Spends[t])
  BY Zenon DEF RegisterClaims, FoldLeft, MapThenFoldSet, Max, Claiming!Fold, Claiming!IsIter, Claiming!Latest
<1>2. n \in Nat /\ DOMAIN Spends[t] = 1 .. n
  BY InputsAreOutputs
<1>3. ClaimsSoFar(g, t, base, 0)
  <2> DEFINE h == [g EXCEPT !.arrival[t] = g.now]
  <2>1. MapTyped(h) /\ h.pool = g.pool /\ h.cleared = g.cleared /\ h.claims = g.claims
    BY DEF MapTyped
  <2> HIDE DEF h
  <2>2. base.g = h /\ base.rivals = {}
    BY DEF h
  <2> HIDE DEF base
  <2> QED
    BY <2>1, <2>2 DEF ClaimsSoFar
<1> HIDE DEF base, r, n
<1>4. PICK f : Claiming!IsTrace(t, f, base, Spends[t]) /\ r = f[n]
  BY <1>1, <1>2, Leasts, Claiming!FoldTrace, Zenon DEF n
<1>5. f[0] = base /\ \A i \in 1 .. n : f[i] = ClaimOutput(t, f[i - 1], Spends[t][i])
  <2> DEFINE q == Spends[t]
  <2>1. Len(q) = n /\ Len(q) \in Nat /\ Claiming!IsTrace(t, f, base, q)
    BY <1>2, <1>4 DEF n
  <2> HIDE DEF q
  <2>2. f[0] = base /\ \A i \in 1 .. n : f[i] = ClaimOutput(t, f[i - 1], q[i])
    BY <2>1, Claiming!TraceStep
  <2> QED
    BY <2>2 DEF q
<1> DEFINE G == {i \in Nat : ClaimsSoFar(g, t, f[i], i)}
<1>6. 0 \in G
  BY <1>3, <1>5
<1>7. ASSUME NEW i \in 0 .. n - 1, i \in G PROVE i + 1 \in G
  <2>1. i + 1 \in 1 .. n /\ i + 1 \in Nat /\ (i + 1) - 1 = i
    BY <1>2
  <2>2. f[i + 1] = ClaimOutput(t, f[i], Spends[t][i + 1])
    BY <1>5, <2>1
  <2>3. ClaimsSoFar(g, t, f[i], (i + 1) - 1)
    BY <1>7, <2>1
  <2>4. ClaimsSoFar(g, t, ClaimOutput(t, f[i], Spends[t][i + 1]), i + 1)
    BY <2>1, <2>3, ClaimsNext, Zenon DEF n
  <2> QED
    BY <2>1, <2>2, <2>4
<1>8. n \in G
  <2> HIDE DEF G
  <2>1. \A i \in 0 .. n : i \in G
    BY <1>2, <1>6, <1>7, UpTo
  <2> QED
    BY <1>2, <2>1
<1> QED
  BY <1>4, <1>8 DEF r, n

LEMMA Entering ==
  ASSUME NEW g, MapTyped(g), NEW t \in Tx
  PROVE  LET e == [g EXCEPT !.pool = @ \union {t}]
         IN MapTyped(e) /\ e.claims = g.claims /\ e.pool = g.pool \union {t} /\ e.cleared = g.cleared
<1> DEFINE p == g.pool \union {t}
           e == [g EXCEPT !.pool = p]
<1>1. g = [claims |-> g.claims, arrival |-> g.arrival, pool |-> g.pool, now |-> g.now, cleared |-> g.cleared]
  BY DEF MapTyped
<1>2. p \in SUBSET Tx
  BY DEF MapTyped
<1> HIDE DEF p
<1>3. e = [claims |-> g.claims, arrival |-> g.arrival, pool |-> p, now |-> g.now, cleared |-> g.cleared]
  BY <1>1
<1>4. e.claims = g.claims /\ e.pool = p /\ e.cleared = g.cleared /\ e.arrival = g.arrival /\ e.now = g.now
  BY <1>3
<1> HIDE DEF e
<1>5. MapTyped(e)
  BY <1>2, <1>3, <1>4 DEF MapTyped
<1> QED
  BY <1>4, <1>5, Zenon DEF e, p

LEMMA EvictionSound ==
  ASSUME NEW g, MapSound(g), NEW t \in Tx
  PROVE  MapSound(Evicted(g, t))
<1> DEFINE claims == [o \in Outpoints |-> g.claims[o] \ {t}]
           h == Evicted(g, t)
<1>1. MapTyped(g)
  BY DEF MapSound
<1>2. claims \in [Outpoints -> SUBSET Tx] /\ \A o \in Outpoints : claims[o] = g.claims[o] \ {t}
  BY <1>1 DEF MapTyped
<1>3. RemoveClaims(g, t) = [g EXCEPT !.claims = claims, !.arrival[t] = Never]
  BY Zenon DEF RemoveClaims
<1> HIDE DEF claims
<1> DEFINE arr == [g.arrival EXCEPT ![t] = Never]
           k == [g EXCEPT !.claims = claims, !.arrival = arr]
<1>8. RemoveClaims(g, t) = k
  BY <1>1, <1>3 DEF MapTyped
<1> HIDE DEF arr
<1>9. MapTyped(k) /\ k.claims = claims /\ k.pool = g.pool /\ k.cleared = g.cleared
  <2>3. g = [claims |-> g.claims, arrival |-> g.arrival, pool |-> g.pool, now |-> g.now, cleared |-> g.cleared]
    BY <1>1 DEF MapTyped
  <2>1. k = [claims |-> claims, arrival |-> arr, pool |-> g.pool, now |-> g.now, cleared |-> g.cleared]
    <3> DEFINE d == [g EXCEPT !.claims = claims]
    <3>1. d = [claims |-> claims, arrival |-> g.arrival, pool |-> g.pool, now |-> g.now, cleared |-> g.cleared]
      BY <2>3
    <3>2. k = [d EXCEPT !.arrival = arr]
      OBVIOUS
    <3> HIDE DEF d, k
    <3> QED
      BY <3>1, <3>2
  <2>2. k.claims = claims /\ k.pool = g.pool /\ k.cleared = g.cleared /\ k.arrival = arr /\ k.now = g.now
    BY <2>1
  <2> HIDE DEF k
  <2> QED
    BY <1>1, <1>2, <2>1, <2>2 DEF MapTyped
<1>10. h = [k EXCEPT !.pool = @ \ {t}]
  BY <1>8, Zenon DEF Evicted
<1> HIDE DEF k
<1>4. MapTyped(h) /\ h.claims = claims /\ h.pool = g.pool \ {t} /\ h.cleared = g.cleared
  BY <1>1, <1>9, <1>10 DEF MapTyped
<1>11. SpendersOnly(h)
  BY <1>2, <1>4 DEF MapSound, SpendersOnly
<1> HIDE DEF h
<1>5. ASSUME ~g.cleared PROVE HoldsItsClaims(h)
  <2>1. HoldsItsClaims(g)
    BY <1>5 DEF MapSound
  <2> SUFFICES ASSUME NEW s \in h.pool, NEW o \in InputsOf(s)
               PROVE  s \in h.claims[o] /\ h.claims[o] \intersect h.pool = {s}
    BY DEF HoldsItsClaims
  <2>2. s \in Tx /\ s \in g.pool /\ s # t /\ o \in Outpoints
    BY <1>1, <1>4, InputsAreOutputs DEF MapTyped
  <2>3. s \in g.claims[o] /\ g.claims[o] \intersect g.pool = {s}
    BY <2>1, <2>2 DEF HoldsItsClaims
  <2> QED
    BY <1>2, <1>4, <2>2, <2>3
<1> QED
  BY <1>4, <1>5, <1>11 DEF MapSound, h

(* A transaction enters the pool when nothing held an output it spends; a  *)
(* rival it could evict would share an output with it and the pool, which  *)
(* the invariant excludes.                                                 *)
LEMMA ManagerAddSound ==
  ASSUME MapSound(am), NEW t \in Tx, ManagerAdd(t)
  PROVE  MapSound(am')
<1> DEFINE r == RegisterClaims(am, t)
           in == [r.g EXCEPT !.pool = @ \union {t}]
<1>1. MapTyped(am) /\ SpendersOnly(am) /\ (~am.cleared => HoldsItsClaims(am))
  BY DEF MapSound
<1>2. ClaimsSoFar(am, t, r, Len(Spends[t]))
  BY <1>1, ClaimsAreRegistered
<1>3. /\ r.rivals = {} => am' \in {r.g, in}
      /\ r.rivals # {} => \E rival \in r.rivals :
           LET h == HandleDirectConflict(r.g, t, rival)
           IN am' \in IF h.ok THEN {h.g, [h.g EXCEPT !.pool = @ \union {t}]} ELSE {h.g}
  BY Zenon DEF ManagerAdd
<1> HIDE DEF r
<1>4. MapTyped(r.g) /\ r.g.pool = am.pool /\ r.g.cleared = am.cleared
  BY <1>2 DEF ClaimsSoFar
<1>5. ASSUME ~am.cleared PROVE HoldsItsClaims(r.g)
  <2> SUFFICES ASSUME NEW s \in am.pool, NEW o \in InputsOf(s)
               PROVE  s \in r.g.claims[o] /\ r.g.claims[o] \intersect am.pool = {s}
    BY <1>4 DEF HoldsItsClaims
  <2>1. s \in Tx /\ o \in Outpoints
    BY <1>1, InputsAreOutputs DEF MapTyped
  <2>2. s \in am.claims[o] /\ am.claims[o] \intersect am.pool = {s}
    BY <1>1, <1>5 DEF HoldsItsClaims
  <2>3. am.claims[o] \subseteq r.g.claims[o] /\ \A x \in r.g.claims[o] : x \in am.claims[o] \/ (x = t /\ o \in InputsOf(t))
    BY <1>2, <2>1 DEF ClaimsSoFar
  <2>4. t \in am.pool /\ o \in InputsOf(t) => t \in am.claims[o]
    BY <1>1, <1>5 DEF HoldsItsClaims
  <2> QED
    BY <2>2, <2>3, <2>4
<1>9. SpendersOnly(r.g)
  BY <1>1, <1>2 DEF ClaimsSoFar, SpendersOnly
<1>6. MapSound(r.g)
  BY <1>4, <1>5, <1>9 DEF MapSound
<1>7. CASE r.rivals = {}
  <2>1. MapTyped(in) /\ in.claims = r.g.claims /\ in.pool = am.pool \union {t} /\ in.cleared = am.cleared
    BY <1>4, Entering
  <2> HIDE DEF in
  <2>2. ASSUME ~am.cleared PROVE HoldsItsClaims(in)
    <3>1. \A o \in InputsOf(t) : am.claims[o] = {} /\ t \in r.g.claims[o] /\ o \in Outpoints
      <4> SUFFICES ASSUME NEW o \in InputsOf(t) PROVE am.claims[o] = {} /\ t \in r.g.claims[o] /\ o \in Outpoints
        OBVIOUS
      <4>1. PICK i \in 1 .. Len(Spends[t]) : o = Spends[t][i]
        BY InputsAreOutputs DEF InputsOf, ToSet
      <4> QED
        BY <1>2, <1>7, <4>1, InputsAreOutputs DEF ClaimsSoFar
    <3> SUFFICES ASSUME NEW s \in in.pool, NEW o \in InputsOf(s)
                 PROVE  s \in r.g.claims[o] /\ r.g.claims[o] \intersect in.pool = {s}
      BY <2>1 DEF HoldsItsClaims
    <3>2. o \in InputsOf(t) => \A x \in r.g.claims[o] : x = t
      BY <1>2, <3>1 DEF ClaimsSoFar
    <3>3. CASE s = t
      BY <2>1, <3>1, <3>2, <3>3
    <3>4. CASE s # t
      <4>1. s \in am.pool /\ s \in Tx
        BY <1>1, <2>1, <3>4 DEF MapTyped
      <4>2. s \in r.g.claims[o] /\ r.g.claims[o] \intersect am.pool = {s}
        BY <1>4, <1>5, <2>2, <4>1 DEF HoldsItsClaims
      <4>3. s \in am.claims[o] /\ o \in Outpoints
        BY <1>1, <2>2, <4>1, InputsAreOutputs DEF HoldsItsClaims
      <4>4. o \notin InputsOf(t)
        BY <3>1, <4>3
      <4>5. t \notin r.g.claims[o]
        BY <1>9, <4>3, <4>4 DEF SpendersOnly
      <4> QED
        BY <2>1, <3>4, <4>2, <4>5
    <3> QED
      BY <3>3, <3>4
  <2>3. MapSound(in)
    BY <1>9, <2>1, <2>2 DEF MapSound, SpendersOnly
  <2> QED
    BY <1>3, <1>6, <1>7, <2>3
<1>8. CASE r.rivals # {}
  <2>1. PICK rival \in r.rivals :
           LET h == HandleDirectConflict(r.g, t, rival)
           IN am' \in IF h.ok THEN {h.g, [h.g EXCEPT !.pool = @ \union {t}]} ELSE {h.g}
    BY <1>3, <1>8, Zenon
  <2> DEFINE h == HandleDirectConflict(r.g, t, rival)
  <2>2. rival \in Tx /\ \E o \in InputsOf(t) : rival \in r.g.claims[o]
    BY <1>2 DEF ClaimsSoFar
  <2>3. CASE ~h.ok
    <3>1. h.g = r.g
      BY <2>3 DEF HandleDirectConflict
    <3>2. am' = h.g
      BY <2>1, <2>3, Zenon
    <3> QED
      BY <1>6, <3>1, <3>2, Zenon
  <2>4. CASE h.ok
    <3>1. t \in am.pool /\ rival \in am.pool /\ Loser(r.g, t, rival) # t
      BY <1>4, <2>4 DEF HandleDirectConflict
    <3>2. rival # t
      BY <3>1 DEF Loser
    <3>3. am.cleared
      BY <1>4, <1>5, <2>2, <3>1, <3>2 DEF HoldsItsClaims
    <3>4. h.g = Evicted(Evicted(r.g, rival), t)
      BY <2>4 DEF HandleDirectConflict
    <3>5. MapSound(h.g)
      <4>1. MapSound(Evicted(r.g, rival))
        BY <1>6, <2>2, EvictionSound
      <4>2. MapSound(Evicted(Evicted(r.g, rival), t))
        BY <4>1, EvictionSound
      <4> QED
        BY <3>4, <4>2, Zenon
    <3>6. h.g.cleared
      BY <1>4, <3>3, <3>4 DEF Evicted, RemoveClaims, MapTyped
    <3> DEFINE k == h.g
               e == [k EXCEPT !.pool = @ \union {t}]
    <3>7. am' \in {k, e}
      BY <2>1, <2>4, Zenon
    <3>9. MapTyped(k) /\ SpendersOnly(k) /\ k.cleared /\ MapSound(k)
      BY <3>5, <3>6, Zenon DEF MapSound
    <3> HIDE DEF k
    <3>10. MapTyped(e) /\ e.claims = k.claims /\ e.cleared
      BY <3>9, Entering
    <3> HIDE DEF e
    <3>8. MapSound(e)
      BY <3>9, <3>10 DEF MapSound, SpendersOnly
    <3> QED
      BY <3>7, <3>8, <3>9
  <2> QED
    BY <2>3, <2>4
<1> QED
  BY <1>7, <1>8

LEMMA MapStep == MapInv /\ [AmNext]_am => MapInv'
<1> SUFFICES ASSUME MapSound(am), [AmNext]_am PROVE MapSound(am')
  BY DEF MapInv, MapSound, MapTyped, SpendersOnly, HoldsItsClaims, InputsOf
<1>1. MapTyped(am)
  BY DEF MapSound
<1>2. CASE UNCHANGED am
  BY <1>2
<1>3. ASSUME NEW t \in Tx, ManagerAdd(t) PROVE MapSound(am')
  BY <1>3, ManagerAddSound
<1>4. ASSUME NEW t \in Tx, ManagerRemove(t) PROVE MapSound(am')
  BY <1>4, EvictionSound DEF ManagerRemove
<1>5. CASE ArrivalTick
  <2>1. am'.claims = am.claims /\ am'.pool = am.pool /\ am'.cleared = am.cleared
    BY <1>1, <1>5 DEF ArrivalTick, MapTyped
  <2>2. MapTyped(am')
    BY <1>1, <1>5 DEF ArrivalTick, MapTyped
  <2> QED
    BY <2>1, <2>2 DEF MapSound, SpendersOnly, HoldsItsClaims
<1>6. CASE ClearMap
  <2>1. MapTyped(am') /\ am'.cleared /\ am'.claims = [o \in Outpoints |-> {}]
    BY <1>1, <1>6 DEF ClearMap, NewConflictMap, MapTyped
  <2> QED
    BY <2>1 DEF MapSound, SpendersOnly
<1> QED
  BY <1>2, <1>3, <1>4, <1>5, <1>6 DEF AmNext

(* The conflict map and the pool it drives: as long as the map is not      *)
(* cleared under it, a pooled transaction holds the claim on each of its   *)
(* inputs and is the only pooled one to do so.                             *)
THEOREM PooledAlwaysHoldClaims == MapSpec => []PooledHoldClaims
<1>1. AmInit => MapInv
  <2> SUFFICES ASSUME AmInit PROVE MapSound(am)
    BY DEF MapInv
  <2>1. MapTyped(am) /\ am.claims = [o \in Outpoints |-> {}] /\ am.pool = {}
    BY DEF AmInit, NewConflictMap, MapTyped
  <2> QED
    BY <2>1 DEF MapSound, SpendersOnly, HoldsItsClaims
<1>2. MapInv /\ [AmNext]_am => MapInv'
  BY MapStep
<1>3. MapInv => PooledHoldClaims
  BY DEF MapInv, MapSound, HoldsItsClaims, PooledHoldClaims, InputsOf
<1> QED
  BY <1>1, <1>2, <1>3, PTL DEF MapSpec

-----------------------------------------------------------------------------
(* Replacement by fee *)
RbfSpec == CrInit /\ [][CrNext]_cr

Dropping == INSTANCE Folding WITH Step <- LAMBDA out, kept, x : IF x \in out THEN kept ELSE Append(kept, x)
WithFiled(g, found, k) == found \o g.index[k]
Detecting == INSTANCE Folding WITH Step <- LAMBDA g, found, k : WithFiled(g, found, k)
Beating == INSTANCE Folding WITH Step <- LAMBDA t, acc, r : BeatRival(t, acc, r)

(* Lists as sets *)
LEMMA SetOfAppend ==
  ASSUME NEW s \in Seq(Tx), NEW x \in Tx
  PROVE  Append(s, x) \in Seq(Tx) /\ ToSet(Append(s, x)) = ToSet(s) \union {x}
<1>1. Append(s, x) \in Seq(Tx) /\ Len(Append(s, x)) = Len(s) + 1 /\ Len(s) \in Nat
  OBVIOUS
<1>2. DOMAIN s = 1 .. Len(s) /\ DOMAIN Append(s, x) = 1 .. Len(s) + 1
  BY <1>1
<1>3. Append(s, x)[Len(s) + 1] = x /\ \A i \in 1 .. Len(s) : Append(s, x)[i] = s[i]
  OBVIOUS
<1>4. ASSUME NEW y \in ToSet(Append(s, x)) PROVE y \in ToSet(s) \union {x}
  <2>1. PICK i \in 1 .. Len(s) + 1 : y = Append(s, x)[i]
    BY <1>2 DEF ToSet
  <2> QED
    BY <1>1, <1>2, <1>3, <2>1 DEF ToSet
<1>5. ASSUME NEW y \in ToSet(s) \union {x} PROVE y \in ToSet(Append(s, x))
  <2>1. CASE y = x
    BY <1>1, <1>2, <1>3, <2>1 DEF ToSet
  <2>2. CASE y \in ToSet(s)
    <3>1. PICK i \in 1 .. Len(s) : y = s[i]
      BY <1>2, <2>2 DEF ToSet
    <3>2. i \in 1 .. Len(s) + 1 /\ y = Append(s, x)[i]
      BY <1>1, <1>3, <3>1
    <3> QED
      BY <1>2, <3>2 DEF ToSet
  <2> QED
    BY <1>5, <2>1, <2>2
<1> QED
  BY <1>1, <1>4, <1>5

LEMMA SetOfConcat ==
  ASSUME NEW s \in Seq(Tx), NEW u \in Seq(Tx)
  PROVE  s \o u \in Seq(Tx) /\ ToSet(s \o u) = ToSet(s) \union ToSet(u)
<1>1. s \o u \in Seq(Tx) /\ Len(s \o u) = Len(s) + Len(u) /\ Len(s) \in Nat /\ Len(u) \in Nat
  OBVIOUS
<1>2. DOMAIN s = 1 .. Len(s) /\ DOMAIN u = 1 .. Len(u) /\ DOMAIN (s \o u) = 1 .. Len(s) + Len(u)
  BY <1>1
<1>3. \A i \in 1 .. Len(s) + Len(u) : (s \o u)[i] = IF i <= Len(s) THEN s[i] ELSE u[i - Len(s)]
  OBVIOUS
<1>4. ASSUME NEW y \in ToSet(s \o u) PROVE y \in ToSet(s) \union ToSet(u)
  <2>1. PICK i \in 1 .. Len(s) + Len(u) : y = (s \o u)[i]
    BY <1>2 DEF ToSet
  <2>2. CASE i <= Len(s)
    BY <1>1, <1>2, <1>3, <2>1, <2>2 DEF ToSet
  <2>3. CASE ~(i <= Len(s))
    <3>1. i - Len(s) \in 1 .. Len(u) /\ y = u[i - Len(s)]
      BY <1>1, <1>3, <2>1, <2>3
    <3> QED
      BY <1>2, <3>1 DEF ToSet
  <2> QED
    BY <2>2, <2>3
<1>5. ASSUME NEW y \in ToSet(s) PROVE y \in ToSet(s \o u)
  <2>1. PICK i \in 1 .. Len(s) : y = s[i]
    BY <1>2, <1>5 DEF ToSet
  <2>2. i \in 1 .. Len(s) + Len(u) /\ y = (s \o u)[i]
    BY <1>1, <1>3, <2>1
  <2> QED
    BY <1>2, <2>2 DEF ToSet
<1>6. ASSUME NEW y \in ToSet(u) PROVE y \in ToSet(s \o u)
  <2>1. PICK i \in 1 .. Len(u) : y = u[i]
    BY <1>2, <1>6 DEF ToSet
  <2> DEFINE j == i + Len(s)
  <2>2. j \in 1 .. Len(s) + Len(u) /\ ~(j <= Len(s)) /\ j - Len(s) = i
    BY <1>1, <2>1
  <2>3. y = (s \o u)[j]
    BY <1>3, <2>1, <2>2
  <2> QED
    BY <1>2, <2>2, <2>3 DEF ToSet
<1> QED
  BY <1>1, <1>4, <1>5, <1>6

(* Vec::retain drops exactly what is out. *)
LEMMA SetOfWithout ==
  ASSUME NEW s \in Seq(Tx), NEW out
  PROVE  Without(s, out) \in Seq(Tx) /\ ToSet(Without(s, out)) = ToSet(s) \ out
<1> DEFINE n == Len(s)
           w == Without(s, out)
<1>1. w = Dropping!Fold(out, <<>>, s)
  BY Zenon DEF Without, FoldLeft, MapThenFoldSet, Max, Dropping!Fold, Dropping!IsIter, Dropping!Latest
<1>2. n \in Nat /\ DOMAIN s = 1 .. n
  OBVIOUS
<1> HIDE DEF w
<1>3. PICK f : Dropping!IsTrace(out, f, <<>>, s) /\ w = f[n]
  BY <1>1, <1>2, Leasts, Dropping!FoldTrace, Zenon
<1>4. f[0] = <<>> /\ \A i \in 1 .. n : f[i] = IF s[i] \in out THEN f[i - 1] ELSE Append(f[i - 1], s[i])
  BY <1>2, <1>3, Dropping!TraceStep
<1> DEFINE Turn(i) == f[i] \in Seq(Tx) /\ \A x : x \in ToSet(f[i]) <=> x \notin out /\ \E j \in 1 .. i : x = s[j]
           G == {i \in Nat : Turn(i)}
<1> HIDE DEF n
<1>5. 0 \in G
  <2>1. f[0] \in Seq(Tx) /\ ToSet(f[0]) = {}
    BY <1>4 DEF ToSet
  <2> QED
    BY <2>1
<1>6. ASSUME NEW i \in 0 .. n - 1, i \in G PROVE i + 1 \in G
  <2>1. i + 1 \in 1 .. n /\ i + 1 \in Nat /\ (i + 1) - 1 = i /\ i \in Nat
    BY <1>2
  <2>2. f[i + 1] = IF s[i + 1] \in out THEN f[i] ELSE Append(f[i], s[i + 1])
    BY <1>4, <2>1
  <2>3. \A j \in 1 .. i + 1 : j \in 1 .. i \/ j = i + 1
    BY <2>1
  <2>4. 1 .. i \subseteq 1 .. i + 1 /\ i + 1 \in 1 .. i + 1
    BY <2>1
  <2>5. Turn(i)
    BY <1>6
  <2>6. s[i + 1] \in Tx
    BY <1>2, <2>1 DEF n
  <2>7. f[i + 1] \in Seq(Tx)
    BY <2>2, <2>5, <2>6
  <2>8. ToSet(f[i + 1]) = IF s[i + 1] \in out THEN ToSet(f[i]) ELSE ToSet(f[i]) \union {s[i + 1]}
    BY <2>2, <2>5, <2>6, SetOfAppend
  <2>9. \A x : x \in ToSet(f[i + 1]) <=> x \notin out /\ \E j \in 1 .. i + 1 : x = s[j]
    BY <2>3, <2>4, <2>5, <2>8
  <2> QED
    BY <2>1, <2>7, <2>9
<1>7. Turn(n)
  <2> HIDE DEF Turn
  <2>1. n \in G
    <3> HIDE DEF G
    <3>1. \A i \in 0 .. n : i \in G
      BY <1>2, <1>5, <1>6, UpTo
    <3> QED
      BY <1>2, <3>1
  <2> QED
    BY <2>1
<1>8. \A x : x \in ToSet(s) <=> \E j \in 1 .. n : x = s[j]
  BY <1>2 DEF ToSet
<1>9. w \in Seq(Tx) /\ ToSet(w) = ToSet(s) \ out
  BY <1>3, <1>7, <1>8
<1> QED
  BY <1>9 DEF w

RbfTyped(g) ==
  /\ g = [nodes |-> g.nodes, conf |-> g.conf, pars |-> g.pars, kids |-> g.kids, risk |-> g.risk,
          index |-> g.index, cached |-> g.cached, pool |-> g.pool, strayed |-> g.strayed]
  /\ g.nodes \in SUBSET Tx /\ g.conf \in [Tx -> SUBSET Tx] /\ g.index \in [Keys -> Seq(Tx)]
  /\ g.pool \in SUBSET Tx /\ g.strayed \in BOOLEAN
FiledUnderKeys(g) == \A k \in Keys : ToSet(g.index[k]) = {x \in g.nodes : k \in KeysOf(x)}
MutualIn(g) == \A a, b \in g.nodes : a # b /\ KeysOf(a) \intersect KeysOf(b) # {} => a \in g.conf[b]
RivalFree(g) == /\ g.pool \subseteq g.nodes
                /\ \A a, b \in g.pool : a # b => KeysOf(a) \intersect KeysOf(b) = {}
RbfSound(g) == RbfTyped(g) /\ FiledUnderKeys(g) /\ MutualIn(g) /\ (~g.strayed => RivalFree(g))
RbfInv == RbfSound(cr)

(* The keys of the inputs, in order *)
KeyList(t) == [i \in DOMAIN Spends[t] |-> Key(t, i)]
LEMMA KeysInOrder ==
  ASSUME NEW t \in Tx
  PROVE  /\ Len(KeyList(t)) \in Nat /\ Len(KeyList(t)) = Len(Spends[t]) /\ DOMAIN KeyList(t) = 1 .. Len(KeyList(t))
         /\ \A i \in 1 .. Len(KeyList(t)) : KeyList(t)[i] \in Keys
         /\ KeysOf(t) \subseteq Keys
         /\ \A k : k \in KeysOf(t) <=> \E i \in 1 .. Len(KeyList(t)) : k = KeyList(t)[i]
<1>1. Len(Spends[t]) \in Nat /\ DOMAIN Spends[t] = 1 .. Len(Spends[t])
  BY InputsAreOutputs
<1>2. DOMAIN KeyList(t) = 1 .. Len(Spends[t])
  BY <1>1 DEF KeyList
<1>3. Len(KeyList(t)) = Len(Spends[t])
  BY <1>1 DEF KeyList
<1>4. \A i \in 1 .. Len(Spends[t]) : KeyList(t)[i] = Key(t, i)
  BY <1>1 DEF KeyList
<1>5. KeysOf(t) \subseteq Keys
  BY Zenon DEF Keys
<1>6. \A k : k \in KeysOf(t) <=> \E i \in 1 .. Len(Spends[t]) : k = Key(t, i)
  BY <1>1, Zenon DEF KeysOf
<1> QED
  BY <1>1, <1>2, <1>3, <1>4, <1>5, <1>6

(* register_transaction detects every node that has a key in common with   *)
(* the new one, and nothing else.                                          *)
LEMMA DetectsSharers ==
  ASSUME NEW g, RbfTyped(g), FiledUnderKeys(g), NEW t \in Tx
  PROVE  /\ DetectedConflicts(g, t) \in Seq(Tx)
         /\ ToSet(DetectedConflicts(g, t)) = {x \in g.nodes : KeysOf(x) \intersect KeysOf(t) # {}}
<1> DEFINE q == KeyList(t)
           n == Len(q)
           w == DetectedConflicts(g, t)
<1>1. w = Detecting!Fold(g, <<>>, q)
  BY Zenon DEF KeyList, WithFiled, DetectedConflicts, FoldLeft, MapThenFoldSet, Max, Detecting!Fold, Detecting!IsIter, Detecting!Latest
<1>2. n \in Nat /\ DOMAIN q = 1 .. n /\ \A i \in 1 .. n : q[i] \in Keys
  BY KeysInOrder
<1>0. \A k : k \in KeysOf(t) <=> k \in Keys /\ \E i \in 1 .. n : k = q[i]
  BY KeysInOrder
<1> HIDE DEF w, q
<1>3. PICK f : Detecting!IsTrace(g, f, <<>>, q) /\ w = f[n]
  BY <1>1, <1>2, Leasts, Detecting!FoldTrace, Zenon
<1>4. f[0] = <<>> /\ \A i \in 1 .. n : f[i] = f[i - 1] \o g.index[q[i]]
  <2>1. f[0] = <<>> /\ \A i \in 1 .. n : f[i] = WithFiled(g, f[i - 1], q[i])
    BY <1>2, <1>3, Detecting!TraceStep
  <2> QED
    BY <2>1, Zenon DEF WithFiled
<1> DEFINE Turn(i) == f[i] \in Seq(Tx) /\ \A x : x \in ToSet(f[i]) <=> \E j \in 1 .. i : x \in ToSet(g.index[q[j]])
           G == {i \in Nat : Turn(i)}
<1> HIDE DEF n
<1>5. 0 \in G
  <2>1. f[0] \in Seq(Tx) /\ ToSet(f[0]) = {}
    BY <1>4 DEF ToSet
  <2> QED
    BY <2>1
<1>6. ASSUME NEW i \in 0 .. n - 1, i \in G PROVE i + 1 \in G
  <2>1. i + 1 \in 1 .. n /\ i + 1 \in Nat /\ (i + 1) - 1 = i /\ i \in Nat
    BY <1>2
  <2>2. f[i + 1] = f[i] \o g.index[q[i + 1]]
    BY <1>4, <2>1
  <2>3. \A j \in 1 .. i + 1 : j \in 1 .. i \/ j = i + 1
    BY <2>1
  <2>4. 1 .. i \subseteq 1 .. i + 1 /\ i + 1 \in 1 .. i + 1
    BY <2>1
  <2>5. Turn(i)
    BY <1>6
  <2>6. g.index[q[i + 1]] \in Seq(Tx)
    BY <1>2, <2>1 DEF RbfTyped
  <2>7. f[i + 1] \in Seq(Tx) /\ ToSet(f[i + 1]) = ToSet(f[i]) \union ToSet(g.index[q[i + 1]])
    <3> DEFINE u == g.index[q[i + 1]]
               v == f[i]
    <3>1. u \in Seq(Tx) /\ v \in Seq(Tx) /\ f[i + 1] = v \o u
      BY <2>2, <2>5, <2>6
    <3> HIDE DEF u, v
    <3>2. v \o u \in Seq(Tx) /\ ToSet(v \o u) = ToSet(v) \union ToSet(u)
      BY <3>1, SetOfConcat
    <3> QED
      BY <3>1, <3>2 DEF u, v
  <2>9. \A x : x \in ToSet(f[i + 1]) <=> \E j \in 1 .. i + 1 : x \in ToSet(g.index[q[j]])
    BY <2>3, <2>4, <2>5, <2>7
  <2> QED
    BY <2>1, <2>7, <2>9
<1>7. Turn(n)
  <2> HIDE DEF Turn
  <2>1. n \in G
    <3> HIDE DEF G
    <3>1. \A i \in 0 .. n : i \in G
      BY <1>2, <1>5, <1>6, UpTo
    <3> QED
      BY <1>2, <3>1
  <2> QED
    BY <2>1
<1>8. \A k \in Keys : ToSet(g.index[k]) = {x \in g.nodes : k \in KeysOf(x)}
  BY DEF FiledUnderKeys
<1>9. w \in Seq(Tx) /\ \A x : x \in ToSet(w) <=> \E j \in 1 .. n : x \in ToSet(g.index[q[j]])
  BY <1>3, <1>7
<1>10. \A x : x \in ToSet(w) <=> x \in g.nodes /\ \E k \in KeysOf(t) : k \in KeysOf(x)
  BY <1>2, <1>0, <1>8, <1>9
<1>11. ToSet(w) = {x \in g.nodes : KeysOf(x) \intersect KeysOf(t) # {}}
  BY <1>10
<1> QED
  BY <1>9, <1>11 DEF w

(* Registration files the new node and makes its conflicts mutual.         *)
LEMMA RegistrationSound ==
  ASSUME NEW g, RbfSound(g), NEW t \in Tx
  PROVE  LET h == RegisterNode(g, t)
         IN RbfSound(h) /\ h.nodes = g.nodes \union {t} /\ h.pool = g.pool /\ h.strayed = g.strayed
<1> DEFINE h == RegisterNode(g, t)
           found == ToSet(DetectedConflicts(g, t))
           conf0 == [g.conf EXCEPT ![t] = {}]
           conf == [x \in Tx |-> conf0[x] \union (IF x = t THEN found ELSE {})
                                 \union (IF x \in found \intersect (g.nodes \union {t}) THEN {t} ELSE {})]
           index == [k \in Keys |-> IF k \in KeysOf(t) THEN Append(g.index[k], t) ELSE g.index[k]]
           nodes == g.nodes \union {t}
           pars == [g.pars EXCEPT ![t] = {}]
           kids == [g.kids EXCEPT ![t] = {}]
           risk == g.risk \ {t}
<1>1. RbfTyped(g) /\ FiledUnderKeys(g) /\ MutualIn(g) /\ (~g.strayed => RivalFree(g))
  BY DEF RbfSound
<1>2. found = {x \in g.nodes : KeysOf(x) \intersect KeysOf(t) # {}}
  BY <1>1, DetectsSharers
<1>3. h = [g EXCEPT !.nodes = nodes, !.pars = pars, !.kids = kids, !.risk = risk, !.conf = conf, !.index = index]
  BY Zenon DEF RegisterNode
<1> HIDE DEF found
<1>4. nodes \in SUBSET Tx /\ conf0 \in [Tx -> SUBSET Tx] /\ \A x \in Tx : conf0[x] = IF x = t THEN {} ELSE g.conf[x]
  BY <1>1 DEF RbfTyped
<1>5. found \in SUBSET Tx
  BY <1>1, <1>2 DEF RbfTyped
<1> HIDE DEF conf0
<1>6. conf \in [Tx -> SUBSET Tx] /\ \A x \in Tx : conf[x] = conf0[x] \union (IF x = t THEN found ELSE {})
                                 \union (IF x \in found \intersect (g.nodes \union {t}) THEN {t} ELSE {})
  BY <1>4, <1>5
<1>7. index \in [Keys -> Seq(Tx)] /\ \A k \in Keys : index[k] = IF k \in KeysOf(t) THEN Append(g.index[k], t) ELSE g.index[k]
  <2>1. \A k \in Keys : g.index[k] \in Seq(Tx)
    BY <1>1 DEF RbfTyped
  <2>2. \A k \in Keys : Append(g.index[k], t) \in Seq(Tx)
    BY <2>1
  <2> QED
    BY <2>1, <2>2
<1> HIDE DEF conf, index, pars, kids, risk, h
<1>8. h = [nodes |-> nodes, conf |-> conf, pars |-> pars, kids |-> kids, risk |-> risk,
           index |-> index, cached |-> g.cached, pool |-> g.pool, strayed |-> g.strayed]
  <2>1. g = [nodes |-> g.nodes, conf |-> g.conf, pars |-> g.pars, kids |-> g.kids, risk |-> g.risk,
             index |-> g.index, cached |-> g.cached, pool |-> g.pool, strayed |-> g.strayed]
    BY <1>1 DEF RbfTyped
  <2> HIDE DEF nodes
  <2> QED
    BY <1>3, <2>1
<1>9. RbfTyped(h) /\ h.nodes = nodes /\ h.pool = g.pool /\ h.strayed = g.strayed /\ h.conf = conf /\ h.index = index
  BY <1>1, <1>4, <1>6, <1>7, <1>8 DEF RbfTyped
<1>10. FiledUnderKeys(h)
  <2> SUFFICES ASSUME NEW k \in Keys PROVE ToSet(index[k]) = {x \in nodes : k \in KeysOf(x)}
    BY <1>9 DEF FiledUnderKeys
  <2>1. ToSet(g.index[k]) = {x \in g.nodes : k \in KeysOf(x)}
    BY <1>1 DEF FiledUnderKeys
  <2>2. g.index[k] \in Seq(Tx)
    BY <1>1 DEF RbfTyped
  <2>3. ToSet(index[k]) = IF k \in KeysOf(t) THEN ToSet(g.index[k]) \union {t} ELSE ToSet(g.index[k])
    BY <1>7, <2>2, SetOfAppend
  <2> QED
    BY <2>1, <2>3
<1>11. MutualIn(h)
  <2> SUFFICES ASSUME NEW a \in nodes, NEW b \in nodes, a # b, KeysOf(a) \intersect KeysOf(b) # {}
               PROVE  a \in conf[b]
    BY <1>9 DEF MutualIn
  <2>0. a \in Tx /\ b \in Tx
    BY <1>4
  <2>1. CASE b = t
    <3>1. a \in found
      BY <1>2, <2>1
    <3> QED
      BY <1>6, <2>0, <2>1, <3>1
  <2>2. CASE a = t
    <3>1. b \in found
      BY <1>2, <2>2
    <3> QED
      BY <1>6, <2>0, <2>2, <3>1
  <2>3. CASE a # t /\ b # t
    <3>1. a \in g.conf[b]
      BY <1>1, <2>3 DEF MutualIn
    <3> QED
      BY <1>4, <1>6, <2>0, <2>3, <3>1
  <2> QED
    BY <2>1, <2>2, <2>3
<1>12. ~h.strayed => RivalFree(h)
  BY <1>1, <1>9 DEF RivalFree
<1> QED
  BY <1>9, <1>10, <1>11, <1>12 DEF RbfSound, h

(* Removal: the pool's entry goes with the node, unless the cascade took   *)
(* another pooled transaction with it.                                     *)
LEMMA RemovalSound ==
  ASSUME NEW g, RbfSound(g), NEW r \in Tx
  PROVE  LET h == TakenOut(g, r)
         IN RbfSound(h) /\ h.pool = g.pool \ {r} /\ (g.strayed => h.strayed)
<1> DEFINE out == {r} \union FindDescendants(g, r)
           e == RemoveAndCascade(g, r)
           h == TakenOut(g, r)
           nodes == g.nodes \ out
           risk == g.risk \ out
           conf == [x \in Tx |-> IF x \in out THEN {} ELSE g.conf[x]]
           pars == [x \in Tx |-> IF x \in out THEN {} ELSE g.pars[x] \ {y \in out : x \in g.kids[y]}]
           kids == [x \in Tx |-> IF x \in out THEN {} ELSE g.kids[x] \ {y \in out : x \in g.pars[y]}]
           cached == [x \in Tx |-> IF x \in out THEN {} ELSE g.cached[x]]
           strayed == g.strayed \/ (out \ {r}) \intersect g.pool # {}
           index == [k \in Keys |-> Without(g.index[k], out)]
           pool == g.pool \ {r}
<1>1. RbfTyped(g) /\ FiledUnderKeys(g) /\ MutualIn(g) /\ (~g.strayed => RivalFree(g))
  BY DEF RbfSound
<1>2. e = [g EXCEPT !.nodes = nodes, !.risk = risk, !.conf = conf, !.pars = pars, !.kids = kids, !.cached = cached,
                    !.strayed = strayed, !.index = index]
  BY Zenon DEF RemoveAndCascade
<1>3. h = [e EXCEPT !.pool = e.pool \ {r}]
  BY Zenon DEF TakenOut
<1>4. r \in out
  OBVIOUS
<1> HIDE DEF out, e, h
<1>5. conf \in [Tx -> SUBSET Tx] /\ \A x \in Tx : conf[x] = IF x \in out THEN {} ELSE g.conf[x]
  BY <1>1 DEF RbfTyped
<1>6. \A k \in Keys : index[k] \in Seq(Tx) /\ ToSet(index[k]) = ToSet(g.index[k]) \ out
  <2> SUFFICES ASSUME NEW k \in Keys PROVE index[k] \in Seq(Tx) /\ ToSet(index[k]) = ToSet(g.index[k]) \ out
    OBVIOUS
  <2> DEFINE l == g.index[k]
  <2>1. l \in Seq(Tx) /\ index[k] = Without(l, out)
    BY <1>1 DEF RbfTyped
  <2> HIDE DEF l, index
  <2>2. Without(l, out) \in Seq(Tx) /\ ToSet(Without(l, out)) = ToSet(l) \ out
    BY <2>1, SetOfWithout
  <2> QED
    BY <2>1, <2>2 DEF l
<1>7. index \in [Keys -> Seq(Tx)]
  BY <1>6
<1>8. strayed \in BOOLEAN /\ nodes \in SUBSET Tx /\ pool \in SUBSET Tx
  BY <1>1 DEF RbfTyped
<1> HIDE DEF conf, index, pars, kids, risk, cached, nodes, strayed
<1>9. e = [nodes |-> nodes, conf |-> conf, pars |-> pars, kids |-> kids, risk |-> risk,
           index |-> index, cached |-> cached, pool |-> g.pool, strayed |-> strayed]
  <2>1. g = [nodes |-> g.nodes, conf |-> g.conf, pars |-> g.pars, kids |-> g.kids, risk |-> g.risk,
             index |-> g.index, cached |-> g.cached, pool |-> g.pool, strayed |-> g.strayed]
    BY <1>1 DEF RbfTyped
  <2> QED
    BY <1>2, <2>1
<1>10. h = [nodes |-> nodes, conf |-> conf, pars |-> pars, kids |-> kids, risk |-> risk,
            index |-> index, cached |-> cached, pool |-> pool, strayed |-> strayed]
  <2>1. e.pool = g.pool
    BY <1>9
  <2>2. h = [e EXCEPT !.pool = pool]
    BY <1>3, <2>1
  <2> HIDE DEF pool
  <2> QED
    BY <1>9, <2>2
<1>11. RbfTyped(h) /\ h.nodes = nodes /\ h.pool = pool /\ h.strayed = strayed /\ h.conf = conf /\ h.index = index
  <2> HIDE DEF pool
  <2> QED
    BY <1>5, <1>7, <1>8, <1>10 DEF RbfTyped
<1>12. FiledUnderKeys(h)
  <2> SUFFICES ASSUME NEW k \in Keys PROVE ToSet(index[k]) = {x \in nodes : k \in KeysOf(x)}
    BY <1>11 DEF FiledUnderKeys
  <2>1. ToSet(g.index[k]) = {x \in g.nodes : k \in KeysOf(x)}
    BY <1>1 DEF FiledUnderKeys
  <2> QED
    BY <1>6, <2>1 DEF nodes
<1>13. MutualIn(h)
  <2> SUFFICES ASSUME NEW a \in nodes, NEW b \in nodes, a # b, KeysOf(a) \intersect KeysOf(b) # {}
               PROVE  a \in conf[b]
    BY <1>11 DEF MutualIn
  <2>1. a \in g.nodes /\ b \in g.nodes /\ b \notin out /\ b \in Tx
    BY <1>1 DEF nodes, RbfTyped
  <2>2. a \in g.conf[b]
    BY <1>1, <2>1 DEF MutualIn
  <2> QED
    BY <1>5, <2>1, <2>2
<1>14. ASSUME ~h.strayed PROVE RivalFree(h)
  <2>1. ~g.strayed /\ \A x \in g.pool : x \in out => x = r
    BY <1>11, <1>14 DEF strayed
  <2>2. RivalFree(g)
    BY <1>1, <2>1
  <2> QED
    BY <1>11, <2>1, <2>2 DEF RivalFree, nodes
<1>15. g.strayed => h.strayed
  BY <1>11 DEF strayed
<1> QED
  BY <1>11, <1>12, <1>13, <1>14, <1>15 DEF RbfSound, h

(* handle_rbf_conflicts: after i rivals without a refusal, none of them is *)
(* pooled any more.                                                        *)
Beaten(g, q, s, i) ==
  /\ s = [ok |-> s.ok, g |-> s.g]
  /\ RbfSound(s.g) /\ s.g.pool \subseteq g.pool /\ (g.strayed => s.g.strayed)
  /\ s.ok => \A j \in 1 .. i : q[j] \notin s.g.pool

LEMMA BeatsNext ==
  ASSUME NEW g, NEW t \in Tx, NEW q, NEW s, NEW i \in Nat, q[i + 1] \in Tx, Beaten(g, q, s, i)
  PROVE  Beaten(g, q, BeatRival(t, s, q[i + 1]), i + 1)
<1> DEFINE r == q[i + 1]
           n == BeatRival(t, s, r)
<1>1. s = [ok |-> s.ok, g |-> s.g] /\ RbfSound(s.g) /\ s.g.pool \subseteq g.pool /\ (g.strayed => s.g.strayed)
  BY DEF Beaten
<1>2. CASE ~s.ok \/ r \notin s.g.pool \/ ~Replaces(t, r)
  <2>1. n = [s EXCEPT !.ok = FALSE]
    BY <1>2, Zenon DEF BeatRival
  <2>2. n = [ok |-> FALSE, g |-> s.g]
    BY <1>1, <2>1
  <2>3. n.ok = FALSE /\ n.g = s.g
    BY <2>2
  <2> HIDE DEF n
  <2>4. Beaten(g, q, n, i + 1)
    BY <1>1, <2>2, <2>3 DEF Beaten
  <2> QED
    BY <2>4, Zenon DEF n
<1>3. CASE ~(~s.ok \/ r \notin s.g.pool \/ ~Replaces(t, r))
  <2> DEFINE h == TakenOut(s.g, r)
  <2>1. n = [s EXCEPT !.g = h]
    BY <1>3, Zenon DEF BeatRival
  <2>2. RbfSound(h) /\ h.pool = s.g.pool \ {r} /\ (s.g.strayed => h.strayed)
    BY <1>1, RemovalSound
  <2> HIDE DEF h, n
  <2>3. n = [ok |-> s.ok, g |-> h]
    BY <1>1, <2>1
  <2>4. n.ok = s.ok /\ n.g = h
    BY <2>3
  <2>5. \A j \in 1 .. i + 1 : j \in 1 .. i \/ j = i + 1
    OBVIOUS
  <2>6. \A j \in 1 .. i : q[j] \notin s.g.pool
    BY <1>3 DEF Beaten
  <2>7. \A j \in 1 .. i + 1 : q[j] \notin h.pool
    BY <2>2, <2>5, <2>6
  <2>8. Beaten(g, q, n, i + 1)
    BY <1>1, <2>2, <2>3, <2>4, <2>7 DEF Beaten
  <2> QED
    BY <2>8, Zenon DEF n
<1> QED
  BY <1>2, <1>3

LEMMA RivalsAreBeaten ==
  ASSUME NEW g, RbfSound(g), NEW t \in Tx, NEW q \in Seq(Tx)
  PROVE  Beaten(g, q, HandleRbf(g, t, q), Len(q))
<1> DEFINE base == [ok |-> TRUE, g |-> g]
           n == Len(q)
           w == HandleRbf(g, t, q)
<1>1. w = Beating!Fold(t, base, q)
  BY Zenon DEF HandleRbf, FoldLeft, MapThenFoldSet, Max, Beating!Fold, Beating!IsIter, Beating!Latest
<1>2. n \in Nat /\ DOMAIN q = 1 .. n /\ \A i \in 1 .. n : q[i] \in Tx
  OBVIOUS
<1>3. Beaten(g, q, base, 0)
  BY DEF Beaten
<1> HIDE DEF w, base
<1>4. PICK f : Beating!IsTrace(t, f, base, q) /\ w = f[n]
  BY <1>1, <1>2, Leasts, Beating!FoldTrace, Zenon
<1>5. f[0] = base /\ \A i \in 1 .. n : f[i] = BeatRival(t, f[i - 1], q[i])
  BY <1>2, <1>4, Beating!TraceStep
<1> DEFINE G == {i \in Nat : Beaten(g, q, f[i], i)}
<1> HIDE DEF n
<1>6. 0 \in G
  BY <1>3, <1>5
<1>7. ASSUME NEW i \in 0 .. n - 1, i \in G PROVE i + 1 \in G
  <2>1. i + 1 \in 1 .. n /\ i + 1 \in Nat /\ (i + 1) - 1 = i /\ i \in Nat
    BY <1>2
  <2>2. f[i + 1] = BeatRival(t, f[i], q[i + 1]) /\ q[i + 1] \in Tx
    BY <1>2, <1>5, <2>1
  <2>3. Beaten(g, q, f[i], i)
    BY <1>7
  <2>4. Beaten(g, q, BeatRival(t, f[i], q[i + 1]), i + 1)
    BY <2>1, <2>2, <2>3, BeatsNext, Zenon
  <2> QED
    BY <2>1, <2>2, <2>4
<1>8. n \in G
  <2> HIDE DEF G
  <2>1. \A i \in 0 .. n : i \in G
    BY <1>2, <1>6, <1>7, UpTo
  <2> QED
    BY <1>2, <2>1
<1> QED
  BY <1>4, <1>8 DEF w, n

(* The pool takes a transaction whose rivals are all out of it; a pooled   *)
(* transaction is a node, so that every pooled rival was detected.         *)
LEMMA AddWithRbfSound ==
  ASSUME RbfSound(cr), NEW t \in Tx, AddWithRbf(t)
  PROVE  RbfSound(cr')
<1> DEFINE g == RegisterNode(cr, t)
           q == DetectedConflicts(cr, t)
           r == HandleRbf(g, t, q)
           k == r.g
           pool == k.pool \union {t}
           strayed == k.strayed \/ t \notin k.nodes
           e == [k EXCEPT !.pool = pool, !.strayed = strayed]
<1>1. RbfTyped(cr) /\ FiledUnderKeys(cr) /\ (~cr.strayed => RivalFree(cr))
  BY DEF RbfSound
<1>2. q \in Seq(Tx) /\ ToSet(q) = {x \in cr.nodes : KeysOf(x) \intersect KeysOf(t) # {}}
  BY <1>1, DetectsSharers
<1>3. RbfSound(g) /\ g.pool = cr.pool /\ g.strayed = cr.strayed
  BY RegistrationSound
<1>4. cr' = k \/ (r.ok /\ cr' = e)
  BY Zenon DEF AddWithRbf
<1> HIDE DEF g, q
<1>5. Beaten(g, q, r, Len(q))
  BY <1>2, <1>3, RivalsAreBeaten
<1> HIDE DEF r
<1>6. RbfSound(k) /\ k.pool \subseteq g.pool /\ (g.strayed => k.strayed)
  BY <1>5 DEF Beaten
<1>7. r.ok => ToSet(q) \intersect k.pool = {}
  <2> SUFFICES ASSUME r.ok, NEW x \in ToSet(q) PROVE x \notin k.pool
    OBVIOUS
  <2>1. PICK j \in 1 .. Len(q) : x = q[j]
    BY <1>2 DEF ToSet
  <2> QED
    BY <1>5, <2>1 DEF Beaten
<1> HIDE DEF k
<1>8. ASSUME r.ok PROVE RbfSound(e)
  <2>1. RbfTyped(k) /\ FiledUnderKeys(k) /\ MutualIn(k) /\ (~k.strayed => RivalFree(k))
    BY <1>6 DEF RbfSound
  <2>2. pool \in SUBSET Tx /\ strayed \in BOOLEAN
    BY <2>1 DEF RbfTyped
  <2>3. k = [nodes |-> k.nodes, conf |-> k.conf, pars |-> k.pars, kids |-> k.kids, risk |-> k.risk,
             index |-> k.index, cached |-> k.cached, pool |-> k.pool, strayed |-> k.strayed]
    BY <2>1 DEF RbfTyped
  <2> HIDE DEF pool, strayed
  <2>4. e = [nodes |-> k.nodes, conf |-> k.conf, pars |-> k.pars, kids |-> k.kids, risk |-> k.risk,
             index |-> k.index, cached |-> k.cached, pool |-> pool, strayed |-> strayed]
    <3> DEFINE d == [k EXCEPT !.pool = pool]
    <3>1. d = [nodes |-> k.nodes, conf |-> k.conf, pars |-> k.pars, kids |-> k.kids, risk |-> k.risk,
               index |-> k.index, cached |-> k.cached, pool |-> pool, strayed |-> k.strayed]
      BY <2>3
    <3>2. e = [d EXCEPT !.strayed = strayed]
      OBVIOUS
    <3> HIDE DEF d, e
    <3> QED
      BY <3>1, <3>2
  <2> HIDE DEF e
  <2>5. RbfTyped(e) /\ e.nodes = k.nodes /\ e.conf = k.conf /\ e.index = k.index /\ e.pool = pool /\ e.strayed = strayed
    BY <2>1, <2>2, <2>4 DEF RbfTyped
  <2>6. FiledUnderKeys(e) /\ MutualIn(e)
    BY <2>1, <2>5 DEF FiledUnderKeys, MutualIn
  <2>7. ASSUME ~strayed PROVE RivalFree(e)
    <3>1. ~k.strayed /\ t \in k.nodes /\ ~cr.strayed
      BY <1>3, <1>6, <2>7 DEF strayed
    <3>2. RivalFree(k) /\ RivalFree(cr)
      BY <1>1, <2>1, <3>1
    <3>3. ASSUME NEW x \in k.pool, x # t PROVE KeysOf(x) \intersect KeysOf(t) = {}
      <4>1. x \in cr.nodes /\ x \notin ToSet(q)
        BY <1>3, <1>6, <1>7, <1>8, <3>2 DEF RivalFree
      <4> QED
        BY <1>2, <4>1
    <3>4. pool \subseteq k.nodes
      BY <3>1, <3>2 DEF RivalFree, pool
    <3>5. \A a, b \in pool : a # b => KeysOf(a) \intersect KeysOf(b) = {}
      <4> SUFFICES ASSUME NEW a \in pool, NEW b \in pool, a # b PROVE KeysOf(a) \intersect KeysOf(b) = {}
        OBVIOUS
      <4>1. CASE a = t
        BY <3>3, <4>1 DEF pool
      <4>2. CASE b = t
        BY <3>3, <4>2 DEF pool
      <4>3. CASE a # t /\ b # t
        BY <3>2, <4>3 DEF pool, RivalFree
      <4> QED
        BY <4>1, <4>2, <4>3
    <3> QED
      BY <2>5, <3>4, <3>5 DEF RivalFree
  <2> QED
    BY <2>5, <2>6, <2>7 DEF RbfSound
<1> QED
  BY <1>4, <1>6, <1>8

(* What the other calls change is not what the invariant speaks of. *)
LEMMA OnlyPoolShrinks ==
  ASSUME NEW g, RbfSound(g), NEW h, RbfTyped(h), h.nodes = g.nodes, h.conf = g.conf, h.index = g.index,
         h.pool \subseteq g.pool, h.strayed = g.strayed
  PROVE  RbfSound(h)
<1>1. FiledUnderKeys(g) /\ MutualIn(g) /\ (~g.strayed => RivalFree(g))
  BY DEF RbfSound
<1>2. FiledUnderKeys(h) /\ MutualIn(h)
  BY <1>1 DEF FiledUnderKeys, MutualIn
<1>3. ~h.strayed => RivalFree(h)
  BY <1>1 DEF RivalFree
<1> QED
  BY <1>2, <1>3 DEF RbfSound

LEMMA RbfStep == RbfInv /\ [CrNext]_cr => RbfInv'
<1> SUFFICES ASSUME RbfSound(cr), [CrNext]_cr PROVE RbfSound(cr')
  BY DEF RbfInv, RbfSound, RbfTyped, FiledUnderKeys, MutualIn, RivalFree, KeysOf, Key, Keys
<1>1. RbfTyped(cr)
  BY DEF RbfSound
<1>2. cr = [nodes |-> cr.nodes, conf |-> cr.conf, pars |-> cr.pars, kids |-> cr.kids, risk |-> cr.risk,
            index |-> cr.index, cached |-> cr.cached, pool |-> cr.pool, strayed |-> cr.strayed]
  BY <1>1 DEF RbfTyped
<1>3. CASE UNCHANGED cr
  BY <1>3
<1>4. ASSUME NEW t \in Tx, AddWithRbf(t) PROVE RbfSound(cr')
  BY <1>4, AddWithRbfSound
<1>5. ASSUME NEW t \in Tx, RemoveFromBoth(t) PROVE RbfSound(cr')
  <2>1. cr' = TakenOut(cr, t)
    BY <1>5, Zenon DEF RemoveFromBoth
  <2> QED
    BY <2>1, RemovalSound
<1>6. ASSUME NEW t \in Tx, GetConflictSet(t) PROVE RbfSound(cr')
  <2> DEFINE v == [cr.cached EXCEPT ![t] = ConflictSet(cr, t)]
  <2>1. cr' = [cr EXCEPT !.cached = v]
    BY <1>2, <1>6 DEF GetConflictSet
  <2> HIDE DEF v
  <2>2. RbfTyped(cr') /\ cr'.nodes = cr.nodes /\ cr'.conf = cr.conf /\ cr'.index = cr.index
        /\ cr'.pool \subseteq cr.pool /\ cr'.strayed = cr.strayed
    BY <1>1, <2>1 DEF RbfTyped
  <2> QED
    BY <2>2, OnlyPoolShrinks
<1>7. ASSUME NEW t \in Tx, MarkHighRisk(t) PROVE RbfSound(cr')
  <2> DEFINE v == cr.risk \union (({t} \union FindDescendants(cr, t)) \intersect cr.nodes)
  <2>1. cr' = [cr EXCEPT !.risk = v]
    BY <1>2, <1>7 DEF MarkHighRisk
  <2> HIDE DEF v
  <2>2. RbfTyped(cr') /\ cr'.nodes = cr.nodes /\ cr'.conf = cr.conf /\ cr'.index = cr.index
        /\ cr'.pool \subseteq cr.pool /\ cr'.strayed = cr.strayed
    BY <1>1, <2>1 DEF RbfTyped
  <2> QED
    BY <2>2, OnlyPoolShrinks
<1>8. ASSUME NEW t \in Tx, PoolDrops(t) PROVE RbfSound(cr')
  <2> DEFINE v == cr.pool \ {t}
  <2>1. cr' = [cr EXCEPT !.pool = v]
    BY <1>2, <1>8 DEF PoolDrops
  <2>3. v \in SUBSET Tx /\ v \subseteq cr.pool
    BY <1>1 DEF RbfTyped
  <2> HIDE DEF v
  <2>2. RbfTyped(cr') /\ cr'.nodes = cr.nodes /\ cr'.conf = cr.conf /\ cr'.index = cr.index
        /\ cr'.pool \subseteq cr.pool /\ cr'.strayed = cr.strayed
    BY <1>1, <2>1, <2>3 DEF RbfTyped
  <2> QED
    BY <2>2, OnlyPoolShrinks
<1>9. ASSUME NEW c \in Tx, NEW p \in Tx, AddConflictDependency(c, p) PROVE RbfSound(cr')
  <2> DEFINE v == [cr.pars EXCEPT ![c] = @ \union {p}]
             w == [cr.kids EXCEPT ![p] = IF p \in cr.nodes THEN @ \union {c} ELSE @]
  <2>1. cr' = [cr EXCEPT !.pars = v, !.kids = w]
    BY <1>2, <1>9 DEF AddConflictDependency
  <2> HIDE DEF v, w
  <2>3. cr' = [nodes |-> cr.nodes, conf |-> cr.conf, pars |-> v, kids |-> w, risk |-> cr.risk,
               index |-> cr.index, cached |-> cr.cached, pool |-> cr.pool, strayed |-> cr.strayed]
    BY <1>2, <2>1
  <2>2. RbfTyped(cr') /\ cr'.nodes = cr.nodes /\ cr'.conf = cr.conf /\ cr'.index = cr.index
        /\ cr'.pool \subseteq cr.pool /\ cr'.strayed = cr.strayed
    BY <1>1, <2>3 DEF RbfTyped
  <2> QED
    BY <2>2, OnlyPoolShrinks
<1> QED
  BY <1>3, <1>4, <1>5, <1>6, <1>7, <1>8, <1>9 DEF CrNext

(* Replacement by fee, after any calls: every node is filed under each of  *)
(* its keys and nothing else is, two nodes with a key in common know each  *)
(* other, and, until a cascade takes a pooled transaction out of the graph *)
(* alone, no two pooled transactions have a key in common.                 *)
THEOREM RivalsAlwaysKnown == RbfSpec => []RivalsKnown
<1>1. CrInit => RbfInv
  <2> SUFFICES ASSUME CrInit PROVE RbfSound(cr)
    BY DEF RbfInv
  <2>1. cr.nodes = {} /\ cr.pool = {} /\ cr.index = [k \in Keys |-> <<>>] /\ cr.strayed = FALSE
    BY DEF CrInit, NewConflictGraph
  <2>2. RbfTyped(cr)
    BY DEF CrInit, NewConflictGraph, RbfTyped
  <2>3. ToSet(<<>>) = {}
    BY DEF ToSet
  <2> QED
    BY <2>1, <2>2, <2>3 DEF RbfSound, FiledUnderKeys, MutualIn, RivalFree
<1>2. RbfInv /\ [CrNext]_cr => RbfInv'
  BY RbfStep
<1>3. RbfInv => RivalsKnown
  BY DEF RbfInv, RbfSound, FiledUnderKeys, MutualIn, RivalFree, RivalsKnown, IndexMatchesNodes, ConflictsMutual, PooledRivalFree
<1> QED
  BY <1>1, <1>2, <1>3, PTL DEF RbfSpec

-----------------------------------------------------------------------------
(* The tracker of ancestors *)
TrackerSpec == TrInit /\ [][TrNext]_tr

TrackShape(g) ==
  /\ DOMAIN g = {"keys", "parents", "children", "anc", "desc", "status", "vanc", "depth", "invalid", "cache", "stuck"}
  /\ DOMAIN g.anc = Tx /\ DOMAIN g.desc = Tx /\ DOMAIN g.status = Tx
  /\ \A a \in Tx : g.desc[a] \subseteq Tx

\* the two maps mirror each other, and only a validated transaction has ancestors in them, never itself
Mirrored(g) == \A a, t \in Tx : a \in g.anc[t] <=> t \in g.desc[a]
OnlyValidated(g) == \A t \in Tx : (t \notin Validated(g) => g.anc[t] = {}) /\ t \notin g.anc[t]

\* what is ready has been resolved over validated ancestors, and stays over these
ReadyOver(g) == \A t \in Tx : g.status[t] = "ready" => \A a \in g.anc[t] : a \in Validated(g) /\ g.status[a] # "invalid"

TrackInv(g) == TrackShape(g) /\ Mirrored(g) /\ OnlyValidated(g) /\ ReadyOver(g)

\* what a call may leave alone
SameTrack(g, h) == DOMAIN h = DOMAIN g /\ h.anc = g.anc /\ h.desc = g.desc /\ h.status = g.status

LEMMA TrackFrame ==
  ASSUME NEW g, NEW h, TrackInv(g), SameTrack(g, h)
  PROVE  TrackInv(h)
<1>1. Validated(h) = Validated(g)
  BY DEF SameTrack, Validated
<1>2. TrackShape(h) /\ Mirrored(h)
  BY DEF TrackInv, TrackShape, Mirrored, SameTrack
<1>3. OnlyValidated(h) /\ ReadyOver(h)
  BY <1>1 DEF TrackInv, OnlyValidated, ReadyOver, SameTrack
<1> QED
  BY <1>2, <1>3 DEF TrackInv

LEMMA NewTrackerSound == TrackInv(NewTracker)
<1>1. TrackShape(NewTracker)
  BY DEF TrackShape, NewTracker
<1>2. \A t \in Tx : NewTracker.anc[t] = {} /\ NewTracker.desc[t] = {} /\ NewTracker.status[t] = "none"
  BY DEF NewTracker
<1>3. Mirrored(NewTracker) /\ OnlyValidated(NewTracker) /\ ReadyOver(NewTracker)
  BY <1>2 DEF Mirrored, OnlyValidated, ReadyOver
<1> QED
  BY <1>1, <1>3 DEF TrackInv

LEMMA RegisteredSound ==
  ASSUME NEW g, TrackInv(g), NEW t \in Tx, NEW direct
  PROVE  TrackInv(Registered(g, t, direct))
<1> DEFINE stored == [g EXCEPT !.keys = @ \union {t}, !.parents[t] = direct]
           all == BuildAncestors(stored, direct)
           level == 1 + Max({0} \union {g.depth[a] : a \in all \intersect Validated(g)})
           status == ValidateAncestors(stored, all)
           h == [stored EXCEPT
                   !.anc[t] = all,
                   !.desc = [a \in Tx |-> IF a \in all THEN @[a] \union {t} ELSE @[a]],
                   !.children = [p \in Tx |-> IF p \in direct THEN @[p] \union {t} ELSE @[p]],
                   !.status[t] = status,
                   !.vanc[t] = all,
                   !.depth[t] = level]
<1>1. Registered(g, t, direct) = IF t \in Validated(g) THEN g
                                 ELSE IF t \in all \/ Cardinality(all) > MaxAncestry THEN stored ELSE h
  BY DEF Registered
<1>2. SameTrack(g, stored)
  BY DEF TrackInv, TrackShape, SameTrack
<1>3. TrackInv(stored) /\ Validated(stored) = Validated(g)
  BY <1>2, TrackFrame DEF SameTrack, Validated
<1>4. ASSUME t \notin Validated(g), t \notin all PROVE TrackInv(h)
  <2> HIDE DEF stored, all, level, status
  <2>1. /\ DOMAIN h = DOMAIN g /\ h.anc = [g.anc EXCEPT ![t] = all] /\ h.status = [g.status EXCEPT ![t] = status]
        /\ h.desc = [a \in Tx |-> IF a \in all THEN g.desc[a] \union {t} ELSE g.desc[a]]
    BY <1>2 DEF TrackInv, TrackShape, SameTrack
  <2> HIDE DEF h
  <2>2. /\ h.anc[t] = all /\ h.status[t] = status
        /\ \A u \in Tx : u # t => h.anc[u] = g.anc[u] /\ h.status[u] = g.status[u]
    BY <2>1 DEF TrackInv, TrackShape
  <2>3. status \in {"invalid", "ready", "unresolved"}
    BY DEF status, ValidateAncestors
  <2>4. Validated(h) = Validated(g) \union {t}
    BY <2>2, <2>3 DEF Validated
  <2>5. TrackShape(h)
    BY <2>1 DEF TrackInv, TrackShape
  <2>6. Mirrored(h)
    <3> SUFFICES ASSUME NEW a \in Tx, NEW u \in Tx PROVE a \in h.anc[u] <=> u \in h.desc[a]
      BY DEF Mirrored
    <3>1. a \in g.anc[u] <=> u \in g.desc[a]
      BY DEF TrackInv, Mirrored
    <3>2. h.desc[a] = IF a \in all THEN g.desc[a] \union {t} ELSE g.desc[a]
      BY <2>1
    <3>3. CASE u = t
      <4>1. g.anc[t] = {}
        BY <1>4 DEF TrackInv, OnlyValidated
      <4> QED
        BY <2>2, <3>1, <3>2, <3>3, <4>1
    <3>4. CASE u # t
      BY <2>2, <3>1, <3>2, <3>4
    <3> QED
      BY <3>3, <3>4
  <2>7. OnlyValidated(h)
    BY <1>4, <2>2, <2>4 DEF TrackInv, OnlyValidated
  <2>8. ReadyOver(h)
    <3> SUFFICES ASSUME NEW u \in Tx, h.status[u] = "ready", NEW a \in h.anc[u]
                 PROVE  a \in Validated(h) /\ h.status[a] # "invalid"
      BY DEF ReadyOver
    <3>1. CASE u = t
      <4>1. status = "ready" /\ a \in all
        BY <2>2, <3>1
      <4>2. a \in Validated(stored) /\ stored.status[a] # "invalid"
        BY <4>1 DEF status, ValidateAncestors
      <4>3. a \in Validated(g) /\ a \in Tx /\ a # t /\ g.status[a] # "invalid"
        BY <1>2, <1>3, <1>4, <4>1, <4>2 DEF SameTrack, Validated
      <4> QED
        BY <2>2, <2>4, <4>3
    <3>2. CASE u # t
      <4>1. a \in Validated(g) /\ g.status[a] # "invalid" /\ a \in Tx /\ a # t
        BY <1>4, <2>2, <3>2 DEF TrackInv, ReadyOver, Validated
      <4> QED
        BY <2>2, <2>4, <4>1
    <3> QED
      BY <3>1, <3>2
  <2> QED
    BY <2>5, <2>6, <2>7, <2>8 DEF TrackInv
<1> HIDE DEF stored, all, h
<1> QED
  BY <1>1, <1>3, <1>4

\* the sets that a search goes through grow until one stays, within as many turns as there are transactions:
\* the last is closed under the links
LEMMA WalkCloses ==
  ASSUME NEW link, NEW t \in Tx, \A x \in Tx : link[x] \subseteq Tx, IsFiniteSet(Tx), NEW f,
         f[0] = {t}, \A i \in 1 .. Cardinality(Tx) : f[i] = f[i - 1] \union UNION {link[x] : x \in f[i - 1]}
  PROVE  /\ t \in f[Cardinality(Tx)] /\ f[Cardinality(Tx)] \subseteq Tx
         /\ \A x \in f[Cardinality(Tx)] : link[x] \subseteq f[Cardinality(Tx)]
<1> DEFINE n == Cardinality(Tx)
<1>1. n \in Nat
  BY FS_CardinalityType
<1> HIDE DEF n
<1>2. ASSUME NEW i \in 0 .. n - 1 PROVE f[i + 1] = f[i] \union UNION {link[x] : x \in f[i]}
  <2>1. i + 1 \in 1 .. n /\ (i + 1) - 1 = i
    BY <1>1
  <2> QED
    BY <2>1 DEF n
<1> DEFINE Closed(s) == \A x \in s : link[x] \subseteq s
           G == {i \in 0 .. n : t \in f[i] /\ f[i] \subseteq Tx}
           H == {i \in 0 .. n : Closed(f[i]) \/ Cardinality(f[i]) > i}
<1>3. 0 \in G
  BY <1>1
<1>4. ASSUME NEW i \in 0 .. n - 1, i \in G PROVE i + 1 \in G
  <2>1. i + 1 \in 0 .. n
    BY <1>1
  <2> QED
    BY <1>2, <1>4, <2>1
<1>5. \A i \in 0 .. n : i \in G
  <2> HIDE DEF G
  <2> QED
    BY <1>1, <1>3, <1>4, UpTo
<1>6. 0 \in H
  <2>1. Cardinality({t}) = 1
    BY FS_Singleton
  <2>2. Cardinality(f[0]) > 0
    BY <2>1
  <2> HIDE DEF Closed
  <2> QED
    BY <1>1, <2>2
<1>7. ASSUME NEW i \in 0 .. n - 1, i \in H PROVE i + 1 \in H
  <2>1. i + 1 \in 0 .. n /\ i \in 0 .. n
    BY <1>1
  <2>2. CASE Closed(f[i])
    <3>1. \A y \in f[i + 1] : y \in f[i]
      BY <1>2, <2>2
    <3>2. f[i] \subseteq f[i + 1]
      BY <1>2
    <3>3. f[i + 1] = f[i]
      BY <3>1, <3>2, Zenon
    <3>4. Closed(f[i + 1])
      BY <2>2, <3>3
    <3> HIDE DEF Closed
    <3> QED
      BY <2>1, <3>4
  <2>3. CASE ~Closed(f[i])
    <3>1. PICK x \in f[i] : ~(link[x] \subseteq f[i])
      BY <2>3
    <3>2. PICK y \in link[x] : y \notin f[i]
      BY <3>1
    <3>3. f[i] \union {y} \subseteq f[i + 1]
      BY <1>2, <3>1, <3>2
    <3>4. f[i] \subseteq Tx /\ f[i + 1] \subseteq Tx
      BY <1>5, <2>1
    <3>5. IsFiniteSet(f[i]) /\ IsFiniteSet(f[i + 1])
      BY <3>4, FS_Subset
    <3>6. Cardinality(f[i] \union {y}) = Cardinality(f[i]) + 1
      BY <3>2, <3>5, FS_AddElement
    <3>7. Cardinality(f[i] \union {y}) <= Cardinality(f[i + 1])
      BY <3>3, <3>5, FS_Subset
    <3>8. Cardinality(f[i]) \in Nat /\ Cardinality(f[i + 1]) \in Nat
      BY <3>5, FS_CardinalityType
    <3>9. Cardinality(f[i]) > i
      BY <1>7, <2>3
    <3>10. Cardinality(f[i + 1]) > i + 1
      BY <3>6, <3>7, <3>8, <3>9
    <3> HIDE DEF Closed
    <3> QED
      BY <2>1, <3>10
  <2> QED
    BY <2>2, <2>3
<1>8. n \in H /\ n \in G
  <2> HIDE DEF H, G
  <2>1. n \in 0 .. n
    BY <1>1
  <2> QED
    BY <1>1, <1>5, <1>6, <1>7, <2>1, UpTo
<1>9. Closed(f[n])
  <2>1. Cardinality(f[n]) <= n
    BY <1>8, FS_Subset DEF n
  <2>2. IsFiniteSet(f[n]) /\ Cardinality(f[n]) \in Nat
    BY <1>8, FS_Subset, FS_CardinalityType
  <2>3. Closed(f[n]) \/ Cardinality(f[n]) > n
    BY <1>8
  <2> HIDE DEF Closed
  <2> QED
    BY <1>1, <2>1, <2>2, <2>3
<1> QED
  BY <1>8, <1>9 DEF n

LEMMA AffectedCloses ==
  ASSUME NEW g, TrackShape(g), NEW t \in Tx
  PROVE  Affected(g, t) \subseteq Tx /\ t \in Affected(g, t) /\ \A x \in Affected(g, t) : g.desc[x] \subseteq Affected(g, t)
<1> DEFINE n == Cardinality(Tx)
           q == [i \in 1 .. n |-> i]
           IsDown(f) == f = [i \in 0 .. n |-> IF i = 0 THEN {t}
                                             ELSE LET d == f[i - 1] IN d \union UNION {g.desc[x] : x \in d}]
<1>1. n \in Nat
  BY TrackerAssumption, FS_CardinalityType
<1>2. Len(q) = n /\ DOMAIN q = 1 .. n /\ Len(q) \in Nat
  <2> HIDE DEF n
  <2> QED
    BY <1>1
<1> HIDE DEF q, n
<1>3. \E f : IsDown(f)
  <2>1. PICK f : Walking!IsTrace(g.desc, f, {t}, q)
    BY <1>2, Leasts, Walking!FoldTrace, Zenon
  <2>2. IsDown(f)
    BY <1>2, <2>1, Zenon DEF Walking!IsTrace
  <2> QED
    BY <2>2, Zenon
<1> DEFINE f == CHOOSE f : IsDown(f)
<1>4. IsDown(f)
  BY <1>3, Zenon
<1>5. Affected(g, t) = f[n]
  BY Zenon DEF Affected, n
<1> HIDE DEF f
<1>6. 0 \in 0 .. n /\ \A i \in 1 .. n : i \in 0 .. n /\ i # 0
  BY <1>1
<1>7. f[0] = {t} /\ \A i \in 1 .. n : f[i] = f[i - 1] \union UNION {g.desc[x] : x \in f[i - 1]}
  BY <1>4, <1>6, Zenon
<1>8. \A x \in Tx : g.desc[x] \subseteq Tx
  BY DEF TrackShape
<1>9. t \in f[n] /\ f[n] \subseteq Tx /\ \A x \in f[n] : g.desc[x] \subseteq f[n]
  BY <1>7, <1>8, TrackerAssumption, WalkCloses DEF n
<1> QED
  BY <1>5, <1>9

\* what is ready and not affected has no affected ancestor: it would be a descendant of it
LEMMA InvalidatedSound ==
  ASSUME NEW g, TrackInv(g), NEW t \in Tx
  PROVE  TrackInv(Invalidated(g, t))
<1> DEFINE hit == Affected(g, t)
           h == [g EXCEPT !.invalid = @ \union hit,
                          !.status = [x \in Tx |-> IF x \in hit \intersect Validated(g) THEN "invalid" ELSE @[x]]]
<1>1. Invalidated(g, t) = h
  BY DEF Invalidated
<1>2. \A x \in hit : g.desc[x] \subseteq hit
  BY AffectedCloses DEF TrackInv
<1> HIDE DEF hit
<1>3. /\ DOMAIN h = DOMAIN g /\ h.anc = g.anc /\ h.desc = g.desc
      /\ h.status = [x \in Tx |-> IF x \in hit \intersect Validated(g) THEN "invalid" ELSE g.status[x]]
  BY DEF TrackInv, TrackShape
<1> HIDE DEF h
<1>4. Validated(h) = Validated(g)
  BY <1>3 DEF Validated
<1>5. TrackShape(h) /\ Mirrored(h)
  BY <1>3 DEF TrackInv, TrackShape, Mirrored
<1>6. OnlyValidated(h)
  BY <1>3, <1>4 DEF TrackInv, OnlyValidated
<1>7. ReadyOver(h)
  <2> SUFFICES ASSUME NEW u \in Tx, h.status[u] = "ready", NEW a \in h.anc[u]
               PROVE  a \in Validated(h) /\ h.status[a] # "invalid"
    BY DEF ReadyOver
  <2>1. g.status[u] = "ready" /\ u \notin hit \intersect Validated(g) /\ u \in Validated(g)
    BY <1>3 DEF Validated
  <2>2. a \in Validated(g) /\ g.status[a] # "invalid" /\ a \in Tx
    BY <1>3, <2>1 DEF TrackInv, ReadyOver, Validated
  <2>3. u \in g.desc[a]
    BY <1>3, <2>2 DEF TrackInv, Mirrored
  <2>4. a \notin hit
    BY <1>2, <2>1, <2>3
  <2> QED
    BY <1>3, <1>4, <2>2, <2>4
<1> QED
  BY <1>1, <1>5, <1>6, <1>7 DEF TrackInv

LEMMA RemovedSound ==
  ASSUME NEW g, TrackInv(g), NEW t \in Tx
  PROVE  TrackInv(RemovedFrom(g, t))
<1> DEFINE h == RemovedFrom(g, t)
<1>1. /\ DOMAIN h = DOMAIN g
      /\ h.anc = [x \in Tx |-> IF x = t THEN {} ELSE IF x \in g.desc[t] THEN g.anc[x] \ {t} ELSE g.anc[x]]
      /\ h.desc = [x \in Tx |-> IF x = t THEN {} ELSE IF x \in g.anc[t] THEN g.desc[x] \ {t} ELSE g.desc[x]]
      /\ h.status = [g.status EXCEPT ![t] = "none"]
  BY DEF RemovedFrom, TrackInv, TrackShape
<1> HIDE DEF h
<1>2. h.status[t] = "none" /\ \A u \in Tx : u # t => h.status[u] = g.status[u]
  BY <1>1 DEF TrackInv, TrackShape
<1>3. Validated(h) = Validated(g) \ {t}
  BY <1>2 DEF Validated
<1>4. TrackShape(h)
  BY <1>1 DEF TrackInv, TrackShape
<1>5. \A u \in Tx : t \notin h.anc[u] /\ h.anc[u] \subseteq g.anc[u]
  BY <1>1 DEF TrackInv, Mirrored
<1>6. Mirrored(h)
  <2> SUFFICES ASSUME NEW a \in Tx, NEW u \in Tx PROVE a \in h.anc[u] <=> u \in h.desc[a]
    BY DEF Mirrored
  <2>1. /\ a \in g.anc[u] <=> u \in g.desc[a]
        /\ a \in g.anc[t] <=> t \in g.desc[a]
        /\ t \in g.anc[u] <=> u \in g.desc[t]
    BY DEF TrackInv, Mirrored
  <2> QED
    BY <1>1, <2>1
<1>7. OnlyValidated(h)
  <2> SUFFICES ASSUME NEW u \in Tx PROVE (u \notin Validated(h) => h.anc[u] = {}) /\ u \notin h.anc[u]
    BY DEF OnlyValidated
  <2>1. u \notin Validated(h) => u = t \/ g.anc[u] = {}
    BY <1>3 DEF TrackInv, OnlyValidated
  <2>2. h.anc[t] = {}
    BY <1>1
  <2> QED
    BY <1>5, <2>1, <2>2 DEF TrackInv, OnlyValidated
<1>8. ReadyOver(h)
  <2> SUFFICES ASSUME NEW u \in Tx, h.status[u] = "ready", NEW a \in h.anc[u]
               PROVE  a \in Validated(h) /\ h.status[a] # "invalid"
    BY DEF ReadyOver
  <2>1. g.status[u] = "ready" /\ a \in g.anc[u] /\ a # t
    BY <1>2, <1>5
  <2>2. a \in Validated(g) /\ g.status[a] # "invalid" /\ a \in Tx
    BY <2>1 DEF TrackInv, ReadyOver, Validated
  <2> QED
    BY <1>2, <1>3, <2>1, <2>2
<1> QED
  BY <1>4, <1>6, <1>7, <1>8 DEF TrackInv, h

LEMMA HangSound ==
  ASSUME NEW g, TrackInv(g), NEW t \in Tx, NEW h \in ResolveHang(g, t)
  PROVE  TrackInv(h)
<1>1. SameTrack(g, h)
  BY DEF ResolveHang, SameTrack, TrackInv, TrackShape
<1> QED
  BY <1>1, TrackFrame

\* In every execution of the tracker, for any inputs of any transactions: the map of the ancestors and the map
\* of the descendants are each other's inverse, no transaction is its own ancestor, and none is ready over an
\* invalid ancestor, through failed registrations, removals, invalidations that cascade and calls that hang.
THEOREM AncestryAlwaysConsistent == TrackerSpec => []AncestryConsistent
<1>1. TrInit => TrackInv(tr)
  BY NewTrackerSound DEF TrInit
<1>2. TrackInv(tr) /\ [TrNext]_tr => TrackInv(tr)'
  <2> SUFFICES ASSUME TrackInv(tr), [TrNext]_tr PROVE TrackInv(tr')
    OBVIOUS
  <2>1. CASE UNCHANGED tr
    BY <2>1
  <2>2. ASSUME NEW t \in Tx, TrackTransaction(t) PROVE TrackInv(tr')
    BY <2>2, RegisteredSound DEF TrackTransaction
  <2>3. ASSUME NEW t \in Tx, CascadeInvalidate(t) PROVE TrackInv(tr')
    BY <2>3, InvalidatedSound DEF CascadeInvalidate
  <2>4. ASSUME NEW t \in Tx, UntrackTransaction(t) PROVE TrackInv(tr')
    <3> DEFINE h == RemovedFrom(tr, t)
    <3>1. TrackInv(h) /\ tr' = [h EXCEPT !.cache[t] = "none"]
      BY <2>4, RemovedSound DEF UntrackTransaction
    <3> HIDE DEF h
    <3>2. SameTrack(h, tr')
      BY <3>1 DEF SameTrack, TrackInv, TrackShape
    <3> QED
      BY <3>1, <3>2, TrackFrame
  <2>5. ASSUME NEW t \in Tx, ResolveDependencyChain(t) PROVE TrackInv(tr')
    BY <2>5, HangSound DEF ResolveDependencyChain
  <2>6. ASSUME NEW t \in Tx, NEW s, RegisterManaged(t, s) PROVE TrackInv(tr')
    <3>1. PICK onChain \in SUBSET Inputs[t] :
            LET g == Registered(tr, t, Inputs[t] \ onChain)
            IN \/ t \notin Validated(g) /\ tr' = g
               \/ ~Resolves(g, t) /\ tr' \in ResolveHang(g, t)
               \/ /\ t \in g.invalid
                  /\ t \in Validated(g)
                  /\ tr' = Invalidated([g EXCEPT !.cache[t] = s], t)
      BY <2>6 DEF RegisterManaged
    <3> DEFINE g == Registered(tr, t, Inputs[t] \ onChain)
               k == [g EXCEPT !.cache[t] = s]
    <3>2. TrackInv(g)
      BY RegisteredSound
    <3>3. tr' = g \/ tr' \in ResolveHang(g, t) \/ tr' = Invalidated(k, t)
      BY <3>1
    <3> HIDE DEF g
    <3>4. SameTrack(g, k)
      BY <3>2 DEF SameTrack, TrackInv, TrackShape
    <3>5. TrackInv(k)
      BY <3>2, <3>4, TrackFrame
    <3> HIDE DEF k
    <3> QED
      BY <3>2, <3>3, <3>5, HangSound, InvalidatedSound
  <2>7. ASSUME NEW t \in Tx, NEW s, UpdateTransactionStatus(t, s) PROVE TrackInv(tr')
    <3>1. SameTrack(tr, tr')
      BY <2>7 DEF UpdateTransactionStatus, SameTrack, TrackInv, TrackShape
    <3> QED
      BY <3>1, TrackFrame
  <2>8. CASE Reset
    BY <2>8, NewTrackerSound DEF Reset
  <2> QED
    BY <2>1, <2>2, <2>3, <2>4, <2>5, <2>6, <2>7, <2>8 DEF TrNext
<1>3. TrackInv(tr) => AncestryConsistent
  <2> SUFFICES ASSUME TrackInv(tr) PROVE AncestryConsistent
    OBVIOUS
  <2>1. AncestryMirrored
    BY DEF TrackInv, Mirrored, AncestryMirrored
  <2>2. NotOwnAncestor
    BY DEF TrackInv, OnlyValidated, NotOwnAncestor
  <2>3. ReadyNotOverInvalid
    BY DEF TrackInv, ReadyOver, ReadyNotOverInvalid
  <2> QED
    BY <2>1, <2>2, <2>3 DEF AncestryConsistent
<1> QED
  BY <1>1, <1>2, <1>3, PTL DEF TrackerSpec

-----------------------------------------------------------------------------
(* Maintenance of the pool *)
Evicting == INSTANCE Folding WITH Step <- LAMBDA a, acc, t : RemoveFrom(acc, t)
Revalidating == INSTANCE Folding WITH Step <- LAMBDA block, acc, t : RevalidateOne(acc, block, t)
Resolving == INSTANCE Folding WITH Step <- LAMBDA a, acc, t : ResolveOrphan(acc, t)
Summing == INSTANCE Folding WITH Step <- LAMBDA f, sum, t : sum + f[t]
Selecting == INSTANCE Folding WITH Step <- LAMBDA c, acc, t : Take(acc, t, c)

MaintenanceSpec == PmInit /\ [][PmNext]_pm

PmShape(g) == /\ DOMAIN g = {"status", "arrival", "orphans", "utxos", "now", "misled"}
              /\ DOMAIN g.status = Tx /\ g.orphans \subseteq Tx /\ g.arrival \in [Tx -> Nat] /\ g.now \in Nat

\* an entry that is not ready, or is misled, or can be spent
ReadyOne(g, t) == g.status[t] = "Validated" /\ t \notin g.misled => Valid(g, t)
PmInv(g) == PmShape(g) /\ \A t \in Tx : ReadyOne(g, t)

\* h differs from g in the entry t alone, which it leaves sound
EntryStep(g, h, t) ==
  /\ PmShape(h) /\ h.utxos = g.utxos /\ ReadyOne(h, t)
  /\ \A u \in Tx : u # t => h.status[u] = g.status[u] /\ (u \in h.misled <=> u \in g.misled)

LEMMA StepOthers ==
  ASSUME NEW g, NEW h, NEW t, EntryStep(g, h, t), NEW u \in Tx, u # t, ReadyOne(g, u)
  PROVE  ReadyOne(h, u)
  BY DEF EntryStep, ReadyOne, Valid

LEMMA StepKeeps ==
  ASSUME NEW g, NEW h, NEW t, PmInv(g), EntryStep(g, h, t)
  PROVE  PmInv(h)
<1>1. ASSUME NEW u \in Tx PROVE ReadyOne(h, u)
  <2>1. CASE u = t
    BY <2>1 DEF EntryStep
  <2>2. CASE u # t
    BY <2>2, StepOthers DEF PmInv
  <2> QED
    BY <2>1, <2>2
<1> QED
  BY <1>1 DEF PmInv, EntryStep

\* what is taken out of the pool is not ready, whoever it is
LEMMA RemoveStep ==
  ASSUME NEW g, PmShape(g), NEW t \in Tx
  PROVE  EntryStep(g, RemoveFrom(g, t), t)
<1> DEFINE h == RemoveFrom(g, t)
<1>1. /\ DOMAIN h = DOMAIN g /\ h.status = [g.status EXCEPT ![t] = "none"] /\ h.orphans = g.orphans \ {t}
      /\ h.utxos = g.utxos /\ h.misled = g.misled \ {t} /\ h.arrival = g.arrival /\ h.now = g.now
  BY DEF PmShape, RemoveFrom
<1> HIDE DEF h
<1>2. h.status[t] = "none" /\ \A u \in Tx : u # t => h.status[u] = g.status[u]
  BY <1>1 DEF PmShape
<1> QED
  BY <1>1, <1>2 DEF EntryStep, PmShape, ReadyOne, h

\* the eviction may name an entry that is not of the pool
LEMMA RemoveKeeps ==
  ASSUME NEW g, PmInv(g), NEW t
  PROVE  PmInv(RemoveFrom(g, t))
<1>1. CASE t \in Tx
  BY <1>1, RemoveStep, StepKeeps DEF PmInv
<1>2. CASE t \notin Tx
  <2> DEFINE h == RemoveFrom(g, t)
  <2>1. /\ DOMAIN h = DOMAIN g /\ h.status = [g.status EXCEPT ![t] = "none"] /\ h.orphans \subseteq g.orphans
        /\ h.utxos = g.utxos /\ h.misled = g.misled \ {t} /\ h.arrival = g.arrival /\ h.now = g.now
    BY <1>2 DEF PmInv, PmShape, RemoveFrom
  <2> HIDE DEF h
  <2>2. DOMAIN h.status = Tx /\ \A u \in Tx : h.status[u] = g.status[u]
    BY <1>2, <2>1 DEF PmInv, PmShape
  <2>3. \A u \in Tx : ReadyOne(h, u)
    BY <1>2, <2>1, <2>2 DEF PmInv, ReadyOne, Valid
  <2> QED
    BY <2>1, <2>2, <2>3 DEF PmInv, PmShape, h
<1> QED
  BY <1>1, <1>2

\* a change of status that makes nothing ready unless it can be spent
LEMMA StatusStep ==
  ASSUME NEW g, PmShape(g), NEW t \in Tx, NEW to, to = "Validated" => Valid(g, t), CanBecome(g.status[t], to)
  PROVE  EntryStep(g, SetStatus(g, t, to), t)
<1> DEFINE h == SetStatus(g, t, to)
<1>1. /\ DOMAIN h = DOMAIN g /\ h.status = [g.status EXCEPT ![t] = to] /\ h.orphans \subseteq g.orphans \union {t}
      /\ h.utxos = g.utxos /\ h.misled = g.misled \ {t} /\ h.arrival = g.arrival /\ h.now = g.now
  BY DEF PmShape, SetStatus
<1> HIDE DEF h
<1>2. h.status[t] = to /\ \A u \in Tx : u # t => h.status[u] = g.status[u]
  BY <1>1 DEF PmShape
<1> QED
  BY <1>1, <1>2 DEF EntryStep, PmShape, ReadyOne, Valid, h

LEMMA StatusKeeps ==
  ASSUME NEW g, PmInv(g), NEW t \in Tx, NEW to, to = "Validated" => Valid(g, t)
  PROVE  PmInv(SetStatus(g, t, to))
<1>1. CASE CanBecome(g.status[t], to)
  BY <1>1, StatusStep, StepKeeps DEF PmInv
<1>2. CASE ~CanBecome(g.status[t], to)
  BY <1>2 DEF SetStatus
<1> QED
  BY <1>1, <1>2

\* An affected entry is sound once the loop has been at it: mined, still spendable, marked
\* as misled, or out of the pool.
LEMMA RevalidateStep ==
  ASSUME NEW g, PmShape(g), NEW block, NEW t \in Tx
  PROVE  EntryStep(g, RevalidateOne(g, block, t), t)
<1>1. CASE t \in block
  <2>1. RevalidateOne(g, block, t) = SetStatus(g, t, "InBlock")
    BY <1>1 DEF RevalidateOne
  <2>2. CASE CanBecome(g.status[t], "InBlock")
    BY <2>1, <2>2, StatusStep
  <2>3. CASE ~CanBecome(g.status[t], "InBlock")
    <3>1. RevalidateOne(g, block, t) = g /\ g.status[t] # "Validated"
      BY <2>1, <2>3 DEF SetStatus, CanBecome
    <3> QED
      BY <3>1 DEF EntryStep, ReadyOne
  <2> QED
    BY <2>2, <2>3
<1>2. CASE t \notin block /\ Valid(g, t)
  <2>1. RevalidateOne(g, block, t) = g
    BY <1>2 DEF RevalidateOne
  <2> QED
    BY <1>2, <2>1 DEF EntryStep, ReadyOne
<1>3. CASE t \notin block /\ ~Valid(g, t) /\ g.status[t] = "InOrphanPool"
  <2> DEFINE h == [g EXCEPT !.status[t] = "Validated", !.misled = (@ \ {t}) \union {t}]
             s == SetStatus(g, t, "Validated")
  <2>1. RevalidateOne(g, block, t) = [s EXCEPT !.misled = @ \union {t}]
    BY <1>3 DEF RevalidateOne
  <2>2. /\ DOMAIN s = DOMAIN g /\ s.status = [g.status EXCEPT ![t] = "Validated"] /\ s.orphans = g.orphans
        /\ s.utxos = g.utxos /\ s.misled = g.misled \ {t} /\ s.arrival = g.arrival /\ s.now = g.now
    BY <1>3 DEF PmShape, SetStatus, CanBecome
  <2> HIDE DEF s
  <2> DEFINE r == [s EXCEPT !.misled = @ \union {t}]
  <2>3. /\ DOMAIN r = DOMAIN g /\ r.status = [g.status EXCEPT ![t] = "Validated"] /\ r.orphans = g.orphans
        /\ r.utxos = g.utxos /\ r.misled = (g.misled \ {t}) \union {t} /\ r.arrival = g.arrival /\ r.now = g.now
    BY <2>2 DEF PmShape
  <2> HIDE DEF r
  <2>4. EntryStep(g, r, t)
    BY <2>3 DEF EntryStep, PmShape, ReadyOne
  <2> QED
    BY <2>1, <2>4 DEF r
<1>4. CASE t \notin block /\ ~Valid(g, t) /\ g.status[t] # "InOrphanPool"
  <2>1. RevalidateOne(g, block, t) = RemoveFrom(g, t)
    BY <1>4 DEF RevalidateOne
  <2> QED
    BY <2>1, RemoveStep
<1> QED
  BY <1>1, <1>2, <1>3, <1>4

\* a list of a finite set names each of its elements
LEMMA ListsAll ==
  ASSUME NEW S, IsFiniteSet(S)
  PROVE  LET q == SetToSeq(S)
         IN  /\ Len(q) \in Nat /\ DOMAIN q = 1 .. Len(q)
             /\ \A i \in 1 .. Len(q) : q[i] \in S
             /\ \A x \in S : \E i \in 1 .. Len(q) : q[i] = x
<1> DEFINE n == Cardinality(S)
           q == SetToSeq(S)
<1>1. n \in Nat /\ ExistsBijection(1 .. n, S)
  BY FS_CardinalityType
<1>2. PICK f \in [1 .. n -> S] : IsInjective(f)
  BY <1>1 DEF ExistsBijection, Bijection, Injection, IsInjective
<1>3. q \in [1 .. n -> S] /\ IsInjective(q)
  BY <1>2 DEF SetToSeq
<1> HIDE DEF n, q
<1>4. Len(q) = n /\ DOMAIN q = 1 .. n
  BY <1>1, <1>3
<1>5. Cardinality(1 .. n) = n
  BY <1>1, FS_Interval
<1>6. q \in Injection(1 .. n, S)
  BY <1>3 DEF Injection, IsInjective
<1>7. q \in Surjection(1 .. n, S)
  BY <1>5, <1>6, FS_Injection DEF n
<1>8. \A x \in S : \E i \in 1 .. n : q[i] = x
  BY <1>7 DEF Surjection
<1> QED
  BY <1>1, <1>3, <1>4, <1>8 DEF q

\* the orders of a set list each of its elements once
LEMMA OrderLists ==
  ASSUME NEW S \in SUBSET Tx, NEW order \in SetToSeqs(S)
  PROVE  /\ Len(order) \in Nat /\ DOMAIN order = 1 .. Len(order) /\ order \in Seq(S)
         /\ \A i \in 1 .. Len(order) : order[i] \in S
         /\ \A x \in S : \E i \in 1 .. Len(order) : order[i] = x
         /\ \A i, j \in 1 .. Len(order) : i # j => order[i] # order[j]
<1> DEFINE n == Cardinality(S)
<1>1. IsFiniteSet(S) /\ n \in Nat
  BY MaintenanceAssumption, FS_Subset, FS_CardinalityType
<1>2. order \in [1 .. n -> S] /\ \A i, j \in 1 .. n : i # j => order[i] # order[j]
  BY DEF SetToSeqs
<1>3. Cardinality(1 .. n) = n
  BY <1>1, FS_Interval
<1>4. order \in Injection(1 .. n, S)
  BY <1>2 DEF Injection, IsInjective
<1>5. order \in Surjection(1 .. n, S)
  BY <1>1, <1>3, <1>4, FS_Injection
<1> HIDE DEF n
<1>6. Len(order) = n /\ DOMAIN order = 1 .. n /\ order \in Seq(S)
  BY <1>1, <1>2
<1>7. \A x \in S : \E i \in 1 .. n : order[i] = x
  BY <1>5 DEF Surjection
<1> QED
  BY <1>1, <1>2, <1>6, <1>7

LEMMA LesserOfTwo ==
  ASSUME NEW a \in Nat, NEW b \in Nat
  PROVE  Min({a, b}) \in {a, b} /\ Min({a, b}) <= a /\ Min({a, b}) <= b
<1>1. \E x \in {a, b} : \A y \in {a, b} : x <= y
  OBVIOUS
<1>2. Min({a, b}) \in {a, b} /\ \A y \in {a, b} : Min({a, b}) <= y
  BY <1>1, Zenon DEF Min
<1> QED
  BY <1>2

LEMMA BatchesCount == Batches \subseteq Nat
  BY MaintenanceAssumption DEF Batches

LEMMA EvictionKeeps ==
  ASSUME NEW g, PmInv(g), NEW order \in EvictionOrders(g), NEW batch \in Nat
  PROVE  PmInv(AfterEviction(g, order, batch))
<1> DEFINE k == Min({batch, Len(order)})
           q == SubSeq(order, 1, k)
<1>1. k \in Nat
  <2>1. Candidates(g) \in SUBSET Tx /\ order \in SetToSeqs(Candidates(g))
    BY DEF Candidates, EvictionOrders, OrdersBy
  <2>2. Len(order) \in Nat
    BY <2>1, OrderLists
  <2> QED
    BY <2>2, LesserOfTwo
<1> HIDE DEF k
<1>2. Len(q) = k /\ DOMAIN q = 1 .. k
  BY <1>1
<1> HIDE DEF q
<1>3. FoldLeft(RemoveFrom, g, q) = Evicting!Fold(0, g, q)
  BY Zenon DEF FoldLeft, MapThenFoldSet, Max, Evicting!Fold, Evicting!IsIter, Evicting!Latest
<1>4. PICK f : Evicting!IsTrace(0, f, g, q) /\ Evicting!Fold(0, g, q) = f[Len(q)]
  BY <1>1, <1>2, Leasts, Evicting!FoldTrace, Zenon
<1>5. f[0] = g /\ \A i \in 1 .. k : f[i] = RemoveFrom(f[i - 1], q[i])
  BY <1>1, <1>2, <1>4, Evicting!TraceStep
<1> DEFINE G == {i \in 0 .. k : PmInv(f[i])}
<1>6. 0 \in G
  BY <1>1, <1>5
<1>7. ASSUME NEW i \in 0 .. k - 1, i \in G PROVE i + 1 \in G
  <2>1. i + 1 \in 1 .. k /\ (i + 1) - 1 = i
    BY <1>1
  <2>2. f[i + 1] = RemoveFrom(f[i], q[i + 1])
    BY <1>5, <2>1
  <2>3. PmInv(RemoveFrom(f[i], q[i + 1]))
    BY <1>7, RemoveKeeps
  <2> QED
    BY <1>1, <2>1, <2>2, <2>3
<1> HIDE DEF G
<1>8. k \in G
  <2>1. \A i \in 0 .. k : i \in G
    BY <1>1, <1>6, <1>7, UpTo
  <2> QED
    BY <1>1, <2>1
<1>9. PmInv(FoldLeft(RemoveFrom, g, q))
  BY <1>2, <1>3, <1>4, <1>8 DEF G
<1> QED
  BY <1>9 DEF AfterEviction, q, k

\* The first loop: what the block took the inputs of and the loop has not come to yet is
\* still ahead of it.
LEMMA RevalidatesAll ==
  ASSUME NEW g, PmShape(g), NEW block, NEW S \in SUBSET Tx,
         \A t \in Tx : t \notin S => ReadyOne(g, t)
  PROVE  PmInv(RevalidateAll(g, block, SetToSeq(S)))
<1> DEFINE q == SetToSeq(S)
           n == Len(q)
<1>1. IsFiniteSet(S)
  BY MaintenanceAssumption, FS_Subset
<1>2. /\ n \in Nat /\ DOMAIN q = 1 .. n
      /\ \A i \in 1 .. n : q[i] \in S
      /\ \A x \in S : \E i \in 1 .. n : q[i] = x
  BY <1>1, ListsAll
<1> HIDE DEF q
<1>3. RevalidateAll(g, block, q) = Revalidating!Fold(block, g, q)
  BY Zenon DEF RevalidateAll, FoldLeft, MapThenFoldSet, Max, Revalidating!Fold, Revalidating!IsIter, Revalidating!Latest
<1>4. PICK f : Revalidating!IsTrace(block, f, g, q) /\ Revalidating!Fold(block, g, q) = f[n]
  <2>1. Len(q) \in Nat /\ DOMAIN q = 1 .. Len(q)
    BY <1>2
  <2> QED
    BY <2>1, Leasts, Revalidating!FoldTrace, Zenon
<1>5. f[0] = g /\ \A i \in 1 .. n : f[i] = RevalidateOne(f[i - 1], block, q[i])
  BY <1>2, <1>4, Revalidating!TraceStep
<1> HIDE DEF n
<1> DEFINE Ahead(i) == {q[j] : j \in (i + 1) .. n}
           G == {i \in 0 .. n : PmShape(f[i]) /\ \A t \in Tx : t \notin Ahead(i) => ReadyOne(f[i], t)}
<1>6. 0 \in G
  <2>1. S \subseteq Ahead(0)
    BY <1>2
  <2> QED
    BY <1>2, <1>5, <2>1
<1>7. ASSUME NEW i \in 0 .. n - 1, i \in G PROVE i + 1 \in G
  <2> DEFINE h == f[i + 1]
             x == q[i + 1]
  <2>1. i + 1 \in 1 .. n /\ (i + 1) - 1 = i /\ i + 1 \in 0 .. n
    BY <1>2
  <2>2. x \in Tx /\ h = RevalidateOne(f[i], block, x)
    BY <1>2, <1>5, <2>1
  <2>3. PmShape(f[i]) /\ \A t \in Tx : t \notin Ahead(i) => ReadyOne(f[i], t)
    BY <1>7
  <2>4. Ahead(i) \subseteq Ahead(i + 1) \union {x}
    BY <1>2, <2>1
  <2> HIDE DEF h, x, Ahead
  <2>5. EntryStep(f[i], h, x)
    BY <2>2, <2>3, RevalidateStep
  <2>6. ASSUME NEW t \in Tx, t \notin Ahead(i + 1) PROVE ReadyOne(h, t)
    <3>1. CASE t = x
      BY <2>5, <3>1 DEF EntryStep
    <3>2. CASE t # x
      <4>1. ReadyOne(f[i], t)
        BY <2>3, <2>4, <2>6, <3>2
      <4> QED
        BY <2>5, <3>2, <4>1, StepOthers
    <3> QED
      BY <3>1, <3>2
  <2>7. PmShape(h)
    BY <2>5 DEF EntryStep
  <2> QED
    BY <2>1, <2>6, <2>7 DEF h
<1>8. n \in G
  <2> HIDE DEF G
  <2>1. \A i \in 0 .. n : i \in G
    BY <1>2, <1>6, <1>7, UpTo
  <2> QED
    BY <1>2, <2>1
<1>9. PmInv(f[n])
  <2>1. Ahead(n) = {}
    BY <1>2
  <2> QED
    BY <1>8, <2>1 DEF PmInv
<1> QED
  BY <1>3, <1>4, <1>9 DEF q

\* the second loop, over the orphans
LEMMA ResolvingKeeps ==
  ASSUME NEW g, PmInv(g)
  PROVE  PmInv(FoldLeft(ResolveOrphan, g, SetToSeq(g.orphans)))
<1> DEFINE q == SetToSeq(g.orphans)
           n == Len(q)
<1>1. IsFiniteSet(g.orphans) /\ g.orphans \subseteq Tx
  BY MaintenanceAssumption, FS_Subset DEF PmInv, PmShape
<1>2. n \in Nat /\ DOMAIN q = 1 .. n /\ \A i \in 1 .. n : q[i] \in Tx
  BY <1>1, ListsAll
<1> HIDE DEF q
<1>3. FoldLeft(ResolveOrphan, g, q) = Resolving!Fold(0, g, q)
  BY Zenon DEF FoldLeft, MapThenFoldSet, Max, Resolving!Fold, Resolving!IsIter, Resolving!Latest
<1>4. PICK f : Resolving!IsTrace(0, f, g, q) /\ Resolving!Fold(0, g, q) = f[n]
  BY <1>2, Leasts, Resolving!FoldTrace, Zenon
<1>5. f[0] = g /\ \A i \in 1 .. n : f[i] = ResolveOrphan(f[i - 1], q[i])
  BY <1>2, <1>4, Resolving!TraceStep
<1> HIDE DEF n
<1> DEFINE G == {i \in 0 .. n : PmInv(f[i])}
<1>6. 0 \in G
  BY <1>2, <1>5
<1>7. ASSUME NEW i \in 0 .. n - 1, i \in G PROVE i + 1 \in G
  <2>1. i + 1 \in 1 .. n /\ (i + 1) - 1 = i
    BY <1>2
  <2>2. f[i + 1] = ResolveOrphan(f[i], q[i + 1]) /\ q[i + 1] \in Tx
    BY <1>2, <1>5, <2>1
  <2>3. PmInv(ResolveOrphan(f[i], q[i + 1]))
    BY <1>7, <2>2, StatusKeeps DEF ResolveOrphan
  <2> QED
    BY <1>2, <2>1, <2>2, <2>3
<1> HIDE DEF G
<1>8. n \in G
  <2>1. \A i \in 0 .. n : i \in G
    BY <1>2, <1>6, <1>7, UpTo
  <2> QED
    BY <1>2, <2>1
<1> QED
  BY <1>3, <1>4, <1>8 DEF G, q

\* A block takes its inputs from the chain: what was ready and names none of them still is.
LEMMA RevalidationKeeps ==
  ASSUME PmInv(pm), NEW block \in SUBSET Tx, RevalidateOnBlock(block)
  PROVE  PmInv(pm')
<1> DEFINE spent == UNION {EntryInputs(t) : t \in block}
           made == UNION {Creates[t] : t \in block}
           store == [pm EXCEPT !.utxos = (@ \ spent) \union made]
           S == AffectedBy(store, spent)
           first == RevalidateAll(store, block, SetToSeq(S))
<1>1. pm' = FoldLeft(ResolveOrphan, first, SetToSeq(first.orphans))
  BY Zenon DEF RevalidateOnBlock, Revalidated
<1> HIDE DEF spent, made
<1>2. /\ DOMAIN store = DOMAIN pm /\ store.status = pm.status /\ store.orphans = pm.orphans
      /\ store.arrival = pm.arrival /\ store.now = pm.now /\ store.misled = pm.misled /\ store.utxos = (pm.utxos \ spent) \union made
  BY DEF PmInv, PmShape
<1> HIDE DEF store
<1>3. PmShape(store)
  BY <1>2 DEF PmInv, PmShape
<1>4. S \in SUBSET Tx
  BY DEF AffectedBy, Pooled
<1>5. ASSUME NEW t \in Tx, t \notin S PROVE ReadyOne(store, t)
  <2>1. CASE store.status[t] = "Validated"
    <3>1. EntryInputs(t) \intersect spent = {}
      BY <1>5, <2>1 DEF AffectedBy, Pooled
    <3>2. ReadyOne(pm, t)
      BY DEF PmInv
    <3> QED
      BY <1>2, <3>1, <3>2 DEF ReadyOne, Valid
  <2>2. CASE store.status[t] # "Validated"
    BY <2>2 DEF ReadyOne
  <2> QED
    BY <2>1, <2>2
<1> HIDE DEF S
<1>6. PmInv(first)
  BY <1>3, <1>4, <1>5, RevalidatesAll
<1> HIDE DEF first
<1> QED
  BY <1>1, <1>6, ResolvingKeeps

\* an arrival, and the clock
LEMMA ArrivalKeeps ==
  ASSUME PmInv(pm), NEW t \in Tx, Arrive(t)
  PROVE  PmInv(pm')
<1>1. /\ DOMAIN pm' = DOMAIN pm /\ pm'.status = [pm.status EXCEPT ![t] = "Pending"] /\ pm'.orphans = pm.orphans
      /\ pm'.utxos = pm.utxos /\ pm'.misled = pm.misled /\ pm'.arrival = [pm.arrival EXCEPT ![t] = pm.now]
      /\ pm'.now = pm.now
  BY DEF Arrive, PmInv, PmShape
<1>2. EntryStep(pm, pm', t)
  BY <1>1 DEF PmInv, PmShape, EntryStep, ReadyOne
<1> QED
  BY <1>2, StepKeeps

LEMMA ClockKeeps ==
  ASSUME PmInv(pm), PmTick
  PROVE  PmInv(pm')
<1>1. /\ DOMAIN pm' = DOMAIN pm /\ pm'.status = pm.status /\ pm'.orphans = pm.orphans
      /\ pm'.utxos = pm.utxos /\ pm'.misled = pm.misled /\ pm'.arrival = pm.arrival /\ pm'.now = pm.now + 1
  BY DEF PmTick, PmInv, PmShape
<1> QED
  BY <1>1 DEF PmInv, PmShape, ReadyOne, Valid

LEMMA PoolAlwaysSound == MaintenanceSpec => []PmInv(pm)
<1>1. PmInit => PmInv(pm)
  BY DEF PmInit, PmInv, PmShape, ReadyOne
<1>2. PmInv(pm) /\ [PmNext]_pm => PmInv(pm)'
  <2> SUFFICES ASSUME PmInv(pm), [PmNext]_pm PROVE PmInv(pm')
    OBVIOUS
  <2>1. ASSUME NEW t \in Tx, Arrive(t) PROVE PmInv(pm')
    BY <2>1, ArrivalKeeps
  <2>2. ASSUME NEW t \in Tx, Validate(t) PROVE PmInv(pm')
    BY <2>2, StatusKeeps DEF Validate
  <2>3. ASSUME NEW t \in Tx, Reject(t) PROVE PmInv(pm')
    BY <2>3, StatusKeeps DEF Reject
  <2>4. ASSUME NEW b \in Batches, EvictLowestPriority(b) PROVE PmInv(pm')
    <3>1. b \in Nat
      BY BatchesCount
    <3> QED
      BY <2>4, <3>1, EvictionKeeps DEF EvictLowestPriority
  <2>5. ASSUME NEW block \in SUBSET Tx \ {{}}, RevalidateOnBlock(block) PROVE PmInv(pm')
    BY <2>5, RevalidationKeeps
  <2>6. CASE PmTick
    BY <2>6, ClockKeeps
  <2>7. CASE UNCHANGED pm
    BY <2>7
  <2> QED
    BY <2>1, <2>2, <2>3, <2>4, <2>5, <2>6, <2>7, Zenon DEF PmNext
<1> QED
  BY <1>1, <1>2, PTL DEF MaintenanceSpec

(* For every set of transactions, chain and batch size, what is ready for  *)
(* a block can be spent on the chain after any arrivals, rejections,       *)
(* evictions and blocks, the orphans misled by a block apart.              *)
THEOREM ReadyAlwaysSpendable == MaintenanceSpec => []ReadyIsSpendable
<1>1. PmInv(pm) => ReadyIsSpendable
  BY DEF PmInv, ReadyOne, ReadyIsSpendable
<1> QED
  BY <1>1, PoolAlwaysSound, PTL

\* a score is a number
LEMMA ScoresCount ==
  ASSUME NEW g, PmShape(g), NEW t \in Tx
  PROVE  EntryScore(g, t) \in Int
<1> DEFINE age == g.now - g.arrival[t]
           gain == Max({1, age})
<1>1. age \in Int
  BY DEF PmShape
<1> HIDE DEF age
<1>2. gain \in Int
  <2>1. \E x \in {1, age} : \A y \in {1, age} : x >= y
    BY <1>1
  <2>2. gain \in {1, age}
    BY <2>1, Zenon DEF Max
  <2> QED
    BY <1>1, <2>2
<1>3. EntryRate(t) \in Int
  BY MaintenanceAssumption DEF EntryRate
<1>4. EntryScore(g, t) = EntryRate(t) * gain
  BY Zenon DEF EntryScore, age
<1> HIDE DEF gain
<1> QED
  BY <1>2, <1>3, <1>4

\* the loop of an eviction takes the first k of its order, and nothing else
LEMMA EvictsPrefix ==
  ASSUME NEW g, PmInv(g), NEW q, NEW k \in Nat, Len(q) = k, DOMAIN q = 1 .. k, \A i \in 1 .. k : q[i] \in Tx
  PROVE  \A u \in Tx : FoldLeft(RemoveFrom, g, q).status[u] = IF \E i \in 1 .. k : q[i] = u THEN "none" ELSE g.status[u]
<1>1. FoldLeft(RemoveFrom, g, q) = Evicting!Fold(0, g, q)
  BY Zenon DEF FoldLeft, MapThenFoldSet, Max, Evicting!Fold, Evicting!IsIter, Evicting!Latest
<1>2. PICK f : Evicting!IsTrace(0, f, g, q) /\ Evicting!Fold(0, g, q) = f[Len(q)]
  BY Leasts, Evicting!FoldTrace, Zenon
<1>3. f[0] = g /\ \A i \in 1 .. k : f[i] = RemoveFrom(f[i - 1], q[i])
  BY <1>2, Evicting!TraceStep
<1> DEFINE Out(i, u) == \E j \in 1 .. i : q[j] = u
           G == {i \in 0 .. k : PmShape(f[i]) /\ \A u \in Tx : f[i].status[u] = IF Out(i, u) THEN "none" ELSE g.status[u]}
<1>4. 0 \in G
  BY <1>3 DEF PmInv
<1>5. ASSUME NEW i \in 0 .. k - 1, i \in G PROVE i + 1 \in G
  <2>1. i + 1 \in 1 .. k /\ (i + 1) - 1 = i /\ i + 1 \in 0 .. k
    OBVIOUS
  <2> DEFINE t == q[i + 1]
  <2>2. f[i + 1] = RemoveFrom(f[i], t) /\ t \in Tx
    BY <1>3, <2>1
  <2>3. PmShape(f[i]) /\ EntryStep(f[i], f[i + 1], t)
    BY <1>5, <2>2, RemoveStep
  <2>4. f[i + 1].status[t] = "none"
    BY <2>2, <2>3 DEF RemoveFrom, PmShape
  <2>5. \A u \in Tx : Out(i + 1, u) <=> (Out(i, u) \/ u = t)
    BY <2>1
  <2>6. ASSUME NEW u \in Tx PROVE f[i + 1].status[u] = IF Out(i + 1, u) THEN "none" ELSE g.status[u]
    <3>1. f[i].status[u] = IF Out(i, u) THEN "none" ELSE g.status[u]
      BY <1>5
    <3> HIDE DEF Out, t
    <3> QED
      BY <2>3, <2>4, <2>5, <3>1 DEF EntryStep
  <2>7. PmShape(f[i + 1])
    BY <2>3 DEF EntryStep
  <2> QED
    BY <2>1, <2>6, <2>7
<1> HIDE DEF G
<1>6. k \in G
  <2>1. \A i \in 0 .. k : i \in G
    BY <1>4, <1>5, UpTo
  <2> QED
    BY <2>1
<1> QED
  BY <1>1, <1>2, <1>6 DEF G

\* what is among the first m of an order comes before what is not
LEMMA InFront ==
  ASSUME NEW S \in SUBSET Tx, NEW order \in SetToSeqs(S), NEW m \in 0 .. Len(order)
  PROVE  LET first == ToSet(SubSeq(order, 1, m))
         IN  /\ first \subseteq S
             /\ \A t \in first, s \in S \ first : \E i, j \in DOMAIN order : i < j /\ order[i] = t /\ order[j] = s
<1> DEFINE n == Len(order)
           p == SubSeq(order, 1, m)
<1>1. /\ n \in Nat /\ DOMAIN order = 1 .. n /\ order \in Seq(S) /\ \A i \in 1 .. n : order[i] \in S
      /\ \A x \in S : \E i \in 1 .. n : order[i] = x
  BY OrderLists
<1>2. m \in Nat /\ DOMAIN p = 1 .. m /\ \A i \in 1 .. m : p[i] = order[i]
  BY <1>1
<1> HIDE DEF p, n
<1>3. ToSet(p) = {order[i] : i \in 1 .. m} /\ m <= n
  BY <1>1, <1>2 DEF ToSet, n
<1>4. ToSet(p) \subseteq S
  BY <1>1, <1>2, <1>3
<1>5. ASSUME NEW t \in ToSet(p), NEW s \in S \ ToSet(p)
      PROVE  \E i, j \in DOMAIN order : i < j /\ order[i] = t /\ order[j] = s
  <2>1. PICK i \in 1 .. m : order[i] = t
    BY <1>3
  <2>2. PICK j \in 1 .. n : order[j] = s
    BY <1>1
  <2>3. j \notin 1 .. m
    BY <1>3, <2>2
  <2>4. i \in 1 .. n /\ i < j
    BY <1>1, <1>2, <1>3, <2>1, <2>2, <2>3
  <2> QED
    BY <1>1, <2>1, <2>2, <2>4
<1> QED
  BY <1>4, <1>5 DEF p

LEMMA EvictsLowest ==
  ASSUME PmInv(pm)
  PROVE  LowestGoFirst
<1> SUFFICES ASSUME NEW order \in EvictionOrders(pm), NEW batch \in Batches,
                    NEW t \in Pooled(pm) \ Pooled(AfterEviction(pm, order, batch)),
                    NEW s \in Candidates(pm) \ (Pooled(pm) \ Pooled(AfterEviction(pm, order, batch)))
             PROVE  t \in Candidates(pm) /\ EntryScore(pm, t) <= EntryScore(pm, s)
  BY Zenon DEF LowestGoFirst
<1> DEFINE m == Min({batch, Len(order)})
           q == SubSeq(order, 1, m)
           S == Candidates(pm)
           h == FoldLeft(RemoveFrom, pm, q)
<1>1. NeedEviction(pm) /\ AfterEviction(pm, order, batch) = h
  BY DEF AfterEviction
<1>2. S \in SUBSET Tx /\ order \in SetToSeqs(S) /\ \A i, j \in DOMAIN order : i < j => ~GoesBefore(pm, order[j], order[i])
  BY DEF Candidates, EvictionOrders, OrdersBy
<1>3. Len(order) \in Nat /\ DOMAIN order = 1 .. Len(order) /\ \A i \in 1 .. Len(order) : order[i] \in S
  BY <1>2, OrderLists
<1>4. m \in 0 .. Len(order)
  <2>1. batch \in Nat
    BY BatchesCount
  <2> QED
    BY <1>3, <2>1, LesserOfTwo
<1>5. t \in Pooled(pm) /\ t \notin Pooled(h) /\ s \in S /\ (s \in Pooled(pm) => s \in Pooled(h))
  BY <1>1
<1>6. t \in Tx /\ s \in Tx
  BY <1>2 DEF Pooled
<1> HIDE DEF S, m
<1>7. m \in Nat /\ Len(q) = m /\ DOMAIN q = 1 .. m /\ \A i \in 1 .. m : q[i] = order[i] /\ q[i] \in Tx
  BY <1>2, <1>3, <1>4
<1> HIDE DEF q
<1>8. \A u \in Tx : h.status[u] = IF \E i \in 1 .. m : q[i] = u THEN "none" ELSE pm.status[u]
  BY <1>7, EvictsPrefix
<1> HIDE DEF h
<1>9. \A u \in Tx : u \in ToSet(q) <=> \E i \in 1 .. m : q[i] = u
  BY <1>7 DEF ToSet
<1>10. t \in ToSet(q)
  BY <1>5, <1>6, <1>8, <1>9 DEF Pooled
<1>11. s \in Pooled(pm)
  BY <1>5, <1>6 DEF S, Candidates, Pooled
<1>12. s \notin ToSet(q)
  BY <1>5, <1>6, <1>8, <1>9, <1>11 DEF Pooled
<1>13. t \in S /\ \E i, j \in DOMAIN order : i < j /\ order[i] = t /\ order[j] = s
  BY <1>2, <1>4, <1>5, <1>10, <1>12, InFront DEF q
<1>14. ~GoesBefore(pm, s, t)
  BY <1>2, <1>13
<1>15. EntryScore(pm, t) \in Int /\ EntryScore(pm, s) \in Int
  BY <1>6, ScoresCount DEF PmInv
<1> QED
  BY <1>13, <1>14, <1>15 DEF GoesBefore, S

-----------------------------------------------------------------------------
(* Selection: the sums over the first entries of an order only grow, so    *)
(* the first that does not fit ends the longest run that does.             *)
LEMMA PrefixSums ==
  ASSUME NEW f \in [Tx -> Nat], NEW q \in Seq(Tx)
  PROVE  \E g \in [0 .. Len(q) -> Nat] :
           /\ g[0] = 0 /\ \A i \in 1 .. Len(q) : g[i] = g[i - 1] + f[q[i]]
           /\ \A k \in 0 .. Len(q) : SumOf(f, SubSeq(q, 1, k)) = g[k]
<1> DEFINE n == Len(q)
<1>1. n \in Nat /\ DOMAIN q = 1 .. n /\ \A i \in 1 .. n : q[i] \in Tx /\ f[q[i]] \in Nat
  OBVIOUS
<1>2. PICK g : Summing!IsTrace(f, g, 0, q) /\ Summing!Fold(f, 0, q) = g[Len(q)]
  BY <1>1, Leasts, Summing!FoldTrace, Zenon
<1>3. g[0] = 0 /\ \A i \in 1 .. n : g[i] = g[i - 1] + f[q[i]]
  BY <1>1, <1>2, Summing!TraceStep
<1>4. DOMAIN g = 0 .. n /\ g = [i \in 0 .. n |-> g[i]]
  BY <1>2 DEF Summing!IsTrace
<1>5. \A i \in 0 .. n : g[i] \in Nat
  <2> DEFINE G == {i \in 0 .. n : g[i] \in Nat}
  <2>1. 0 \in G
    BY <1>1, <1>3
  <2>2. ASSUME NEW i \in 0 .. n - 1, i \in G PROVE i + 1 \in G
    <3>1. i + 1 \in 1 .. n /\ (i + 1) - 1 = i /\ i + 1 \in 0 .. n /\ g[i] \in Nat
      BY <1>1, <2>2
    <3>2. g[i + 1] = g[i] + f[q[i + 1]] /\ f[q[i + 1]] \in Nat
      BY <1>1, <1>3, <3>1
    <3> QED
      BY <3>1, <3>2
  <2> HIDE DEF G
  <2>3. \A i \in 0 .. n : i \in G
    BY <1>1, <2>1, <2>2, UpTo
  <2> QED
    BY <2>3 DEF G
<1>6. ASSUME NEW k \in 0 .. n PROVE SumOf(f, SubSeq(q, 1, k)) = g[k]
  <2> DEFINE p == SubSeq(q, 1, k)
  <2>1. k \in Nat /\ Len(p) = k /\ DOMAIN p = 1 .. k /\ \A i \in 1 .. k : p[i] = q[i]
    BY <1>1
  <2> HIDE DEF p
  <2>2. SumOf(f, p) = Summing!Fold(f, 0, p)
    BY Zenon DEF SumOf, FoldLeft, MapThenFoldSet, Max, Summing!Fold, Summing!IsIter, Summing!Latest
  <2>3. PICK h : Summing!IsTrace(f, h, 0, p) /\ Summing!Fold(f, 0, p) = h[Len(p)]
    BY <2>1, Leasts, Summing!FoldTrace, Zenon
  <2>4. h[0] = 0 /\ \A i \in 1 .. k : h[i] = h[i - 1] + f[p[i]]
    BY <2>1, <2>3, Summing!TraceStep
  <2> DEFINE G == {i \in 0 .. k : h[i] = g[i]}
  <2>5. 0 \in G
    BY <1>3, <2>1, <2>4
  <2>6. ASSUME NEW i \in 0 .. k - 1, i \in G PROVE i + 1 \in G
    <3>1. i + 1 \in 1 .. k /\ (i + 1) - 1 = i /\ i + 1 \in 0 .. k /\ i + 1 \in 1 .. n /\ h[i] = g[i]
      BY <1>1, <2>1, <2>6
    <3>2. h[i + 1] = h[i] + f[p[i + 1]] /\ g[i + 1] = g[i] + f[q[i + 1]] /\ p[i + 1] = q[i + 1]
      BY <1>3, <2>1, <2>4, <3>1
    <3> QED
      BY <3>1, <3>2
  <2> HIDE DEF G
  <2>7. \A i \in 0 .. k : i \in G
    BY <2>1, <2>5, <2>6, UpTo
  <2>8. h[k] = g[k]
    BY <2>1, <2>7 DEF G
  <2> QED
    BY <2>1, <2>2, <2>3, <2>8 DEF p
<1>7. g \in [0 .. n -> Nat]
  BY <1>4, <1>5
<1> QED
  BY <1>3, <1>6, <1>7

\* what grows at every step grows over several
LEMMA SumsGrow ==
  ASSUME NEW n \in Nat, NEW g \in [0 .. n -> Nat], \A i \in 1 .. n : g[i - 1] <= g[i],
         NEW m \in 0 .. n, NEW k \in 0 .. n, m <= k
  PROVE  g[m] <= g[k]
<1> DEFINE G == {i \in 0 .. n : m <= i => g[m] <= g[i]}
<1>1. 0 \in G
  OBVIOUS
<1>2. ASSUME NEW i \in 0 .. n - 1, i \in G PROVE i + 1 \in G
  <2>1. i + 1 \in 1 .. n /\ (i + 1) - 1 = i /\ i + 1 \in 0 .. n /\ i \in 0 .. n
    OBVIOUS
  <2>2. g[i] <= g[i + 1] /\ g[i] \in Nat /\ g[i + 1] \in Nat /\ g[m] \in Nat
    BY <2>1
  <2>3. CASE m <= i
    BY <1>2, <2>1, <2>2, <2>3
  <2>4. CASE m > i
    <3>1. m <= i + 1 => m = i + 1
      BY <2>4
    <3> QED
      BY <2>1, <2>2, <3>1
  <2> QED
    BY <2>3, <2>4
<1> HIDE DEF G
<1>3. \A i \in 0 .. n : i \in G
  BY <1>1, <1>2, UpTo
<1> QED
  BY <1>3 DEF G

LEMMA PrefixAppends ==
  ASSUME NEW q \in Seq(Tx), NEW m \in 0 .. Len(q) - 1
  PROVE  Append(SubSeq(q, 1, m), q[m + 1]) = SubSeq(q, 1, m + 1)
<1> DEFINE a == Append(SubSeq(q, 1, m), q[m + 1])
           b == SubSeq(q, 1, m + 1)
<1>1. Len(q) \in Nat /\ m \in Nat /\ m + 1 \in 1 .. Len(q)
  OBVIOUS
<1>2. SubSeq(q, 1, m) \in Seq(Tx) /\ Len(SubSeq(q, 1, m)) = m /\ \A i \in 1 .. m : SubSeq(q, 1, m)[i] = q[i]
  BY <1>1
<1>3. b \in Seq(Tx) /\ Len(b) = m + 1 /\ \A i \in 1 .. m + 1 : b[i] = q[i]
  BY <1>1
<1>4. q[m + 1] \in Tx
  BY <1>1
<1>5. a \in Seq(Tx) /\ Len(a) = m + 1 /\ \A i \in 1 .. m + 1 : a[i] = q[i]
  <2> DEFINE p == SubSeq(q, 1, m)
  <2> HIDE DEF p
  <2>1. p \in Seq(Tx) /\ Len(p) = m /\ \A i \in 1 .. m : p[i] = q[i]
    BY <1>2 DEF p
  <2>2. Append(p, q[m + 1]) \in Seq(Tx) /\ Len(Append(p, q[m + 1])) = m + 1
    BY <1>1, <1>4, <2>1
  <2>3. ASSUME NEW i \in 1 .. m + 1 PROVE Append(p, q[m + 1])[i] = q[i]
    <3>1. CASE i \in 1 .. m
      BY <1>1, <1>4, <2>1, <3>1
    <3>2. CASE i = m + 1
      BY <1>1, <1>4, <2>1, <3>2
    <3>3. i \in 1 .. m \/ i = m + 1
      BY <1>1
    <3> QED
      BY <3>1, <3>2, <3>3
  <2> QED
    BY <2>2, <2>3 DEF p
<1> HIDE DEF a, b
<1> QED
  BY <1>3, <1>5, SeqEqual DEF a, b

LEMMA SelectsLongest ==
  ASSUME NEW order \in Seq(Tx), NEW c \in Criteria
  PROVE  \E m \in 0 .. Len(order) : SelectEntries(order, c) = SubSeq(order, 1, m) /\ LongestFit(order, c) = SubSeq(order, 1, m)
<1> DEFINE n == Len(order)
           Run(k) == SubSeq(order, 1, k)
           FitsAt(k) == WithinLimits(c, Run(k))
<1>1. /\ n \in Nat /\ DOMAIN order = 1 .. n /\ \A i \in 1 .. n : order[i] \in Tx
      /\ c.count \in Nat /\ c.bytes \in Nat /\ c.fees \in Nat
  BY MaintenanceAssumption
<1>2. EntrySize \in [Tx -> Nat] /\ EntryFee \in [Tx -> Nat]
  BY MaintenanceAssumption
<1>3. PICK sz \in [0 .. n -> Nat] : /\ sz[0] = 0 /\ \A i \in 1 .. n : sz[i] = sz[i - 1] + EntrySize[order[i]]
                                    /\ \A k \in 0 .. n : SumOf(EntrySize, Run(k)) = sz[k]
  BY <1>2, PrefixSums
<1>4. PICK fe \in [0 .. n -> Nat] : /\ fe[0] = 0 /\ \A i \in 1 .. n : fe[i] = fe[i - 1] + EntryFee[order[i]]
                                    /\ \A k \in 0 .. n : SumOf(EntryFee, Run(k)) = fe[k]
  BY <1>2, PrefixSums
<1>5. \A k \in 0 .. n : Len(Run(k)) = k
  BY <1>1
<1> HIDE DEF Run
<1>6. \A k \in 0 .. n : FitsAt(k) <=> (k <= c.count /\ sz[k] <= c.bytes /\ fe[k] <= c.fees)
  BY <1>3, <1>4, <1>5 DEF WithinLimits
<1> HIDE DEF FitsAt
<1>7. ASSUME NEW m \in 0 .. n, NEW k \in 0 .. n, m <= k, FitsAt(k) PROVE FitsAt(m)
  <2>1. \A i \in 1 .. n : sz[i - 1] <= sz[i] /\ fe[i - 1] <= fe[i]
    <3>1. ASSUME NEW i \in 1 .. n PROVE sz[i - 1] <= sz[i] /\ fe[i - 1] <= fe[i]
      <4>1. i - 1 \in 0 .. n /\ i \in 0 .. n /\ order[i] \in Tx
        BY <1>1
      <4>2. sz[i - 1] \in Nat /\ fe[i - 1] \in Nat /\ EntrySize[order[i]] \in Nat /\ EntryFee[order[i]] \in Nat
        BY <1>2, <1>3, <1>4, <4>1
      <4>3. sz[i] = sz[i - 1] + EntrySize[order[i]] /\ fe[i] = fe[i - 1] + EntryFee[order[i]]
        BY <1>3, <1>4
      <4>4. ASSUME NEW a \in Nat, NEW b \in Nat PROVE a <= a + b
        OBVIOUS
      <4>5. sz[i - 1] <= sz[i]
        BY <4>2, <4>3, <4>4
      <4>6. fe[i - 1] <= fe[i]
        BY <4>2, <4>3, <4>4
      <4> QED
        BY <4>5, <4>6
    <3> QED
      BY <3>1
  <2>2. sz[m] <= sz[k] /\ fe[m] <= fe[k]
    BY <1>1, <1>7, <2>1, SumsGrow
  <2>3. sz[m] \in Nat /\ sz[k] \in Nat /\ fe[m] \in Nat /\ fe[k] \in Nat /\ m \in Nat /\ k \in Nat
    OBVIOUS
  <2> QED
    BY <1>1, <1>6, <1>7, <2>2, <2>3
<1> DEFINE empty == [sel |-> <<>>, full |-> FALSE]
<1>8. SelectEntries(order, c) = Selecting!Fold(c, empty, order).sel
  BY Zenon DEF SelectEntries, FoldLeft, MapThenFoldSet, Max, Selecting!Fold, Selecting!IsIter, Selecting!Latest
<1>9. PICK a : Selecting!IsTrace(c, a, empty, order) /\ Selecting!Fold(c, empty, order) = a[n]
  BY <1>1, Leasts, Selecting!FoldTrace, Zenon
<1>10. a[0] = empty /\ \A i \in 1 .. n : a[i] = Take(a[i - 1], order[i], c)
  BY <1>1, <1>9, Selecting!TraceStep
<1> DEFINE Stopped(m) == m < n /\ ~FitsAt(m + 1)
           Ran(i, m) == /\ DOMAIN a[i] = {"sel", "full"} /\ a[i].full \in BOOLEAN /\ a[i].sel = Run(m) /\ FitsAt(m)
                        /\ (a[i].full => Stopped(m)) /\ (~a[i].full => m = i)
           G == {i \in 0 .. n : \E m \in 0 .. n : Ran(i, m)}
<1>11. 0 \in G
  <2>1. Run(0) = <<>>
    BY <1>1 DEF Run
  <2>2. FitsAt(0)
    BY <1>1, <1>3, <1>4, <1>6
  <2>3. Ran(0, 0)
    BY <1>10, <2>1, <2>2
  <2> QED
    BY <1>1, <2>3
<1>12. ASSUME NEW i \in 0 .. n - 1, i \in G PROVE i + 1 \in G
  <2>1. i + 1 \in 1 .. n /\ (i + 1) - 1 = i /\ i + 1 \in 0 .. n
    BY <1>1
  <2>2. PICK m \in 0 .. n : Ran(i, m)
    BY <1>12
  <2> DEFINE t == order[i + 1]
             x == a[i]
             y == a[i + 1]
  <2>3. y = Take(x, t, c)
    BY <1>10, <2>1
  <2>4. CASE x.full
    <3>1. y = [x EXCEPT !.full = TRUE]
      BY <2>3, <2>4 DEF Take
    <3>2. DOMAIN y = {"sel", "full"} /\ y.full = TRUE /\ y.sel = x.sel
      BY <2>2, <3>1
    <3>3. Ran(i + 1, m)
      BY <2>2, <2>4, <3>2
    <3> QED
      BY <2>1, <3>3
  <2>5. CASE ~x.full
    <3>1. m = i /\ x.sel = Run(i) /\ FitsAt(i) /\ DOMAIN x = {"sel", "full"}
      BY <2>2, <2>5
    <3>2. Len(x.sel) = i /\ SumOf(EntrySize, x.sel) = sz[i] /\ SumOf(EntryFee, x.sel) = fe[i] /\ i \in 0 .. n
      BY <1>1, <1>3, <1>4, <1>5, <3>1
    <3>3. sz[i + 1] = sz[i] + EntrySize[t] /\ fe[i + 1] = fe[i] + EntryFee[t]
      BY <1>3, <1>4, <2>1
    <3>4. sz[i] \in Nat /\ fe[i] \in Nat /\ sz[i + 1] \in Nat /\ fe[i + 1] \in Nat
      BY <2>1, <3>2
    <3>5. Append(x.sel, t) = Run(i + 1)
      BY <1>1, <3>1, PrefixAppends DEF Run
    <3>6. CASE FitsAt(i + 1)
      <4>1. i + 1 <= c.count /\ sz[i + 1] <= c.bytes /\ fe[i + 1] <= c.fees
        BY <1>6, <2>1, <3>6
      <4>2. ~(Len(x.sel) >= c.count) /\ ~(SumOf(EntrySize, x.sel) + EntrySize[t] > c.bytes) /\ ~(SumOf(EntryFee, x.sel) + EntryFee[t] > c.fees)
        BY <1>1, <3>2, <3>3, <3>4, <4>1
      <4>3. y = [x EXCEPT !.sel = Append(@, t)]
        BY <2>3, <2>5, <4>2 DEF Take
      <4>4. DOMAIN y = {"sel", "full"} /\ y.full = x.full /\ y.sel = Run(i + 1)
        BY <3>1, <3>5, <4>3
      <4>5. Ran(i + 1, i + 1)
        BY <2>2, <2>5, <3>6, <4>4
      <4> QED
        BY <2>1, <4>5
    <3>7. CASE ~FitsAt(i + 1)
      <4>1. ~(i + 1 <= c.count /\ sz[i + 1] <= c.bytes /\ fe[i + 1] <= c.fees)
        BY <1>6, <2>1, <3>7
      <4>2. Len(x.sel) >= c.count \/ SumOf(EntrySize, x.sel) + EntrySize[t] > c.bytes \/ SumOf(EntryFee, x.sel) + EntryFee[t] > c.fees
        BY <1>1, <3>2, <3>3, <3>4, <4>1
      <4>3. y = [x EXCEPT !.full = TRUE]
        BY <2>3, <4>2 DEF Take
      <4>4. DOMAIN y = {"sel", "full"} /\ y.full = TRUE /\ y.sel = Run(i)
        BY <3>1, <4>3
      <4>5. Stopped(i)
        BY <1>1, <3>7
      <4>6. Ran(i + 1, i)
        <5> HIDE DEF Stopped
        <5> QED
          BY <3>1, <4>4, <4>5
      <4> QED
        BY <2>1, <3>2, <4>6
    <3> QED
      BY <3>6, <3>7
  <2> QED
    BY <2>4, <2>5
<1> HIDE DEF G
<1>13. n \in G
  <2>1. \A i \in 0 .. n : i \in G
    BY <1>1, <1>11, <1>12, UpTo
  <2> QED
    BY <1>1, <2>1
<1>14. PICK m \in 0 .. n : Ran(n, m)
  BY <1>13 DEF G
<1>15. \A k \in 0 .. n : FitsAt(k) => k <= m
  <2> SUFFICES ASSUME NEW k \in 0 .. n, FitsAt(k), k > m PROVE FALSE
    BY <1>1
  <2>1. m < n /\ m + 1 \in 0 .. n /\ m + 1 <= k
    BY <1>1
  <2>2. ~FitsAt(m + 1)
    BY <1>14, <2>1
  <2> QED
    BY <1>7, <2>1, <2>2
<1> DEFINE K == {k \in 0 .. n : FitsAt(k)}
<1>16. m \in K /\ \A y \in K : m >= y
  BY <1>14, <1>15
<1>17. Max(K) = m
  <2>1. Max(K) \in K /\ \A y \in K : Max(K) >= y
    <3> HIDE DEF K
    <3> QED
      BY <1>16, Zenon DEF Max
  <2> QED
    BY <1>1, <1>16, <2>1
<1>18. LongestFit(order, c) = Run(m)
  BY <1>17 DEF LongestFit, FitsAt, Run
<1> QED
  BY <1>8, <1>9, <1>14, <1>18 DEF Run

\* a selection stops before what comes later in its order
LEMMA SelectsFromFront ==
  ASSUME NEW S \in SUBSET Tx, NEW order \in SetToSeqs(S), NEW c \in Criteria
  PROVE  /\ SelectEntries(order, c) = LongestFit(order, c)
         /\ \A t \in ToSet(SelectEntries(order, c)), s \in S \ ToSet(SelectEntries(order, c)) :
              \E i, j \in DOMAIN order : i < j /\ order[i] = t /\ order[j] = s
<1>1. order \in Seq(Tx)
  BY OrderLists
<1>2. PICK m \in 0 .. Len(order) : SelectEntries(order, c) = SubSeq(order, 1, m) /\ LongestFit(order, c) = SubSeq(order, 1, m)
  BY <1>1, SelectsLongest
<1> QED
  BY <1>2, InFront

(* For every set of transactions with any fees, sizes and arrivals, any    *)
(* batch and any limits: an eviction takes the entries of lowest score     *)
(* among those that may go, and a selection is the longest run of the best *)
(* entries within the limits, by fee rate as by arrival.                   *)
THEOREM OrdersAlwaysFollowed == MaintenanceSpec => []EvictsAndSelectsInOrder
<1>1. PmInv(pm) => EvictsAndSelectsInOrder
  <2> SUFFICES ASSUME PmInv(pm) PROVE EvictsAndSelectsInOrder
    OBVIOUS
  <2>1. Pooled(pm) \in SUBSET Tx
    BY DEF Pooled
  <2>2. SelectsBest(LAMBDA a, b : ByFee(pm, a, b))
    BY <2>1, SelectsFromFront DEF SelectsBest, OrdersBy
  <2>3. SelectsBest(LAMBDA a, b : ByArrival(pm, a, b))
    BY <2>1, SelectsFromFront DEF SelectsBest, OrdersBy
  <2> QED
    BY <2>2, <2>3, EvictsLowest DEF EvictsAndSelectsInOrder, SelectionIsLongest
<1> QED
  BY <1>1, PoolAlwaysSound, PTL

-----------------------------------------------------------------------------
(* The ordered buckets *)
Listing == INSTANCE Folding WITH Step <- LAMBDA a, all, bucket : ListBucket(all, bucket)
Importing == INSTANCE Folding WITH Step <- LAMBDA a, g, e : InsertIn(g, e)

BucketsSpec == PbInit /\ [][PbNext]_pb

Ranked == [tx : Tx, rate : Rates, arrival : Times]

PbShape(g) ==
  /\ DOMAIN g = {"bucket", "index", "dup"} /\ g.dup \in BOOLEAN
  /\ g.bucket \in [BucketIds -> Seq(Ranked)] /\ g.index \in [Tx -> BucketIds \union {0}]

\* the best entry of a bucket comes last
Rising(s) == \A i, j \in DOMAIN s : i < j => Before(s[j], s[i])
OncePerHash(s) == \A i, j \in DOMAIN s : s[i].tx = s[j].tx => i = j
BucketSound(g, b) ==
  /\ Rising(g.bucket[b]) /\ OncePerHash(g.bucket[b])
  /\ \A i \in DOMAIN g.bucket[b] : BucketOf(g.bucket[b][i].rate) = b /\ g.index[g.bucket[b][i].tx] = b
HashFound(g, t) == g.index[t] # 0 => \E i \in DOMAIN g.bucket[g.index[t]] : g.bucket[g.index[t]][i].tx = t

PbInv(g) == /\ PbShape(g)
            /\ ~g.dup => (\A b \in BucketIds : BucketSound(g, b)) /\ \A t \in Tx : HashFound(g, t)

LEMMA RankedCounts ==
  ASSUME NEW e \in Ranked
  PROVE  Score(e) \in Int /\ e.tx \in Nat /\ e.tx \in Tx /\ e.rate \in Nat /\ e.rate \in Rates
<1>1. e.tx \in Tx /\ e.rate \in Rates /\ e.arrival \in Times
  BY DEF Ranked
<1>2. e.tx \in Nat /\ e.rate \in Nat /\ e.arrival \in Nat
  BY <1>1, BucketsAssumption
<1> QED
  BY <1>1, <1>2 DEF Score

\* compare_deterministic is a strict order that tells different hashes apart
LEMMA BeforeOrders ==
  ASSUME NEW a \in Ranked, NEW b \in Ranked
  PROVE  /\ ~(Before(a, b) /\ Before(b, a))
         /\ a.tx # b.tx => Before(a, b) \/ Before(b, a)
  BY RankedCounts DEF Before

LEMMA BeforeChains ==
  ASSUME NEW a \in Ranked, NEW b \in Ranked, NEW c \in Ranked, Before(a, b), Before(b, c)
  PROVE  Before(a, c)
  BY RankedCounts DEF Before

LEMMA BucketInRange ==
  ASSUME NEW r
  PROVE  BucketOf(r) \in BucketIds
<1> DEFINE S == {i \in DOMAIN Thresholds : Thresholds[i] <= r}
           n == Len(Thresholds)
<1>1. n \in Nat /\ DOMAIN Thresholds = 1 .. n
  BY BucketsAssumption
<1> HIDE DEF n
<1>2. IsFiniteSet(1 .. n) /\ Cardinality(1 .. n) = n
  BY <1>1, FS_Interval
<1>3. S \in SUBSET (1 .. n)
  BY <1>1
<1> HIDE DEF S
<1>4. Cardinality(S) \in Nat /\ Cardinality(S) <= n
  <2>1. IsFiniteSet(S) /\ Cardinality(S) <= Cardinality(1 .. n)
    BY <1>2, <1>3, FS_Subset
  <2> QED
    BY <1>2, <2>1, FS_CardinalityType
<1> QED
  BY <1>1, <1>4 DEF BucketOf, BucketIds, S, n

\* positions closed downwards are the first ones
LEMMA FirstPositions ==
  ASSUME NEW n \in Nat, NEW K \in SUBSET (1 .. n), \A i \in K : \A j \in 1 .. n : j < i => j \in K
  PROVE  Cardinality(K) \in 0 .. n /\ K = 1 .. Cardinality(K)
<1> DEFINE T == {m \in Nat : m + 1 \notin K}
<1>1. n \in T
  OBVIOUS
<1>2. PICK m \in T : \A k \in T : m <= k
  <2>1. T \in SUBSET Nat /\ T # {}
    BY <1>1
  <2> HIDE DEF T
  <2> QED
    BY <2>1, Leasts
<1>3. m \in Nat /\ m <= n /\ m + 1 \notin K
  BY <1>1, <1>2
<1>4. ASSUME NEW j \in 1 .. m PROVE j \in K
  <2>1. j - 1 \in Nat /\ ~(m <= j - 1) /\ (j - 1) + 1 = j
    BY <1>3
  <2>2. j - 1 \notin T
    BY <1>2, <2>1
  <2> QED
    BY <2>1, <2>2
<1>5. ASSUME NEW i \in K PROVE i \in 1 .. m
  <2>1. i \in 1 .. n
    OBVIOUS
  <2>2. CASE i <= m
    BY <1>3, <2>1, <2>2
  <2>3. CASE i > m
    <3>1. i # m + 1
      BY <1>3
    <3>2. m + 1 \in 1 .. n /\ m + 1 < i
      BY <1>3, <2>1, <2>3, <3>1
    <3> QED
      BY <1>3, <3>2
  <2> QED
    BY <1>3, <2>1, <2>2, <2>3
<1>6. K = 1 .. m
  BY <1>4, <1>5
<1>7. Cardinality(1 .. m) = m
  BY <1>3, FS_Interval
<1> QED
  BY <1>3, <1>6, <1>7

\* an element put in after the first k
Splice(s, e, k) == SubSeq(s, 1, k) \o <<e>> \o SubSeq(s, k + 1, Len(s))
LEMMA Spliced ==
  ASSUME NEW s \in Seq(Ranked), NEW e \in Ranked, NEW k \in 0 .. Len(s)
  PROVE  LET r == Splice(s, e, k)
         IN  /\ r \in Seq(Ranked) /\ Len(r) = Len(s) + 1 /\ DOMAIN r = 1 .. Len(s) + 1
             /\ \A i \in 1 .. k : r[i] = s[i]
             /\ r[k + 1] = e
             /\ \A i \in k + 1 .. Len(s) : r[i + 1] = s[i]
<1> DEFINE n == Len(s)
           p == SubSeq(s, 1, k)
           q == SubSeq(s, k + 1, n)
           x == <<e>>
           r == p \o x \o q
<1>1. n \in Nat /\ k \in Nat /\ k <= n /\ \A i \in 1 .. n : s[i] \in Ranked
  OBVIOUS
<1> HIDE DEF n
<1>2. p \in Seq(Ranked) /\ Len(p) = k /\ \A i \in 1 .. k : p[i] = s[i]
  <2>1. \A i \in 1 .. k : s[i] \in Ranked
    BY <1>1
  <2>2. /\ p \in Seq(Ranked) /\ Len(p) = (IF 1 <= k THEN k - 1 + 1 ELSE 0)
        /\ \A i \in 1 .. k - 1 + 1 : p[i] = s[1 + i - 1]
    BY <1>1, <2>1, SubSeqProperties
  <2> HIDE DEF p
  <2> QED
    BY <1>1, <2>2
<1>3. q \in Seq(Ranked) /\ Len(q) = n - k /\ \A i \in 1 .. n - k : q[i] = s[k + i]
  <2>1. \A i \in k + 1 .. n : s[i] \in Ranked
    BY <1>1
  <2>2. /\ q \in Seq(Ranked) /\ Len(q) = (IF k + 1 <= n THEN n - (k + 1) + 1 ELSE 0)
        /\ \A i \in 1 .. n - (k + 1) + 1 : q[i] = s[k + 1 + i - 1]
    BY <1>1, <2>1, SubSeqProperties
  <2> HIDE DEF q
  <2> QED
    BY <1>1, <2>2
<1>4. x \in Seq(Ranked) /\ Len(x) = 1 /\ x[1] = e
  OBVIOUS
<1> HIDE DEF p, q, x
<1> DEFINE y == p \o x
<1>5. y \in Seq(Ranked) /\ Len(y) = k + 1 /\ (\A i \in 1 .. k : y[i] = s[i]) /\ y[k + 1] = e
  <2>1. /\ y \in Seq(Ranked) /\ Len(y) = Len(p) + Len(x)
        /\ \A i \in 1 .. Len(p) + Len(x) : y[i] = IF i <= Len(p) THEN p[i] ELSE x[i - Len(p)]
    BY <1>2, <1>4, ConcatProperties
  <2> HIDE DEF y
  <2>2. \A i \in 1 .. k + 1 : y[i] = IF i <= k THEN p[i] ELSE x[i - k]
    BY <1>2, <1>4, <2>1
  <2>3. \A i \in 1 .. k : y[i] = p[i]
    BY <1>1, <2>2
  <2>4. y[k + 1] = x[1]
    BY <1>1, <2>2
  <2> QED
    BY <1>1, <1>2, <1>4, <2>1, <2>3, <2>4
<1>12. r = y \o q
  OBVIOUS
<1> HIDE DEF y, r
<1>6. /\ r \in Seq(Ranked) /\ Len(r) = Len(y) + Len(q)
      /\ \A i \in 1 .. Len(y) + Len(q) : r[i] = IF i <= Len(y) THEN y[i] ELSE q[i - Len(y)]
  BY <1>3, <1>5, <1>12, ConcatProperties
<1>7. Len(r) = n + 1 /\ DOMAIN r = 1 .. n + 1
  BY <1>1, <1>3, <1>5, <1>6
<1>8. \A i \in 1 .. n + 1 : r[i] = IF i <= k + 1 THEN y[i] ELSE q[i - (k + 1)]
  BY <1>1, <1>3, <1>5, <1>6
<1>9. \A i \in 1 .. k : r[i] = s[i]
  BY <1>1, <1>5, <1>8
<1>10. r[k + 1] = e
  BY <1>1, <1>5, <1>8
<1>11. ASSUME NEW i \in k + 1 .. n PROVE r[i + 1] = s[i]
  <2>1. i + 1 \in 1 .. n + 1 /\ ~(i + 1 <= k + 1) /\ (i + 1) - (k + 1) = i - k /\ i - k \in 1 .. n - k /\ k + (i - k) = i
    BY <1>1
  <2>2. r[i + 1] = q[i - k]
    BY <1>8, <2>1
  <2> QED
    BY <1>3, <2>1, <2>2
<1> QED
  BY <1>6, <1>7, <1>9, <1>10, <1>11 DEF n, p, q, x, y, r, Splice

\* where the search of a bucket puts an entry
LEMMA InsertPosition ==
  ASSUME NEW s \in Seq(Ranked), NEW e \in Ranked
  PROVE  \E k \in 0 .. Len(s) :
           /\ LET r == InsertSorted(s, e)
              IN  /\ r \in Seq(Ranked) /\ Len(r) = Len(s) + 1 /\ DOMAIN r = 1 .. Len(s) + 1
                  /\ \A i \in 1 .. k : r[i] = s[i]
                  /\ r[k + 1] = e
                  /\ \A i \in k + 1 .. Len(s) : r[i + 1] = s[i]
           /\ Rising(s) => \A i \in 1 .. Len(s) : Before(e, s[i]) <=> i <= k
<1> DEFINE n == Len(s)
           K == {i \in DOMAIN s : Before(e, s[i])}
           k == Cardinality(K)
<1>1. n \in Nat /\ DOMAIN s = 1 .. n /\ \A i \in 1 .. n : s[i] \in Ranked
  OBVIOUS
<1>2. K \in SUBSET (1 .. n)
  BY <1>1
<1>3. k \in 0 .. n
  <2> HIDE DEF K, n
  <2>1. IsFiniteSet(1 .. n) /\ Cardinality(1 .. n) = n
    BY <1>1, FS_Interval
  <2>3. IsFiniteSet(K) /\ Cardinality(K) <= Cardinality(1 .. n)
    BY <1>2, <2>1, FS_Subset
  <2>2. k \in Nat /\ k <= n
    BY <2>1, <2>3, FS_CardinalityType
  <2> QED
    BY <1>1, <2>2
<1>4. ASSUME Rising(s) PROVE \A i \in 1 .. n : Before(e, s[i]) <=> i <= k
  <2>1. ASSUME NEW i \in K, NEW j \in 1 .. n, j < i PROVE j \in K
    <3>1. i \in 1 .. n /\ Before(e, s[i]) /\ Before(s[i], s[j])
      BY <1>1, <1>4, <2>1 DEF Rising
    <3>2. Before(e, s[j])
      BY <1>1, <3>1, BeforeChains
    <3> QED
      BY <1>1, <3>2
  <2>2. K = 1 .. k
    <3> HIDE DEF K
    <3> QED
      BY <1>1, <1>2, <2>1, FirstPositions
  <2>3. \A i \in 1 .. n : i \in K <=> i <= k
    <3> HIDE DEF K, k
    <3> QED
      BY <1>1, <1>3, <2>2
  <2> QED
    BY <1>1, <2>3
<1>5. InsertSorted(s, e) = Splice(s, e, k)
  BY DEF InsertSorted, Splice
<1> HIDE DEF K, k
<1>6. LET r == Splice(s, e, k)
      IN  /\ r \in Seq(Ranked) /\ Len(r) = Len(s) + 1 /\ DOMAIN r = 1 .. Len(s) + 1
          /\ \A i \in 1 .. k : r[i] = s[i]
          /\ r[k + 1] = e
          /\ \A i \in k + 1 .. Len(s) : r[i + 1] = s[i]
  BY <1>3, Spliced
<1> QED
  BY <1>3, <1>4, <1>5, <1>6

\* an insertion adds the entry and keeps the order
LEMMA InsertSound ==
  ASSUME NEW s \in Seq(Ranked), NEW e \in Ranked
  PROVE  LET r == InsertSorted(s, e)
         IN  /\ r \in Seq(Ranked)
             /\ \E i \in DOMAIN r : r[i] = e
             /\ \A i \in DOMAIN s : \E j \in DOMAIN r : r[j] = s[i]
             /\ \A j \in DOMAIN r : r[j] = e \/ \E i \in DOMAIN s : r[j] = s[i]
             /\ (\A i \in DOMAIN s : s[i].tx # e.tx) /\ Rising(s) => Rising(r)
             /\ (\A i \in DOMAIN s : s[i].tx # e.tx) /\ OncePerHash(s) => OncePerHash(r)
<1> DEFINE n == Len(s)
           r == InsertSorted(s, e)
<1>1. n \in Nat /\ DOMAIN s = 1 .. n /\ \A i \in 1 .. n : s[i] \in Ranked
  OBVIOUS
<1>2. PICK k \in 0 .. n : /\ r \in Seq(Ranked) /\ DOMAIN r = 1 .. n + 1
                          /\ \A i \in 1 .. k : r[i] = s[i]
                          /\ r[k + 1] = e
                          /\ \A i \in k + 1 .. n : r[i + 1] = s[i]
                          /\ Rising(s) => \A i \in 1 .. n : Before(e, s[i]) <=> i <= k
  BY InsertPosition
<1> HIDE DEF r, n
<1>3. k \in Nat /\ k <= n
  BY <1>1, <1>2
\* where each position comes from
<1> DEFINE src(j) == IF j <= k THEN j ELSE j - 1
<1>4. ASSUME NEW j \in 1 .. n + 1, j # k + 1 PROVE src(j) \in 1 .. n /\ r[j] = s[src(j)]
  <2>1. CASE j <= k
    <3>1. j \in 1 .. k /\ src(j) = j /\ j \in 1 .. n
      BY <1>1, <1>3, <2>1
    <3> QED
      BY <1>2, <3>1
  <2>2. CASE j > k
    <3>1. j - 1 \in k + 1 .. n /\ (j - 1) + 1 = j /\ src(j) = j - 1 /\ j - 1 \in 1 .. n
      BY <1>1, <1>3, <1>4, <2>2
    <3> QED
      BY <1>2, <3>1
  <2> QED
    BY <1>1, <1>3, <2>1, <2>2
<1>5. ASSUME NEW i \in 1 .. n PROVE \E j \in 1 .. n + 1 : r[j] = s[i]
  <2>1. CASE i <= k
    <3>1. i \in 1 .. k /\ i \in 1 .. n + 1
      BY <1>1, <1>3, <2>1
    <3> QED
      BY <1>2, <3>1
  <2>2. CASE i > k
    <3>1. i \in k + 1 .. n /\ i + 1 \in 1 .. n + 1
      BY <1>1, <1>3, <2>2
    <3> QED
      BY <1>2, <3>1
  <2> QED
    BY <1>1, <1>3, <2>1, <2>2
<1>6. k + 1 \in 1 .. n + 1
  BY <1>1, <1>3
<1>7. ASSUME \A i \in DOMAIN s : s[i].tx # e.tx, Rising(s) PROVE Rising(r)
  <2> SUFFICES ASSUME NEW i \in 1 .. n + 1, NEW j \in 1 .. n + 1, i < j PROVE Before(r[j], r[i])
    BY <1>2 DEF Rising
  <2>1. CASE i # k + 1 /\ j # k + 1
    <3>1. src(i) \in 1 .. n /\ src(j) \in 1 .. n /\ r[i] = s[src(i)] /\ r[j] = s[src(j)]
      BY <1>4, <2>1
    <3>2. src(i) < src(j)
      BY <1>1, <1>3, <2>1
    <3> HIDE DEF src
    <3> QED
      BY <1>1, <1>7, <3>1, <3>2 DEF Rising
  <2>2. CASE j = k + 1
    <3>1. i \in 1 .. k /\ i \in 1 .. n
      BY <1>1, <1>3, <2>2
    <3>2. r[i] = s[i] /\ Before(e, s[i])
      BY <1>2, <1>3, <1>7, <3>1
    <3> QED
      BY <1>2, <2>2, <3>2
  <2>3. CASE i = k + 1
    <3>1. j - 1 \in k + 1 .. n /\ (j - 1) + 1 = j /\ j - 1 \in 1 .. n /\ ~(j - 1 <= k)
      BY <1>1, <1>3, <2>3
    <3>2. r[j] = s[j - 1] /\ ~Before(e, s[j - 1]) /\ s[j - 1] \in Ranked /\ s[j - 1].tx # e.tx
      BY <1>1, <1>2, <1>7, <3>1
    <3>3. Before(s[j - 1], e)
      BY <3>2, BeforeOrders
    <3> QED
      BY <1>2, <2>3, <3>2, <3>3
  <2> QED
    BY <2>1, <2>2, <2>3
<1>8. ASSUME \A i \in DOMAIN s : s[i].tx # e.tx, OncePerHash(s) PROVE OncePerHash(r)
  <2> SUFFICES ASSUME NEW i \in 1 .. n + 1, NEW j \in 1 .. n + 1, r[i].tx = r[j].tx PROVE i = j
    BY <1>2 DEF OncePerHash
  <2>1. CASE i # k + 1 /\ j # k + 1
    <3>1. src(i) \in 1 .. n /\ src(j) \in 1 .. n /\ r[i] = s[src(i)] /\ r[j] = s[src(j)]
      BY <1>4, <2>1
    <3>2. src(i) = src(j)
      <4> HIDE DEF src
      <4> QED
        BY <1>1, <1>8, <3>1 DEF OncePerHash
    <3> QED
      BY <1>1, <1>3, <2>1, <3>2
  <2>2. CASE i = k + 1 /\ j # k + 1
    <3>1. src(j) \in 1 .. n /\ r[j] = s[src(j)] /\ r[i] = e
      BY <1>2, <1>4, <2>2
    <3> HIDE DEF src
    <3> QED
      BY <1>1, <1>8, <3>1
  <2>3. CASE j = k + 1 /\ i # k + 1
    <3>1. src(i) \in 1 .. n /\ r[i] = s[src(i)] /\ r[j] = e
      BY <1>2, <1>4, <2>3
    <3> HIDE DEF src
    <3> QED
      BY <1>1, <1>8, <3>1
  <2> QED
    BY <2>1, <2>2, <2>3
<1>9. \A j \in DOMAIN r : r[j] = e \/ \E i \in DOMAIN s : r[j] = s[i]
  <2> SUFFICES ASSUME NEW j \in 1 .. n + 1 PROVE r[j] = e \/ \E i \in 1 .. n : r[j] = s[i]
    BY <1>1, <1>2
  <2>1. CASE j = k + 1
    BY <1>2, <2>1
  <2>2. CASE j # k + 1
    <3>1. src(j) \in 1 .. n /\ r[j] = s[src(j)]
      BY <1>4, <2>2
    <3> HIDE DEF src
    <3> QED
      BY <3>1
  <2> QED
    BY <2>1, <2>2
<1> QED
  BY <1>1, <1>2, <1>5, <1>6, <1>7, <1>8, <1>9 DEF r

\* what is left when the entry at k goes
LEMMA TakeOutSound ==
  ASSUME NEW s \in Seq(Ranked), NEW k \in 1 .. Len(s)
  PROVE  LET r == RemoveAt(s, k)
         IN  /\ r \in Seq(Ranked)
             /\ \A j \in DOMAIN r : \E i \in DOMAIN s : i # k /\ r[j] = s[i]
             /\ \A i \in DOMAIN s : i # k => \E j \in DOMAIN r : r[j] = s[i]
             /\ Rising(s) => Rising(r)
             /\ OncePerHash(s) => OncePerHash(r)
<1> DEFINE n == Len(s)
           p == SubSeq(s, 1, k - 1)
           q == SubSeq(s, k + 1, n)
           r == p \o q
           src(j) == IF j < k THEN j ELSE j + 1
<1>1. n \in Nat /\ k \in Nat /\ 1 <= k /\ k <= n /\ DOMAIN s = 1 .. n /\ \A i \in 1 .. n : s[i] \in Ranked
  OBVIOUS
<1>2. RemoveAt(s, k) = r
  BY DEF RemoveAt
<1> HIDE DEF n
<1>3. p \in Seq(Ranked) /\ Len(p) = k - 1 /\ \A i \in 1 .. k - 1 : p[i] = s[i]
  <2>1. \A i \in 1 .. k - 1 : s[i] \in Ranked
    BY <1>1
  <2>2. /\ p \in Seq(Ranked) /\ Len(p) = (IF 1 <= k - 1 THEN k - 1 - 1 + 1 ELSE 0)
        /\ \A i \in 1 .. k - 1 - 1 + 1 : p[i] = s[1 + i - 1]
    BY <1>1, <2>1, SubSeqProperties
  <2> HIDE DEF p
  <2> QED
    BY <1>1, <2>2
<1>4. q \in Seq(Ranked) /\ Len(q) = n - k /\ \A i \in 1 .. n - k : q[i] = s[k + i]
  <2>1. \A i \in k + 1 .. n : s[i] \in Ranked
    BY <1>1
  <2>2. /\ q \in Seq(Ranked) /\ Len(q) = (IF k + 1 <= n THEN n - (k + 1) + 1 ELSE 0)
        /\ \A i \in 1 .. n - (k + 1) + 1 : q[i] = s[k + 1 + i - 1]
    BY <1>1, <2>1, SubSeqProperties
  <2> HIDE DEF q
  <2> QED
    BY <1>1, <2>2
<1> HIDE DEF p, q
<1>5. /\ r \in Seq(Ranked) /\ Len(r) = Len(p) + Len(q)
      /\ \A i \in 1 .. Len(p) + Len(q) : r[i] = IF i <= Len(p) THEN p[i] ELSE q[i - Len(p)]
  BY <1>3, <1>4, ConcatProperties
<1> HIDE DEF r
<1>6. DOMAIN r = 1 .. n - 1
  BY <1>1, <1>3, <1>4, <1>5
<1>7. \A i \in 1 .. n - 1 : r[i] = IF i <= k - 1 THEN p[i] ELSE q[i - (k - 1)]
  BY <1>1, <1>3, <1>4, <1>5
<1>8. ASSUME NEW j \in 1 .. n - 1 PROVE src(j) \in 1 .. n /\ src(j) # k /\ r[j] = s[src(j)]
  <2>1. CASE j < k
    <3>1. j \in 1 .. k - 1 /\ j <= k - 1 /\ src(j) = j /\ j \in 1 .. n /\ j # k
      BY <1>1, <2>1
    <3> QED
      BY <1>3, <1>7, <3>1
  <2>2. CASE j >= k
    <3>1. ~(j <= k - 1) /\ j - (k - 1) \in 1 .. n - k /\ k + (j - (k - 1)) = j + 1 /\ src(j) = j + 1 /\ j + 1 \in 1 .. n /\ j + 1 # k
      BY <1>1, <2>2
    <3>2. r[j] = q[j - (k - 1)]
      BY <1>7, <3>1
    <3> QED
      BY <1>4, <3>1, <3>2
  <2> QED
    BY <1>1, <2>1, <2>2
<1>9. ASSUME NEW i \in 1 .. n, i # k PROVE \E j \in 1 .. n - 1 : r[j] = s[i]
  <2>1. CASE i < k
    <3>1. i \in 1 .. n - 1 /\ src(i) = i
      BY <1>1, <2>1
    <3> QED
      BY <1>8, <3>1
  <2>2. CASE i > k
    <3>1. i - 1 \in 1 .. n - 1 /\ src(i - 1) = i
      BY <1>1, <2>2
    <3> QED
      BY <1>8, <3>1
  <2> QED
    BY <1>1, <1>9, <2>1, <2>2
<1>10. ASSUME Rising(s) PROVE Rising(r)
  <2> SUFFICES ASSUME NEW i \in 1 .. n - 1, NEW j \in 1 .. n - 1, i < j PROVE Before(r[j], r[i])
    BY <1>6 DEF Rising
  <2>1. src(i) < src(j)
    BY <1>1
  <2>2. src(i) \in 1 .. n /\ src(j) \in 1 .. n /\ r[i] = s[src(i)] /\ r[j] = s[src(j)]
    BY <1>8
  <2> HIDE DEF src
  <2> QED
    BY <1>1, <1>10, <2>1, <2>2 DEF Rising
<1>11. ASSUME OncePerHash(s) PROVE OncePerHash(r)
  <2> SUFFICES ASSUME NEW i \in 1 .. n - 1, NEW j \in 1 .. n - 1, r[i].tx = r[j].tx PROVE i = j
    BY <1>6 DEF OncePerHash
  <2>2. src(i) \in 1 .. n /\ src(j) \in 1 .. n /\ r[i] = s[src(i)] /\ r[j] = s[src(j)]
    BY <1>8
  <2>3. src(i) = src(j)
    <3> HIDE DEF src
    <3> QED
      BY <1>1, <1>11, <2>2 DEF OncePerHash
  <2> QED
    BY <1>1, <2>3
<1>12. \A j \in DOMAIN r : \E i \in DOMAIN s : i # k /\ r[j] = s[i]
  <2> SUFFICES ASSUME NEW j \in 1 .. n - 1 PROVE \E i \in 1 .. n : i # k /\ r[j] = s[i]
    BY <1>1, <1>6
  <2>1. src(j) \in 1 .. n /\ src(j) # k /\ r[j] = s[src(j)]
    BY <1>8
  <2> HIDE DEF src
  <2> QED
    BY <2>1
<1> QED
  BY <1>1, <1>2, <1>5, <1>6, <1>9, <1>10, <1>11, <1>12

-----------------------------------------------------------------------------
NoBuckets == [bucket |-> [i \in BucketIds |-> <<>>], index |-> [t \in Tx |-> 0], dup |-> FALSE]

LEMMA NoBucketsSound == PbInv(NoBuckets)
<1>1. PbShape(NoBuckets)
  BY DEF PbShape, NoBuckets
<1>2. \A b \in BucketIds : BucketSound(NoBuckets, b)
  BY DEF BucketSound, NoBuckets, Rising, OncePerHash
<1>3. \A t \in Tx : HashFound(NoBuckets, t)
  BY DEF HashFound, NoBuckets
<1> QED
  BY <1>1, <1>2, <1>3 DEF PbInv

LEMMA InsertInKeeps ==
  ASSUME NEW g, PbInv(g), NEW e \in Ranked
  PROVE  PbInv(InsertIn(g, e))
<1> DEFINE b == BucketOf(e.rate)
           h == InsertIn(g, e)
           s == g.bucket[b]
           r == InsertSorted(s, e)
<1>1. b \in BucketIds /\ 0 \notin BucketIds
  BY BucketInRange DEF BucketIds
<1>2. e.tx \in Tx
  BY RankedCounts
<1> HIDE DEF b
<1>3. s \in Seq(Ranked)
  BY <1>1 DEF PbInv, PbShape
<1>4. /\ r \in Seq(Ranked)
      /\ \E i \in DOMAIN r : r[i] = e
      /\ \A i \in DOMAIN s : \E j \in DOMAIN r : r[j] = s[i]
      /\ \A j \in DOMAIN r : r[j] = e \/ \E i \in DOMAIN s : r[j] = s[i]
      /\ (\A i \in DOMAIN s : s[i].tx # e.tx) /\ Rising(s) => Rising(r)
      /\ (\A i \in DOMAIN s : s[i].tx # e.tx) /\ OncePerHash(s) => OncePerHash(r)
  BY <1>3, InsertSound
<1>5. h = [g EXCEPT !.bucket[b] = r, !.index[e.tx] = b, !.dup = @ \/ g.index[e.tx] # 0]
  BY DEF InsertIn, b
<1> HIDE DEF r, h
<1>6. /\ DOMAIN h = DOMAIN g /\ h.bucket = [g.bucket EXCEPT ![b] = r] /\ h.index = [g.index EXCEPT ![e.tx] = b]
      /\ h.dup = (g.dup \/ g.index[e.tx] # 0)
  BY <1>5 DEF PbInv, PbShape
<1>7. PbShape(h)
  BY <1>1, <1>2, <1>4, <1>6 DEF PbInv, PbShape
<1>8. ASSUME ~h.dup PROVE (\A c \in BucketIds : BucketSound(h, c)) /\ \A t \in Tx : HashFound(h, t)
  <2>1. ~g.dup /\ g.index[e.tx] = 0
    BY <1>6, <1>8
  <2>2. \A c \in BucketIds : BucketSound(g, c)
    BY <2>1 DEF PbInv
  <2>3. \A t \in Tx : HashFound(g, t)
    BY <2>1 DEF PbInv
  <2>4. /\ \A c \in BucketIds : c # b => h.bucket[c] = g.bucket[c]
        /\ h.bucket[b] = r /\ h.index[e.tx] = b /\ \A t \in Tx : t # e.tx => h.index[t] = g.index[t]
    BY <1>1, <1>2, <1>6 DEF PbInv, PbShape
  <2>5. \A c \in BucketIds : \A i \in DOMAIN g.bucket[c] : g.bucket[c][i].tx # e.tx
    BY <1>1, <2>1, <2>2 DEF BucketSound
  <2>6. \A c \in BucketIds : \A i \in DOMAIN g.bucket[c] : g.bucket[c][i].tx \in Tx
    <3> SUFFICES ASSUME NEW c \in BucketIds, NEW i \in DOMAIN g.bucket[c] PROVE g.bucket[c][i].tx \in Tx
      OBVIOUS
    <3>1. g.bucket[c][i] \in Ranked
      BY DEF PbInv, PbShape
    <3> QED
      BY <3>1, RankedCounts
  <2>7. ASSUME NEW c \in BucketIds PROVE BucketSound(h, c)
    <3>1. CASE c # b
      BY <2>2, <2>4, <2>5, <2>6, <3>1 DEF BucketSound
    <3>2. CASE c = b
      <4>1. Rising(r) /\ OncePerHash(r)
        BY <1>1, <1>4, <2>2, <2>5 DEF BucketSound
      <4>2. ASSUME NEW j \in DOMAIN r PROVE BucketOf(r[j].rate) = b /\ h.index[r[j].tx] = b
        <5>1. CASE r[j] = e
          BY <2>4, <5>1 DEF b
        <5>2. CASE r[j] # e
          <6>1. PICK i \in DOMAIN s : r[j] = s[i]
            BY <1>4, <5>2
          <6>2. BucketOf(s[i].rate) = b /\ g.index[s[i].tx] = b
            BY <1>1, <2>2 DEF BucketSound
          <6>3. s[i].tx \in Tx /\ s[i].tx # e.tx
            BY <1>1, <2>5, <2>6
          <6> QED
            BY <2>4, <6>1, <6>2, <6>3
        <5> QED
          BY <5>1, <5>2
      <4> QED
        BY <2>4, <3>2, <4>1, <4>2 DEF BucketSound
    <3> QED
      BY <3>1, <3>2
  <2>8. ASSUME NEW t \in Tx PROVE HashFound(h, t)
    <3>1. CASE t = e.tx
      <4>1. PICK i \in DOMAIN r : r[i] = e
        BY <1>4
      <4> QED
        BY <2>4, <3>1, <4>1 DEF HashFound
    <3>2. CASE t # e.tx /\ g.index[t] # 0
      <4> DEFINE c == g.index[t]
      <4>1. c \in BucketIds /\ h.index[t] = c
        BY <2>4, <3>2 DEF PbInv, PbShape
      <4>2. PICK i \in DOMAIN g.bucket[c] : g.bucket[c][i].tx = t
        BY <2>3, <3>2 DEF HashFound
      <4>3. \E j \in DOMAIN h.bucket[c] : h.bucket[c][j].tx = t
        <5>1. CASE c # b
          BY <2>4, <4>1, <4>2, <5>1
        <5>2. CASE c = b
          <6>1. i \in DOMAIN s /\ s[i].tx = t
            BY <4>2, <5>2
          <6>2. PICK j \in DOMAIN r : r[j] = s[i]
            BY <1>4, <6>1
          <6> QED
            BY <2>4, <5>2, <6>1, <6>2
        <5> QED
          BY <5>1, <5>2
      <4> QED
        BY <4>1, <4>3 DEF HashFound
    <3>3. CASE t # e.tx /\ g.index[t] = 0
      BY <2>4, <3>3 DEF HashFound
    <3> QED
      BY <3>1, <3>2, <3>3
  <2> QED
    BY <2>7, <2>8
<1> QED
  BY <1>7, <1>8 DEF PbInv, h

LEMMA RemoveInKeeps ==
  ASSUME NEW g, PbInv(g), NEW t \in Tx
  PROVE  PbInv(RemoveIn(g, t))
<1>1. CASE g.index[t] = 0
  BY <1>1 DEF RemoveIn
<1>2. CASE g.index[t] # 0
  <2> DEFINE b == g.index[t]
             s == g.bucket[b]
             r == WithoutFirst(s, t)
             h == RemoveIn(g, t)
             hits == {i \in DOMAIN s : s[i].tx = t}
  <2>1. b \in BucketIds /\ s \in Seq(Ranked) /\ 0 \notin BucketIds
    BY <1>2 DEF PbInv, PbShape, BucketIds
  <2>2. h = [g EXCEPT !.bucket[b] = r, !.index[t] = 0]
    BY <1>2 DEF RemoveIn
  <2>3. r \in Seq(Ranked)
    <3>1. CASE hits = {}
      BY <2>1, <3>1 DEF WithoutFirst
    <3>2. CASE hits # {}
      <4> DEFINE k == Min(hits)
      <4>1. hits \in SUBSET Nat /\ hits \subseteq 1 .. Len(s)
        BY <2>1
      <4>2. k \in hits
        <5> HIDE DEF hits
        <5>1. \E x \in hits : \A y \in hits : x <= y
          BY <3>2, <4>1, Leasts
        <5> QED
          BY <5>1, Zenon DEF Min
      <4>3. r = RemoveAt(s, k)
        BY <3>2 DEF WithoutFirst
      <4> HIDE DEF k, hits
      <4> QED
        BY <2>1, <4>1, <4>2, <4>3, TakeOutSound
    <3> QED
      BY <3>1, <3>2
  <2>4. ASSUME ~g.dup
        PROVE  /\ Rising(r) /\ OncePerHash(r)
               /\ \A j \in DOMAIN r : r[j].tx # t /\ \E i \in DOMAIN s : r[j] = s[i]
               /\ \A i \in DOMAIN s : s[i].tx # t => \E j \in DOMAIN r : r[j] = s[i]
    <3>1. Rising(s) /\ OncePerHash(s)
      BY <2>1, <2>4 DEF PbInv, BucketSound
    <3>2. hits # {}
      BY <1>2, <2>4 DEF PbInv, HashFound
    <3> DEFINE k == Min(hits)
    <3>3. hits \in SUBSET Nat /\ hits \subseteq 1 .. Len(s) /\ DOMAIN s = 1 .. Len(s)
      BY <2>1
    <3>4. k \in hits
      <4> HIDE DEF hits
      <4>1. \E x \in hits : \A y \in hits : x <= y
        BY <3>2, <3>3, Leasts
      <4> QED
        BY <4>1, Zenon DEF Min
    <3>5. r = RemoveAt(s, k)
      BY <3>2 DEF WithoutFirst
    <3>6. k \in 1 .. Len(s) /\ s[k].tx = t
      <4> HIDE DEF k
      <4> QED
        BY <3>3, <3>4
    <3> HIDE DEF k, hits, r
    <3>7. /\ \A j \in DOMAIN r : \E i \in DOMAIN s : i # k /\ r[j] = s[i]
          /\ \A i \in DOMAIN s : i # k => \E j \in DOMAIN r : r[j] = s[i]
          /\ Rising(r) /\ OncePerHash(r)
      BY <2>1, <3>1, <3>5, <3>6, TakeOutSound
    <3>8. \A i \in DOMAIN s : s[i].tx = t <=> i = k
      BY <3>1, <3>3, <3>6 DEF OncePerHash
    <3> QED
      BY <3>7, <3>8
  <2> HIDE DEF r, h, hits
  <2>5. /\ DOMAIN h = DOMAIN g /\ h.bucket = [g.bucket EXCEPT ![b] = r] /\ h.index = [g.index EXCEPT ![t] = 0]
        /\ h.dup = g.dup
    BY <2>2 DEF PbInv, PbShape
  <2>6. PbShape(h)
    BY <2>1, <2>3, <2>5 DEF PbInv, PbShape
  <2>7. ASSUME ~h.dup PROVE (\A c \in BucketIds : BucketSound(h, c)) /\ \A u \in Tx : HashFound(h, u)
    <3>1. ~g.dup /\ (\A c \in BucketIds : BucketSound(g, c)) /\ \A u \in Tx : HashFound(g, u)
      BY <2>5, <2>7 DEF PbInv
    <3>2. /\ \A c \in BucketIds : c # b => h.bucket[c] = g.bucket[c]
          /\ h.bucket[b] = r /\ h.index[t] = 0 /\ \A u \in Tx : u # t => h.index[u] = g.index[u]
      BY <2>1, <2>5 DEF PbInv, PbShape
    <3>3. /\ Rising(r) /\ OncePerHash(r)
          /\ \A j \in DOMAIN r : r[j].tx # t /\ \E i \in DOMAIN s : r[j] = s[i]
          /\ \A i \in DOMAIN s : s[i].tx # t => \E j \in DOMAIN r : r[j] = s[i]
      BY <2>4, <3>1
    <3>4. \A c \in BucketIds : \A i \in DOMAIN g.bucket[c] : g.bucket[c][i].tx \in Tx
      <4> SUFFICES ASSUME NEW c \in BucketIds, NEW i \in DOMAIN g.bucket[c] PROVE g.bucket[c][i].tx \in Tx
        OBVIOUS
      <4>1. g.bucket[c][i] \in Ranked
        BY DEF PbInv, PbShape
      <4> QED
        BY <4>1, RankedCounts
    <3> HIDE DEF b
    <3>5. ASSUME NEW c \in BucketIds PROVE BucketSound(h, c)
      <4>1. CASE c # b
        <5>1. \A i \in DOMAIN g.bucket[c] : g.bucket[c][i].tx # t
          <6> SUFFICES ASSUME NEW i \in DOMAIN g.bucket[c], g.bucket[c][i].tx = t PROVE FALSE
            OBVIOUS
          <6>1. g.index[t] = c
            BY <3>1 DEF BucketSound
          <6> QED
            BY <4>1, <6>1 DEF b
        <5> QED
          BY <3>1, <3>2, <3>4, <4>1, <5>1 DEF BucketSound
      <4>2. CASE c = b
        <5>1. ASSUME NEW j \in DOMAIN r PROVE BucketOf(r[j].rate) = b /\ h.index[r[j].tx] = b
          <6>1. PICK i \in DOMAIN s : r[j] = s[i]
            BY <3>3
          <6>2. BucketOf(s[i].rate) = b /\ g.index[s[i].tx] = b
            BY <2>1, <3>1 DEF BucketSound
          <6>3. s[i].tx \in Tx /\ r[j].tx # t
            BY <2>1, <3>3, <3>4
          <6> QED
            BY <3>2, <6>1, <6>2, <6>3
        <5> QED
          BY <3>2, <3>3, <4>2, <5>1 DEF BucketSound
      <4> QED
        BY <4>1, <4>2
    <3>6. ASSUME NEW u \in Tx PROVE HashFound(h, u)
      <4>1. CASE u = t
        BY <3>2, <4>1 DEF HashFound
      <4>2. CASE u # t /\ g.index[u] = 0
        BY <3>2, <4>2 DEF HashFound
      <4>3. CASE u # t /\ g.index[u] # 0
        <5> DEFINE c == g.index[u]
        <5>1. c \in BucketIds /\ h.index[u] = c
          BY <3>2, <4>3 DEF PbInv, PbShape
        <5>2. PICK i \in DOMAIN g.bucket[c] : g.bucket[c][i].tx = u
          BY <3>1, <4>3 DEF HashFound
        <5>3. \E j \in DOMAIN h.bucket[c] : h.bucket[c][j].tx = u
          <6>1. CASE c # b
            BY <3>2, <5>1, <5>2, <6>1
          <6>2. CASE c = b
            <7>1. i \in DOMAIN s /\ s[i].tx = u /\ s[i].tx # t
              BY <4>3, <5>2, <6>2
            <7>2. PICK j \in DOMAIN r : r[j] = s[i]
              BY <3>3, <7>1
            <7> QED
              BY <3>2, <6>2, <7>1, <7>2
          <6> QED
            BY <6>1, <6>2
        <5> QED
          BY <5>1, <5>3 DEF HashFound
      <4> QED
        BY <4>1, <4>2, <4>3
    <3> QED
      BY <3>5, <3>6
  <2> QED
    BY <2>6, <2>7 DEF PbInv, h
<1> QED
  BY <1>1, <1>2

-----------------------------------------------------------------------------
\* entries of every bucket, the highest first
Sorted(s) == \A i, j \in DOMAIN s : i < j => ListedBefore(s[i], s[j])
Bucketed(g) == UNION {ToSet(g.bucket[b]) : b \in BucketIds}

LEMMA ListedOnce ==
  ASSUME NEW a \in Ranked, NEW b \in Ranked
  PROVE  ~(ListedBefore(a, b) /\ ListedBefore(b, a))
<1>1. BucketOf(a.rate) \in Nat /\ BucketOf(b.rate) \in Nat
  <2>1. BucketIds \subseteq Nat
    BY BucketsAssumption DEF BucketIds
  <2> QED
    BY <2>1, BucketInRange
<1> QED
  BY <1>1, BeforeOrders DEF ListedBefore

\* a bucket after those above it
LEMMA SortedConcat ==
  ASSUME NEW s \in Seq(Ranked), NEW q \in Seq(Ranked), Sorted(s), Rising(q), NEW b \in Nat,
         \A i \in DOMAIN s : BucketOf(s[i].rate) > b, \A i \in DOMAIN q : BucketOf(q[i].rate) = b
  PROVE  /\ s \o q \in Seq(Ranked) /\ Sorted(s \o q)
         /\ \A i \in DOMAIN (s \o q) : (s \o q)[i] \in ToSet(s) \/ (s \o q)[i] \in ToSet(q)
         /\ \A x : x \in ToSet(s) \/ x \in ToSet(q) => \E i \in DOMAIN (s \o q) : (s \o q)[i] = x
<1> DEFINE r == s \o q
           m == Len(s)
           n == Len(q)
<1>1. m \in Nat /\ n \in Nat /\ DOMAIN s = 1 .. m /\ DOMAIN q = 1 .. n
  OBVIOUS
<1>2. /\ r \in Seq(Ranked) /\ Len(r) = m + n
      /\ \A i \in 1 .. m + n : r[i] = IF i <= m THEN s[i] ELSE q[i - m]
  BY ConcatProperties
<1> HIDE DEF r, m, n
<1>3. DOMAIN r = 1 .. m + n
  BY <1>2
<1>4. ASSUME NEW i \in 1 .. m + n, i <= m PROVE i \in 1 .. m /\ r[i] = s[i]
  BY <1>1, <1>2, <1>4
<1>5. ASSUME NEW i \in 1 .. m + n, i > m PROVE i - m \in 1 .. n /\ r[i] = q[i - m]
  BY <1>1, <1>2, <1>5
<1>6. Sorted(r)
  <2> SUFFICES ASSUME NEW i \in 1 .. m + n, NEW j \in 1 .. m + n, i < j PROVE ListedBefore(r[i], r[j])
    BY <1>3 DEF Sorted
  <2>1. CASE j <= m
    <3>1. i <= m
      BY <1>1, <2>1
    <3>2. i \in 1 .. m /\ j \in 1 .. m /\ r[i] = s[i] /\ r[j] = s[j]
      BY <1>4, <2>1, <3>1
    <3> QED
      BY <1>1, <3>2 DEF Sorted
  <2>2. CASE i > m
    <3>1. j > m
      BY <1>1, <2>2
    <3>2. i - m \in 1 .. n /\ j - m \in 1 .. n /\ r[i] = q[i - m] /\ r[j] = q[j - m]
      BY <1>5, <2>2, <3>1
    <3>3. i - m < j - m
      BY <1>1
    <3>4. Before(q[j - m], q[i - m]) /\ BucketOf(q[i - m].rate) = b /\ BucketOf(q[j - m].rate) = b
      BY <1>1, <3>2, <3>3 DEF Rising
    <3> QED
      BY <3>2, <3>4 DEF ListedBefore
  <2>3. CASE i <= m /\ j > m
    <3>1. i \in 1 .. m /\ j - m \in 1 .. n /\ r[i] = s[i] /\ r[j] = q[j - m]
      BY <1>4, <1>5, <2>3
    <3>2. BucketOf(s[i].rate) > b /\ BucketOf(q[j - m].rate) = b
      BY <1>1, <3>1
    <3> QED
      BY <3>1, <3>2 DEF ListedBefore
  <2> QED
    BY <1>1, <2>1, <2>2, <2>3
<1>7. ASSUME NEW i \in 1 .. m + n PROVE r[i] \in ToSet(s) \/ r[i] \in ToSet(q)
  <2>1. CASE i <= m
    <3>1. i \in 1 .. m /\ r[i] = s[i]
      BY <1>4, <2>1
    <3> QED
      BY <1>1, <3>1 DEF ToSet
  <2>2. CASE i > m
    <3>1. i - m \in 1 .. n /\ r[i] = q[i - m]
      BY <1>5, <2>2
    <3> QED
      BY <1>1, <3>1 DEF ToSet
  <2> QED
    BY <1>1, <2>1, <2>2
<1>8. ASSUME NEW x, x \in ToSet(s) \/ x \in ToSet(q) PROVE \E i \in 1 .. m + n : r[i] = x
  <2>1. CASE x \in ToSet(s)
    <3>1. PICK i \in 1 .. m : s[i] = x
      BY <1>1, <2>1 DEF ToSet
    <3>2. i \in 1 .. m + n /\ i <= m
      BY <1>1
    <3> QED
      BY <1>4, <3>1, <3>2
  <2>2. CASE x \in ToSet(q)
    <3>1. PICK i \in 1 .. n : q[i] = x
      BY <1>1, <2>2 DEF ToSet
    <3>2. i + m \in 1 .. m + n /\ i + m > m /\ (i + m) - m = i
      BY <1>1
    <3> QED
      BY <1>5, <3>1, <3>2
  <2> QED
    BY <1>8, <2>1, <2>2
<1> QED
  BY <1>2, <1>3, <1>6, <1>7, <1>8 DEF r

LEMMA AllInOrder ==
  ASSUME NEW g, PbInv(g), ~g.dup
  PROVE  AllOrdered(g) \in Seq(Ranked) /\ Sorted(AllOrdered(g)) /\ ToSet(AllOrdered(g)) = Bucketed(g)
<1> DEFINE N == Len(Thresholds) + 1
           q == Reverse(g.bucket)
<1>1. N \in Nat /\ BucketIds = 1 .. N
  BY BucketsAssumption DEF BucketIds
<1> HIDE DEF N
<1>2. g.bucket \in [1 .. N -> Seq(Ranked)] /\ Len(g.bucket) = N
  BY <1>1 DEF PbInv, PbShape
<1>3. Len(q) = N /\ DOMAIN q = 1 .. N /\ \A i \in 1 .. N : q[i] = g.bucket[(N - i) + 1]
  BY <1>1, <1>2 DEF Reverse
<1> DEFINE none == <<>>
<1>12. AllOrdered(g) = FoldLeft(ListBucket, none, q)
  BY DEF AllOrdered
<1> HIDE DEF q, none
<1>4. AllOrdered(g) = Listing!Fold(0, none, q)
  <2>1. FoldLeft(ListBucket, none, q) = Listing!Fold(0, none, q)
    BY Zenon DEF FoldLeft, MapThenFoldSet, Max, Listing!Fold, Listing!IsIter, Listing!Latest
  <2> QED
    BY <1>12, <2>1, Zenon
<1>5. PICK f : Listing!IsTrace(0, f, none, q) /\ Listing!Fold(0, none, q) = f[Len(q)]
  <2>1. Len(q) \in Nat /\ DOMAIN q = 1 .. Len(q)
    BY <1>1, <1>3
  <2> QED
    BY <2>1, Leasts, Listing!FoldTrace, Zenon
<1>6. f[0] = <<>> /\ \A i \in 1 .. N : f[i] = f[i - 1] \o q[i]
  <2>1. f[0] = none /\ \A i \in 1 .. N : f[i] = ListBucket(f[i - 1], q[i])
    BY <1>1, <1>3, <1>5, Listing!TraceStep
  <2> QED
    BY <2>1 DEF ListBucket, none
<1> DEFINE Lists(i) == /\ f[i] \in Seq(Ranked) /\ Sorted(f[i])
                       /\ \A j \in DOMAIN f[i] : BucketOf(f[i][j].rate) > N - i /\ \E b \in 1 .. N : f[i][j] \in ToSet(g.bucket[b])
                       /\ \A b \in 1 .. N : b > N - i => \A x \in ToSet(g.bucket[b]) : \E j \in DOMAIN f[i] : f[i][j] = x
           G == {i \in 0 .. N : Lists(i)}
<1>7. 0 \in G
  <2>1. Lists(0)
    BY <1>1, <1>6 DEF Sorted
  <2> QED
    BY <1>1, <2>1
<1>8. ASSUME NEW i \in 0 .. N - 1, i \in G PROVE i + 1 \in G
  <2> DEFINE b == N - i
             s == f[i]
             t == g.bucket[b]
             r == f[i + 1]
  <2>1. i + 1 \in 1 .. N /\ (i + 1) - 1 = i /\ i + 1 \in 0 .. N /\ b \in 1 .. N /\ b \in Nat /\ (N - (i + 1)) + 1 = b /\ N - (i + 1) = b - 1
    BY <1>1
  <2>2. r = s \o t
    <3>1. r = f[(i + 1) - 1] \o q[i + 1]
      BY <1>6, <2>1
    <3>2. q[i + 1] = g.bucket[(N - (i + 1)) + 1]
      BY <1>3, <2>1
    <3> QED
      BY <2>1, <3>1, <3>2
  <2>3. Lists(i)
    BY <1>8
  <2>4. s \in Seq(Ranked) /\ Sorted(s) /\ \A j \in DOMAIN s : BucketOf(s[j].rate) > b
    BY <2>3
  <2>5. t \in Seq(Ranked) /\ Rising(t) /\ \A j \in DOMAIN t : BucketOf(t[j].rate) = b
    BY <1>1, <1>2, <2>1 DEF PbInv, BucketSound
  <2>6. \A j \in DOMAIN s : \E c \in 1 .. N : s[j] \in ToSet(g.bucket[c])
    BY <2>3
  <2>7. \A c \in 1 .. N : c > b => \A x \in ToSet(g.bucket[c]) : x \in ToSet(s)
    BY <2>3 DEF ToSet
  <2> HIDE DEF Lists, s, t, b
  <2> HIDE DEF r
  <2>8. /\ r \in Seq(Ranked) /\ Sorted(r)
        /\ \A j \in DOMAIN r : r[j] \in ToSet(s) \/ r[j] \in ToSet(t)
        /\ \A x : x \in ToSet(s) \/ x \in ToSet(t) => \E j \in DOMAIN r : r[j] = x
    <3>1. /\ s \o t \in Seq(Ranked) /\ Sorted(s \o t)
          /\ \A j \in DOMAIN (s \o t) : (s \o t)[j] \in ToSet(s) \/ (s \o t)[j] \in ToSet(t)
          /\ \A x : x \in ToSet(s) \/ x \in ToSet(t) => \E j \in DOMAIN (s \o t) : (s \o t)[j] = x
      BY <2>1, <2>4, <2>5, SortedConcat
    <3> QED
      BY <2>2, <3>1, Zenon
  <2>9. ASSUME NEW j \in DOMAIN r PROVE BucketOf(r[j].rate) > b - 1 /\ \E c \in 1 .. N : r[j] \in ToSet(g.bucket[c])
    <3>1. CASE r[j] \in ToSet(s)
      <4>1. PICK k \in DOMAIN s : s[k] = r[j]
        BY <3>1 DEF ToSet
      <4>2. BucketOf(s[k].rate) > b /\ BucketOf(s[k].rate) \in Nat
        BY <1>1, <2>4, BucketInRange
      <4> QED
        BY <2>1, <2>6, <4>1, <4>2
    <3>2. CASE r[j] \in ToSet(t)
      <4>1. PICK k \in DOMAIN t : t[k] = r[j]
        BY <3>2 DEF ToSet
      <4> QED
        BY <2>1, <2>5, <3>2, <4>1 DEF t
    <3> QED
      BY <2>8, <3>1, <3>2
  <2>10. ASSUME NEW c \in 1 .. N, c > b - 1, NEW x \in ToSet(g.bucket[c]) PROVE \E j \in DOMAIN r : r[j] = x
    <3>1. CASE c > b
      BY <2>7, <2>8, <3>1
    <3>2. CASE c = b
      BY <2>8, <3>2 DEF t
    <3> QED
      BY <1>1, <2>1, <2>10, <3>1, <3>2
  <2>11. Lists(i + 1)
    BY <2>1, <2>8, <2>9, <2>10 DEF Lists, r
  <2> QED
    BY <2>1, <2>11
<1> HIDE DEF G
<1>9. N \in G
  <2>1. \A i \in 0 .. N : i \in G
    BY <1>1, <1>7, <1>8, UpTo
  <2> QED
    BY <1>1, <2>1
<1> DEFINE all == AllOrdered(g)
<1>10. all = f[N] /\ Lists(N)
  BY <1>3, <1>4, <1>5, <1>9 DEF G
<1> HIDE DEF all
<1>11. ToSet(all) = Bucketed(g)
  <2>1. ASSUME NEW x \in ToSet(all) PROVE x \in Bucketed(g)
    <3>1. PICK j \in DOMAIN all : all[j] = x
      BY DEF ToSet
    <3>2. \E b \in 1 .. N : all[j] \in ToSet(g.bucket[b])
      BY <1>10
    <3> QED
      BY <1>1, <3>1, <3>2 DEF Bucketed
  <2>2. ASSUME NEW x \in Bucketed(g) PROVE x \in ToSet(all)
    <3>1. PICK b \in 1 .. N : x \in ToSet(g.bucket[b])
      BY <1>1 DEF Bucketed
    <3>2. b > N - N
      BY <1>1
    <3>3. \E j \in DOMAIN all : all[j] = x
      BY <1>10, <3>1, <3>2
    <3> QED
      BY <3>3 DEF ToSet
  <2> QED
    BY <2>1, <2>2
<1> QED
  BY <1>10, <1>11 DEF all

-----------------------------------------------------------------------------
\* no hash is in two entries
LEMMA OneEntryPerHash ==
  ASSUME NEW g, PbInv(g), ~g.dup
  PROVE  /\ Bucketed(g) \in SUBSET Ranked
         /\ \A x, y \in Bucketed(g) : x.tx = y.tx => x = y
         /\ {e.tx : e \in Bucketed(g)} = {t \in Tx : g.index[t] # 0}
<1>1. /\ g.bucket \in [BucketIds -> Seq(Ranked)] /\ g.index \in [Tx -> BucketIds \union {0}]
      /\ (\A b \in BucketIds : BucketSound(g, b)) /\ \A t \in Tx : HashFound(g, t)
  BY DEF PbInv, PbShape
<1>2. 0 \notin BucketIds
  BY DEF BucketIds
<1>3. ASSUME NEW x \in Bucketed(g)
      PROVE  \E b \in BucketIds : \E i \in DOMAIN g.bucket[b] :
               g.bucket[b][i] = x /\ x \in Ranked /\ g.index[x.tx] = b
  <2>1. PICK b \in BucketIds : x \in ToSet(g.bucket[b])
    BY DEF Bucketed
  <2>2. PICK i \in DOMAIN g.bucket[b] : g.bucket[b][i] = x
    BY <2>1 DEF ToSet
  <2>3. x \in Ranked
    <3>1. g.bucket[b] \in Seq(Ranked)
      BY <1>1
    <3> QED
      BY <2>2, <3>1
  <2>4. g.index[x.tx] = b
    BY <1>1, <2>2 DEF BucketSound
  <2> QED
    BY <2>2, <2>3, <2>4
<1>4. ASSUME NEW x \in Bucketed(g), NEW y \in Bucketed(g), x.tx = y.tx PROVE x = y
  <2>1. PICK b \in BucketIds : \E i \in DOMAIN g.bucket[b] : g.bucket[b][i] = x /\ g.index[x.tx] = b
    BY <1>3
  <2>2. PICK c \in BucketIds : \E j \in DOMAIN g.bucket[c] : g.bucket[c][j] = y /\ g.index[y.tx] = c
    BY <1>3
  <2>3. PICK i \in DOMAIN g.bucket[b] : g.bucket[b][i] = x
    BY <2>1
  <2>4. b = c
    BY <1>4, <2>1, <2>2
  <2>5. PICK j \in DOMAIN g.bucket[b] : g.bucket[b][j] = y
    BY <2>2, <2>4
  <2>6. OncePerHash(g.bucket[b])
    BY <1>1 DEF BucketSound
  <2>7. i = j
    BY <1>4, <2>3, <2>5, <2>6 DEF OncePerHash
  <2> QED
    BY <2>3, <2>5, <2>7
<1>5. ASSUME NEW x \in Bucketed(g) PROVE x.tx \in Tx /\ g.index[x.tx] # 0
  <2>1. x \in Ranked /\ g.index[x.tx] \in BucketIds
    BY <1>3
  <2> QED
    BY <1>2, <2>1, RankedCounts
<1>6. ASSUME NEW t \in Tx, g.index[t] # 0 PROVE \E x \in Bucketed(g) : x.tx = t
  <2> DEFINE b == g.index[t]
  <2>1. b \in BucketIds
    BY <1>1, <1>6
  <2>2. PICK i \in DOMAIN g.bucket[b] : g.bucket[b][i].tx = t
    BY <1>1, <1>6 DEF HashFound
  <2>3. g.bucket[b][i] \in ToSet(g.bucket[b])
    BY DEF ToSet
  <2> HIDE DEF b
  <2>4. g.bucket[b][i] \in Bucketed(g)
    BY <2>1, <2>3 DEF Bucketed
  <2> QED
    BY <2>2, <2>4
<1>7. Bucketed(g) \in SUBSET Ranked
  BY <1>3
<1> QED
  BY <1>4, <1>5, <1>6, <1>7

\* a sorted listing has every entry once
LEMMA SortedDistinct ==
  ASSUME NEW s \in Seq(Ranked), Sorted(s)
  PROVE  /\ \A i, j \in 1 .. Len(s) : i # j => s[i] # s[j]
         /\ IsFiniteSet(ToSet(s)) /\ Cardinality(ToSet(s)) = Len(s)
<1> DEFINE n == Len(s)
           S == ToSet(s)
<1>1. n \in Nat /\ DOMAIN s = 1 .. n /\ \A i \in 1 .. n : s[i] \in Ranked
  OBVIOUS
<1>2. s \in [1 .. n -> S]
  BY <1>1 DEF ToSet
<1> HIDE DEF n
<1>3. ASSUME NEW i \in 1 .. n, NEW j \in 1 .. n, i < j, s[i] = s[j] PROVE FALSE
  <2>1. ListedBefore(s[i], s[j])
    BY <1>1, <1>3 DEF Sorted
  <2> QED
    BY <1>1, <1>3, <2>1, ListedOnce
<1>4. ASSUME NEW i \in 1 .. n, NEW j \in 1 .. n, s[i] = s[j] PROVE i = j
  <2>1. i < j \/ j < i \/ i = j
    BY <1>1
  <2> QED
    BY <1>3, <1>4, <2>1
<1>5. \A x \in S : \E i \in 1 .. n : s[i] = x
  BY <1>1 DEF ToSet
<1> HIDE DEF S
<1>6. s \in Bijection(1 .. n, S)
  BY <1>2, <1>4, <1>5 DEF Bijection, Injection, Surjection, IsInjective
<1>7. ExistsBijection(1 .. n, S)
  BY <1>6 DEF ExistsBijection
<1>8. IsFiniteSet(1 .. n) /\ Cardinality(1 .. n) = n
  BY <1>1, FS_Interval
<1>9. IsFiniteSet(S) /\ Cardinality(S) = Cardinality(1 .. n)
  BY <1>7, <1>8, FS_Bijection
<1> QED
  BY <1>4, <1>8, <1>9 DEF n, S

\* one order only
LEMMA SortedSame ==
  ASSUME NEW s \in Seq(Ranked), NEW p \in Seq(Ranked), Sorted(s), Sorted(p),
         ToSet(s) = ToSet(p), Len(s) = Len(p)
  PROVE  \A i \in 1 .. Len(s) : s[i] = p[i]
<1> DEFINE n == Len(s)
           Bad == {i \in 1 .. n : s[i] # p[i]}
<1>1. n \in Nat /\ DOMAIN s = 1 .. n /\ DOMAIN p = 1 .. n /\ \A i \in 1 .. n : s[i] \in Ranked /\ p[i] \in Ranked
  OBVIOUS
<1>2. /\ \A i, j \in 1 .. n : i # j => s[i] # s[j]
      /\ \A i, j \in 1 .. n : i # j => p[i] # p[j]
  BY SortedDistinct
<1>3. /\ \A i \in 1 .. n : \E k \in 1 .. n : p[k] = s[i]
      /\ \A i \in 1 .. n : \E k \in 1 .. n : s[k] = p[i]
  BY <1>1 DEF ToSet
<1>4. ASSUME Bad # {} PROVE FALSE
  <2>1. Bad \in SUBSET Nat
    BY <1>1
  <2>2. PICK i \in Bad : \A j \in Bad : i <= j
    <3> HIDE DEF Bad
    <3> QED
      BY <1>4, <2>1, Smallest
  <2> HIDE DEF n
  <2>3. i \in 1 .. n /\ s[i] # p[i] /\ \A j \in 1 .. n : j < i => s[j] = p[j]
    BY <1>1, <2>2
  <2>4. PICK k \in 1 .. n : p[k] = s[i]
    BY <1>3, <2>3
  <2>5. PICK m \in 1 .. n : s[m] = p[i]
    BY <1>3, <2>3
  <2>6. k > i
    <3>1. k # i
      BY <2>3, <2>4
    <3>2. ~(k < i)
      <4>1. ASSUME k < i PROVE FALSE
        <5>1. s[k] = s[i] /\ k # i
          BY <1>1, <2>3, <2>4, <4>1
        <5> QED
          BY <1>2, <2>3, <5>1
      <4> QED
        BY <4>1
    <3> QED
      BY <1>1, <2>3, <3>1, <3>2
  <2>7. m > i
    <3>1. m # i
      BY <2>3, <2>5
    <3>2. ~(m < i)
      <4>1. ASSUME m < i PROVE FALSE
        <5>1. p[m] = p[i] /\ m # i
          BY <1>1, <2>3, <2>5, <4>1
        <5> QED
          BY <1>2, <2>3, <5>1
      <4> QED
        BY <4>1
    <3> QED
      BY <1>1, <2>3, <3>1, <3>2
  <2>8. ListedBefore(p[i], p[k]) /\ ListedBefore(s[i], s[m])
    BY <1>1, <2>3, <2>6, <2>7 DEF Sorted
  <2>9. ListedBefore(p[i], s[i]) /\ ListedBefore(s[i], p[i])
    BY <2>4, <2>5, <2>8
  <2> QED
    BY <1>1, <2>3, <2>9, ListedOnce
<1> QED
  BY <1>4

\* the whole listing, when the limit leaves room
LEMMA ListedWhole ==
  ASSUME NEW g, PbInv(g), ~g.dup, NEW limit \in Nat, Len(AllOrdered(g)) <= limit
  PROVE  OrderedTransactions(g, limit) = AllOrdered(g)
<1> DEFINE all == AllOrdered(g)
           n == Len(all)
           m == Max({1, limit})
           k == Min({m, n})
<1>1. all \in Seq(Ranked)
  BY AllInOrder
<1> HIDE DEF all
<1>2. n \in Nat
  BY <1>1
<1>3. m \in Nat /\ limit <= m
  <2>1. \E x \in {1, limit} : \A y \in {1, limit} : x >= y
    OBVIOUS
  <2>2. m \in {1, limit} /\ \A y \in {1, limit} : m >= y
    BY <2>1, Zenon DEF Max
  <2> HIDE DEF m
  <2> QED
    BY <2>2
<1> HIDE DEF m, n
<1>4. n <= m
  BY <1>2, <1>3 DEF n, all
<1>5. k = n
  <2>1. \E x \in {m, n} : \A y \in {m, n} : x <= y
    BY <1>2, <1>3
  <2>2. k \in {m, n} /\ \A y \in {m, n} : k <= y
    BY <2>1, Zenon DEF Min
  <2> HIDE DEF k
  <2> QED
    BY <1>2, <1>3, <1>4, <2>2
<1>6. OrderedTransactions(g, limit) = SubSeq(all, 1, k)
  BY DEF OrderedTransactions, all, m, n
<1> HIDE DEF k
<1>7. SubSeq(all, 1, n) = all
  BY <1>1 DEF n
<1> QED
  BY <1>5, <1>6, <1>7 DEF all

\* there is room: no two entries have a hash in common
LEMMA ListingFits ==
  ASSUME NEW g, PbInv(g), ~g.dup
  PROVE  Cardinality(Tx) \in Nat /\ Len(AllOrdered(g)) <= Cardinality(Tx)
<1> DEFINE all == AllOrdered(g)
           n == Len(all)
           f == [i \in 1 .. n |-> all[i].tx]
<1>1. all \in Seq(Ranked) /\ Sorted(all) /\ ToSet(all) = Bucketed(g)
  BY AllInOrder
<1> HIDE DEF all
<1>2. n \in Nat /\ DOMAIN all = 1 .. n /\ \A i \in 1 .. n : all[i] \in Ranked /\ all[i] \in Bucketed(g)
  BY <1>1 DEF ToSet
<1>3. \A i, j \in 1 .. n : i # j => all[i] # all[j]
  BY <1>1, SortedDistinct
<1> HIDE DEF n
<1>4. f \in [1 .. n -> Tx]
  BY <1>2, RankedCounts
<1>5. ASSUME NEW i \in 1 .. n, NEW j \in 1 .. n, f[i] = f[j] PROVE i = j
  <2>1. all[i].tx = all[j].tx
    BY <1>5
  <2>2. all[i] = all[j]
    BY <1>2, <2>1, OneEntryPerHash
  <2> QED
    BY <1>3, <2>2
<1> HIDE DEF f
<1>6. f \in Injection(1 .. n, Tx)
  BY <1>4, <1>5 DEF Injection, IsInjective
<1>7. IsFiniteSet(Tx)
  BY BucketsAssumption
<1>8. Cardinality(1 .. n) = n
  BY <1>2, FS_Interval
<1>9. Cardinality(1 .. n) <= Cardinality(Tx)
  BY <1>6, <1>7, FS_Injection
<1> QED
  BY <1>7, <1>8, <1>9, FS_CardinalityType DEF n, all

\* every peer with the entries lists them as s does
LEMMA PeersAgree ==
  ASSUME NEW s \in Seq(Ranked), Sorted(s)
  PROVE  /\ s \in PeerOrders(ToSet(s))
         /\ \A peer \in PeerOrders(ToSet(s)) : Len(peer) = Len(s) /\ DOMAIN peer = 1 .. Len(s)
                                               /\ \A i \in 1 .. Len(s) : s[i] = peer[i]
<1> DEFINE n == Len(s)
           S == ToSet(s)
<1>1. n \in Nat /\ DOMAIN s = 1 .. n /\ \A i \in 1 .. n : s[i] \in Ranked
  OBVIOUS
<1>2. S \in SUBSET Ranked /\ s \in [1 .. n -> S]
  BY <1>1 DEF ToSet
<1>3. /\ \A i, j \in 1 .. n : i # j => s[i] # s[j]
      /\ IsFiniteSet(S) /\ Cardinality(S) = n
  BY SortedDistinct
<1> HIDE DEF n, S
<1>4. SetToSeqs(S) = {f \in [1 .. n -> S] : \A i, j \in 1 .. n : i # j => f[i] # f[j]}
  BY <1>3 DEF SetToSeqs
<1>5. s \in PeerOrders(S)
  <2>1. s \in SetToSeqs(S)
    BY <1>2, <1>3, <1>4
  <2> QED
    BY <2>1 DEF PeerOrders, Sorted
<1>6. ASSUME NEW peer \in PeerOrders(S)
      PROVE  Len(peer) = n /\ DOMAIN peer = 1 .. n /\ \A i \in 1 .. n : s[i] = peer[i]
  <2>1. peer \in SetToSeqs(S) /\ Sorted(peer)
    BY DEF PeerOrders, Sorted
  <2>2. peer \in [1 .. n -> S] /\ \A i, j \in 1 .. n : i # j => peer[i] # peer[j]
    BY <1>4, <2>1
  <2>3. peer \in Seq(Ranked) /\ Len(peer) = n /\ DOMAIN peer = 1 .. n
    BY <1>1, <1>2, <2>2
  <2>4. peer \in Injection(1 .. n, S)
    BY <2>2 DEF Injection, IsInjective
  <2>5. Cardinality(1 .. n) = n
    BY <1>1, FS_Interval
  <2>6. peer \in Surjection(1 .. n, S)
    BY <1>3, <2>4, <2>5, FS_Injection
  <2>7. \A x \in S : \E i \in 1 .. n : peer[i] = x
    BY <2>6 DEF Surjection
  <2>8. ToSet(peer) = S
    BY <2>2, <2>3, <2>7 DEF ToSet
  <2>9. ToSet(s) = ToSet(peer) /\ Len(s) = Len(peer)
    BY <2>3, <2>8 DEF S, n
  <2> QED
    BY <2>1, <2>3, <2>9, SortedSame DEF n
<1> QED
  BY <1>5, <1>6 DEF n, S

LEMMA ListingAgrees ==
  ASSUME NEW g, PbInv(g), ~g.dup
  PROVE  LET ours == OrderedTransactions(g, Cardinality(Tx))
             all == ToSet(ours)
         IN  /\ ours \in Seq(Ranked) /\ IsFiniteSet(all)
             /\ {e.tx : e \in all} = {t \in Tx : g.index[t] # 0}
             /\ ours \in PeerOrders(all)
             /\ \A peer \in PeerOrders(all) : AgreesWithPeer(g, peer)
<1> DEFINE s == AllOrdered(g)
           S == ToSet(s)
<1>1. s \in Seq(Ranked) /\ Sorted(s) /\ S = Bucketed(g)
  BY AllInOrder
<1>2. OrderedTransactions(g, Cardinality(Tx)) = s
  BY ListingFits, ListedWhole
<1>3. OrderedTransactions(g, Len(s)) = s
  <2>1. Len(s) \in Nat /\ Len(s) <= Len(s)
    BY <1>1
  <2> QED
    BY <2>1, ListedWhole
<1> HIDE DEF s
<1>4. {e.tx : e \in S} = {t \in Tx : g.index[t] # 0}
  BY <1>1, OneEntryPerHash
<1>5. ASSUME NEW peer \in PeerOrders(S) PROVE AgreesWithPeer(g, peer)
  <2>1. Len(peer) = Len(s) /\ DOMAIN peer = 1 .. Len(s) /\ \A i \in 1 .. Len(s) : s[i] = peer[i]
    BY <1>1, PeersAgree
  <2>2. OrderedTransactions(g, Len(peer)) = s
    BY <1>3, <2>1
  <2> QED
    BY <2>1, <2>2 DEF AgreesWithPeer
<1>6. s \in PeerOrders(S) /\ IsFiniteSet(S)
  BY <1>1, PeersAgree, SortedDistinct
<1> QED
  BY <1>1, <1>2, <1>4, <1>5, <1>6

\* import_ordered_batch into an engine that has been cleared
LEMMA ImportSound ==
  ASSUME NEW order \in Seq(Ranked)
  PROVE  PbInv(FoldLeft(InsertIn, NoBuckets, order))
<1> DEFINE base == NoBuckets
           n == Len(order)
<1>1. PbInv(base)
  BY NoBucketsSound
<1> HIDE DEF base
<1>2. FoldLeft(InsertIn, base, order) = Importing!Fold(0, base, order)
  BY Zenon DEF FoldLeft, MapThenFoldSet, Max, Importing!Fold, Importing!IsIter, Importing!Latest
<1>3. n \in Nat /\ DOMAIN order = 1 .. n /\ \A i \in 1 .. n : order[i] \in Ranked
  OBVIOUS
<1>4. PICK f : Importing!IsTrace(0, f, base, order) /\ Importing!Fold(0, base, order) = f[Len(order)]
  <2>1. Len(order) \in Nat /\ DOMAIN order = 1 .. Len(order)
    BY <1>3
  <2> QED
    BY <2>1, Leasts, Importing!FoldTrace, Zenon
<1>5. f[0] = base /\ \A i \in 1 .. n : f[i] = InsertIn(f[i - 1], order[i])
  BY <1>3, <1>4, Importing!TraceStep
<1> DEFINE G == {i \in 0 .. n : PbInv(f[i])}
<1>6. 0 \in G
  BY <1>1, <1>3, <1>5
<1>7. ASSUME NEW i \in 0 .. n - 1, i \in G PROVE i + 1 \in G
  <2>1. i + 1 \in 1 .. n /\ (i + 1) - 1 = i /\ i + 1 \in 0 .. n
    BY <1>3
  <2>2. f[i + 1] = InsertIn(f[i], order[i + 1]) /\ order[i + 1] \in Ranked /\ PbInv(f[i])
    BY <1>3, <1>5, <1>7, <2>1
  <2>3. PbInv(f[i + 1])
    BY <2>2, InsertInKeeps
  <2> QED
    BY <2>1, <2>3
<1> HIDE DEF G
<1>8. \A i \in 0 .. n : i \in G
  BY <1>3, <1>6, <1>7, UpTo
<1>9. PbInv(f[n])
  BY <1>3, <1>8 DEF G
<1> QED
  BY <1>2, <1>4, <1>9 DEF base

LEMMA BucketsStep == PbInv(pb) /\ [PbNext]_pb => PbInv(pb)'
<1> SUFFICES ASSUME PbInv(pb), [PbNext]_pb PROVE PbInv(pb')
  OBVIOUS
<1>1. ASSUME NEW t \in Tx, RemoveFromBuckets(t) PROVE PbInv(pb')
  BY <1>1, RemoveInKeeps DEF RemoveFromBuckets
<1>2. ASSUME NEW t \in Tx, NEW r \in Rates, NEW a \in Times, AddTransaction(t, r, a) PROVE PbInv(pb')
  <2>1. Entry(t, r, a) \in Ranked
    BY DEF Entry, Ranked
  <2> QED
    BY <1>2, <2>1, InsertInKeeps DEF AddTransaction
<1>3. ASSUME NEW order \in Seq(Ranked), Rebuild(order) PROVE PbInv(pb')
  BY <1>3, ImportSound DEF Rebuild, NoBuckets
<1>4. CASE ClearAndImport
  <2> DEFINE all == ToSet(OrderedTransactions(pb, Cardinality(Tx)))
  <2>1. ~pb.dup
    BY <1>4 DEF ClearAndImport
  <2>2. PICK order \in SetToSeqs(all) : Rebuild(order)
    BY <1>4 DEF ClearAndImport
  <2>3. all \in SUBSET Ranked /\ IsFiniteSet(all)
    <3>1. OrderedTransactions(pb, Cardinality(Tx)) \in Seq(Ranked) /\ IsFiniteSet(all)
      BY <2>1, ListingAgrees
    <3> QED
      BY <3>1 DEF ToSet
  <2> HIDE DEF all
  <2>4. Cardinality(all) \in Nat /\ order \in [1 .. Cardinality(all) -> all]
    BY <2>3, FS_CardinalityType DEF SetToSeqs
  <2>5. order \in Seq(Ranked)
    BY <2>3, <2>4
  <2> QED
    BY <1>3, <2>2, <2>5
<1>5. CASE ClearBuckets
  <2>1. <<>> \in Seq(Ranked)
    OBVIOUS
  <2> QED
    BY <1>3, <1>5, <2>1 DEF ClearBuckets
<1>6. CASE UNCHANGED pb
  BY <1>6
<1> QED
  BY <1>1, <1>2, <1>4, <1>5, <1>6 DEF PbNext

(* For every set of transactions, any thresholds, fee rates and arrival    *)
(* times: while no hash is inserted twice, what get_ordered_transactions   *)
(* lists has every indexed hash once, and any peer that holds the same     *)
(* entries, however they came in, lists them in the same order.            *)
THEOREM OrderAlwaysDeterministic == BucketsSpec => []OrderDeterministic
<1>1. PbInit => PbInv(pb)
  BY NoBucketsSound DEF PbInit, NoBuckets
<1>2. PbInv(pb) => OrderDeterministic
  <2> SUFFICES ASSUME PbInv(pb), ~pb.dup PROVE OrderDeterministic
    BY DEF OrderDeterministic
  <2> QED
    BY ListingAgrees DEF OrderDeterministic
<1> QED
  BY <1>1, <1>2, BucketsStep, PTL DEF BucketsSpec
=============================================================================
