--------------------------- MODULE OwnershipPool ----------------------------
(***************************************************************************)
(* UtxoTracker (mempool/conflict.rs): which pending transaction has        *)
(* claimed an output, and which outputs a transaction has claimed;         *)
(* register_claims first looks at all its inputs and then writes, so       *)
(* another call can come in between.  UtxoOwnershipManager (ownership.rs): *)
(* a transaction enters the pool only with the claims on all its inputs.   *)
(* The manager uses the claims and the pool one call after the other; an   *)
(* add has a first half (look at the conflicts, replace the rivals) and a  *)
(* second (claim and enter the pool), and another call can come in         *)
(* between.                                                                *)
(***************************************************************************)
EXTENDS Transactions, FiniteSets, SequencesExt

CONSTANT Fee   \* [Tx -> Nat]

VARIABLES ut,       \* claims: [outpoint -> claimant or NoTx]; held: tx_claims
          pending   \* transactions whose register_claims has passed its checks

NoTx == 0
utVars == <<ut, pending>>

NewUtxoTracker == [claims |-> [o \in Outpoints |-> NoTx], held |-> [t \in Tx |-> {}], tracked |-> {}]

\* The loop over the inputs of register_claims: a claim with a lower fee is dropped at
\* once, one with the same or a higher fee ends the call.
Outbid(u, t, o) == u.claims[o] # NoTx /\ Fee[t] <= Fee[u.claims[o]]
CheckInput(t, acc, o) == IF ~acc.ok \/ Outbid(acc.u, t, o) THEN [acc EXCEPT !.ok = FALSE]
                         ELSE [acc EXCEPT !.u.claims[o] = NoTx]
CheckInputs(u, t) == FoldLeft(LAMBDA acc, o : CheckInput(t, acc, o), [ok |-> TRUE, u |-> u], Spends[t])

\* mutant: the claims of the transaction itself are not recorded
ClaimedUnheld(u, t) ==
  [u EXCEPT !.claims = [o \in Outpoints |-> IF o \in ToSet(Spends[t]) THEN t ELSE @[o]],
            !.tracked = @ \union {t}]

Claimed(u, t) ==
  [u EXCEPT !.claims = [o \in Outpoints |-> IF o \in ToSet(Spends[t]) THEN t ELSE @[o]],
            !.held[t] = ToSet(Spends[t]), !.tracked = @ \union {t}]

\* release_claims frees the outputs the transaction once claimed, whoever claims them now
Released(u, t) ==
  [u EXCEPT !.claims = [o \in Outpoints |-> IF o \in u.held[t] THEN NoTx ELSE @[o]],
            !.held[t] = {}, !.tracked = @ \ {t}]

-----------------------------------------------------------------------------
UtInit == ut = NewUtxoTracker /\ pending = {}

RegisterCheck(t) ==
  LET r == CheckInputs(ut, t)
  IN /\ t \notin pending
     /\ ut' = r.u
     /\ pending' = IF r.ok THEN pending \union {t} ELSE pending

RegisterClaim(t) ==
  /\ t \in pending
  /\ ut' = Claimed(ut, t)
  /\ pending' = pending \ {t}

ReleaseClaims(t) == t \in ut.tracked /\ ut' = Released(ut, t) /\ UNCHANGED pending

\* attempt_rbf_replacement up to the second half of the registration
AttemptRbfReplacement(old, new) ==
  /\ Fee[new] > Fee[old]
  /\ old \in ut.tracked
  /\ new \notin pending
  /\ LET r == CheckInputs(Released(ut, old), new)
     IN /\ ut' = r.u
        /\ pending' = IF r.ok THEN pending \union {new} ELSE pending

ClearAll == ut' = NewUtxoTracker /\ UNCHANGED pending

UtNext == \/ \E t \in Tx : RegisterCheck(t) \/ RegisterClaim(t) \/ ReleaseClaims(t)
          \/ \E a, b \in Tx : AttemptRbfReplacement(a, b)
          \/ ClearAll

-----------------------------------------------------------------------------
\* Whoever claims an output of register_claims has it among those that its release frees, also when calls
\* come between the checks and the writes.
ClaimsHeld == \A o \in Outpoints :
  ut.claims[o] # NoTx => ut.claims[o] \in ut.tracked /\ o \in ut.held[ut.claims[o]]

-----------------------------------------------------------------------------
(* The ownership manager *)
VARIABLE own   \* status: what the pool holds; tainted is history: register_claims has pushed
               \* a claim aside (its owner still counts it as held), or a failed transition
               \* has released the claims of a live transaction

Live == {"Pending", "Validated"}
CanTransition(s, to) == \/ s = "Pending" /\ to \in {"Validated", "Rejected"}
                        \/ s = "Validated" /\ to \in {"InBlock", "Rejected"}
                        \/ s \in Live /\ s = to

OwInit == /\ UtInit
          /\ own = [status |-> [t \in Tx |-> "none"], tainted |-> FALSE]

\* mutant: the claims of the rival are released and it stays in the pool
ReplaceUnremoved(acc, t, c) ==
  IF Fee[t] <= Fee[c] \/ c \notin acc.u.tracked THEN [acc EXCEPT !.ok = FALSE]
  ELSE [acc EXCEPT !.u = Released(@, c)]
\* one conflicting output: the rival leaves the pool and its claims are released
ReplaceRival(acc, t, c) ==
  IF Fee[t] <= Fee[c] \/ acc.status[c] = "none" \/ c \notin acc.u.tracked
    THEN [acc EXCEPT !.ok = FALSE, !.status[c] = IF Fee[t] > Fee[c] THEN "none" ELSE @]
    ELSE [acc EXCEPT !.status[c] = "none", !.u = Released(@, c)]
\* the loop over the claimed inputs that check_conflicts found, those that a replacement has not
\* freed since; a refusal keeps the replacements made before
ReplaceClaimant(t, acc, o) == IF ~acc.ok \/ acc.u.claims[o] = NoTx THEN acc
                              ELSE ReplaceRival(acc, t, acc.u.claims[o])
ReplaceRivals(t) == FoldLeft(LAMBDA acc, o : ReplaceClaimant(t, acc, o),
                             [ok |-> TRUE, u |-> ut, status |-> own.status], Spends[t])

\* register_claims, and then the pool, which may refuse; the claims stay with a refusal
ClaimAndEnter(t) ==
  LET r == CheckInputs(ut, t)
      u == IF r.ok THEN Claimed(r.u, t) ELSE r.u
      lost == own.tainted \/ \E o \in Outpoints : ut.claims[o] \notin {NoTx, u.claims[o]}
  IN /\ ut' = u
     /\ \/ own' = [own EXCEPT !.tainted = lost]
        \/ /\ r.ok
           /\ own.status[t] = "none"
           /\ own' = [own EXCEPT !.status[t] = "Pending", !.tainted = lost]

-----------------------------------------------------------------------------
AddBegin(t) ==
  LET r == ReplaceRivals(t)
  IN /\ t \notin pending
     /\ ut' = r.u
     /\ own' = [own EXCEPT !.status = r.status]
     /\ pending' = IF r.ok THEN pending \union {t} ELSE pending
AddFinish(t) == t \in pending /\ pending' = pending \ {t} /\ ClaimAndEnter(t)
AddUnchecked(t) == ClaimAndEnter(t) /\ UNCHANGED pending

\* remove_transaction releases only what it found in the pool
RemoveOwned(t) ==
  /\ own.status[t] # "none"
  /\ own' = [own EXCEPT !.status[t] = "none"]
  /\ ut' = IF t \in ut.tracked THEN Released(ut, t) ELSE ut
  /\ UNCHANGED pending

\* transition_status: the claims go before the pool is asked whether the step is legal
TransitionStatus(t, s) ==
  /\ s = "InBlock" => t \in ut.tracked
  /\ ut' = IF s = "InBlock" THEN Released(ut, t) ELSE ut
  /\ own' = IF CanTransition(own.status[t], s) THEN [own EXCEPT !.status[t] = s]
            ELSE [own EXCEPT !.tainted = @ \/ (s = "InBlock" /\ own.status[t] \in Live)]
  /\ UNCHANGED pending

\* the pool drops what has expired and the claims stay
CleanupExpired(S) ==
  /\ own' = [own EXCEPT !.status = [t \in Tx |-> IF t \in S THEN "none" ELSE @[t]]]
  /\ UNCHANGED utVars

\* one transaction of sync_with_new_block
SyncWithNewBlock(t) ==
  /\ t \in ut.tracked
  /\ ut' = Released(ut, t)
  /\ own' = [own EXCEPT !.status[t] = "none"]
  /\ UNCHANGED pending

OwNext ==
  \/ \E t \in Tx : \/ AddBegin(t) \/ AddFinish(t) \/ AddUnchecked(t)
                   \/ RemoveOwned(t) \/ SyncWithNewBlock(t)
                   \/ \E s \in {"Validated", "Rejected", "InBlock"} : TransitionStatus(t, s)
  \/ \E S \in SUBSET Tx : CleanupExpired(S)

-----------------------------------------------------------------------------
\* A live pooled transaction holds the claim on each of its inputs, so that no two of them
\* spend the same output, whatever calls interleave, unless register_claims pushed a claim aside
\* or a failed transition released one.
LiveHoldClaims ==
  ~own.tainted => \A t \in Tx : own.status[t] \in Live =>
                    /\ t \in ut.tracked
                    /\ \A o \in ToSet(Spends[t]) : ut.claims[o] = t
=============================================================================
