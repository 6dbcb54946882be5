---------------------------- MODULE Transactions ----------------------------
(***************************************************************************)
(* What the structures around the pool of the node know of a transaction   *)
(* (state/transaction.rs): its id and the outputs its inputs name, in      *)
(* order.                                                                  *)
(***************************************************************************)
EXTENDS Naturals, Sequences

CONSTANTS Tx,       \* ids; 0 is the absence of one
          Spends    \* [Tx -> Seq(outpoint)]

Outpoints == UNION {{Spends[t][i] : i \in DOMAIN Spends[t]} : t \in Tx}

ASSUME TransactionsAssumption == 0 \notin Tx /\ \A t \in Tx : Spends[t] \in Seq(Outpoints)
=============================================================================
