----------------------------- MODULE MCStorage -----------------------------
(* Two threads, two outputs; the block spends the first, creates the       *)
(* second.                                                                 *)
EXTENDS Storage
CONSTANTS t1, t2
MCThreads == {t1, t2}
MCUtxo == {"u1", "u2"}
MCBlock == {"b1"}
MCTxId == {"x1"}
MCTxs == [b \in MCBlock |-> <<[id |-> "x1", spends |-> {"u1"}, creates |-> {"u2"}]>>]
============================================================================
