----------------------------- MODULE MCMempool -----------------------------
(* TLC instance of Mempool: transactions 1 and 2 spend the same outpoint, 3  *)
(* spends an output of 1, 4 is larger than the whole pool, 5 pays too      *)
(* little to be accepted but is mined elsewhere, 6 is small and cheap.      *)
EXTENDS Mempool

MCInputs == <<{"a"}, {"a"}, {"c"}, {"b"}, {"b"}, {"b"}>>
MCOutputs == <<{"c"}, {}, {}, {"d"}, {}, {}>>
MCSize == <<1, 2, 1, 5, 1, 1>>
MCFee == <<2, 3, 1, 2, 0, 1>>
============================================================================
