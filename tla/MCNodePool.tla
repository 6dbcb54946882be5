---------------------------- MODULE MCNodePool ----------------------------
(* Transaction 2 is the child of 1; 3 spends the output 1 spends and one   *)
(* of 20; 4 spends another output of 20, which the graph cannot tell from  *)
(* the one of 3, and its fee density is too low outside strict mode.       *)
EXTENDS NodePool

MCTx == 1..4
MCSpends == <<{<<10, 0>>}, {<<1, 0>>, <<1, 1>>}, {<<10, 0>>, <<20, 0>>}, {<<20, 1>>}>>
MCOutputs == <<{<<1, 0>>, <<1, 1>>}, {}, {}, {}>>
MCRates == <<{10}, {12}, {11}, {3}>>
MCWeight == <<3, 2, 3, 2>>
MCMinDensity == <<1, 2, 1, 5>>
MCSource == [x \in MCTx |-> "s"]
MCInitialUtxo == {<<10, 0>>, <<20, 0>>, <<20, 1>>}
Symm == Permutations(Threads)
===========================================================================
