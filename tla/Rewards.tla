------------------------------ MODULE Rewards ------------------------------
(***************************************************************************)
(* Emission and rewards (consensus/emission.rs, consensus/reward.rs): the  *)
(* subsidy halves down to one unit under a cap of the supply, and a blue   *)
(* block's coinbase splits subsidy and fees 80/20.  The amounts are scaled *)
(* down.  One blue block per score: the emission counts no more.           *)
(***************************************************************************)
EXTENDS Integers, SequencesExt

CONSTANTS BaseReward, HalvingInterval,
          HalvingTable,      \* HALVING_REWARDS, from the base reward down to 1
          CumulativeTable,   \* CUMULATIVE_REWARDS
          Supplies,          \* values of MAX_SUPPLY to try
          HalvingModulus,    \* halvings are counted modulo that (2^32)
          RewardMax,         \* u64::MAX
          FeeBlocks,         \* the transactions of a block: sequences of [coinbase, base, gas, price]
          MaxScore           \* bound on the score

ASSUME RewardsAssumption ==
  /\ BaseReward \in Nat \ {0} /\ HalvingInterval \in Nat \ {0} /\ HalvingModulus \in Nat \ {0}
  /\ RewardMax \in Nat /\ Supplies \subseteq Nat
  /\ FeeBlocks \subseteq Seq([coinbase : BOOLEAN, base : Nat, gas : Nat, price : Nat])
\* the rewards of the table are those of the loop, down to 1 within its 128 halvings, with their prefix sums
ASSUME TablesAssumption ==
  /\ HalvingTable \in Seq(Nat) /\ CumulativeTable \in Seq(Nat)
  /\ Len(HalvingTable) \in 1 .. 129 /\ Len(CumulativeTable) = Len(HalvingTable)
  /\ HalvingTable[1] = BaseReward /\ HalvingTable[Len(HalvingTable)] = 1 /\ CumulativeTable[1] = BaseReward
  /\ \A i \in 2 .. Len(HalvingTable) :
       /\ HalvingTable[i] = IF HalvingTable[i - 1] \div 2 > 1 THEN HalvingTable[i - 1] \div 2 ELSE 1
       /\ CumulativeTable[i] = CumulativeTable[i - 1] + HalvingTable[i]

VARIABLE rw   \* cap: MAX_SUPPLY; score; history: issued, the subsidies paid; collected, the fees
              \* paid; minted, the value of all coinbase outputs; last, the last coinbase made:
              \* [total, nodes, pool, outputs] or <<>>

MinReward == 1
MinerPercent == 80
NoCoinbase == <<>>
RwInit == \E cap \in Supplies :
  rw = [cap |-> cap, score |-> 0, issued |-> 0, collected |-> 0, minted |-> 0, last |-> NoCoinbase]

AtLeast(a, b) == IF a > b THEN a ELSE b
AtMost(a, b) == IF a < b THEN a ELSE b
Less(a, b) == IF a > b THEN a - b ELSE 0

Halve(reward) == AtLeast(reward \div 2, MinReward)
Halved(steps) == FoldLeft(LAMBDA r, i : Halve(r), BaseReward, [i \in 1 .. steps |-> i])
\* the number of halvings is cut to u32 before it is capped at 128
RawBlockReward(score) ==
  IF score = 0 THEN BaseReward ELSE Halved(AtMost((score \div HalvingInterval) % HalvingModulus, 128))

FullEmitted(intervals) ==
  IF intervals = 0 THEN 0
  ELSE IF intervals <= Len(HalvingTable) THEN CumulativeTable[intervals] * HalvingInterval
  ELSE (Last(CumulativeTable) + (intervals - Len(HalvingTable)) * MinReward) * HalvingInterval
NextReward(intervals) == IF intervals < Len(HalvingTable) THEN HalvingTable[intervals + 1] ELSE MinReward
TotalEmitted(score, cap) ==
  LET intervals == score \div HalvingInterval
  IN AtMost(FullEmitted(intervals) + (score % HalvingInterval) * NextReward(intervals), cap)

\* mutant: the last reward is not cut to what is left
CappedWhole(score, cap) == IF TotalEmitted(score, cap) >= cap THEN 0 ELSE RawBlockReward(score)
CappedReward(score, cap) ==
  IF TotalEmitted(score, cap) >= cap THEN 0
  ELSE AtMost(RawBlockReward(score), cap - TotalEmitted(score, cap))

\* emission::block_reward and validate_reward_split
BlockReward(score, cap, nodes) ==
  LET total == CappedReward(score, cap)
      miner == IF nodes = 0 THEN total ELSE (total * MinerPercent) \div 100
      infra == IF nodes = 0 THEN 0 ELSE Less(total, miner)
  IN [miner |-> miner, infra |-> infra, perNode |-> IF nodes = 0 THEN 0 ELSE infra \div nodes]
ValidateRewardSplit(score, cap, nodes) ==
  LET r == BlockReward(score, cap, nodes) IN r.miner + r.infra <= CappedReward(score, cap)

-----------------------------------------------------------------------------
NoReward == RewardMax + 1
CalculateTxTotalFee(tx) == tx.base + tx.gas * tx.price
\* the sum leaves the width of an amount: the whole block is refused
AddFee(sum, tx) == IF tx.coinbase \/ sum = NoReward THEN sum ELSE AtMost(sum + CalculateTxTotalFee(tx), NoReward)
CalculateAcceptedFees(txs) == FoldLeft(AddFee, 0, txs)
BlockTotalReward(txs, score, cap, blue) ==
  IF ~blue THEN 0
  ELSE IF CalculateAcceptedFees(txs) = NoReward THEN NoReward
  ELSE AtMost(CappedReward(score, cap) + CalculateAcceptedFees(txs), NoReward)

\* mutant: without an address of the pool its share is paid to nobody
CreateWithoutShare(pool, nodes, total) ==
  LET miner == IF nodes = 0 THEN total ELSE (total * MinerPercent) \div 100
      share == IF pool THEN Less(total, miner) ELSE 0
      first == [value |-> miner, to |-> "miner"]
  IN IF share = 0 THEN <<first>> ELSE <<first, [value |-> share, to |-> "pool"]>>
\* create_coinbase_tx as a release build compiles it, for addresses that are not zero
CreateCoinbaseTx(pool, nodes, total) ==
  LET miner == IF nodes = 0 THEN total ELSE (total * MinerPercent) \div 100
      share == Less(total, miner)
      first == [value |-> miner, to |-> "miner"]
  IN IF share = 0 THEN <<first>>
     ELSE <<first, [value |-> share, to |-> IF pool THEN "pool" ELSE "miner"]>>

AddOutput(sum, o) == sum + o.value
CoinbaseValue(outputs) == FoldLeft(AddOutput, 0, outputs)
\* validate_coinbase_reward_internal; nodeOk says which addresses the validator knows
ValidateCoinbaseReward(outputs, reward, nodeOk) ==
  LET miner == (reward * MinerPercent) \div 100
      node == Less(reward, miner)
  IN /\ outputs # <<>>
     /\ CoinbaseValue(outputs) = reward
     /\ Len(outputs) \in {1, 2}
     /\ Len(outputs) = 2 =>
          /\ {outputs[1].value, outputs[2].value} = {miner, node}
          /\ (IF outputs[1].value = node THEN outputs[1].to ELSE outputs[2].to) \in nodeOk

\* a block earns its reward: fees that overflow leave it without a coinbase
MineBlock(txs, blue, nodes, pool) ==
  LET total == BlockTotalReward(txs, rw.score, rw.cap, blue)
      outputs == CreateCoinbaseTx(pool, nodes, total)
  IN /\ rw.score < MaxScore
     /\ IF total = NoReward
        THEN rw' = [rw EXCEPT !.last = NoCoinbase]
        ELSE rw' = [rw EXCEPT !.score = IF blue THEN @ + 1 ELSE @,
                              !.issued = IF blue THEN @ + CappedReward(rw.score, rw.cap) ELSE @,
                              !.collected = IF blue THEN @ + CalculateAcceptedFees(txs) ELSE @,
                              !.minted = @ + CoinbaseValue(outputs),
                              !.last = [total |-> total, nodes |-> nodes, pool |-> pool, outputs |-> outputs]]

RwNext == \E txs \in FeeBlocks, blue, pool \in BOOLEAN, nodes \in 0 .. 2 : MineBlock(txs, blue, nodes, pool)

-----------------------------------------------------------------------------
\* The tables and the loop agree: the sum of the subsidies paid is what total_emitted says, at
\* most the supply, until the count of the halvings overflows its width; from there on the
\* base reward is paid again for a supply that is not used up.
EmissionIsSum ==
  rw.score <= HalvingInterval * HalvingModulus =>
    rw.issued = TotalEmitted(rw.score, rw.cap) /\ rw.issued <= rw.cap

\* No value is burned or invented: the coinbase outputs are subsidies and fees to the unit,
\* every coinbase made validates, under a validator that knows the pool's address too (but for
\* a total of 2, whose equal halves have the miner taken for the pool), and no split of a
\* subsidy pays out more than the subsidy.
CoinbaseConserves ==
  /\ rw.minted = rw.issued + rw.collected
  /\ rw.last # NoCoinbase =>
       /\ ValidateCoinbaseReward(rw.last.outputs, rw.last.total, {"miner", "pool"})
       /\ rw.last.pool /\ rw.last.total # 2 =>
            ValidateCoinbaseReward(rw.last.outputs, rw.last.total, {"pool"})
  /\ \A nodes \in 0 .. 2 : ValidateRewardSplit(rw.score, rw.cap, nodes)
\* The subsidies paid add up to what total_emitted computes from its tables, within the supply and as
\* long as the count of the halvings keeps its width, the coinbase outputs are the subsidies and the
\* fees to the unit, and a coinbase validates.
RewardsConserve == EmissionIsSum /\ CoinbaseConserves
=============================================================================
