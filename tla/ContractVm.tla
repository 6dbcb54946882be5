----------------------------- MODULE ContractVm -----------------------------
(***************************************************************************)
(* VMExecutor::execute and its GasMeter (klomang-core, vm/): one contract  *)
(* after the other runs on the tree of the state manager.  What the        *)
(* bytecode does is free: it computes, calls the three host functions in   *)
(* any order, returns or traps.                                            *)
(*                                                                         *)
(* Gas is counted twice: the GasMeter counts what the host charges, the    *)
(* metering points of the WASM engine count that and the instructions.     *)
(***************************************************************************)
EXTENDS Integers, Functions, TLC

CONSTANTS StateKey, StateValue,
          INTRINSIC_GAS, STATE_READ_COST, STATE_WRITE_NEW_COST, STATE_WRITE_UPDATE_COST, SELF_DESTRUCT_REFUND,
          Limits, PayloadCosts, OpcodeCosts,   \* gas limits, costs of payloads and of instructions
          MaxContracts, MaxDestructs           \* bounds on the contracts and on the refunds of one

ASSUME GasAssumption ==
  /\ INTRINSIC_GAS \in Nat /\ STATE_READ_COST \in Nat /\ STATE_WRITE_NEW_COST \in Nat /\ STATE_WRITE_UPDATE_COST \in Nat
  /\ SELF_DESTRUCT_REFUND \in Nat /\ Limits \subseteq Nat /\ PayloadCosts \subseteq Nat /\ OpcodeCosts \subseteq Nat

VARIABLE vm   \* tree: [leaves, pruned]; snapshot: the tree at the start; phase; limit; meter: what
              \* remains of the limit and what the host consumed; points; refund; used: the result,
              \* -1 for an error; contracts; history: spent: every charge of this run

VmInit == vm = [tree |-> [leaves |-> [k \in {} |-> 0], pruned |-> {}], snapshot |-> [leaves |-> [k \in {} |-> 0], pruned |-> {}],
                phase |-> "idle", limit |-> 0, meter |-> [remaining |-> 0, consumed |-> 0], points |-> 0,
                refund |-> 0, used |-> 0, contracts |-> 0, spent |-> 0]

\* consume_host: the charge is booked before it is found to be too much
ConsumeHost(meter, cost) == [remaining |-> meter.remaining - cost, consumed |-> meter.consumed + cost]

\* an error puts the tree back to the snapshot (mutant: the keys pruned meanwhile stay pruned)
FailKeepingPruned(v) == [v EXCEPT !.tree.leaves = v.snapshot.leaves, !.phase = "idle", !.used = -1]
Fail(v) == [v EXCEPT !.tree = v.snapshot, !.phase = "idle", !.used = -1]

\* the start of execute: intrinsic gas and the payload, before anything is compiled
BeginContract(limit, payload) ==
  /\ vm.phase = "idle" /\ vm.contracts < MaxContracts
  /\ LET started == [vm EXCEPT !.contracts = @ + 1, !.snapshot = vm.tree, !.limit = limit, !.refund = 0,
                               !.spent = INTRINSIC_GAS + payload, !.phase = "loading",
                               !.meter = ConsumeHost(ConsumeHost([remaining |-> limit, consumed |-> 0], INTRINSIC_GAS), payload)]
     IN vm' = IF started.meter.remaining < 0 THEN Fail(started) ELSE started

\* the module does not compile, its start function traps (host functions fail there, having no
\* instance to refer to) or there is no function `run`
LoadFails == vm.phase = "loading" /\ vm' = Fail(vm)

\* the points are set after the start function has run: its instructions are free
\* (mutant: the host's charges so far are not taken off)
PointsUncharged(v) == v.limit
RemainingForWasm(v) == IF v.meter.consumed > v.limit THEN 0 ELSE v.limit - v.meter.consumed
Instantiate == vm.phase = "loading" /\ vm' = [vm EXCEPT !.phase = "run", !.points = RemainingForWasm(vm)]

\* charge_metering_from_host after the meter's own charge
Affordable(v, cost) == ConsumeHost(v.meter, cost).remaining >= 0 /\ v.points >= cost
Charge(v, cost) == [v EXCEPT !.meter = ConsumeHost(@, cost), !.points = @ - cost, !.spent = @ + cost]

Compute(cost) == /\ vm.phase = "run"
                 /\ vm' = IF vm.points < cost THEN Fail(vm) ELSE [vm EXCEPT !.points = @ - cost, !.spent = @ + cost]

\* state_read of a pruned key is an error
StateRead(k) ==
  /\ vm.phase = "run"
  /\ vm' = IF ~Affordable(vm, STATE_READ_COST) \/ k \in vm.tree.pruned THEN Fail(vm)
           ELSE Charge(vm, STATE_READ_COST)

\* the key is read first, for the price
WriteCost(k) == IF k \in DOMAIN vm.tree.leaves THEN STATE_WRITE_UPDATE_COST ELSE STATE_WRITE_NEW_COST
StateWrite(k, v) ==
  /\ vm.phase = "run"
  /\ vm' = IF k \in vm.tree.pruned \/ ~Affordable(vm, WriteCost(k)) THEN Fail(vm)
           ELSE [Charge(vm, WriteCost(k)) EXCEPT !.tree = [leaves |-> (k :> v) @@ @.leaves, pruned |-> @.pruned]]

\* the refund is granted whether or not there is a key to prune
SelfDestruct(k) ==
  /\ vm.phase = "run"
  /\ vm.refund < SELF_DESTRUCT_REFUND * MaxDestructs
  /\ vm' = [vm EXCEPT !.refund = @ + SELF_DESTRUCT_REFUND,
                      !.tree = IF k \notin DOMAIN @.leaves THEN @
                               ELSE [leaves |-> Restrict(@.leaves, DOMAIN @.leaves \ {k}), pruned |-> @.pruned \union {k}]]

\* the contract traps, a buffer is too small or memory is missing
Trap == vm.phase = "run" /\ vm' = Fail(vm)

\* finalize: at most a fifth is refunded
Finalize(total, refund) == total - (IF refund < total \div 5 THEN refund ELSE total \div 5)
Return == /\ vm.phase = "run"
          /\ vm' = [vm EXCEPT !.phase = "idle", !.used = Finalize(vm.limit - vm.points, vm.refund)]

VmNext == \/ \E l \in Limits, p \in PayloadCosts : BeginContract(l, p)
          \/ LoadFails \/ Instantiate \/ Trap \/ Return
          \/ \E c \in OpcodeCosts : Compute(c)
          \/ \E k \in StateKey : StateRead(k) \/ SelfDestruct(k) \/ \E v \in StateValue : StateWrite(k, v)

-----------------------------------------------------------------------------
\* Whatever a contract wrote or pruned before it ran out of gas, trapped or met an error of the
\* host, the tree is then the one it found.
FailureLeavesTree == vm.phase = "idle" /\ vm.used = -1 => vm.tree = vm.snapshot

\* The two counts agree: the points are the limit less every charge, the meter is never the first
\* to run out, and a contract that returns has used all it was charged, less at most a fifth.
GasCountsAgree ==
  /\ vm.phase = "run" => vm.points = vm.limit - vm.spent /\ vm.points >= 0 /\ vm.meter.remaining >= vm.points
  /\ vm.phase = "idle" /\ vm.used >= 0 => vm.used <= vm.spent /\ vm.spent <= vm.limit /\ 5 * vm.used >= 4 * vm.spent
\* A contract that fails leaves the tree as it found it, and the two counts of its gas agree.
ContractsMetered == FailureLeavesTree /\ GasCountsAgree
=============================================================================
