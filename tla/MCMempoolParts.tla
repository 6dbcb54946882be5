--------------------------- MODULE MCMempoolParts ---------------------------
(***************************************************************************)
(* The structures and machines around the pool of the node side by side:   *)
(* dependencies, claims, conflicts and replacement, then admission by      *)
(* ownership, queues, ordered buckets, maintenance and the priority pool.  *)
(* They share no state: focus says which of them is used.                  *)
(***************************************************************************)
EXTENDS DependencyGraph, DependencyTracker, OwnershipPool, ConflictRbf, FeeQueues, PoolMaintenance, OrderingPool

CONSTANTS MaxOps,        \* bound on the calls of the structures
          MaxInserts     \* bound on the calls of the buckets; the other machines are finite

VARIABLES focus, ops, dm

\* a chain with a shortcut, closed to a cycle by the first
ChainInputs == [t \in Tx |-> CASE t = 1 -> {3} [] t = 2 -> {1} [] t = 3 -> {1, 2}]

\* outputs <<transaction, index>>: 1 and 2 are rivals for an output of p; 2 and 3 both spend
\* the first output of q, 3 as its second input
RivalSpends == <<<<<<"p", 0>>>>, <<<<"p", 0>>, <<"q", 0>>>>, <<<<"q", 1>>, <<"q", 0>>>>>>
RivalFees == <<10, 20, 40>>
RivalSizes == <<10, 10, 10>>

\* for the other machines
QueueRates == <<20, 50, 120>>
\* 3 waits for an output of 1 in the maintenance of the pool
ChainSpends == <<<<"p">>, <<"p">>, <<"q", "r">>>>
ChainFees == <<10, 30, 60>>
ChainSizes == <<10, 20, 30>>
Coinbase == {"p", "r"}
Created == <<{"q"}, {}, {}>>
Limits == [count : 1 .. 2, bytes : {25, 50}, fees : {50, 99}]
OneThreshold == <<2>>
Ancestors == <<{}, {1}>>

DM == INSTANCE DependencyManager

dependencies == <<dg, tr, dm>>
conflicts == <<ut, pending, own, cr, am>>
machines == <<mq, pb, pm, prio>>
vars == <<focus, ops, dependencies, conflicts, machines>>

Init == /\ focus \in {"graph", "tracker", "manager", "claims", "rbf", "map",
                      "ownership", "queues", "buckets", "maintenance", "ordering"}
        /\ ops = 0
        /\ DgInit /\ TrInit /\ DM!DmInit
        /\ OwInit /\ CrInit /\ AmInit
        /\ MqInit /\ PbInit /\ PmInit /\ OpInit

Dependencies == \/ focus = "graph" /\ DgNext /\ UNCHANGED <<tr, dm>>
                \/ focus = "tracker" /\ TrNext /\ UNCHANGED <<dg, dm>>
                \/ focus = "manager" /\ DM!DmNext /\ UNCHANGED <<dg, tr>>
Conflicts == \/ focus = "claims" /\ UtNext /\ UNCHANGED <<own, cr, am>>
             \/ focus = "rbf" /\ CrNext /\ UNCHANGED <<ut, pending, own, am>>
             \/ focus = "map" /\ AmNext /\ UNCHANGED <<ut, pending, own, cr>>
Ownership == focus = "ownership" /\ OwNext
Machines == \/ focus = "queues" /\ MqNext /\ UNCHANGED <<pb, pm, prio>>
            \/ focus = "buckets" /\ PbNext /\ UNCHANGED <<mq, pm, prio>>
            \/ focus = "maintenance" /\ PmNext /\ UNCHANGED <<mq, pb, prio>>
            \/ focus = "ordering" /\ OpNext /\ UNCHANGED <<mq, pb, pm>>

Next == /\ UNCHANGED focus
        /\ \/ Dependencies /\ ops < MaxOps /\ ops' = ops + 1 /\ UNCHANGED <<conflicts, machines>>
           \/ Conflicts /\ ops < MaxOps /\ ops' = ops + 1 /\ UNCHANGED <<dependencies, machines>>
           \/ Ownership /\ UNCHANGED <<ops, dependencies, cr, am, machines>>
           \/ /\ Machines /\ ops < MaxInserts /\ ops' = IF focus = "buckets" THEN ops + 1 ELSE ops
              /\ UNCHANGED <<dependencies, conflicts>>

Spec == Init /\ [][Next]_vars

\* a property of one machine, asked where it is used: elsewhere it rests in its first state
In(machine, Property) == focus = machine => Property

\* the index by depth, the links and the acyclicity of the dependency manager hold after every call, and
\* whatever order the hash sets are iterated in, the sort of the ordering engine is a topological one
\* and leaves out only what has an ancestor it has not collected
DepthsAndOrderSound == In("manager", DM!DepthIndexExact /\ DM!NoCycle /\ DM!ChildrenLinked /\ DM!SortsTopologically)
=============================================================================
