------------------------- MODULE PriorityScheduler -------------------------
(***************************************************************************)
(* PriorityScheduler of klomang-node (src/mempool/priority_scheduler.rs)   *)
(* at the level of its locks: five parking_lot RwLocks, taken by threads   *)
(* in the order the code takes them and kept as long as the guard lives.   *)
(*                                                                         *)
(* A call is a script of instructions: acquire a lock shared or exclusive, *)
(* free it, or change the maps while holding it.  Scores are left out: no  *)
(* branch depends on them.                                                 *)
(***************************************************************************)
EXTENDS Sequences, FiniteSets

CONSTANTS Tx, Threads

VARIABLES
    priorities,            \* the keys of the map of priorities
    arrivals,              \* the keys of arrival_times
    held,                  \* the guards alive: <<thread, lock, mode>>
    script                 \* what each thread has left of its call

vars == <<priorities, arrivals, held, script>>

Locks == {"config", "priorities", "arrivals", "last_update", "update_count"}

Read(lock) == [op |-> "read", on |-> lock]
Write(lock) == [op |-> "write", on |-> lock]
Free(lock) == [op |-> "free", on |-> lock]
Do(what, x) == [op |-> what, on |-> x]

Brief(acquire) == <<acquire, Free(acquire.on)>>

RegisterTransaction(x) ==
    <<Write("priorities"), Do("prioritise", x), Write("arrivals"), Do("arrive", x),
      Free("arrivals"), Free("priorities")>>

UnregisterTransaction(x) ==
    <<Write("priorities"), Do("forget priority", x), Free("priorities"),
      Write("arrivals"), Do("forget arrival", x), Free("arrivals")>>

(* The priority is looked up only when an arrival time is found. *)
CalculateDynamicPriority(x) ==
    Brief(Read("config")) \o
    <<Read("arrivals"), Do("look up", x), Write("priorities"), Free("priorities"),
      Free("arrivals")>>

(* When it is not due, it returns with what it read.  Otherwise all        *)
(* priorities are updated, and the counter is read in the statement that   *)
(* writes it: the guard of the read lives to the end of the statement.     *)
PerformScheduledUpdate(due) ==
    Brief(Read("config")) \o Brief(Read("last_update")) \o
    IF ~due THEN <<>>
    ELSE <<Read("arrivals"), Write("priorities"), Free("priorities"), Free("arrivals")>> \o
         Brief(Write("last_update")) \o
         <<Read("update_count"), Write("update_count"), Free("update_count")>>

(* update_transaction_fee; update_priority and the queries are as brief.   *)
UpdateTransactionFee == Brief(Read("config")) \o Brief(Write("priorities"))

GetStats ==
    Brief(Read("update_count")) \o Brief(Read("last_update")) \o Brief(Read("priorities"))

UpdateConfig == Brief(Write("config"))

Reset ==
    <<Write("priorities"), Do("forget priorities", Tx), Free("priorities"),
      Write("arrivals"), Do("forget arrivals", Tx), Free("arrivals")>> \o
    Brief(Write("update_count")) \o Brief(Write("last_update"))

Calls ==
    UNION {{RegisterTransaction(x), UnregisterTransaction(x), CalculateDynamicPriority(x)} : x \in Tx}
    \cup {PerformScheduledUpdate(due) : due \in BOOLEAN}
    \cup {UpdateTransactionFee, GetStats, UpdateConfig, Reset}

----------------------------------------------------------------------------
SchedulerInit == priorities = {} /\ arrivals = {} /\ held = {} /\ script = [t \in Threads |-> <<>>]

Instruction(t) == Head(script[t])
Advance(t) == script' = [script EXCEPT ![t] = Tail(@)]
Acquires(t) == script[t] # <<>> /\ Instruction(t).op \in {"read", "write"}

(* The guards that keep thread t waiting, its own included. *)
Obstacles(t) == {g \in held : g[2] = Instruction(t).on /\ (Instruction(t).op = "write" \/ g[3] = "write")}

Call(t) ==
    /\ script[t] = <<>>
    /\ \E c \in Calls : script' = [script EXCEPT ![t] = c]
    /\ UNCHANGED <<priorities, arrivals, held>>

Acquire(t) ==
    /\ Acquires(t) /\ Obstacles(t) = {}
    /\ held' = held \cup {<<t, Instruction(t).on, Instruction(t).op>>}
    /\ Advance(t)
    /\ UNCHANGED <<priorities, arrivals>>

Release(t) ==
    /\ script[t] # <<>> /\ Instruction(t).op = "free"
    /\ held' = {g \in held : ~(g[1] = t /\ g[2] = Instruction(t).on)}
    /\ Advance(t)
    /\ UNCHANGED <<priorities, arrivals>>

Change(t) ==
    /\ script[t] # <<>> /\ Instruction(t).op \notin {"read", "write", "free", "look up"}
    /\ LET op == Instruction(t).op
           x == Instruction(t).on
       IN  /\ priorities' = CASE op = "prioritise" -> priorities \cup {x}
                              [] op = "forget priority" -> priorities \ {x}
                              [] op = "forget priorities" -> priorities \ x
                              [] OTHER -> priorities
           /\ arrivals' = CASE op = "arrive" -> arrivals \cup {x}
                            [] op = "forget arrival" -> arrivals \ {x}
                            [] op = "forget arrivals" -> arrivals \ x
                            [] OTHER -> arrivals
    /\ Advance(t)
    /\ UNCHANGED held

LookUp(t) ==
    /\ script[t] # <<>> /\ Instruction(t).op = "look up"
    /\ IF Instruction(t).on \in arrivals THEN Advance(t)
       ELSE script' = [script EXCEPT ![t] = <<Free("arrivals")>>]
    /\ UNCHANGED <<priorities, arrivals, held>>

SchedulerNext ==
    \E t \in Threads : Call(t) \/ Acquire(t) \/ Release(t) \/ Change(t) \/ LookUp(t)

SchedulerSpec == SchedulerInit /\ [][SchedulerNext]_vars

----------------------------------------------------------------------------
(* "Thread-safe with RwLock synchronization": there is never a set of      *)
(* threads each of which waits for a guard that one of them keeps alive.   *)
NoCircularWait ==
    \A S \in SUBSET Threads \ {{}} :
        \E t \in S : ~Acquires(t) \/ \A g \in Obstacles(t) : g[1] \notin S
============================================================================
