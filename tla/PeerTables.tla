----------------------------- MODULE PeerTables -----------------------------
(***************************************************************************)
(* What a node keeps about its peers.  PeerRoutingTable                    *)
(* (core_network/routing.rs): peer records in memory, written through to a *)
(* database, bounded in number, expired by age and read back when the node *)
(* starts; a database call may fail.  ConnectivityState                    *)
(* (connectivity/mod.rs): relay addresses offered by peers, and the slots  *)
(* reserved on them when the node is private.  How the network task finds  *)
(* peers: the bootstrap with its retry timer, the random walks, the        *)
(* rendezvous nodes and the identify handler of the event loop in          *)
(* core_network/mod.rs, with PeerDiscoveryManager, BootstrapManager,       *)
(* RandomWalkControl, RendezvousControl and the query set of               *)
(* KademliaDiscovery (peer_discovery/).  Kademlia itself is external: a    *)
(* query ends, after any number of results, with a last one.               *)
(***************************************************************************)
EXTENDS Naturals, FiniteSets, FiniteSetsExt, Functions, SequencesExt

CONSTANTS Peer, Addr,
          MaxPeers,     \* MAX_ROUTING_TABLE_SIZE
          PeerTtl,      \* PEER_TTL_SECONDS
          MaxSeen,      \* bound on connection_count
          MaxClock,     \* bound on the clock
          MaxFaults     \* bound on the database calls that fail

ASSUME RoutingAssumption == IsFiniteSet(Peer) /\ MaxPeers \in Nat /\ PeerTtl \in Nat /\ MaxSeen \in Nat

VARIABLE rt   \* cache, db: functions from a set of peers to records; now;
              \* history: torn, the peers whose last database call failed; undeleted, the
              \* peers whose removal the database has ever refused

EmptyTable == [p \in {} |-> 0]

RtInit == rt = [cache |-> EmptyTable, db |-> EmptyTable, now |-> 0, torn |-> {}, undeleted |-> {}, faults |-> 0]

IsExpired(r, now) == now - r.seen > PeerTtl

NewRecord(addrs, now) == [seen |-> now, count |-> 1, addrs |-> addrs]
Fault(ok) == ok \/ rt.faults < MaxFaults
\* or_insert_with, then update_seen and the merge of the addresses, for a new peer too
Seen(cache, p, addrs, now) ==
  LET r == IF p \in DOMAIN cache THEN cache[p] ELSE NewRecord(addrs, now)
  IN [r EXCEPT !.seen = now, !.count = IF @ < MaxSeen THEN @ + 1 ELSE @, !.addrs = @ \union addrs]

With(f, p, r) == [x \in DOMAIN f \union {p} |-> IF x = p THEN r ELSE f[x]]
Minus(f, S) == Restrict(f, DOMAIN f \ S)

\* mutant: the record is written once, when the peer is new
WrittenOnce(g, p, r) == IF p \in DOMAIN g.db THEN g.db ELSE With(g.db, p, r)
Written(g, p, r) == With(g.db, p, r)

Erased(g, S, ok) == IF ok THEN [g EXCEPT !.db = Minus(@, S), !.torn = @ \ S]
                    ELSE [g EXCEPT !.torn = @ \union (S \intersect DOMAIN g.db),
                                   !.undeleted = @ \union (S \intersect DOMAIN g.db), !.faults = @ + 1]
\* the entry leaves the memory first
Removed(g, p, ok) == Erased([g EXCEPT !.cache = Minus(@, {p})], {p}, ok)

Oldest(g) == {p \in DOMAIN g.cache : \A q \in DOMAIN g.cache : g.cache[p].seen <= g.cache[q].seen}
Full(g, p) == Cardinality(DOMAIN g.cache) >= MaxPeers /\ p \notin DOMAIN g.cache

Put(g, p, addrs, ok) ==
  LET r == Seen(g.cache, p, addrs, g.now)
  IN [g EXCEPT !.cache = With(@, p, r), !.db = IF ok THEN Written(g, p, r) ELSE @,
               !.torn = IF ok THEN @ \ {p} ELSE @ \union {p},
               !.faults = IF ok THEN @ ELSE @ + 1]

\* a failed eviction ends the call before the new peer is added
AddPeer(p, addrs, evictOk, putOk) ==
  /\ Fault(evictOk /\ putOk)
  /\ IF Full(rt, p)
     THEN \E old \in Oldest(rt) :
            rt' = IF evictOk THEN Put(Removed(rt, old, TRUE), p, addrs, putOk) ELSE Removed(rt, old, FALSE)
     ELSE evictOk /\ rt' = Put(rt, p, addrs, putOk)

RemovePeer(p, ok) == Fault(ok) /\ rt' = Removed(rt, p, ok)

CleanupExpiredPeers(ok) ==
  LET gone == {p \in DOMAIN rt.cache : IsExpired(rt.cache[p], rt.now)}
  IN /\ gone # {} /\ Fault(ok)
     /\ rt' = Erased([rt EXCEPT !.cache = Minus(@, gone)], gone, ok)

\* a restart reads the records that have not expired; expired ones stay in the database
Open == rt' = [rt EXCEPT !.cache = Restrict(rt.db, {p \in DOMAIN rt.db : ~IsExpired(rt.db[p], rt.now)})]

RtTick == rt.now < MaxClock /\ rt' = [rt EXCEPT !.now = @ + 1]

RtNext == \/ \E p \in Peer, a \in SUBSET Addr, e, ok \in BOOLEAN : AddPeer(p, a, e, ok)
          \/ \E p \in Peer, ok \in BOOLEAN : RemovePeer(p, ok)
          \/ \E ok \in BOOLEAN : CleanupExpiredPeers(ok)
          \/ Open \/ RtTick

-----------------------------------------------------------------------------
\* A restart brings back what the table held: for a peer that no failed database call was
\* about, memory and database hold the same fresh record.
RestartRestores ==
  \A p \in Peer \ rt.torn :
    /\ p \in DOMAIN rt.cache => p \in DOMAIN rt.db /\ rt.db[p] = rt.cache[p]
    /\ p \in DOMAIN rt.db /\ ~IsExpired(rt.db[p], rt.now) => p \in DOMAIN rt.cache

\* The table holds at most its bound, and one more for every peer whose removal the database
\* refused: such a peer comes back with a restart, and add_peer evicts one entry for one.
SizeBounded == Cardinality(DOMAIN rt.cache) <= MaxPeers + Cardinality(rt.undeleted)

-----------------------------------------------------------------------------
(* Relay slots *)
CONSTANTS Relay,            \* peers
          Offers,           \* [Relay -> Seq of [owner, circuit, at]]: listen addresses, the peer
                            \* they name and whether they are relayed themselves
          MaxReservations, MaxPerPeer

Listed == UNION {Range(Offers[p]) : p \in Relay}
ASSUME RelaysAssumption ==
  /\ MaxReservations \in Nat /\ MaxPerPeer \in Nat
  /\ \A p \in Relay : Offers[p] \in Seq(Listed)
  /\ \A c \in Listed : c.owner \in Relay

VARIABLE rs   \* candidates, active, perPeer; last: what the last reservation call
              \* returned; asked: no candidate was offered since

RsInit == rs = [candidates |-> <<>>, active |-> {}, perPeer |-> [p \in Relay |-> 0], last |-> {}, asked |-> FALSE]

\* a candidate is an address and the peer in it
Offer(acc, addr) ==
  IF \/ Len(acc.candidates) >= MaxReservations
     \/ addr.circuit
     \/ \E i \in DOMAIN acc.candidates : acc.candidates[i] = addr
     \/ acc.perPeer[addr.owner] >= MaxPerPeer
  THEN acc ELSE [acc EXCEPT !.candidates = Append(@, addr)]
RegisterRelayCandidate(p) == rs' = FoldLeft(Offer, [rs EXCEPT !.asked = FALSE], Offers[p])

\* mutant: the peer's count is read and never written
ReserveUncounted(acc, c) == [acc EXCEPT !.active = @ \union {c}, !.last = @ \union {c}]
ReserveOne(acc, c) == [acc EXCEPT !.active = @ \union {c}, !.last = @ \union {c}, !.perPeer[c.owner] = @ + 1]
\* the new reservations count twice, in active and in the result
Reserve(acc, c) ==
  IF \/ Cardinality(acc.active) + Cardinality(acc.last) >= MaxReservations
     \/ c \in acc.active
     \/ acc.perPeer[c.owner] >= MaxPerPeer
  THEN acc ELSE ReserveOne(acc, c)
ReserveRelaySlots == rs' = FoldLeft(Reserve, [rs EXCEPT !.last = {}, !.asked = TRUE], rs.candidates)

RsNext == (\E p \in Relay : RegisterRelayCandidate(p)) \/ ReserveRelaySlots

-----------------------------------------------------------------------------
Held(p) == {c \in rs.active : c.owner = p}
\* The counts per peer are the reservations held, within both limits, and a call that reserves
\* nothing had nothing left to reserve, though it stops early after its first reservations.
SlotsAccounted ==
  /\ Cardinality(rs.active) <= MaxReservations
  /\ \A p \in Relay : rs.perPeer[p] = Cardinality(Held(p)) /\ rs.perPeer[p] <= MaxPerPeer
  /\ rs.asked /\ rs.last = {} => \/ Cardinality(rs.active) = MaxReservations
                     \/ \A i \in DOMAIN rs.candidates :
                          rs.candidates[i] \in rs.active \/ rs.perPeer[rs.candidates[i].owner] = MaxPerPeer

\* What the two tables promise together.
PeersAccounted == RestartRestores /\ SizeBounded /\ SlotsAccounted

-----------------------------------------------------------------------------
(* Discovery *)
CONSTANTS Seeds,        \* bootstrap nodes of BootstrapManager
          Found,        \* peers that queries and rendezvous nodes report
          RNodes,       \* rendezvous nodes, a sequence
          MaxBackoff,   \* max_backoff over initial_backoff
          Interval,     \* random walk interval
          MaxAttempts,  \* bound on failures in a row
          MaxTicks,     \* bound on the ticks of the walk timer
          MaxQueries    \* bound on the queries running at once

ASSUME DiscoveryAssumption == Interval \in Nat \ {0} /\ MaxBackoff \in Nat \ {0}

VARIABLE pd   \* seeds, kad: nodes of BootstrapConfig and KademliaConfig; known: Kademlia's table;
              \* boots: bootstrap queries running; sleep: 0 or the delay of the armed retry;
              \* attempts; mark: what discovery:last_bootstrap says; ticks, lastWalk;
              \* walks: random_walk_queries; running: walks running; nextId;
              \* registered: at the rendezvous nodes; marked: peers written to the database;
              \* history: skipped, walk ticks passed over in a row; failed walks

NewDiscovery(seeds, kad) ==
  [seeds |-> seeds, kad |-> kad, known |-> {}, boots |-> 0, sleep |-> 0, attempts |-> 0, mark |-> "none",
   ticks |-> 0, lastWalk |-> 0, walks |-> {}, running |-> {}, nextId |-> 1, registered |-> {}, marked |-> {},
   skipped |-> 0, failed |-> {}]
SeedKademlia(g) == [g EXCEPT !.known = @ \union g.seeds]
\* a query starts only if KademliaConfig has nodes, which from_env gives it and default does not
StartBootstrap(g) == IF g.kad = {} THEN g ELSE [g EXCEPT !.known = @ \union g.kad, !.boots = 1]
PdInit == \E seeds \in {{}, Seeds} : \E kad \in {{}, seeds} :
  pd = StartBootstrap(SeedKademlia(NewDiscovery(seeds, kad)))

Smaller(a, b) == IF a < b THEN a ELSE b
NextBackoff(attempts) == Smaller(2 ^ (attempts - 1), MaxBackoff)
\* mutant: no retry after the second failure in a row
RearmTwice(g) == [g EXCEPT !.attempts = @ + 1, !.sleep = IF g.attempts < 2 THEN NextBackoff(g.attempts + 1) ELSE 0]
\* next_backoff and the new sleep; max_retries is not consulted
Rearm(g) == [g EXCEPT !.attempts = @ + 1, !.sleep = NextBackoff(g.attempts + 1)]
Disarm(g) == [g EXCEPT !.attempts = 0, !.sleep = 0]

BootstrapOk(last) ==
  /\ pd.boots > 0
  /\ pd' = [Disarm(pd) EXCEPT !.mark = "success", !.boots = IF last THEN @ - 1 ELSE @]
BootstrapErr(last) ==
  /\ pd.boots > 0 /\ pd.attempts < MaxAttempts
  /\ pd' = [Rearm(pd) EXCEPT !.mark = "failed", !.boots = IF last THEN @ - 1 ELSE @]

\* Kademlia can start a bootstrap if it knows a peer
Retry(g) == IF g.known = {} THEN Rearm(g) ELSE [Disarm(g) EXCEPT !.boots = @ + 1]
BootstrapRetry ==
  /\ pd.sleep > 0 /\ pd.boots < MaxQueries
  /\ pd' = Retry(SeedKademlia(pd))

-----------------------------------------------------------------------------
\* the timer fires late by 0 or 1, and last_walk is the time of the walk
ShouldWalk(g, time) == time - g.lastWalk >= Interval
StartWalk(g, time) == [g EXCEPT !.lastWalk = time, !.walks = @ \union {g.nextId},
                                !.running = @ \union {g.nextId}, !.nextId = @ + 1, !.skipped = 0]
RandomWalkTick(late) ==
  /\ pd.ticks < MaxTicks /\ Cardinality(pd.running) < MaxQueries
  /\ LET time == Interval * (pd.ticks + 1) + late
     IN pd' = IF ShouldWalk(pd, time) THEN StartWalk([pd EXCEPT !.ticks = @ + 1], time)
              ELSE [pd EXCEPT !.ticks = @ + 1, !.skipped = @ + 1]

ClosestOk(g, id, S) == IF id \in g.walks THEN [g EXCEPT !.walks = @ \ {id}, !.marked = @ \union S] ELSE g
WalkFound(id, S) == /\ id \in pd.running
                    /\ pd' = [ClosestOk(pd, id, S) EXCEPT !.running = @ \ {id}]
\* an error has no branch of its own: the id stays in random_walk_queries
WalkFailed(id) == id \in pd.running /\ pd' = [pd EXCEPT !.running = @ \ {id}, !.failed = @ \union {id}]

\* register_all stops at the first node that refuses
RegisterAll(g, refusing) ==
  LET bad == {i \in DOMAIN RNodes : RNodes[i] \in refusing}
  IN {RNodes[i] : i \in {j \in DOMAIN RNodes : \A b \in bad : j < b}}
RendezvousTick(refusing) ==
  pd' = [pd EXCEPT !.registered = @ \union RegisterAll(pd, refusing)]
Discovered(S) == pd' = [pd EXCEPT !.known = @ \union S, !.marked = @ \union S]

RoutingUpdated(p) == p \notin pd.marked /\ pd' = [pd EXCEPT !.marked = @ \union {p}]

\* the bytes of a peer id are a multihash of 34 bytes or more, never a public key
PeerIdLengths == {34, 38, 39}
ValidatePeerLegitimacy(n) == n \in {32, 33, 65}
IdentifyReceived(p, n) ==
  pd' = IF ValidatePeerLegitimacy(n) THEN [pd EXCEPT !.marked = @ \union {p}] ELSE pd

PdNext == \/ \E last \in BOOLEAN : BootstrapOk(last) \/ BootstrapErr(last)
          \/ BootstrapRetry
          \/ \E late \in {0, 1} : RandomWalkTick(late)
          \/ \E id \in pd.running : (\E S \in SUBSET Found : WalkFound(id, S)) \/ WalkFailed(id)
          \/ \E S \in SUBSET Range(RNodes) : RendezvousTick(S)
          \/ \E S \in SUBSET Found : Discovered(S)
          \/ \E p \in Found : RoutingUpdated(p)
          \/ \E p \in Found, n \in PeerIdLengths : IdentifyReceived(p, n)

-----------------------------------------------------------------------------
\* A node that was given bootstrap nodes has bootstrapped, is at it, or has a retry armed: no
\* order of results and timers leaves it stranded.
NeverStranded == pd.kad # {} /\ pd.mark # "success" => pd.boots > 0 \/ pd.sleep > 0

\* A walk the jitter of the timer passes over is made up for at the next tick, and every id
\* still remembered is running or belongs to a walk that failed.
WalksKeepPace == pd.skipped <= 1 /\ pd.walks \ pd.running \subseteq pd.failed

\* What discovery promises: it neither gives up nor falls behind.
DiscoveryKeepsGoing == NeverStranded /\ WalksKeepPace
=============================================================================
