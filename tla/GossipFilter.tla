---------------------------- MODULE GossipFilter ----------------------------
(***************************************************************************)
(* The way of a gossip message through the network task: the message       *)
(* filter (message_filter.rs, cache.rs), the spam filter (spam_filter.rs), *)
(* the core hooks and the validator (core_validation_hooks.rs,             *)
(* validation.rs), the scores (peer_scoring.rs, mesh.rs) and the answer    *)
(* reported to gossipsub (core_network/mod.rs).  The entry of a peer in    *)
(* peer_scores is a lock: check_message keeps it until it returns.         *)
(***************************************************************************)
EXTENDS Naturals, Integers, FiniteSets, SequencesExt

CONSTANTS Peer,
          Payload,        \* what is sent: [topic, big, fails] records, see Tests
          Capacity,       \* tokens of a peer, capacity of a bucket
          CacheSize,      \* capacity of GossipsubCache
          CacheTtl,       \* its time to live
          SeenTtl,        \* cache_ttl of the spam filter
          GreyTime,       \* greylist_duration
          Threshold,      \* greylist_threshold, in half points
          MaxTime         \* bound on the clock

VARIABLE gf   \* inbox: deliveries not yet taken, a set of <<peer, payload>>
              \* at, cur: the step of the network task and the delivery it is at
              \* due: the score change check_message is about to make, and its result
              \* guard: the peers whose peer_scores entry is locked
              \* scores: [peer -> <<>> or <<[score, grey]>>], grey = 0 or the expiry
              \* tokens, seen, cache, mesh, records, gone, answered, now

NoDelivery == <<>>
Topics == {"tx", "block"}

GfInit == gf = [inbox |-> Peer \X Payload, at |-> "idle", cur |-> NoDelivery, due |-> <<>>,
                guard |-> {}, scores |-> [p \in Peer |-> <<>>],
                tokens |-> [p \in Peer |-> Capacity], seen |-> {}, cache |-> <<>>,
                mesh |-> [x \in Topics \X Peer |-> 0], records |-> [p \in Peer |-> <<0, 0>>],
                gone |-> {}, answered |-> {}, now |-> 0]

-----------------------------------------------------------------------------
(* GossipsubCache: insertion order with times, oldest first *)
Pruned(c, now) == SelectSeq(c, LAMBDA e : now - e[2] <= CacheTtl)
CacheHas(c, m) == \E i \in DOMAIN c : c[i][1] = m
CacheInsert(c, m, now) ==
  LET all == Append(Pruned(c, now), <<m, now>>)
  IN IF CacheHas(Pruned(c, now), m) THEN Pruned(c, now)
     ELSE SubSeq(all, IF Len(all) > CacheSize THEN Len(all) - CacheSize + 1 ELSE 1, Len(all))

(* PeerScore *)
NewScore == [score |-> 0, grey |-> 0]
CheckGreylistExpiry(s, now) == IF s.grey # 0 /\ now >= s.grey THEN [s EXCEPT !.grey = 0] ELSE s
\* a reward is added, a penalty may greylist the peer
UpdateScore(s, delta, now) ==
  LET t == s.score + delta
      sinks == delta < 0 /\ t <= Threshold /\ s.grey = 0
  IN [score |-> t, grey |-> IF sinks THEN now + GreyTime ELSE s.grey]

(* a payload names the checks it fails; the hook's first failure costs the penalty beside it,
   in half points *)
Passes(m, check) == check \notin m.fails
CheckTransactionStructure(m) == Passes(m, "structure")
ValidateTransactionSignatures(m) == Passes(m, "signature")
DetectSpamPatterns(m) == ~Passes(m, "pattern")
ValidateBlockTransactions(m) == Passes(m, "transactions")
TransactionPayload(m) == <<<<Passes(m, "decode"), 40>>, <<CheckTransactionStructure(m), 30>>, <<Passes(m, "id"), 30>>,
                           <<ValidateTransactionSignatures(m), 50>>, <<~DetectSpamPatterns(m), 40>>>>
BlockPayload(m) == <<<<Passes(m, "decode"), 50>>, <<Passes(m, "empty_id"), 40>>, <<Passes(m, "far_ahead"), 30>>,
                     <<ValidateBlockTransactions(m), 40>>>>
\* verify_spam_potential: the change of the score, negative if the message is invalid
VerifySpamPotential(m) ==
  LET checks == IF m.topic = "tx" THEN TransactionPayload(m) ELSE BlockPayload(m)
      failed == SelectSeq(checks, LAMBDA c : ~c[1])
  IN IF failed = <<>> THEN 1 ELSE - failed[1][2]

\* the validator has tests of its own, stricter for keys and times
ValidateTransactionMessage(m) == \A c \in {"decode", "id", "signature", "key_length"} : Passes(m, c)
ValidateBlockMessage(m) ==
  \A c \in {"decode", "empty_id", "far_ahead", "ahead", "nonce", "block_signature"} : Passes(m, c)
ValidateMessage(m) ==
  IF (m.topic = "tx" /\ ValidateTransactionMessage(m)) \/ (m.topic = "block" /\ ValidateBlockMessage(m))
  THEN "accept" ELSE "reject"

-----------------------------------------------------------------------------
\* filter_message up to the point where check_message has taken the entry of the peer and
\* knows what it is going to do with it; what it drops earlier it answers at once
IsDuplicate(g) == {x[1] : x \in {y \in g.seen : g.now - y[2] < SeenTtl}}
Dropped(g, p, m) ==
  IF CacheHas(Pruned(g.cache, g.now), m) THEN "ignore"
  ELSE IF m.topic \notin Topics THEN "reject"
  ELSE IF m \in IsDuplicate(g) THEN "ignore"
  ELSE IF g.scores[p] # <<>> /\ CheckGreylistExpiry(g.scores[p][1], g.now).grey # 0 THEN "ignore"
  ELSE "none"

CheckMessageSize(m) == ~m.big
CheckRateLimit(g, p) == g.tokens[p] > 0
Due(g, p, m) == IF ~CheckMessageSize(m) THEN [delta |-> -30, result |-> "oversized"]
                ELSE IF ~CheckRateLimit(g, p) THEN [delta |-> -20, result |-> "rate_limited"]
                ELSE [delta |-> 1, result |-> "allow"]

Drop(p, m) ==
  /\ gf.at = "idle" /\ <<p, m>> \in gf.inbox
  /\ Dropped(gf, p, m) # "none"
  /\ gf' = [gf EXCEPT !.inbox = @ \ {<<p, m>>}, !.cache = Pruned(@, gf.now),
                      !.at = "report", !.cur = <<p, m>>, !.due = [delta |-> 0, result |-> Dropped(gf, p, m)]]

Check(p, m) ==
  /\ gf.at = "idle" /\ <<p, m>> \in gf.inbox
  /\ Dropped(gf, p, m) = "none"
  /\ LET due == Due(gf, p, m)
         entry == IF gf.scores[p] = <<>> THEN NewScore ELSE CheckGreylistExpiry(gf.scores[p][1], gf.now)
     IN gf' = [gf EXCEPT !.inbox = @ \ {<<p, m>>}, !.cache = Pruned(@, gf.now),
                         !.guard = @ \union {p}, !.scores[p] = <<entry>>,
                         !.tokens[p] = IF due.result = "allow" THEN @ - 1 ELSE @,
                         !.seen = IF due.result = "allow" THEN @ \union {<<m, gf.now>>} ELSE @,
                         !.at = "score", !.cur = <<p, m>>, !.due = due]

\* penalize_peer and reward_peer ask for the entry themselves; after them check_message
\* returns and its own guard is dropped
Score ==
  /\ gf.at = "score" /\ gf.cur[1] \notin gf.guard
  /\ LET p == gf.cur[1]
     IN gf' = [gf EXCEPT !.scores[p] = <<UpdateScore(@[1], gf.due.delta, gf.now)>>,
                         !.guard = @ \ {p},
                         !.cache = IF gf.due.result = "allow" THEN CacheInsert(@, gf.cur[2], gf.now) ELSE @,
                         !.at = IF gf.due.result = "allow" THEN "validate" ELSE "report"]

UpdateValidationRecord(r, valid) == IF valid THEN <<r[1] + 1, r[2]>> ELSE <<r[1], r[2] + 1>>
\* the core hook scores the peer, then the validator gives the answer
Validate ==
  /\ gf.at = "validate" /\ gf.cur[1] \notin gf.guard
  /\ LET p == gf.cur[1]
         delta == VerifySpamPotential(gf.cur[2])
     IN gf' = [gf EXCEPT !.scores[p] = <<UpdateScore(@[1], delta, gf.now)>>,
                         !.records[p] = UpdateValidationRecord(@, delta > 0),
                         !.due.result = IF delta > 0 THEN ValidateMessage(gf.cur[2]) ELSE "reject",
                         !.at = "report"]

Acceptance(result) == IF result \in {"accept", "ignore", "reject"} THEN result
                      ELSE IF result = "oversized" THEN "reject" ELSE "ignore"
MeshChange(verdict) == IF verdict = "accept" THEN 3 ELSE IF verdict = "reject" THEN -10 ELSE 0
UpdateMeshScore(mesh, p, topic, verdict) ==
  [x \in DOMAIN mesh |-> mesh[x] + (IF x = <<topic, p>> THEN MeshChange(verdict) ELSE 0)]
ShouldDisconnectPeer(mesh, p) == \E t \in Topics : mesh[<<t, p>>] < -200
\* the mesh scores the peer, a low score disconnects it, and gossipsub gets the answer
Report ==
  /\ gf.at = "report"
  /\ LET p == gf.cur[1]
         m == gf.cur[2]
         verdict == Acceptance(gf.due.result)
         mesh == UpdateMeshScore(gf.mesh, p, m.topic, verdict)
         leaves == verdict = "reject" /\ ShouldDisconnectPeer(mesh, p)
     IN gf' = [gf EXCEPT !.mesh = mesh, !.gone = IF leaves THEN @ \union {p} ELSE @,
                         !.answered = @ \union {<<p, m, verdict>>},
                         !.at = "idle", !.cur = NoDelivery, !.due = <<>>]

\* a second refills the buckets
Second == /\ gf.now < MaxTime
          /\ gf' = [gf EXCEPT !.now = @ + 1, !.tokens = [p \in Peer |-> Capacity]]

TakeDelivery == \E p \in Peer, m \in Payload : Drop(p, m) \/ Check(p, m)
Done == gf.inbox = {} /\ gf.at = "idle" /\ UNCHANGED gf
GfNext == TakeDelivery \/ Score \/ Validate \/ Report \/ Second \/ Done

\* the runtime polls the network task again and again
GfSpec == /\ GfInit /\ [][GfNext]_gf
          /\ WF_gf(TakeDelivery) /\ WF_gf(Score) /\ WF_gf(Validate) /\ WF_gf(Report)

\* Every message gossipsub delivers is answered, under the fairness of a polled task: the
\* tests of the spam filter have check_message return Allow, Duplicate and OversizedMessage.
EveryDeliveryAnswered ==
  \A p \in Peer, m \in Payload : <<p, m>> \in gf.inbox ~> \E v \in {"accept", "reject", "ignore"} : <<p, m, v>> \in gf.answered

-----------------------------------------------------------------------------
(* The instance for TLC: three payloads, and the threshold of the config.  *)
SomePayloads == {[topic |-> "tx", big |-> FALSE, fails |-> {}],
                 [topic |-> "block", big |-> TRUE, fails |-> {"nonce"}],
                 [topic |-> "other", big |-> FALSE, fails |-> {}]}
GreylistThreshold == -1000
=============================================================================
