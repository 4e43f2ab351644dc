---------------------------- MODULE BrokerProofs ----------------------------
(***************************************************************************)
(* Proofs about Broker for every set of agents, letters, queue size and     *)
(* bound: type correctness, at-most-once and per-sender ordered delivery to *)
(* the inboxes, that the broker implements the abstract Mailbox, and what    *)
(* becomes of a message: the two delivery channels agree, a dead letter      *)
(* really was not delivered, and only a full queue loses mail.               *)
(***************************************************************************)
EXTENDS Broker, SequenceTheorems, FiniteSetTheorems, TLAPS

\* publish() always finds a topic for the intent of a message.
LEMMA TopicMapType == \A i : INTENT_TOPIC_MAP(i) \in Topic
  BY DEF INTENT_TOPIC_MAP, Topic

\* Trimming a sequence to its last half keeps its element type.
LEMMA TrimmedType ==
  ASSUME NEW S, NEW s \in Seq(S), NEW cap \in Nat \ {0}
  PROVE  Trimmed(s, cap) \in Seq(S)
<1>1. CASE Len(s) > cap
  <2>1. Len(s) \in Nat
    OBVIOUS
  <2>2. (cap + 1) \div 2 \in 1..cap
    OBVIOUS
  <2>3. Len(s) - (cap + 1) \div 2 + 1 \in 1..Len(s)
    BY <1>1, <2>1, <2>2
  <2>4. SubSeq(s, Len(s) - (cap + 1) \div 2 + 1, Len(s)) \in Seq(S)
    BY <2>1, <2>3
  <2> QED
    BY <1>1, <2>4 DEF Trimmed
<1>2. CASE ~(Len(s) > cap)
  BY <1>2 DEF Trimmed
<1> QED
  BY <1>1, <1>2

\* Replacing one Queue object of one agent keeps the type of queues.
LEMMA QueuesType ==
  ASSUME NEW S, NEW f \in [Agents -> Seq(Seq(S))], NEW r \in Agents,
         NEW k \in 1..Len(f[r]), NEW v \in Seq(S)
  PROVE  [f EXCEPT ![r][k] = v] \in [Agents -> Seq(Seq(S))]
<1>1. f[r] \in Seq(Seq(S))
  OBVIOUS
<1>2. [f[r] EXCEPT ![k] = v] \in Seq(Seq(S))
  BY <1>1, ExceptSeq
<1> QED
  BY <1>2

\* Agents send under their own id.
LEMMA MessageSender == \A l \in Message : l.sender \in Agents
<1>1. \A l \in Letters : l.sender \in Agents
  BY BrokerAssumption
<1>2. Cfp.sender = "PA"
  BY DEF Cfp
<1> QED
  BY <1>1, <1>2 DEF Message

\* Appending adds one element, and nothing else.
LEMMA AppendElements ==
  ASSUME NEW S, NEW s \in Seq(S), NEW e \in S
  PROVE  /\ DOMAIN Append(s, e) = DOMAIN s \cup {Len(s) + 1}
         /\ Append(s, e)[Len(s) + 1] = e
         /\ \A i \in DOMAIN s : Append(s, e)[i] = s[i] /\ i < Len(s) + 1
  OBVIOUS

\* The current message of a publish() that is under way is a message id.
LEMMA CurIsMsg ==
  ASSUME TypeOK, PublishInv, NEW a \in Agents, pc[a] # "idle"
  PROVE  cur[a] \in MsgIds /\ cur[a] \in DOMAIN msgs
  BY DEF TypeOK, PublishInv, DeliveryInv, CurMine, MsgIds

\* Counting up keeps the type of the metrics.
LEMMA MetricsType ==
  ASSUME NEW f \in Metrics
  PROVE  /\ [f EXCEPT !.published = @ + 1] \in Metrics
         /\ [f EXCEPT !.delivered = @ + 1] \in Metrics
         /\ [f EXCEPT !.acked = @ + 1] \in Metrics
         /\ [f EXCEPT !.dlq = @ + 1] \in Metrics
  BY DEF Metrics

LEMMA TypeInit == Init => TypeOK
<1> SUFFICES ASSUME Init PROVE TypeOK
  OBVIOUS
<1>1. \A S : <<>> \in Seq(S)
  OBVIOUS
<1>2. queues \in [Agents -> Seq(Seq(MsgIds))]
  <2>1. << <<>> >> \in Seq(Seq(MsgIds))
    OBVIOUS
  <2> QED BY <2>1, <1>1 DEF Init
<1>3. metrics \in Metrics
  BY DEF Init, Metrics
<1>4. subscriptions \in [Topic -> SUBSET Agents]
  BY BrokerAssumption DEF Init
<1> QED
  BY <1>1, <1>2, <1>3, <1>4, BrokerAssumption DEF Init, TypeOK, Steps, MsgIds

\* Noting a change of a set keeps the type of the notes, and forgets none.
LEMMA NoteChurnKeeps ==
  ASSUME TypeOK, NEW T, NEW change \in {"add", "remove"}, NoteChurn(T, change)
  PROVE  /\ churned' \in [MsgIds -> SUBSET {"add", "remove"}]
         /\ \A m \in MsgIds : Torn(m) => Torn(m)'
  BY DEF NoteChurn, TypeOK, Torn

\* Adding a subscriber keeps the types.
LEMMA AddType ==
  ASSUME TypeOK, NEW r \in Agents, NEW T, AddSubscriber(r, T)
  PROVE  /\ subscriptions' \in [Topic -> SUBSET Agents]
         /\ ahead' \in [Agents -> SUBSET Agents]
         /\ churned' \in [MsgIds -> SUBSET {"add", "remove"}]
<1>1. subscriptions' \in [Topic -> SUBSET Agents] /\ ahead' \in [Agents -> SUBSET Agents]
  BY DEF AddSubscriber, TypeOK
<1> QED
  BY <1>1, NoteChurnKeeps DEF AddSubscriber

LEMMA TypeStep == TypeOK /\ PublishInv /\ [Next]_vars => TypeOK'
<1> SUFFICES ASSUME TypeOK, PublishInv, [Next]_vars PROVE TypeOK'
  OBVIOUS
<1> USE DEF agentVars, brokerVars, threadVars
<1>0. \A a \in Agents : pc[a] # "idle" => cur[a] \in MsgIds
  BY CurIsMsg
<1>1. ASSUME NEW a \in Agents, Register(a) PROVE TypeOK'
  <2>1. queues[a] \in Seq(Seq(MsgIds)) /\ <<>> \in Seq(MsgIds)
    BY DEF TypeOK
  <2>2. Append(queues[a], <<>>) \in Seq(Seq(MsgIds))
    BY <2>1
  <2>3. queues' \in [Agents -> Seq(Seq(MsgIds))]
    BY <1>1, <2>2 DEF Register, TypeOK
  <2> QED BY <1>1, <2>3, AddType DEF Register, TypeOK
<1>2. ASSUME NEW a \in Agents, NEW t \in ChurnTopics, Subscribe(a, t)
      PROVE TypeOK'
  <2>1. churn' \in Nat
    BY <1>2 DEF Subscribe, TypeOK
  <2> QED BY <1>2, <2>1, AddType DEF Subscribe, TypeOK
<1>3. ASSUME NEW a \in Agents, NEW t \in ChurnTopics, Unsubscribe(a, t)
      PROVE TypeOK'
  <2>1. t \in Topic
    BY BrokerAssumption
  <2>2. subscriptions' \in [Topic -> SUBSET Agents]
    BY <1>3, <2>1 DEF Unsubscribe, TypeOK
  <2>3. churn' \in Nat
    BY <1>3 DEF Unsubscribe, TypeOK
  <2>4. ahead' \in [Agents -> SUBSET Agents]
    BY <1>3 DEF Unsubscribe, TypeOK
  <2>5. churned' \in [MsgIds -> SUBSET {"add", "remove"}]
    BY <1>3, NoteChurnKeeps DEF Unsubscribe
  <2> QED BY <1>3, <2>2, <2>3, <2>4, <2>5 DEF Unsubscribe, TypeOK, agentVars, threadVars
<1>4. ASSUME NEW l \in Message, l.sender \in Agents, Create(l)
      PROVE  /\ msgs' \in Seq(Message) /\ Len(msgs') <= MaxMsgs
             /\ Len(msgs) + 1 \in MsgIds
             /\ cur' \in [Agents -> 0..MaxMsgs]
  <2>1. msgs \in Seq(Message) /\ Len(msgs) \in Nat /\ Len(msgs) < MaxMsgs
    BY <1>4 DEF TypeOK, Create
  <2>2. Len(msgs) + 1 \in MsgIds /\ Len(msgs) + 1 \in 0..MaxMsgs
    BY <2>1, BrokerAssumption DEF MsgIds
  <2>3. msgs' \in Seq(Message) /\ Len(msgs') = Len(msgs) + 1
    BY <1>4, <2>1 DEF Create
  <2>4. cur' \in [Agents -> 0..MaxMsgs]
    BY <1>4, <2>2 DEF TypeOK, Create
  <2> QED BY <2>1, <2>2, <2>3, <2>4
<1>5. ASSUME NEW l \in Letters, SendMessage(l) PROVE TypeOK'
  <2>1. l \in Message /\ l.sender \in Agents
    BY BrokerAssumption DEF Message
  <2>2. /\ msgs' \in Seq(Message) /\ Len(msgs') <= MaxMsgs
        /\ Len(msgs) + 1 \in MsgIds
        /\ cur' \in [Agents -> 0..MaxMsgs]
    BY <1>4, <1>5, <2>1 DEF SendMessage
  <2>3. outbox' \in [Agents -> Seq(MsgIds)]
    <3>1. outbox \in [Agents -> Seq(MsgIds)]
      BY DEF TypeOK
    <3>2. Append(outbox[l.sender], Len(msgs) + 1) \in Seq(MsgIds)
      BY <2>1, <2>2, <3>1
    <3>3. outbox' = [outbox EXCEPT ![l.sender] = Append(@, Len(msgs) + 1)]
      BY <1>5 DEF SendMessage
    <3> QED BY <3>1, <3>2, <3>3
  <2>4. pc' \in [Agents -> Steps]
    BY <1>5, <2>1 DEF SendMessage, TypeOK, Steps
  <2> QED BY <1>5, <2>2, <2>3, <2>4 DEF SendMessage, TypeOK
<1>6. CASE BroadcastCfp
  <2>1. Cfp \in Message /\ Cfp.sender = "PA" /\ "PA" \in Agents
    BY <1>6 DEF Message, Cfp, BroadcastCfp
  <2>2. /\ msgs' \in Seq(Message) /\ Len(msgs') <= MaxMsgs
        /\ cur' \in [Agents -> 0..MaxMsgs]
    BY <1>4, <1>6, <2>1 DEF BroadcastCfp
  <2>3. pc' \in [Agents -> Steps]
    BY <1>6, <2>1 DEF BroadcastCfp, TypeOK, Steps
  <2> QED BY <1>6, <2>2, <2>3 DEF BroadcastCfp, TypeOK
<1>7. ASSUME NEW a \in Agents, LogEnvelope(a) PROVE TypeOK'
  <2>1. Append(envelope_log, cur[a]) \in Seq(MsgIds)
    BY <1>0, <1>7 DEF LogEnvelope, TypeOK
  <2>2. envelope_log' \in Seq(MsgIds)
    BY <1>7, <2>1, TrimmedType, BrokerAssumption DEF LogEnvelope
  <2>3. metrics' \in Metrics
    BY <1>7, MetricsType DEF LogEnvelope, TypeOK
  <2> QED BY <1>7, <2>2, <2>3 DEF LogEnvelope, TypeOK, Steps
<1>8. ASSUME NEW a \in Agents, RouteBroadcast(a) PROVE TypeOK'
  <2>1. subscriptions[TopicOf(cur[a])] \subseteq Agents
    BY TopicMapType DEF TopicOf, TypeOK
  <2> QED BY <1>8, <2>1 DEF RouteBroadcast, TypeOK, Steps
<1>9. ASSUME NEW a \in Agents, RouteUnicast(a) PROVE TypeOK'
  <2>1. PICK r \in Agents : /\ BeginEnqueue(a, r)
                            /\ start' = [start EXCEPT ![cur[a]] = {r}]
                            /\ seen' = [seen EXCEPT ![a] = {r}]
    BY <1>9 DEF RouteUnicast
  <2>2. Len(queues[r]) \in Nat
    BY DEF TypeOK
  <2>3. to' \in [Agents -> Agents] /\ qref' \in [Agents -> Nat]
    BY <2>1, <2>2 DEF BeginEnqueue, TypeOK
  <2>4. start' \in [MsgIds -> SUBSET Agents] /\ seen' \in [Agents -> SUBSET Agents]
    BY <2>1 DEF TypeOK
  <2> QED BY <1>9, <2>3, <2>4 DEF RouteUnicast, TypeOK, Steps
<1>10. ASSUME NEW a \in Agents, RouteUnknown(a) PROVE TypeOK'
  <2>1. Append(dlq, cur[a]) \in Seq(MsgIds)
    BY <1>0, <1>10 DEF RouteUnknown, TypeOK
  <2>2. dlq' \in Seq(MsgIds)
    BY <1>10, <2>1, TrimmedType, BrokerAssumption DEF RouteUnknown
  <2>3. metrics' \in Metrics
    BY <1>10, MetricsType DEF RouteUnknown, TypeOK
  <2> QED BY <1>10, <2>2, <2>3 DEF RouteUnknown, TypeOK, Steps
<1>11. ASSUME NEW a \in Agents, IterateRaises(a) PROVE TypeOK'
  BY <1>11 DEF IterateRaises, TypeOK, Steps
<1>12. ASSUME NEW a \in Agents, IterateNext(a) PROVE TypeOK'
  <2>1. ahead[a] \subseteq Agents
    BY DEF TypeOK
  <2>2. PICK r \in Agents :
          /\ ahead' = [ahead EXCEPT ![a] = @ \ {r}]
          /\ seen' = [seen EXCEPT ![a] = @ \cup {r}]
          /\ BeginEnqueue(a, r)
          /\ pc' = [pc EXCEPT ![a] = IF r # a /\ Registered(r) THEN "put" ELSE @]
    BY <1>12, <2>1 DEF IterateNext
  <2>3. Len(queues[r]) \in Nat
    BY DEF TypeOK
  <2>4. to' \in [Agents -> Agents] /\ qref' \in [Agents -> Nat]
    BY <2>2, <2>3 DEF BeginEnqueue, TypeOK
  <2>5. /\ seen' \in [Agents -> SUBSET Agents] /\ pc' \in [Agents -> Steps]
        /\ ahead' \in [Agents -> SUBSET Agents]
    BY <2>2 DEF TypeOK, Steps
  <2> QED BY <1>12, <2>4, <2>5 DEF IterateNext, TypeOK
<1>13. ASSUME NEW a \in Agents, IterateEnd(a) PROVE TypeOK'
  BY <1>13 DEF IterateEnd, TypeOK, Steps
<1>14. ASSUME NEW a \in Agents, pc[a] \in {"put", "retry"}, PutNowait(a)
       PROVE  queues' \in [Agents -> Seq(Seq(MsgIds))] /\ metrics' \in Metrics
  <2>1. cur[a] \in MsgIds
    BY <1>0, <1>14
  <2>2. to[a] \in Agents /\ queues[to[a]] \in Seq(Seq(MsgIds))
    BY DEF TypeOK
  <2>3. qref[a] \in 1..Len(queues[to[a]])
    BY <1>14, <2>2 DEF PublishInv, DeliveryInv, EnqueueTarget, Enqueuing
  <2>4. Append(queues[to[a]][qref[a]], cur[a]) \in Seq(MsgIds)
    BY <2>1, <2>2, <2>3
  <2>5. queues' = [queues EXCEPT ![to[a]][qref[a]] =
                     Append(queues[to[a]][qref[a]], cur[a])]
    BY <1>14 DEF PutNowait
  <2>6. queues' \in [Agents -> Seq(Seq(MsgIds))]
    BY <2>2, <2>3, <2>4, <2>5, QueuesType DEF TypeOK
  <2> QED BY <1>14, <2>6, MetricsType DEF PutNowait, TypeOK
<1>15. ASSUME NEW a \in Agents, PutOk(a) PROVE TypeOK'
  <2>1. queues' \in [Agents -> Seq(Seq(MsgIds))] /\ metrics' \in Metrics
    BY <1>14, <1>15 DEF PutOk
  <2> QED BY <1>15, <2>1 DEF PutOk, TypeOK, Steps
<1>16. ASSUME NEW a \in Agents, ReceiveMessage(a) PROVE TypeOK'
  <2>1. cur[a] \in MsgIds /\ to[a] \in Agents
    BY <1>0, <1>16 DEF ReceiveMessage, TypeOK
  <2>2. /\ Append(inbox[to[a]], cur[a]) \in Seq(MsgIds)
        /\ Append(received[to[a]], cur[a]) \in Seq(MsgIds)
    BY <2>1 DEF TypeOK
  <2>3. inbox' \in [Agents -> Seq(MsgIds)] /\ received' \in [Agents -> Seq(MsgIds)]
    BY <1>16, <2>1, <2>2 DEF ReceiveMessage, TypeOK
  <2>4. pc' \in [Agents -> Steps]
    BY <1>16 DEF ReceiveMessage, AfterEnqueue, TypeOK, Steps
  <2> QED BY <1>16, <2>3, <2>4 DEF ReceiveMessage, TypeOK
<1>17. ASSUME NEW a \in Agents, PutFull(a) PROVE TypeOK'
  <2>1. cur[a] \in MsgIds
    BY <1>0, <1>17 DEF PutFull
  <2>2. retry_count' \in [MsgIds -> Nat] /\ pc' \in [Agents -> Steps]
    BY <1>17, <2>1 DEF PutFull, TypeOK, Steps
  <2> QED BY <1>17, <2>2 DEF PutFull, TypeOK
<1>18. ASSUME NEW a \in Agents, RetryPut(a) PROVE TypeOK'
  <2>1. queues' \in [Agents -> Seq(Seq(MsgIds))] /\ metrics' \in Metrics
    <3>1. CASE PutNowait(a)
      BY <1>14, <1>18, <3>1 DEF RetryPut
    <3>2. CASE UNCHANGED <<queues, metrics>>
      BY <3>2 DEF TypeOK
    <3> QED BY <1>18, <3>1, <3>2 DEF RetryPut
  <2>2. pc' \in [Agents -> Steps]
    BY <1>18 DEF RetryPut, AfterEnqueue, TypeOK, Steps
  <2> QED BY <1>18, <2>1, <2>2 DEF RetryPut, TypeOK
<1>19. ASSUME NEW a \in Agents, DeadLetter(a) PROVE TypeOK'
  <2>1. dlq' \in Seq(MsgIds)
    BY <1>0, <1>19 DEF DeadLetter, TypeOK
  <2>2. metrics' \in Metrics
    BY <1>19, MetricsType DEF DeadLetter, TypeOK
  <2>3. pc' \in [Agents -> Steps]
    BY <1>19 DEF DeadLetter, AfterEnqueue, TypeOK, Steps
  <2> QED BY <1>19, <2>1, <2>2, <2>3 DEF DeadLetter, TypeOK
<1>20. ASSUME NEW a \in Agents, Callbacks(a) PROVE TypeOK'
  <2>1. observed' \in Seq(MsgIds)
    BY <1>0, <1>20 DEF Callbacks, TypeOK
  <2> QED BY <1>20, <2>1 DEF Callbacks, TypeOK, Steps
<1>21. CASE PopInbox
  <2>1. <<>> \in Seq(MsgIds)
    OBVIOUS
  <2>2. inbox' \in [Agents -> Seq(MsgIds)]
    BY <1>21, <2>1 DEF PopInbox, TypeOK
  <2> QED BY <1>21, <2>2 DEF PopInbox, TypeOK
<1>22. ASSUME NEW a \in Consumers, Consume(a) PROVE TypeOK'
  <2> DEFINE q == Len(queues[a])
  <2>1. a \in Agents /\ queues[a] \in Seq(Seq(MsgIds))
    BY BrokerAssumption DEF TypeOK
  <2>2. q \in 1..Len(queues[a])
    BY <1>22, <2>1 DEF Consume, Registered
  <2>3. queues[a][q] \in Seq(MsgIds) /\ queues[a][q] # <<>>
    BY <1>22, <2>1, <2>2 DEF Consume
  <2>4. Head(queues[a][q]) \in MsgIds /\ Tail(queues[a][q]) \in Seq(MsgIds)
    BY <2>3
  <2>5. queues' = [queues EXCEPT ![a][q] = Tail(queues[a][q])]
    BY <1>22 DEF Consume
  <2>6. queues' \in [Agents -> Seq(Seq(MsgIds))]
    BY <2>1, <2>2, <2>4, <2>5, QueuesType DEF TypeOK
  <2>7. consumed' \in [Agents -> Seq(MsgIds)]
    BY <1>22, <2>1, <2>4 DEF Consume, TypeOK
  <2> QED BY <1>22, <2>6, <2>7 DEF Consume, TypeOK
<1>23. ASSUME NEW a \in Agents, NEW m \in MsgIds, Acknowledge(a, m)
       PROVE TypeOK'
  <2>1. metrics' \in Metrics
    BY <1>23, MetricsType DEF Acknowledge, TypeOK
  <2>2. acked' \subseteq MsgIds
    BY <1>23 DEF Acknowledge, TypeOK
  <2> QED BY <1>23, <2>1, <2>2 DEF Acknowledge, TypeOK
<1>24. CASE UNCHANGED vars
  BY <1>24 DEF vars, TypeOK
<1> QED
  BY <1>1, <1>2, <1>3, <1>5, <1>6, <1>7, <1>8, <1>9, <1>10, <1>11, <1>12, <1>13,
     <1>15, <1>16, <1>17, <1>18, <1>19, <1>20, <1>21, <1>22, <1>23, <1>24
     DEF Next, PublishStep

-----------------------------------------------------------------------------
(* The iterators over the subscriber sets: FanoutInv is inductive.          *)

\* Two publish() calls never work on the same message.
LEMMA OwnMessage ==
  ASSUME PublishInv, NEW a \in Agents, NEW b \in Agents, pc[a] # "idle", pc[b] # "idle",
         cur[a] = cur[b]
  PROVE  a = b
  BY DEF PublishInv, DeliveryInv, CurMine

\* What a fan-out iterates over, and from where.
LEMMA IteratingFacts ==
  ASSUME TypeOK, PublishInv, NEW a \in Agents, Iterating(a, TopicOf(cur[a]))
  PROVE  /\ pc[a] # "idle" /\ cur[a] \in MsgIds /\ cur[a] \in DOMAIN msgs
         /\ TopicOf(cur[a]) \in Topic
         /\ subscriptions[TopicOf(cur[a])] \subseteq Agents
         /\ start[cur[a]] \subseteq Agents
         /\ churned[cur[a]] \subseteq {"add", "remove"}
         /\ FanoutSound(a)
<1>1. pc[a] # "idle"
  BY DEF Iterating, Enqueuing
<1>2. cur[a] \in MsgIds /\ cur[a] \in DOMAIN msgs
  BY <1>1, CurIsMsg
<1>3. TopicOf(cur[a]) \in Topic
  BY TopicMapType DEF TopicOf
<1> QED
  BY <1>1, <1>2, <1>3 DEF TypeOK, PublishInv, FanoutInv

LEMMA AgentsFinite == \A S : S \subseteq Agents => IsFiniteSet(S)
<1> DEFINE E0 == {} \cup {"EA"}
           E1 == E0 \cup {"QA"}
           E2 == E1 \cup {"SA"}
           E3 == E2 \cup {"DA"}
           E4 == E3 \cup {"IA"}
           E5 == E4 \cup {"PA"}
<1>1. IsFiniteSet(E5)
  BY FS_EmptySet, FS_AddElement
<1>2. E5 = AGENT_IDS
  BY DEF AGENT_IDS
<1>3. Agents \subseteq AGENT_IDS
  BY BrokerAssumption
<1> HIDE DEF E5
<1> QED
  BY <1>1, <1>2, <1>3, FS_Subset

\* An iterator whose size check passes goes over the set of the start, unless
\* that was both taken from and added to.
LEMMA SizeUnchanged ==
  ASSUME TypeOK, PublishInv, NEW a \in Agents, pc[a] = "iterate", ~SetResized(a),
         ~Torn(cur[a])
  PROVE  /\ churned[cur[a]] = {}
         /\ subscriptions[TopicOf(cur[a])] = start[cur[a]]
         /\ ahead[a] = start[cur[a]] \ seen[a]
<1> DEFINE m == cur[a]
           S == subscriptions[TopicOf(m)]
<1>1. Iterating(a, TopicOf(m))
  BY DEF Iterating, PublishInv, DeliveryInv, IteratesBroadcast
<1>2. /\ S \subseteq Agents /\ start[m] \subseteq Agents
      /\ churned[m] \subseteq {"add", "remove"} /\ FanoutSound(a)
  BY <1>1, IteratingFacts
<1>3. S \subseteq start[m] \/ start[m] \subseteq S
  BY <1>2 DEF FanoutSound, Torn
<1>4. IsFiniteSet(S) /\ IsFiniteSet(start[m]) /\ Cardinality(S) = Cardinality(start[m])
  BY <1>2, AgentsFinite DEF SetResized
<1>5. S = start[m]
  BY <1>3, <1>4, FS_Subset
<1> QED
  BY <1>2, <1>5 DEF FanoutSound

\* A step that leaves the sets alone keeps every fan-out in order that it does
\* not move itself.
LEMMA FanoutKept ==
  ASSUME TypeOK, PublishInv, NEW a \in Agents, Iterating(a, TopicOf(cur[a])),
         msgs'[cur[a]] = msgs[cur[a]], cur'[a] = cur[a],
         ahead'[a] = ahead[a], seen'[a] = seen[a], start'[cur[a]] = start[cur[a]],
         UNCHANGED <<subscriptions, churned>>
  PROVE  FanoutSound(a)'
<1>1. FanoutSound(a)
  BY IteratingFacts
<1>2. TopicOf(cur[a])' = TopicOf(cur[a])
  BY DEF TopicOf
<1> QED
  BY <1>1, <1>2 DEF FanoutSound, Torn

\* A step outside the loop over the subscribers.
LEMMA FanoutInvFrame ==
  ASSUME TypeOK, PublishInv,
         UNCHANGED <<cur, start, seen, ahead, subscriptions, churned, msgs>>,
         \A a \in Agents :
           /\ pc'[a] \in {"publish", "route"} => pc[a] \in {"publish", "route"}
           /\ pc'[a] \in Enqueuing \cup {"iterate"} => pc[a] \in Enqueuing \cup {"iterate"}
  PROVE  FanoutInv'
<1>1. \A a \in Agents : Iterating(a, TopicOf(cur[a]))' => Iterating(a, TopicOf(cur[a]))
  BY DEF Iterating, IsBroadcast, TopicOf
<1>2. \A a \in Agents : Iterating(a, TopicOf(cur[a]))' => FanoutSound(a)'
  BY <1>1, FanoutKept
<1> QED
  BY <1>2 DEF FanoutInv, PublishInv

\* A new message.
LEMMA FanoutInvCreate ==
  ASSUME TypeOK, PublishInv, NEW l \in Message, l.sender \in Agents, Create(l),
         pc' = [pc EXCEPT ![l.sender] = "publish"] \/ pc' = pc,
         UNCHANGED <<start, seen, ahead, subscriptions, churned>>
  PROVE  FanoutInv'
<1> DEFINE s == l.sender
           n == Len(msgs) + 1
<1>1. /\ Len(msgs) \in Nat /\ Len(msgs) < MaxMsgs
      /\ DOMAIN msgs = 1..Len(msgs) /\ DOMAIN msgs' = 1..n
      /\ \A m \in DOMAIN msgs : msgs'[m] = msgs[m]
  BY DEF TypeOK, Create
<1>2. n \in MsgIds /\ n \notin DOMAIN msgs
  BY <1>1, BrokerAssumption DEF MsgIds
<1>3. pc[s] = "idle" /\ \A b \in Agents : cur'[b] = IF b = s THEN n ELSE cur[b]
  BY DEF TypeOK, Create
<1>4. \A b \in Agents : pc'[b] = pc[b] \/ (b = s /\ pc'[b] = "publish")
  BY DEF TypeOK
<1>5. \A m \in MsgIds : m \notin DOMAIN msgs' => churned'[m] = {}
  BY <1>1 DEF PublishInv, FanoutInv
<1>6. ASSUME NEW a \in Agents, pc'[a] \in {"publish", "route"} PROVE churned'[cur'[a]] = {}
  BY <1>2, <1>3, <1>4, <1>6 DEF PublishInv, FanoutInv
<1>7. ASSUME NEW a \in Agents, Iterating(a, TopicOf(cur[a]))' PROVE FanoutSound(a)'
  <2>1. a # s /\ pc[a] = pc'[a] /\ cur'[a] = cur[a] /\ pc[a] # "idle"
    BY <1>3, <1>4, <1>7 DEF Iterating, Enqueuing
  <2>2. msgs'[cur[a]] = msgs[cur[a]]
    BY <1>1, <2>1, CurIsMsg
  <2>3. Iterating(a, TopicOf(cur[a]))
    BY <1>7, <2>1, <2>2 DEF Iterating, IsBroadcast, TopicOf
  <2> QED BY <2>1, <2>2, <2>3, FanoutKept
<1> QED
  BY <1>5, <1>6, <1>7 DEF FanoutInv

\* The loop itself: its start, its next subscriber and its end.
LEMMA FanoutInvRoute ==
  ASSUME TypeOK, PublishInv, NEW a \in Agents, RouteBroadcast(a) \/ RouteUnicast(a)
  PROVE  FanoutInv'
<1>1. /\ UNCHANGED <<msgs, cur, subscriptions, churned>> /\ pc[a] = "route"
  BY DEF RouteBroadcast, RouteUnicast, agentVars, brokerVars
<1>2. /\ cur[a] \in MsgIds /\ churned[cur[a]] = {} /\ TopicOf(cur[a]) \in Topic
      /\ TopicOf(cur[a])' = TopicOf(cur[a])
  BY <1>1, CurIsMsg, TopicMapType DEF PublishInv, FanoutInv, TopicOf
<1>0. /\ pc \in [Agents -> Steps] /\ seen \in [Agents -> SUBSET Agents]
      /\ ahead \in [Agents -> SUBSET Agents] /\ start \in [MsgIds -> SUBSET Agents]
  BY DEF TypeOK
<1>3. \A b \in Agents : b # a => /\ pc'[b] = pc[b] /\ seen'[b] = seen[b]
                                 /\ ahead'[b] = ahead[b]
  <2>1. CASE RouteBroadcast(a)
    BY <1>0, <2>1 DEF RouteBroadcast
  <2>2. CASE RouteUnicast(a)
    BY <1>0, <2>2 DEF RouteUnicast
  <2> QED BY <2>1, <2>2
<1>4. \A m \in MsgIds : m # cur[a] => start'[m] = start[m]
  BY <1>0 DEF RouteBroadcast, RouteUnicast
<1>5. pc'[a] \in {"iterate", "put"}
  BY <1>0 DEF RouteBroadcast, RouteUnicast
<1>6. ASSUME NEW b \in Agents, b # a, Iterating(b, TopicOf(cur[b]))' PROVE FanoutSound(b)'
  <2>1. Iterating(b, TopicOf(cur[b]))
    BY <1>1, <1>3, <1>6 DEF Iterating, IsBroadcast, TopicOf
  <2>2. cur[b] \in MsgIds /\ cur[b] # cur[a]
    BY <1>1, <1>6, <2>1, IteratingFacts, OwnMessage
  <2> QED BY <1>1, <1>3, <1>4, <1>6, <2>1, <2>2, FanoutKept
<1>7. ASSUME Iterating(a, TopicOf(cur[a]))' PROVE FanoutSound(a)'
  <2>1. IsBroadcast(cur[a])
    BY <1>1, <1>7 DEF Iterating, IsBroadcast
  <2>2. RouteBroadcast(a)
    BY <2>1 DEF RouteUnicast
  <2>3. /\ start'[cur[a]] = subscriptions[TopicOf(cur[a])] /\ seen'[a] = {}
        /\ ahead'[a] = subscriptions[TopicOf(cur[a])]
    BY <1>2, <2>2 DEF RouteBroadcast, TypeOK
  <2> QED BY <1>1, <1>2, <2>3 DEF FanoutSound
<1>8. ASSUME NEW b \in Agents, pc'[b] \in {"publish", "route"} PROVE churned'[cur'[b]] = {}
  BY <1>1, <1>3, <1>5, <1>8 DEF PublishInv, FanoutInv
<1> QED
  BY <1>1, <1>6, <1>7, <1>8 DEF PublishInv, FanoutInv

LEMMA FanoutInvIterate ==
  ASSUME TypeOK, PublishInv, NEW a \in Agents, IterateNext(a) \/ IterateRaises(a)
  PROVE  FanoutInv'
<1>1. UNCHANGED <<msgs, cur, subscriptions, churned, start>> /\ pc[a] = "iterate"
  BY DEF IterateNext, IterateRaises, agentVars, brokerVars
<1>0. /\ pc \in [Agents -> Steps] /\ seen \in [Agents -> SUBSET Agents]
      /\ ahead \in [Agents -> SUBSET Agents]
  BY DEF TypeOK
<1>2. \A b \in Agents : b # a => /\ pc'[b] = pc[b] /\ seen'[b] = seen[b]
                                 /\ ahead'[b] = ahead[b]
  <2>1. CASE IterateNext(a)
    BY <1>0, <2>1 DEF IterateNext
  <2>2. CASE IterateRaises(a)
    BY <1>0, <2>2 DEF IterateRaises, agentVars, brokerVars
  <2> QED BY <2>1, <2>2
<1>3. pc'[a] \in {"iterate", "put", "idle"}
  BY <1>0, <1>1 DEF IterateNext, IterateRaises
<1>4. ASSUME NEW b \in Agents, b # a, Iterating(b, TopicOf(cur[b]))' PROVE FanoutSound(b)'
  <2>1. Iterating(b, TopicOf(cur[b]))
    BY <1>1, <1>2, <1>4 DEF Iterating, IsBroadcast, TopicOf
  <2> QED BY <1>1, <1>2, <1>4, <2>1, FanoutKept
<1>5. ASSUME Iterating(a, TopicOf(cur[a]))' PROVE FanoutSound(a)'
  <2>1. IterateNext(a)
    BY <1>5 DEF IterateRaises, Iterating, Enqueuing, TypeOK
  <2>2. PICK r : /\ ahead'[a] = ahead[a] \ {r} /\ seen'[a] = seen[a] \cup {r}
    BY <2>1 DEF IterateNext, TypeOK
  <2>3. Iterating(a, TopicOf(cur[a]))
    BY <1>1 DEF Iterating, PublishInv, DeliveryInv, IteratesBroadcast
  <2>4. FanoutSound(a) /\ TopicOf(cur[a])' = TopicOf(cur[a])
    BY <1>1, <2>3, IteratingFacts DEF TopicOf
  <2>5. churned[cur[a]] = {} => ahead[a] = start[cur[a]] \ seen[a]
    BY <2>4 DEF FanoutSound
  <2>6. churned[cur[a]] = {} => ahead'[a] = start[cur[a]] \ seen'[a]
    BY <2>2, <2>5
  <2> QED BY <1>1, <2>4, <2>6 DEF FanoutSound, Torn
<1>6. ASSUME NEW b \in Agents, pc'[b] \in {"publish", "route"} PROVE churned'[cur'[b]] = {}
  BY <1>1, <1>2, <1>3, <1>6 DEF PublishInv, FanoutInv
<1> QED
  BY <1>1, <1>4, <1>5, <1>6 DEF PublishInv, FanoutInv

\* A change of the sets of T is noted on the messages whose fan-out is over one
\* of them, and on no other.
LEMMA ChurnNoted ==
  ASSUME TypeOK, PublishInv, NEW T, NEW change, NoteChurn(T, change),
         UNCHANGED <<msgs, pc, cur>>
  PROVE  /\ \A m \in MsgIds : m \notin DOMAIN msgs' => churned'[m] = {}
         /\ \A a \in Agents : pc'[a] \in {"publish", "route"} => churned'[cur'[a]] = {}
         /\ \A a \in Agents : Iterating(a, TopicOf(cur[a])) =>
              churned'[cur[a]] = IF TopicOf(cur[a]) \in T THEN churned[cur[a]] \cup {change}
                                 ELSE churned[cur[a]]
<1> DEFINE Over(m) == \E a \in Agents : cur[a] = m /\ \E t \in T : Iterating(a, t)
<1>1. \A m \in MsgIds : churned'[m] = IF Over(m) THEN churned[m] \cup {change} ELSE churned[m]
  BY DEF NoteChurn
<1>2. \A a \in Agents : (\E t \in T : Iterating(a, t)) =>
        /\ pc[a] \notin {"idle", "publish", "route"} /\ cur[a] \in DOMAIN msgs
  BY CurIsMsg DEF Iterating, Enqueuing
<1>3. \A m \in MsgIds : m \notin DOMAIN msgs => churned'[m] = {}
  <2>1. \A m \in MsgIds : Over(m) => m \in DOMAIN msgs
    BY <1>2
  <2> HIDE DEF Over
  <2> QED BY <1>1, <2>1 DEF PublishInv, FanoutInv
<1>4. ASSUME NEW a \in Agents, pc[a] \in {"publish", "route"} PROVE churned'[cur[a]] = {}
  <2>1. cur[a] \in MsgIds /\ churned[cur[a]] = {}
    BY <1>4, CurIsMsg DEF PublishInv, FanoutInv
  <2>2. ~Over(cur[a])
    BY <1>2, <1>4, OwnMessage
  <2> QED BY <1>1, <2>1, <2>2
<1>5. ASSUME NEW a \in Agents, Iterating(a, TopicOf(cur[a]))
      PROVE  churned'[cur[a]] = IF TopicOf(cur[a]) \in T THEN churned[cur[a]] \cup {change}
                                ELSE churned[cur[a]]
  <2>1. cur[a] \in MsgIds
    BY <1>5, IteratingFacts
  <2>2. Over(cur[a]) <=> TopicOf(cur[a]) \in T
    BY <1>5 DEF Iterating
  <2> QED BY <1>1, <2>1, <2>2
<1> QED
  BY <1>3, <1>4, <1>5

LEMMA FanoutInvAdd ==
  ASSUME TypeOK, PublishInv, NEW r \in Agents, NEW T, AddSubscriber(r, T),
         UNCHANGED <<msgs, pc, cur, start, seen>>
  PROVE  FanoutInv'
<1> DEFINE changed == {t \in T : r \notin subscriptions[t]}
<1>1. /\ NoteChurn(changed, "add")
      /\ \A t \in Topic : subscriptions'[t] = IF t \in T THEN subscriptions[t] \cup {r}
                                                         ELSE subscriptions[t]
      /\ \A a \in Agents : ahead'[a] \in AheadOf(a, r, changed)
  BY DEF AddSubscriber
<1> SUFFICES ASSUME NEW a \in Agents, Iterating(a, TopicOf(cur[a]))' PROVE FanoutSound(a)'
  BY <1>1, ChurnNoted DEF FanoutInv
<1> DEFINE m == cur[a]
           t == TopicOf(m)
           S == subscriptions[t]
<1>2. Iterating(a, t) /\ TopicOf(cur[a])' = t
  BY DEF Iterating, IsBroadcast, TopicOf
<1>3. /\ t \in Topic /\ FanoutSound(a) /\ churned[m] \subseteq {"add", "remove"}
      /\ churned'[m] = IF t \in changed THEN churned[m] \cup {"add"} ELSE churned[m]
  BY <1>1, <1>2, ChurnNoted, IteratingFacts
<1>4. CASE t \in changed
  <2>1. subscriptions'[t] = S \cup {r} /\ r \notin S /\ churned'[m] = churned[m] \cup {"add"}
    BY <1>1, <1>3, <1>4
  <2>2. "remove" \in churned[m] \/ start[m] \subseteq S
    BY <1>3 DEF FanoutSound
  <2> QED BY <1>2, <1>3, <2>1, <2>2 DEF FanoutSound, Torn
<1>5. CASE t \notin changed
  <2>1. subscriptions'[t] = S /\ churned'[m] = churned[m]
    BY <1>1, <1>3, <1>5
  <2>2. ahead'[a] = ahead[a]
    BY <1>1, <1>5 DEF AheadOf, Iterating
  <2> QED BY <1>2, <1>3, <2>1, <2>2 DEF FanoutSound, Torn
<1> QED BY <1>4, <1>5

LEMMA FanoutInvRemove ==
  ASSUME TypeOK, PublishInv, NEW r \in Agents, NEW u \in ChurnTopics, Unsubscribe(r, u)
  PROVE  FanoutInv'
<1> DEFINE T == IF r \in subscriptions[u] THEN {u} ELSE {}
<1>1. /\ NoteChurn(T, "remove") /\ UNCHANGED <<msgs, pc, cur, start, seen>>
      /\ \A t \in Topic : subscriptions'[t] = IF t = u THEN subscriptions[t] \ {r}
                                                       ELSE subscriptions[t]
      /\ \A a \in Agents : ahead'[a] = IF Iterating(a, u) THEN ahead[a] \ {r} ELSE ahead[a]
  BY BrokerAssumption DEF Unsubscribe, TypeOK, agentVars
<1> SUFFICES ASSUME NEW a \in Agents, Iterating(a, TopicOf(cur[a]))' PROVE FanoutSound(a)'
  BY <1>1, ChurnNoted DEF FanoutInv
<1> DEFINE m == cur[a]
           t == TopicOf(m)
           S == subscriptions[t]
<1>2. Iterating(a, t) /\ TopicOf(cur[a])' = t
  BY <1>1 DEF Iterating, IsBroadcast, TopicOf
<1>3. /\ t \in Topic /\ FanoutSound(a) /\ churned[m] \subseteq {"add", "remove"}
      /\ churned'[m] = IF t \in T THEN churned[m] \cup {"remove"} ELSE churned[m]
  BY <1>1, <1>2, ChurnNoted, IteratingFacts
<1>4. CASE t = u /\ r \in S
  <2>1. subscriptions'[t] = S \ {r} /\ churned'[m] = churned[m] \cup {"remove"}
    BY <1>1, <1>3, <1>4
  <2>2. "add" \in churned[m] \/ S \subseteq start[m]
    BY <1>3 DEF FanoutSound
  <2> QED BY <1>1, <1>2, <1>3, <1>4, <2>1, <2>2 DEF FanoutSound, Torn
<1>5. CASE ~(t = u /\ r \in S)
  <2>1. subscriptions'[t] = S /\ churned'[m] = churned[m]
    BY <1>1, <1>3, <1>5
  <2>2. churned[m] = {} => S = start[m] /\ ahead[a] = start[m] \ seen[a]
    BY <1>3 DEF FanoutSound
  <2>3. churned[m] = {} => ahead'[a] = ahead[a]
    <3>1. CASE t = u
      BY <1>1, <1>5, <2>2, <3>1
    <3>2. CASE t # u
      BY <1>1, <3>2 DEF Iterating
    <3> QED BY <3>1, <3>2
  <2> QED BY <1>1, <1>2, <1>3, <2>1, <2>2, <2>3 DEF FanoutSound, Torn
<1> QED BY <1>4, <1>5

LEMMA FanoutInvStep == TypeOK /\ PublishInv /\ [Next]_vars => FanoutInv'
<1> SUFFICES ASSUME TypeOK, PublishInv, [Next]_vars PROVE FanoutInv'
  OBVIOUS
<1> USE DEF agentVars, brokerVars, threadVars
<1>1. ASSUME NEW a \in Agents, Register(a) PROVE FanoutInv'
  BY <1>1, FanoutInvAdd DEF Register
<1>2. ASSUME NEW a \in Agents, NEW t \in ChurnTopics, Subscribe(a, t) PROVE FanoutInv'
  BY <1>2, FanoutInvAdd DEF Subscribe
<1>3. ASSUME NEW a \in Agents, NEW t \in ChurnTopics, Unsubscribe(a, t) PROVE FanoutInv'
  BY <1>3, FanoutInvRemove
<1>4. ASSUME NEW l \in Letters, SendMessage(l) PROVE FanoutInv'
  <2>1. l \in Message /\ l.sender \in Agents
    BY MessageSender DEF Message
  <2>2. pc' = [pc EXCEPT ![l.sender] = "publish"] \/ pc' = pc
    <3>1. CASE Registered(l.sender)
      BY <1>4, <3>1 DEF SendMessage
    <3>2. CASE ~Registered(l.sender)
      BY <1>4, <3>2 DEF SendMessage, TypeOK
    <3> QED BY <3>1, <3>2
  <2> QED BY <1>4, <2>1, <2>2, FanoutInvCreate DEF SendMessage
<1>5. CASE BroadcastCfp
  <2>1. Cfp \in Message /\ Cfp.sender = "PA" /\ "PA" \in Agents
    BY <1>5 DEF Message, Cfp, BroadcastCfp
  <2> QED BY <1>5, <2>1, FanoutInvCreate DEF BroadcastCfp
<1>6. ASSUME NEW a \in Agents, pc[a] # "idle", NEW p, pc' = [pc EXCEPT ![a] = p],
             UNCHANGED <<msgs, cur, start, seen, ahead, subscriptions, churned>>,
             \/ p \in {"idle", "callbacks"}
             \/ pc[a] = "publish" /\ p = "route"
             \/ pc[a] \in Enqueuing \cup {"iterate"} /\ p \in Enqueuing \cup {"iterate"}
      PROVE  FanoutInv'
  <2>1. \A b \in Agents : pc'[b] = IF b = a THEN p ELSE pc[b]
    BY <1>6 DEF TypeOK
  <2> QED BY <1>6, <2>1, FanoutInvFrame DEF Enqueuing
<1>7. ASSUME NEW a \in Agents, LogEnvelope(a) PROVE FanoutInv'
  BY <1>6, <1>7 DEF LogEnvelope
<1>8. ASSUME NEW a \in Agents, RouteUnknown(a) \/ IterateEnd(a) \/ Callbacks(a) PROVE FanoutInv'
  BY <1>6, <1>8 DEF RouteUnknown, IterateEnd, Callbacks
<1>9. ASSUME NEW a \in Agents, PutOk(a) PROVE FanoutInv'
  BY <1>6, <1>9 DEF PutOk, Enqueuing
<1>10. ASSUME NEW a \in Agents, PutFull(a) PROVE FanoutInv'
  <2> DEFINE p == IF retry_count[cur[a]] + 1 < MaxRetries THEN "retry" ELSE "dlq"
  <2>1. /\ pc[a] = "put" /\ pc' = [pc EXCEPT ![a] = p] /\ p \in Enqueuing
        /\ UNCHANGED <<msgs, cur, start, seen, ahead, subscriptions, churned>>
    BY <1>10 DEF PutFull, Enqueuing
  <2> QED BY <1>6, <2>1 DEF Enqueuing
<1>11. ASSUME NEW a \in Agents, RetryPut(a) \/ DeadLetter(a) \/ ReceiveMessage(a) PROVE FanoutInv'
  <2>1. /\ pc[a] \in Enqueuing /\ pc[a] # "idle" /\ pc' = [pc EXCEPT ![a] = AfterEnqueue(a)]
        /\ UNCHANGED <<msgs, cur, start, seen, ahead, subscriptions, churned>>
    BY <1>11 DEF RetryPut, DeadLetter, ReceiveMessage, Enqueuing
  <2>2. AfterEnqueue(a) \in {"iterate", "callbacks"}
    BY DEF AfterEnqueue
  <2> QED BY <1>6, <2>1, <2>2
<1>12. CASE PopInbox
  BY <1>12, FanoutInvFrame DEF PopInbox
<1>13. ASSUME NEW a \in Consumers, Consume(a) PROVE FanoutInv'
  BY <1>13, FanoutInvFrame DEF Consume
<1>14. ASSUME NEW a \in Agents, NEW m \in MsgIds, Acknowledge(a, m) PROVE FanoutInv'
  BY <1>14, FanoutInvFrame DEF Acknowledge
<1>15. CASE UNCHANGED vars
  BY <1>15, FanoutInvFrame DEF vars
<1>16. ASSUME NEW a \in Agents, PublishStep(a) PROVE FanoutInv'
  BY <1>7, <1>8, <1>9, <1>10, <1>11, <1>16, FanoutInvRoute, FanoutInvIterate DEF PublishStep
<1> QED
  BY <1>1, <1>2, <1>3, <1>4, <1>5, <1>12, <1>13, <1>14, <1>15, <1>16 DEF Next

-----------------------------------------------------------------------------
(* PublishInv is inductive.  Actions that touch neither the publish() calls  *)
(* nor the mail are dealt with together; a step that only moves one pc keeps *)
(* whatever the new pc does not ask for.                                     *)

LEMMA PublishInvInit == Init => PublishInv
  BY DEF Init, PublishInv, DeliveryInv, CurMine, CurLatest, ReceivedPosted, EnqueueTarget,
         IteratesBroadcast, Pending, NotYetReceived, Enqueuing, In, Torn, FanoutInv, Iterating

\* A fan-out that is torn stays so.
LEMMA TornStays ==
  ASSUME TypeOK, [Next]_vars, NEW m \in MsgIds, Torn(m)
  PROVE  Torn(m)'
<1> USE DEF brokerVars
<1>1. ASSUME NEW a \in Agents, Register(a) PROVE Torn(m)'
  BY <1>1, NoteChurnKeeps DEF Register, AddSubscriber
<1>2. ASSUME NEW a \in Agents, NEW t \in ChurnTopics, Subscribe(a, t) PROVE Torn(m)'
  BY <1>2, NoteChurnKeeps DEF Subscribe, AddSubscriber
<1>3. ASSUME NEW a \in Agents, NEW t \in ChurnTopics, Unsubscribe(a, t) PROVE Torn(m)'
  BY <1>3, NoteChurnKeeps DEF Unsubscribe
<1>4. CASE churned' = churned
  BY <1>4 DEF Torn
<1>5. ASSUME NEW a \in Agents, PublishStep(a) PROVE churned' = churned
  BY <1>5 DEF PublishStep, LogEnvelope, RouteBroadcast, RouteUnicast, RouteUnknown,
     IterateRaises, IterateNext, IterateEnd, PutOk, ReceiveMessage, PutFull, RetryPut,
     DeadLetter, Callbacks
<1>6. ASSUME NEW a \in Agents, NEW n \in MsgIds, Acknowledge(a, n) PROVE churned' = churned
  BY <1>6 DEF Acknowledge
<1>7. ASSUME NEW a \in Consumers, Consume(a) PROVE churned' = churned
  BY <1>7 DEF Consume
<1>8. ASSUME NEW l \in Letters, SendMessage(l) PROVE churned' = churned
  BY <1>8 DEF SendMessage
<1>9. ASSUME BroadcastCfp \/ PopInbox \/ UNCHANGED vars PROVE churned' = churned
  BY <1>9 DEF BroadcastCfp, PopInbox, vars
<1> QED
  BY <1>1, <1>2, <1>3, <1>4, <1>5, <1>6, <1>7, <1>8, <1>9 DEF Next

\* A step that changes nothing DeliveryInv speaks of but the contents of the
\* Queue objects, and perhaps adds new ones, and notes of a change of a set.
LEMMA PublishInvFrame ==
  ASSUME TypeOK, PublishInv,
         UNCHANGED <<msgs, received, pc, cur, seen, to, qref>>,
         \A m \in MsgIds : Torn(m) => Torn(m)',
         \A r \in Agents : DOMAIN queues[r] \subseteq DOMAIN queues'[r]
  PROVE  DeliveryInv'
<1>1. \A a \in Agents : to[a] \in Agents
  BY DEF TypeOK
<1>2. \A a, r \in Agents : Pending(a, r) => cur[a] \in MsgIds
  BY CurIsMsg DEF Pending, Enqueuing
<1>3. \A a, r \in Agents : Pending(a, r)' <=> Pending(a, r)
  BY DEF Pending
<1>4. ASSUME NEW a \in Agents, NEW r \in Agents, Pending(a, r)', ~Torn(cur[a])'
      PROVE  ~In(cur[a], received[r])'
  <2>1. Pending(a, r) /\ cur[a] \in MsgIds /\ cur'[a] = cur[a]
    BY <1>2, <1>3, <1>4
  <2>2. ~Torn(cur[a])
    BY <1>4, <2>1 DEF Torn
  <2> QED BY <2>1, <2>2 DEF PublishInv, DeliveryInv, NotYetReceived, In, Torn
<1>5. NotYetReceived'
  BY <1>4 DEF NotYetReceived
<1> QED
  BY <1>1, <1>5 DEF PublishInv, DeliveryInv, CurMine, CurLatest, ReceivedPosted, EnqueueTarget,
     IteratesBroadcast, Enqueuing, Addressed, IsBroadcast

\* A step of publish() that moves on, to a step that asks for no more than
\* the one it left, or ends.
LEMMA PublishInvMove ==
  ASSUME TypeOK, PublishInv, NEW a \in Agents, pc[a] # "idle",
         NEW p, pc' = [pc EXCEPT ![a] = p],
         UNCHANGED <<msgs, received, cur, seen, to, qref, churned>>,
         \A r \in Agents : DOMAIN queues[r] \subseteq DOMAIN queues'[r],
         \/ p \in {"idle", "callbacks"}
         \/ pc[a] = "publish" /\ p = "route"
         \/ pc[a] = "put" /\ p \in Enqueuing
         \/ pc[a] \in Enqueuing /\ p = "iterate" /\ IsBroadcast(cur[a])
  PROVE  DeliveryInv'
<1>1. \A b \in Agents : to[b] \in Agents
  BY DEF TypeOK
<1>2. \A b \in Agents : pc'[b] = IF b = a THEN p ELSE pc[b]
  BY DEF TypeOK
<1>3. CurMine' /\ CurLatest' /\ ReceivedPosted'
  BY <1>2 DEF PublishInv, DeliveryInv, CurMine, CurLatest, ReceivedPosted
<1>4. IteratesBroadcast'
  BY <1>2 DEF PublishInv, DeliveryInv, IteratesBroadcast, IsBroadcast, Enqueuing
<1>5. EnqueueTarget'
  BY <1>1, <1>2 DEF PublishInv, DeliveryInv, EnqueueTarget, Enqueuing, Addressed, IsBroadcast
<1>6. \A b, r \in Agents : Pending(b, r)' => Pending(b, r)
  BY <1>2 DEF PublishInv, DeliveryInv, EnqueueTarget, Pending, Enqueuing
<1>7. NotYetReceived'
  BY <1>6 DEF PublishInv, DeliveryInv, NotYetReceived, In, Torn
<1> QED
  BY <1>3, <1>4, <1>5, <1>7 DEF PublishInv, DeliveryInv

\* A new message: nobody has it, and it is the latest of its sender.
LEMMA PublishInvCreate ==
  ASSUME TypeOK, PublishInv, NEW l \in Message, l.sender \in Agents, Create(l),
         pc' = [pc EXCEPT ![l.sender] = "publish"] \/ pc' = pc,
         UNCHANGED <<received, queues, seen, to, qref, churned>>
  PROVE  DeliveryInv'
<1> DEFINE s == l.sender
<1> DEFINE n == Len(msgs) + 1
<1>1. /\ DOMAIN msgs = 1..Len(msgs) /\ Len(msgs) \in Nat
      /\ DOMAIN msgs' = 1..n /\ msgs'[n] = l
      /\ \A m \in DOMAIN msgs : msgs'[m] = msgs[m]
  BY DEF TypeOK, Create
<1>2. \A b \in Agents : cur'[b] = IF b = s THEN n ELSE cur[b]
  BY DEF TypeOK, Create
<1>3. /\ pc[s] = "idle"
      /\ \A b \in Agents : pc'[b] = pc[b] \/ (b = s /\ pc'[b] = "publish")
  <2>1. pc[s] = "idle"
    BY DEF Create
  <2>2. pc \in [Agents -> Steps]
    BY DEF TypeOK
  <2>3. CASE pc' = pc
    BY <2>1, <2>3
  <2>4. CASE pc' = [pc EXCEPT ![s] = "publish"]
    BY <2>1, <2>2, <2>4
  <2> QED BY <2>3, <2>4
<1>4. \A m \in DOMAIN msgs : msgs[m].sender \in Agents
  BY MessageSender DEF TypeOK
<1>5. CurMine'
  BY <1>1, <1>2, <1>3 DEF PublishInv, DeliveryInv, CurMine
<1>6. CurLatest'
  BY <1>1, <1>2, <1>4 DEF PublishInv, DeliveryInv, CurLatest
<1>7. ReceivedPosted'
  BY <1>1 DEF PublishInv, DeliveryInv, ReceivedPosted
<1>8. IteratesBroadcast'
  BY <1>1, <1>2, <1>3 DEF PublishInv, DeliveryInv, CurMine, IteratesBroadcast, IsBroadcast
<1>9. EnqueueTarget'
  BY <1>1, <1>2, <1>3 DEF PublishInv, DeliveryInv, CurMine, EnqueueTarget, Enqueuing,
     Addressed, IsBroadcast
<1>10. \A r \in Agents : ~In(n, received[r])
  BY <1>1 DEF PublishInv, DeliveryInv, ReceivedPosted, In
<1>11. \A b, r \in Agents : b # s => (Pending(b, r)' => Pending(b, r))
  BY <1>3 DEF Pending
<1>12. NotYetReceived'
  BY <1>2, <1>10, <1>11 DEF PublishInv, DeliveryInv, NotYetReceived, In, Torn
<1> QED
  BY <1>5, <1>6, <1>7, <1>8, <1>9, <1>12 DEF PublishInv, DeliveryInv

\* Routing a broadcast, or a unicast message to its one receiver.
LEMMA PublishInvRoute ==
  ASSUME TypeOK, PublishInv, NEW a \in Agents, RouteBroadcast(a) \/ RouteUnicast(a)
  PROVE  DeliveryInv'
<1>1. /\ UNCHANGED <<msgs, received, cur, queues, churned>>
      /\ pc[a] = "route"
  BY DEF RouteBroadcast, RouteUnicast, agentVars, brokerVars
<1>2. CurMine' /\ CurLatest' /\ ReceivedPosted'
  BY <1>1 DEF RouteBroadcast, RouteUnicast, TypeOK, PublishInv, DeliveryInv, CurMine,
     CurLatest, ReceivedPosted
<1>3. ~Torn(cur[a]) => \A r \in Agents : ~In(cur[a], received[r])
  BY <1>1 DEF PublishInv, DeliveryInv, NotYetReceived, Pending
<1>4. CASE RouteBroadcast(a)
  <2>1. \A b \in Agents : /\ pc'[b] = IF b = a THEN "iterate" ELSE pc[b]
                          /\ seen'[b] = IF b = a THEN {} ELSE seen[b]
    BY <1>4 DEF RouteBroadcast, TypeOK
  <2>2. UNCHANGED <<to, qref>> /\ IsBroadcast(cur[a])
    BY <1>4 DEF RouteBroadcast
  <2>3. IteratesBroadcast'
    BY <1>1, <2>1, <2>2 DEF PublishInv, DeliveryInv, IteratesBroadcast, IsBroadcast
  <2>4. EnqueueTarget'
    BY <1>1, <2>1, <2>2 DEF PublishInv, DeliveryInv, EnqueueTarget, Enqueuing, Addressed,
       IsBroadcast
  <2>5. \A b, r \in Agents : b # a => (Pending(b, r)' => Pending(b, r))
    BY <2>1, <2>2 DEF Pending
  <2>6. NotYetReceived'
    BY <1>1, <1>3, <2>5 DEF PublishInv, DeliveryInv, NotYetReceived, In, Torn
  <2> QED BY <1>2, <2>3, <2>4, <2>6 DEF PublishInv, DeliveryInv
<1>5. CASE RouteUnicast(a)
  <2>1. PICK t \in Agents :
          /\ msgs[cur[a]].receiver = t /\ Registered(t)
          /\ to' = [to EXCEPT ![a] = t]
          /\ qref' = [qref EXCEPT ![a] = Len(queues[t])]
          /\ seen' = [seen EXCEPT ![a] = {t}]
    BY <1>5 DEF RouteUnicast, BeginEnqueue
  <2>2. \A b \in Agents : /\ pc'[b] = IF b = a THEN "put" ELSE pc[b]
                          /\ seen'[b] = IF b = a THEN {t} ELSE seen[b]
                          /\ to'[b] = IF b = a THEN t ELSE to[b]
                          /\ qref'[b] = IF b = a THEN Len(queues[t]) ELSE qref[b]
    BY <1>5, <2>1 DEF RouteUnicast, TypeOK
  <2>3. Len(queues[t]) \in DOMAIN queues[t]
    <3>1. queues[t] \in Seq(Seq(MsgIds))
      BY DEF TypeOK
    <3>2. Len(queues[t]) > 0
      BY <2>1 DEF Registered
    <3> QED BY <3>1, <3>2
  <2>4. IteratesBroadcast'
    BY <1>1, <2>2 DEF PublishInv, DeliveryInv, IteratesBroadcast, IsBroadcast
  <2>5. EnqueueTarget'
    BY <1>1, <2>1, <2>2, <2>3 DEF PublishInv, DeliveryInv, EnqueueTarget, Enqueuing,
       Addressed, IsBroadcast
  <2>6. \A b, r \in Agents : b # a => (Pending(b, r)' => Pending(b, r))
    BY <2>2 DEF Pending
  <2>7. NotYetReceived'
    BY <1>1, <1>3, <2>6 DEF PublishInv, DeliveryInv, NotYetReceived, In, Torn
  <2> QED BY <1>2, <2>4, <2>5, <2>7 DEF PublishInv, DeliveryInv
<1> QED
  BY <1>4, <1>5

\* The next subscriber of a fan-out: one that was not handled before, the fan-out
\* not being torn.
LEMMA PublishInvIterate ==
  ASSUME TypeOK, PublishInv, NEW a \in Agents, IterateNext(a)
  PROVE  DeliveryInv'
<1>1. ahead[a] \subseteq Agents
  BY DEF TypeOK
<1>2. PICK t \in Agents :
        /\ t \in ahead[a]
        /\ seen' = [seen EXCEPT ![a] = @ \cup {t}]
        /\ to' = [to EXCEPT ![a] = t]
        /\ qref' = [qref EXCEPT ![a] = Len(queues[t])]
        /\ pc' = [pc EXCEPT ![a] = IF t # a /\ Registered(t) THEN "put" ELSE @]
  BY <1>1 DEF IterateNext, BeginEnqueue
<1>3. /\ UNCHANGED <<msgs, received, cur, queues, churned>>
      /\ pc[a] = "iterate"
  BY DEF IterateNext, agentVars, brokerVars
<1>4. \A b \in Agents :
        /\ b # a => pc'[b] = pc[b] /\ seen'[b] = seen[b] /\ to'[b] = to[b]
                      /\ qref'[b] = qref[b]
        /\ b = a => /\ to'[b] = t /\ qref'[b] = Len(queues[t])
                    /\ seen'[b] = seen[b] \cup {t}
                    /\ \/ pc'[b] = "put" /\ t # a /\ Registered(t)
                       \/ pc'[b] = "iterate"
  BY <1>2, <1>3 DEF TypeOK
<1>5. /\ cur[a] \in DOMAIN msgs /\ msgs[cur[a]].sender = a
      /\ IsBroadcast(cur[a])
  BY <1>3 DEF PublishInv, DeliveryInv, CurMine, IteratesBroadcast
<1>6. CurMine' /\ CurLatest' /\ ReceivedPosted'
  BY <1>3, <1>4 DEF PublishInv, DeliveryInv, CurMine, CurLatest, ReceivedPosted
<1>7. IteratesBroadcast'
  BY <1>3, <1>4, <1>5 DEF PublishInv, DeliveryInv, IteratesBroadcast, IsBroadcast
<1>8. Registered(t) => Len(queues[t]) \in DOMAIN queues[t]
  <2>1. queues[t] \in Seq(Seq(MsgIds))
    BY DEF TypeOK
  <2> QED BY <2>1 DEF Registered
<1>9. EnqueueTarget'
  BY <1>3, <1>4, <1>5, <1>8 DEF PublishInv, DeliveryInv, EnqueueTarget, Enqueuing, Addressed,
     IsBroadcast
<1>0. ~Torn(cur[a]) => t \notin seen[a]
  BY <1>2, SizeUnchanged DEF IterateNext
<1>10. \A b, r \in Agents : Pending(b, r)' /\ ~Torn(cur[b]) => Pending(b, r)
  BY <1>0, <1>3, <1>4 DEF Pending, Enqueuing
<1>11. NotYetReceived'
  BY <1>3, <1>10 DEF PublishInv, DeliveryInv, NotYetReceived, In, Torn
<1> QED
  BY <1>6, <1>7, <1>9, <1>11 DEF PublishInv, DeliveryInv

\* Positions and message ids are numbers.
LEMMA ReceivedType ==
  ASSUME TypeOK, NEW r \in Agents, NEW i \in DOMAIN received[r]
  PROVE  /\ i \in 1..Len(received[r]) /\ i \in Nat
         /\ received[r][i] \in MsgIds /\ received[r][i] \in Nat
<1>1. received[r] \in Seq(MsgIds)
  BY DEF TypeOK
<1>2. DOMAIN received[r] = 1..Len(received[r]) /\ Len(received[r]) \in Nat
  BY <1>1
<1>3. received[r][i] \in MsgIds
  BY <1>1, <1>2
<1> QED
  BY <1>2, <1>3 DEF MsgIds

\* receive_message hands the current message to one agent and to no other.
LEMMA ReceiveGrows ==
  ASSUME TypeOK, PublishInv, NEW a \in Agents, ReceiveMessage(a), NEW r \in Agents
  PROVE  \A i \in DOMAIN received'[r] :
           \/ /\ i \in DOMAIN received[r]
              /\ received'[r][i] = received[r][i]
           \/ /\ r = to[a]
              /\ i = Len(received[r]) + 1
              /\ received'[r][i] = cur[a]
<1>1. /\ received[r] \in Seq(MsgIds)
      /\ received'[r] = IF r = to[a] THEN Append(received[r], cur[a])
                                     ELSE received[r]
  BY DEF ReceiveMessage, TypeOK
<1>2. cur[a] \in MsgIds
  BY CurIsMsg DEF ReceiveMessage
<1>3. CASE r = to[a]
  <2>1. \A i \in DOMAIN Append(received[r], cur[a]) :
          \/ /\ i \in DOMAIN received[r]
             /\ Append(received[r], cur[a])[i] = received[r][i]
          \/ i = Len(received[r]) + 1 /\ Append(received[r], cur[a])[i] = cur[a]
    BY <1>1, <1>2, AppendElements
  <2> QED BY <1>1, <1>3, <2>1
<1>4. CASE r # to[a]
  BY <1>1, <1>4
<1> QED
  BY <1>3, <1>4

\* Handing the message over: its receiver is no longer pending, and no other
\* publish() works on the same message.
LEMMA PublishInvReceive ==
  ASSUME TypeOK, PublishInv, NEW a \in Agents, ReceiveMessage(a)
  PROVE  DeliveryInv'
<1> DEFINE t == to[a]
<1> DEFINE c == cur[a]
<1>1. /\ pc[a] = "receive" /\ t \in Agents
      /\ UNCHANGED <<msgs, cur, seen, to, qref, churned, queues>>
  BY DEF ReceiveMessage, brokerVars, TypeOK
<1>2. /\ c \in DOMAIN msgs /\ msgs[c].sender = a
      /\ t \in seen[a] /\ Addressed(c, t)
  BY <1>1 DEF PublishInv, DeliveryInv, CurMine, EnqueueTarget, Enqueuing
<1>3. \A b \in Agents : pc'[b] = IF b = a THEN AfterEnqueue(a) ELSE pc[b]
  BY DEF ReceiveMessage, TypeOK
<1>5. \A r \in Agents : \A i \in DOMAIN received'[r] :
        \/ i \in DOMAIN received[r] /\ received'[r][i] = received[r][i]
        \/ r = t /\ received'[r][i] = c
  BY ReceiveGrows
<1>6. CurMine' /\ CurLatest'
  BY <1>1, <1>3 DEF PublishInv, DeliveryInv, CurMine, CurLatest
<1>7. ReceivedPosted'
  BY <1>1, <1>2, <1>5 DEF PublishInv, DeliveryInv, ReceivedPosted
<1>8. IteratesBroadcast'
  BY <1>1, <1>3 DEF PublishInv, DeliveryInv, IteratesBroadcast, IsBroadcast, AfterEnqueue
<1>9. EnqueueTarget'
  BY <1>1, <1>3 DEF PublishInv, DeliveryInv, EnqueueTarget, Enqueuing, Addressed, IsBroadcast,
     AfterEnqueue
<1>10. \A b, r \in Agents :
         Pending(b, r)' => Pending(b, r) /\ ~(b = a /\ r = t)
  BY <1>1, <1>2, <1>3 DEF Pending, Enqueuing, AfterEnqueue
<1>11. \A b, r \in Agents : Pending(b, r) => pc[b] # "idle"
  BY DEF Pending, Enqueuing
<1>12. \A b \in Agents : pc[b] # "idle" /\ cur[b] = c => b = a
  BY <1>2 DEF PublishInv, DeliveryInv, CurMine
<1>13. ASSUME NEW b \in Agents, NEW r \in Agents, Pending(b, r)', ~Torn(cur[b])
       PROVE  ~In(cur[b], received'[r])
  BY <1>5, <1>10, <1>11, <1>12, <1>13 DEF PublishInv, DeliveryInv, NotYetReceived, In, Torn
<1>14. NotYetReceived'
  BY <1>1, <1>13 DEF NotYetReceived, In, Torn
<1> QED
  BY <1>6, <1>7, <1>8, <1>9, <1>14 DEF PublishInv, DeliveryInv

LEMMA DeliveryInvStep == TypeOK /\ PublishInv /\ [Next]_vars => DeliveryInv'
<1> SUFFICES ASSUME TypeOK, PublishInv, [Next]_vars PROVE DeliveryInv'
  OBVIOUS
<1> USE DEF agentVars, brokerVars, threadVars
<1>1. ASSUME NEW a \in Agents, Register(a) PROVE DeliveryInv'
  <2>1. queues[a] \in Seq(Seq(MsgIds)) /\ <<>> \in Seq(MsgIds)
    BY DEF TypeOK
  <2>2. DOMAIN queues[a] \subseteq DOMAIN Append(queues[a], <<>>)
    BY <2>1, AppendElements
  <2>3. \A r \in Agents : DOMAIN queues[r] \subseteq DOMAIN queues'[r]
    BY <1>1, <2>2 DEF Register, TypeOK
  <2>4. \A m \in MsgIds : Torn(m) => Torn(m)'
    BY <1>1, TornStays DEF Next
  <2> QED BY <1>1, <2>3, <2>4, PublishInvFrame DEF Register
<1>2. ASSUME NEW a \in Agents, NEW t \in ChurnTopics,
             Subscribe(a, t) \/ Unsubscribe(a, t)
      PROVE  DeliveryInv'
  <2>1. \A m \in MsgIds : Torn(m) => Torn(m)'
    BY <1>2, TornStays DEF Next
  <2> QED BY <1>2, <2>1, PublishInvFrame DEF Subscribe, Unsubscribe
<1>3. ASSUME NEW l \in Letters, SendMessage(l) PROVE DeliveryInv'
  <2>1. l \in Message /\ l.sender \in Agents
    BY MessageSender DEF Message
  <2>2. pc' = [pc EXCEPT ![l.sender] = "publish"] \/ pc' = pc
    <3>1. CASE Registered(l.sender)
      BY <1>3, <3>1 DEF SendMessage
    <3>2. CASE ~Registered(l.sender)
      BY <1>3, <3>2 DEF SendMessage, TypeOK
    <3> QED BY <3>1, <3>2
  <2> QED BY <1>3, <2>1, <2>2, PublishInvCreate DEF SendMessage
<1>4. CASE BroadcastCfp
  <2>1. Cfp \in Message /\ Cfp.sender = "PA" /\ "PA" \in Agents
    BY <1>4 DEF Message, Cfp, BroadcastCfp
  <2> QED BY <1>4, <2>1, PublishInvCreate DEF BroadcastCfp
<1>5. ASSUME NEW a \in Agents, LogEnvelope(a) PROVE DeliveryInv'
  BY <1>5, PublishInvMove DEF LogEnvelope
<1>6. ASSUME NEW a \in Agents, RouteUnknown(a) \/ IterateEnd(a) PROVE DeliveryInv'
  BY <1>6, PublishInvMove DEF RouteUnknown, IterateEnd
<1>7. ASSUME NEW a \in Agents, IterateRaises(a) \/ Callbacks(a) PROVE DeliveryInv'
  BY <1>7, PublishInvMove DEF IterateRaises, Callbacks
<1>8. ASSUME NEW a \in Agents, pc[a] \in {"put", "retry"}, PutNowait(a)
      PROVE  \A r \in Agents : DOMAIN queues[r] \subseteq DOMAIN queues'[r]
  BY <1>8 DEF PutNowait, TypeOK
<1>9. ASSUME NEW a \in Agents, PutOk(a) PROVE DeliveryInv'
  BY <1>8, <1>9, PublishInvMove DEF PutOk, Enqueuing
<1>10. ASSUME NEW a \in Agents, PutFull(a) PROVE DeliveryInv'
  <2> DEFINE p == IF retry_count[cur[a]] + 1 < MaxRetries THEN "retry" ELSE "dlq"
  <2>1. /\ pc[a] = "put" /\ pc' = [pc EXCEPT ![a] = p]
        /\ UNCHANGED <<msgs, received, cur, seen, to, qref, churned, queues>>
    BY <1>10 DEF PutFull
  <2>2. p \in Enqueuing
    BY DEF Enqueuing
  <2> QED BY <2>1, <2>2, PublishInvMove
<1>11. ASSUME NEW a \in Agents, RetryPut(a) \/ DeadLetter(a) PROVE DeliveryInv'
  <2>1. \A r \in Agents : DOMAIN queues[r] \subseteq DOMAIN queues'[r]
    BY <1>8, <1>11 DEF RetryPut, DeadLetter
  <2>2. /\ pc[a] \in Enqueuing /\ pc[a] # "idle"
        /\ pc' = [pc EXCEPT ![a] = AfterEnqueue(a)]
        /\ UNCHANGED <<msgs, received, cur, seen, to, qref, churned>>
    BY <1>11 DEF RetryPut, DeadLetter, Enqueuing
  <2>3. \/ AfterEnqueue(a) \in {"idle", "callbacks"}
        \/ AfterEnqueue(a) = "iterate" /\ IsBroadcast(cur[a])
    BY DEF AfterEnqueue
  <2> QED BY <2>1, <2>2, <2>3, PublishInvMove
<1>12. CASE PopInbox
  BY <1>12, PublishInvFrame DEF PopInbox, Torn
<1>13. ASSUME NEW a \in Consumers, Consume(a) PROVE DeliveryInv'
  <2>1. \A r \in Agents : DOMAIN queues[r] \subseteq DOMAIN queues'[r]
    BY <1>13 DEF Consume, TypeOK
  <2> QED BY <1>13, <2>1, PublishInvFrame DEF Consume, Torn
<1>14. ASSUME NEW a \in Agents, NEW m \in MsgIds, Acknowledge(a, m)
       PROVE  DeliveryInv'
  BY <1>14, PublishInvFrame DEF Acknowledge, Torn
<1>15. CASE UNCHANGED vars
  BY <1>15, PublishInvFrame DEF vars, Torn
<1>16. ASSUME NEW a \in Agents, PublishStep(a) PROVE DeliveryInv'
  BY <1>5, <1>6, <1>7, <1>9, <1>10, <1>11, <1>16, PublishInvRoute,
     PublishInvIterate, PublishInvReceive DEF PublishStep
<1> QED
  BY <1>1, <1>2, <1>3, <1>4, <1>12, <1>13, <1>14, <1>15, <1>16 DEF Next

LEMMA PublishInvStep == TypeOK /\ PublishInv /\ [Next]_vars => PublishInv'
  BY DeliveryInvStep, FanoutInvStep DEF PublishInv

-----------------------------------------------------------------------------
\* The broker's state always has its type and the running publish() calls
\* always satisfy PublishInv, for any number of agents, any queue size and any
\* interleaving of publish, register, subscribe, consume and acknowledge.
THEOREM TypeCorrect == Spec => [](TypeOK /\ PublishInv)
<1>1. Init => TypeOK /\ PublishInv
  BY TypeInit, PublishInvInit
<1>2. TypeOK /\ PublishInv /\ [Next]_vars => (TypeOK /\ PublishInv)'
  BY TypeStep, PublishInvStep
<1> QED
  BY <1>1, <1>2, PTL DEF Spec

\* Only two kinds of steps concern the mail: a new message, and a hand-over.
LEMMA StepKindsByAction ==
  ASSUME [Next]_vars
  PROVE  \/ UNCHANGED <<msgs, received>>
         \/ \E l \in Letters : SendMessage(l)
         \/ BroadcastCfp
         \/ \E a \in Agents : ReceiveMessage(a)
<1> DEFINE Same == UNCHANGED <<msgs, received>>
<1> USE DEF agentVars
<1>1. ASSUME NEW a \in Agents, PublishStep(a) PROVE Same \/ ReceiveMessage(a)
  BY <1>1 DEF PublishStep, LogEnvelope, RouteBroadcast, RouteUnicast, RouteUnknown,
     IterateRaises, IterateNext, IterateEnd, PutOk, PutFull, RetryPut, DeadLetter,
     Callbacks
<1>2. CASE PopInbox
  BY <1>2 DEF PopInbox
<1>3. CASE UNCHANGED vars
  BY <1>3 DEF vars
<1>4. ASSUME NEW a \in Agents,
             \/ Register(a)
             \/ \E t \in ChurnTopics : Subscribe(a, t) \/ Unsubscribe(a, t)
             \/ \E m \in MsgIds : Acknowledge(a, m)
             \/ Consume(a)
      PROVE  Same
  BY <1>4 DEF Register, Subscribe, Unsubscribe, Acknowledge, Consume
<1> QED
  BY <1>1, <1>2, <1>3, <1>4, BrokerAssumption DEF Next

LEMMA StepKinds ==
  ASSUME [Next]_vars
  PROVE  \/ UNCHANGED <<msgs, received>>
         \/ \E l \in Message : msgs' = Append(msgs, l) /\ UNCHANGED received
         \/ \E a \in Agents : ReceiveMessage(a)
<1>1. ASSUME NEW l \in Letters, SendMessage(l)
      PROVE  l \in Message /\ msgs' = Append(msgs, l) /\ UNCHANGED received
  BY <1>1 DEF SendMessage, Create, Message
<1>2. ASSUME BroadcastCfp
      PROVE  Cfp \in Message /\ msgs' = Append(msgs, Cfp) /\ UNCHANGED received
  BY <1>2 DEF BroadcastCfp, Create, Message
<1> QED
  BY <1>1, <1>2, StepKindsByAction

\* Messages are never changed.
LEMMA MsgsGrow ==
  ASSUME TypeOK, [Next]_vars
  PROVE  \A m \in DOMAIN msgs : m \in DOMAIN msgs' /\ msgs'[m] = msgs[m]
<1>1. CASE UNCHANGED msgs
  BY <1>1
<1>2. ASSUME NEW l \in Message, msgs' = Append(msgs, l)
      PROVE  \A m \in DOMAIN msgs : m \in DOMAIN msgs' /\ msgs'[m] = msgs[m]
  BY <1>2, AppendElements DEF TypeOK
<1> QED BY <1>1, <1>2, StepKinds DEF ReceiveMessage

\* The message handed over comes after everything its receiver has of the
\* same sender, or is the last of that again in a torn fan-out.
LEMMA ReceivesLater ==
  ASSUME TypeOK, PublishInv, NEW a \in Agents, ReceiveMessage(a),
         NEW i \in DOMAIN received[to[a]],
         msgs[received[to[a]][i]].sender = a
  PROVE  \/ received[to[a]][i] < cur[a]
         \/ received[to[a]][i] = cur[a] /\ Torn(cur[a])
<1>1. to[a] \in Agents /\ pc[a] = "receive"
  BY DEF TypeOK, ReceiveMessage
<1>2. received[to[a]][i] \in DOMAIN msgs /\ received[to[a]][i] \in Nat
  BY <1>1, ReceivedType DEF PublishInv, DeliveryInv, ReceivedPosted
<1>3. received[to[a]][i] <= cur[a]
  BY <1>2 DEF PublishInv, DeliveryInv, CurLatest
<1>4. received[to[a]][i] # cur[a] \/ Torn(cur[a])
  BY <1>1 DEF PublishInv, DeliveryInv, NotYetReceived, Pending, In
<1>5. cur[a] \in Nat
  BY <1>1, CurIsMsg DEF MsgIds
<1> QED
  BY <1>2, <1>3, <1>4, <1>5

LEMMA SenderOrderStep ==
  TypeOK /\ PublishInv /\ SenderOrder /\ [Next]_vars => SenderOrder'
<1> SUFFICES ASSUME TypeOK, PublishInv, SenderOrder, [Next]_vars PROVE SenderOrder'
  OBVIOUS
<1> DEFINE Before(m, n) == m < n \/ (m = n /\ Torn(m))
           TornNext(m) == churned'[m] = {"add", "remove"}
<1>0. ASSUME NEW m \in MsgIds, NEW n, Before(m, n) PROVE m < n \/ (m = n /\ TornNext(m))
  BY <1>0, TornStays DEF Torn
<1>1. \A r \in Agents : \A i, j \in DOMAIN received[r] :
        i < j /\ msgs[received[r][i]].sender = msgs[received[r][j]].sender
          => Before(received[r][i], received[r][j])
  BY DEF SenderOrder
<1>2. \A r \in Agents : \A i \in DOMAIN received[r] :
        /\ i \in 1..Len(received[r]) /\ received[r][i] \in MsgIds
        /\ msgs'[received[r][i]] = msgs[received[r][i]]
  BY ReceivedType, MsgsGrow DEF PublishInv, DeliveryInv, ReceivedPosted
<1> SUFFICES ASSUME NEW r \in Agents, NEW i \in DOMAIN received'[r],
                    NEW j \in DOMAIN received'[r], i < j,
                    msgs'[received'[r][i]].sender = msgs'[received'[r][j]].sender
             PROVE  \/ received'[r][i] < received'[r][j]
                    \/ received'[r][i] = received'[r][j] /\ TornNext(received'[r][i])
  BY DEF SenderOrder, Torn
<1> DEFINE Old(k) == k \in DOMAIN received[r] /\ received'[r][k] = received[r][k]
<1>3. CASE Old(i) /\ Old(j)
  <2>1. msgs[received[r][i]].sender = msgs[received[r][j]].sender
    BY <1>2, <1>3
  <2>2. Before(received[r][i], received[r][j])
    BY <1>1, <1>3, <2>1
  <2> HIDE DEF Before, TornNext
  <2> QED BY <1>0, <1>2, <1>3, <2>2
<1>4. ASSUME NEW a \in Agents, ReceiveMessage(a) PROVE (Old(i) /\ Old(j)) \/ (Old(i) /\
             r = to[a] /\ received'[r][j] = cur[a])
  <2>1. Len(received[r]) \in Nat
    BY DEF TypeOK
  <2> QED BY <1>2, <1>4, <2>1, ReceiveGrows
<1>5. ASSUME NEW a \in Agents, ReceiveMessage(a), Old(i), r = to[a], received'[r][j] = cur[a]
      PROVE  Before(received[r][i], cur[a]) /\ received'[r][i] = received[r][i]
  <2>1. UNCHANGED msgs /\ pc[a] = "receive"
    BY <1>5 DEF ReceiveMessage
  <2>2. msgs[cur[a]].sender = a
    BY <2>1 DEF PublishInv, DeliveryInv, CurMine
  <2>3. msgs[received[r][i]].sender = a
    BY <1>5, <2>1, <2>2
  <2> QED BY <1>5, <2>3, ReceivesLater
<1>6. CASE received' = received
  BY <1>3, <1>6
<1> HIDE DEF Before, TornNext
<1>7. ASSUME NEW a \in Agents, ReceiveMessage(a), Old(i), r = to[a], received'[r][j] = cur[a]
      PROVE  \/ received'[r][i] < received'[r][j]
             \/ received'[r][i] = received'[r][j] /\ TornNext(received'[r][i])
  BY <1>0, <1>2, <1>5, <1>7
<1> QED
  BY <1>3, <1>4, <1>6, <1>7, StepKinds

\* No agent is handed messages of one sender out of order, whatever the
\* retries, the full queues, the fan-outs and their races do; and none twice,
\* unless the subscribers of its topic were both taken from and added to under
\* its own fan-out.
THEOREM InOrderAndOnce == Spec => [](SenderOrder /\ ReceivedOnce)
<1>1. Init => SenderOrder
  BY DEF Init, SenderOrder
<1>2. TypeOK /\ SenderOrder => ReceivedOnce
  <2> SUFFICES ASSUME TypeOK, SenderOrder, NEW r \in Agents,
                      NEW i \in DOMAIN received[r], NEW j \in DOMAIN received[r],
                      received[r][i] = received[r][j], i # j
               PROVE  Torn(received[r][i])
    BY DEF ReceivedOnce
  <2>1. i \in Nat /\ j \in Nat /\ received[r][i] \in Nat /\ received[r][j] \in Nat
    BY ReceivedType
  <2>2. CASE i < j
    BY <2>1, <2>2 DEF SenderOrder
  <2>3. CASE j < i
    BY <2>1, <2>3 DEF SenderOrder
  <2> QED BY <2>1, <2>2, <2>3
<1> QED
  BY <1>1, <1>2, SenderOrderStep, TypeCorrect, PTL DEF Spec

\* Every behaviour of the broker is one of the lossy mailbox: in each sender's
\* order, to the receivers a message is meant for, and twice only if the set of
\* its receivers was tampered with.
THEOREM Implements == Spec => ImplementsMailbox
<1> DEFINE Again == {m \in MsgIds : Torn(m)}
<1>1. Init => Promise!Init
  BY DEF Init, Promise!Init, Torn
<1>2. TypeOK /\ PublishInv /\ [Next]_vars => [Promise!Next]_<<msgs, received, Again>>
  <2> SUFFICES ASSUME TypeOK, PublishInv, [Next]_vars
               PROVE  [Promise!Next]_<<msgs, received, Again>>
    OBVIOUS
  <2>1. ASSUME NEW l \in Letters \cup {Cfp}, Create(l), UNCHANGED <<received, churned>>,
               l \in Message
        PROVE  Promise!Next
    <3>1. Again' = Again
      BY <2>1 DEF Torn
    <3> QED BY <2>1, <3>1 DEF Promise!Next, Promise!Post, Create
  <2>2. ASSUME NEW a \in Agents, ReceiveMessage(a) PROVE Promise!Next
    <3>1. /\ to[a] \in Agents /\ pc[a] = "receive" /\ UNCHANGED <<msgs, churned>>
          /\ received' = [received EXCEPT ![to[a]] = Append(@, cur[a])]
      BY <2>2 DEF ReceiveMessage, TypeOK, brokerVars
    <3>2. cur[a] \in DOMAIN msgs /\ msgs[cur[a]].sender = a /\ cur[a] \in MsgIds
      BY <3>1, CurIsMsg DEF PublishInv, DeliveryInv, CurMine
    <3>3. Promise!MeantFor(cur[a], to[a])
      BY <3>1 DEF PublishInv, DeliveryInv, EnqueueTarget, Enqueuing, Addressed, IsBroadcast,
         Promise!MeantFor
    <3>4. Again' = Again
      BY <3>1 DEF Torn
    <3>5. \A i \in DOMAIN received[to[a]] :
            msgs[received[to[a]][i]].sender = msgs[cur[a]].sender =>
              \/ received[to[a]][i] < cur[a]
              \/ received[to[a]][i] = cur[a] /\ cur[a] \in Again
      BY <2>2, <3>2, ReceivesLater
    <3>6. Promise!Deliver(to[a], cur[a])
      BY <3>1, <3>2, <3>3, <3>4, <3>5 DEF Promise!Deliver
    <3> QED BY <3>1, <3>2, <3>6 DEF Promise!Next
  <2>3. CASE UNCHANGED <<msgs, received>>
    <3>1. ASSUME NEW m \in Again PROVE m \in Again' /\ m \in DOMAIN msgs
      <4>1. m \in MsgIds /\ Torn(m)
        OBVIOUS
      <4>2. m \in DOMAIN msgs
        BY <4>1 DEF PublishInv, FanoutInv, Torn
      <4> QED BY <4>1, <4>2, TornStays
    <3>2. ASSUME NEW m \in Again' PROVE m \in DOMAIN msgs
      <4>1. m \in MsgIds /\ Torn(m)'
        OBVIOUS
      <4> QED BY <2>3, <4>1, PublishInvStep DEF PublishInv, FanoutInv, Torn
    <3>3. Again \subseteq Again' /\ Again' \subseteq DOMAIN msgs
      BY <3>1, <3>2
    <3> QED BY <2>3, <3>3 DEF Promise!Next, Promise!Tamper
  <2>4. ASSUME NEW l \in Letters, SendMessage(l) PROVE Promise!Next
    BY <2>1, <2>4 DEF SendMessage, Message, brokerVars
  <2>5. CASE BroadcastCfp
    BY <2>1, <2>5 DEF BroadcastCfp, Message, brokerVars
  <2> QED BY <2>2, <2>3, <2>4, <2>5, StepKindsByAction
<1> QED
  BY <1>1, <1>2, TypeCorrect, PTL DEF Spec, ImplementsMailbox, Promise!Spec

-----------------------------------------------------------------------------
\* What becomes of a message.

\* An element of a sequence is its head or in its tail.
LEMMA HeadOrTail ==
  ASSUME NEW S, NEW s \in Seq(S), s # <<>>, NEW m, In(m, s)
  PROVE  m = Head(s) \/ In(m, Tail(s))
<1>1. PICK i \in DOMAIN s : s[i] = m
  BY DEF In
<1>2. i \in 1..Len(s) /\ Len(s) \in Nat
  OBVIOUS
<1>3. CASE i = 1
  BY <1>1, <1>3
<1>4. CASE i # 1
  <2>1. i - 1 \in 1..(Len(s) - 1) /\ Len(Tail(s)) = Len(s) - 1
    BY <1>2, <1>4
  <2>2. i - 1 \in DOMAIN Tail(s) /\ Tail(s)[i - 1] = s[i]
    BY <1>2, <1>4, <2>1
  <2> QED BY <1>1, <2>2 DEF In
<1> QED BY <1>3, <1>4

\* Appending keeps what is there and adds the element.
LEMMA InAppend ==
  ASSUME NEW S, NEW s \in Seq(S), NEW e \in S
  PROVE  \A m : In(m, Append(s, e)) <=> In(m, s) \/ m = e
<1>1. /\ DOMAIN Append(s, e) = DOMAIN s \cup {Len(s) + 1}
      /\ Append(s, e)[Len(s) + 1] = e
      /\ \A i \in DOMAIN s : Append(s, e)[i] = s[i]
  BY AppendElements
<1> QED BY <1>1 DEF In

-----------------------------------------------------------------------------
(* Which steps change what.                                                 *)

LEMMA Frame ==
  ASSUME [Next]_vars
  PROVE  /\ observed' = observed \/ \E b \in Agents : Callbacks(b)
         /\ dlq' = dlq \/ \E b \in Agents : RouteUnknown(b) \/ DeadLetter(b)
         /\ start' = start \/ \E b \in Agents : RouteBroadcast(b) \/ RouteUnicast(b)
         /\ retry_count' = retry_count \/ \E b \in Agents : PutFull(b)
         /\ \/ UNCHANGED <<churn, churned, subscriptions>>
            \/ churn' = churn + 1
            \/ \E b \in Agents : Register(b)
<1> DEFINE Same == UNCHANGED <<observed, dlq, start, retry_count, churn, churned, subscriptions>>
<1> DEFINE Goal == /\ observed' = observed \/ \E b \in Agents : Callbacks(b)
                   /\ dlq' = dlq \/ \E b \in Agents : RouteUnknown(b) \/ DeadLetter(b)
                   /\ start' = start \/ \E b \in Agents : RouteBroadcast(b) \/ RouteUnicast(b)
                   /\ retry_count' = retry_count \/ \E b \in Agents : PutFull(b)
                   /\ \/ UNCHANGED <<churn, churned, subscriptions>>
                      \/ churn' = churn + 1
                      \/ \E b \in Agents : Register(b)
<1> USE DEF brokerVars, threadVars
<1>1. ASSUME NEW l \in Letters, SendMessage(l) PROVE Same
  BY <1>1 DEF SendMessage
<1>2. CASE BroadcastCfp
  BY <1>2 DEF BroadcastCfp
<1>3. ASSUME NEW a \in Agents, PublishStep(a) PROVE Goal
  <2>1. ASSUME LogEnvelope(a) \/ IterateRaises(a) \/ IterateNext(a) \/ IterateEnd(a)
        PROVE  Same
    BY <2>1 DEF LogEnvelope, IterateRaises, IterateNext, IterateEnd
  <2>2. ASSUME PutOk(a) \/ ReceiveMessage(a) \/ RetryPut(a) PROVE Same
    BY <2>2 DEF PutOk, ReceiveMessage, RetryPut
  <2>3. ASSUME RouteBroadcast(a) \/ RouteUnicast(a)
        PROVE  UNCHANGED <<observed, dlq, retry_count, churn, churned, subscriptions>>
    BY <2>3 DEF RouteBroadcast, RouteUnicast
  <2>4. ASSUME RouteUnknown(a) \/ DeadLetter(a)
        PROVE  UNCHANGED <<observed, start, retry_count, churn, churned, subscriptions>>
    BY <2>4 DEF RouteUnknown, DeadLetter
  <2>5. ASSUME PutFull(a) PROVE UNCHANGED <<observed, dlq, start, churn, churned, subscriptions>>
    BY <2>5 DEF PutFull
  <2>6. ASSUME Callbacks(a) PROVE UNCHANGED <<dlq, start, retry_count, churn, churned, subscriptions>>
    BY <2>6 DEF Callbacks
  <2> QED BY <1>3, <2>1, <2>2, <2>3, <2>4, <2>5, <2>6 DEF PublishStep
<1>4. CASE PopInbox
  BY <1>4 DEF PopInbox
<1>5. CASE UNCHANGED vars
  BY <1>5 DEF vars
<1>6. ASSUME NEW a \in Agents, Register(a) PROVE Goal
  BY <1>6 DEF Register
<1>7. ASSUME NEW a \in Agents, NEW t \in ChurnTopics, Subscribe(a, t) \/ Unsubscribe(a, t)
      PROVE  Goal
  BY <1>7 DEF Subscribe, Unsubscribe
<1>8. ASSUME NEW a \in Agents, (\E m \in MsgIds : Acknowledge(a, m)) \/ Consume(a)
      PROVE  Same
  BY <1>8 DEF Acknowledge, Consume
<1> QED
  BY <1>1, <1>2, <1>3, <1>4, <1>5, <1>6, <1>7, <1>8, BrokerAssumption DEF Next

\* What a step may do to one agent's publish(): nothing, one step of it, or
\* the creation of its next message.
Untouched(a) ==
  pc'[a] = pc[a] /\ cur'[a] = cur[a] /\ to'[a] = to[a] /\ seen'[a] = seen[a]

Begins(a) ==
  /\ pc[a] = "idle" /\ pc'[a] \in {"idle", "publish"}
  /\ cur'[a] = Len(msgs) + 1 /\ Len(msgs) + 1 \in MsgIds
  /\ to'[a] = to[a] /\ seen'[a] = seen[a]

LEMMA CreateBegins ==
  ASSUME TypeOK, NEW l \in Message, l.sender \in Agents, Create(l),
         NEW p \in {"idle", "publish"}, pc' = [pc EXCEPT ![l.sender] = p],
         UNCHANGED <<to, seen>>, NEW a \in Agents
  PROVE  Untouched(a) \/ Begins(a)
<1>1. Len(msgs) \in Nat /\ Len(msgs) < MaxMsgs
  BY DEF TypeOK, Create
<1>2. Len(msgs) + 1 \in MsgIds
  BY <1>1, BrokerAssumption DEF MsgIds
<1>3. pc[l.sender] = "idle" /\ cur' = [cur EXCEPT ![l.sender] = Len(msgs) + 1]
  BY DEF Create
<1> QED BY <1>2, <1>3 DEF Untouched, Begins, TypeOK

LEMMA ThreadFrame ==
  ASSUME TypeOK, [Next]_vars, NEW a \in Agents
  PROVE  Untouched(a) \/ Begins(a) \/ PublishStep(a)
<1> DEFINE Goal == Untouched(a) \/ Begins(a) \/ PublishStep(a)
<1> USE DEF agentVars, brokerVars, threadVars
<1>1. ASSUME NEW l \in Letters, SendMessage(l) PROVE Goal
  <2>1. l \in Message /\ l.sender \in Agents
    BY MessageSender DEF Message
  <2>2. pc[l.sender] = "idle"
    BY <1>1 DEF SendMessage, Create
  <2>3. \/ pc' = [pc EXCEPT ![l.sender] = "publish"]
        \/ pc' = [pc EXCEPT ![l.sender] = "idle"]
    BY <1>1, <2>2 DEF SendMessage
  <2>4. Create(l) /\ UNCHANGED <<to, seen>>
    BY <1>1 DEF SendMessage
  <2> QED BY <2>1, <2>3, <2>4, CreateBegins
<1>2. CASE BroadcastCfp
  <2>1. Cfp \in Message /\ Cfp.sender = "PA" /\ "PA" \in Agents
    BY <1>2 DEF Message, Cfp, BroadcastCfp
  <2>2. Create(Cfp) /\ UNCHANGED <<to, seen>> /\ pc' = [pc EXCEPT !["PA"] = "publish"]
    BY <1>2 DEF BroadcastCfp
  <2> QED BY <2>1, <2>2, CreateBegins
<1>3. ASSUME NEW b \in Agents, PublishStep(b), b # a PROVE Untouched(a)
  <2> USE DEF Untouched
  <2>0. /\ pc \in [Agents -> Steps] /\ cur \in [Agents -> 0..MaxMsgs]
        /\ to \in [Agents -> Agents] /\ seen \in [Agents -> SUBSET Agents]
    BY DEF TypeOK
  <2>1. ASSUME LogEnvelope(b) \/ RouteBroadcast(b) \/ RouteUnknown(b) PROVE Untouched(a)
    BY <1>3, <2>0, <2>1 DEF LogEnvelope, RouteBroadcast, RouteUnknown
  <2>2. ASSUME RouteUnicast(b) PROVE Untouched(a)
    BY <1>3, <2>0, <2>2 DEF RouteUnicast, BeginEnqueue
  <2>3. ASSUME IterateRaises(b) \/ IterateEnd(b) PROVE Untouched(a)
    BY <1>3, <2>0, <2>3 DEF IterateRaises, IterateEnd
  <2>4. ASSUME IterateNext(b) PROVE Untouched(a)
    BY <1>3, <2>0, <2>4 DEF IterateNext, BeginEnqueue
  <2>5. ASSUME ReceiveMessage(b) \/ DeadLetter(b) PROVE Untouched(a)
    BY <1>3, <2>0, <2>5 DEF ReceiveMessage, DeadLetter
  <2>6. ASSUME PutFull(b) \/ Callbacks(b) PROVE Untouched(a)
    BY <1>3, <2>0, <2>6 DEF PutFull, Callbacks
  <2>7. ASSUME PutOk(b) \/ RetryPut(b) PROVE Untouched(a)
    BY <1>3, <2>0, <2>7 DEF PutOk, RetryPut
  <2> QED BY <1>3, <2>1, <2>2, <2>3, <2>4, <2>5, <2>6, <2>7 DEF PublishStep
<1>4. CASE PopInbox
  BY <1>4 DEF PopInbox, Untouched
<1>5. CASE UNCHANGED vars
  BY <1>5 DEF vars, Untouched
<1>6. ASSUME NEW b \in Agents,
             \/ Register(b)
             \/ \E t \in ChurnTopics : Subscribe(b, t) \/ Unsubscribe(b, t)
             \/ \E m \in MsgIds : Acknowledge(b, m)
             \/ Consume(b)
      PROVE  Untouched(a)
  BY <1>6 DEF Register, Subscribe, Unsubscribe, Acknowledge, Consume, Untouched
<1> QED
  BY <1>1, <1>2, <1>3, <1>4, <1>5, <1>6, BrokerAssumption DEF Next

\* What an inbox got stays in its history.
LEMMA ReceivedStays ==
  ASSUME TypeOK, PublishInv, [Next]_vars, NEW m, NEW r \in Agents, In(m, received[r])
  PROVE  In(m, received'[r])
<1>1. CASE UNCHANGED received
  BY <1>1
<1>2. ASSUME NEW a \in Agents, ReceiveMessage(a) PROVE In(m, received'[r])
  <2>1. cur[a] \in MsgIds /\ received[r] \in Seq(MsgIds)
    BY <1>2, CurIsMsg DEF ReceiveMessage, TypeOK
  <2>2. received'[r] = IF r = to[a] THEN Append(received[r], cur[a]) ELSE received[r]
    BY <1>2 DEF ReceiveMessage, TypeOK
  <2> QED BY <2>1, <2>2, InAppend
<1> QED BY <1>1, <1>2, StepKinds

-----------------------------------------------------------------------------
(* The two channels: the Queue objects and the inboxes.                     *)

\* m was put into a Queue object of r.
Queued(m, r) ==
  \/ In(m, consumed[r])
  \/ \E k \in DOMAIN queues[r] : In(m, queues[r][k])

\* Between put_nowait and receive_message the message is queued already.
ReceivingQueued == \A a \in Agents : pc[a] = "receive" => Queued(cur[a], to[a])

ChannelInv == QueuesBounded /\ InboxWasQueued /\ ReceivingQueued

\* The steps that touch the Queue objects or what was consumed from them.
LEMMA QueueKinds ==
  ASSUME [Next]_vars
  PROVE  \/ UNCHANGED <<queues, consumed>>
         \/ \E a \in Agents : Register(a)
         \/ \E a \in Agents : /\ pc[a] \in {"put", "retry"} /\ ~QueueFull(a)
                              /\ PutNowait(a) /\ UNCHANGED consumed
         \/ \E a \in Consumers : Consume(a)
<1> DEFINE Goal == \/ UNCHANGED <<queues, consumed>>
                   \/ \E a \in Agents : Register(a)
                   \/ \E a \in Agents : /\ pc[a] \in {"put", "retry"} /\ ~QueueFull(a)
                                        /\ PutNowait(a) /\ UNCHANGED consumed
                   \/ \E a \in Consumers : Consume(a)
<1> USE DEF brokerVars
<1>1. ASSUME NEW l \in Letters, SendMessage(l) PROVE Goal
  BY <1>1 DEF SendMessage
<1>2. CASE BroadcastCfp
  BY <1>2 DEF BroadcastCfp
<1>3. ASSUME NEW a \in Agents, PublishStep(a) PROVE Goal
  <2>1. ASSUME LogEnvelope(a) \/ RouteBroadcast(a) \/ RouteUnicast(a) \/ RouteUnknown(a)
        PROVE  UNCHANGED <<queues, consumed>>
    BY <2>1 DEF LogEnvelope, RouteBroadcast, RouteUnicast, RouteUnknown
  <2>2. ASSUME IterateRaises(a) \/ IterateNext(a) \/ IterateEnd(a)
        PROVE  UNCHANGED <<queues, consumed>>
    BY <2>2 DEF IterateRaises, IterateNext, IterateEnd
  <2>3. ASSUME ReceiveMessage(a) \/ PutFull(a) \/ DeadLetter(a) \/ Callbacks(a)
        PROVE  UNCHANGED <<queues, consumed>>
    BY <2>3 DEF ReceiveMessage, PutFull, DeadLetter, Callbacks
  <2>4. CASE PutOk(a)
    BY <2>4 DEF PutOk
  <2>5. CASE RetryPut(a)
    BY <2>5 DEF RetryPut
  <2> QED BY <1>3, <2>1, <2>2, <2>3, <2>4, <2>5 DEF PublishStep
<1>4. CASE PopInbox
  BY <1>4 DEF PopInbox
<1>5. CASE UNCHANGED vars
  BY <1>5 DEF vars
<1>6. ASSUME NEW a \in Agents,
             \/ Register(a)
             \/ \E t \in ChurnTopics : Subscribe(a, t) \/ Unsubscribe(a, t)
             \/ \E m \in MsgIds : Acknowledge(a, m)
      PROVE  Goal
  BY <1>6 DEF Subscribe, Unsubscribe, Acknowledge
<1> QED
  BY <1>1, <1>2, <1>3, <1>4, <1>5, <1>6 DEF Next

\* register() adds an empty Queue object and leaves the others alone.
LEMMA RegisterQueues ==
  ASSUME TypeOK, NEW a \in Agents, Register(a), NEW r \in Agents
  PROVE  /\ \A k \in DOMAIN queues[r] : k \in DOMAIN queues'[r] /\ queues'[r][k] = queues[r][k]
         /\ \A k \in DOMAIN queues'[r] : k \in DOMAIN queues[r] \/ queues'[r][k] = <<>>
         /\ consumed' = consumed
<1>1. queues[a] \in Seq(Seq(MsgIds)) /\ <<>> \in Seq(MsgIds)
  BY DEF TypeOK
<1>2. queues'[r] = IF r = a THEN Append(queues[a], <<>>) ELSE queues[r]
  BY DEF Register, TypeOK
<1>3. consumed' = consumed
  BY DEF Register
<1> QED
  BY <1>1, <1>2, <1>3, AppendElements

\* put_nowait appends the message to the Queue object fetched before.
LEMMA PutQueues ==
  ASSUME TypeOK, PublishInv, NEW a \in Agents, pc[a] \in {"put", "retry"},
         PutNowait(a), NEW r \in Agents
  PROVE  /\ DOMAIN queues'[r] = DOMAIN queues[r]
         /\ to[a] \in Agents /\ qref[a] \in DOMAIN queues[to[a]]
         /\ \A k \in DOMAIN queues[r] :
              /\ queues[r][k] \in Seq(MsgIds)
              /\ queues'[r][k] = IF r = to[a] /\ k = qref[a]
                                 THEN Append(queues[r][k], cur[a]) ELSE queues[r][k]
<1>1. to[a] \in Agents /\ queues \in [Agents -> Seq(Seq(MsgIds))]
  BY DEF TypeOK
<1>2. qref[a] \in DOMAIN queues[to[a]]
  BY DEF PublishInv, DeliveryInv, EnqueueTarget, Enqueuing
<1>3. queues' = [queues EXCEPT ![to[a]][qref[a]] =
                   Append(queues[to[a]][qref[a]], cur[a])]
  BY DEF PutNowait
<1>4. queues'[r] = IF r = to[a]
                   THEN [queues[r] EXCEPT ![qref[a]] =
                           Append(queues[to[a]][qref[a]], cur[a])]
                   ELSE queues[r]
  BY <1>1, <1>3
<1>5. queues[r] \in Seq(Seq(MsgIds))
  BY <1>1
<1>6. \A k \in DOMAIN queues[r] : queues[r][k] \in Seq(MsgIds)
  BY <1>5
<1> QED
  BY <1>1, <1>2, <1>4, <1>6

\* consume() moves the head of the current Queue object.
LEMMA ConsumeQueues ==
  ASSUME TypeOK, NEW a \in Consumers, Consume(a), NEW r \in Agents
  PROVE  /\ DOMAIN queues'[r] = DOMAIN queues[r]
         /\ a \in Agents
         /\ \A k \in DOMAIN queues[r] :
              \/ queues'[r][k] = queues[r][k]
              \/ /\ r = a /\ queues[r][k] \in Seq(MsgIds) /\ queues[r][k] # <<>>
                 /\ queues'[r][k] = Tail(queues[r][k])
                 /\ consumed'[r] = Append(consumed[r], Head(queues[r][k]))
         /\ \/ consumed'[r] = consumed[r]
            \/ \E k \in DOMAIN queues[r] :
                 /\ queues[r][k] \in Seq(MsgIds) /\ queues[r][k] # <<>>
                 /\ consumed'[r] = Append(consumed[r], Head(queues[r][k]))
<1> DEFINE q == Len(queues[a])
<1>1. a \in Agents /\ queues \in [Agents -> Seq(Seq(MsgIds))]
  BY BrokerAssumption DEF TypeOK
<1>2. queues[a] \in Seq(Seq(MsgIds)) /\ queues[r] \in Seq(Seq(MsgIds))
  BY <1>1
<1>3. q \in DOMAIN queues[a] /\ queues[a][q] \in Seq(MsgIds)
  BY <1>2 DEF Consume, Registered
<1>4. /\ queues[a][q] # <<>>
      /\ queues' = [queues EXCEPT ![a][q] = Tail(queues[a][q])]
      /\ consumed' = [consumed EXCEPT ![a] = Append(@, Head(queues[a][q]))]
  BY DEF Consume
<1>5. queues'[r] = IF r = a THEN [queues[r] EXCEPT ![q] = Tail(queues[a][q])] ELSE queues[r]
  BY <1>1, <1>4
<1>6. consumed'[r] = IF r = a THEN Append(consumed[r], Head(queues[a][q])) ELSE consumed[r]
  BY <1>1, <1>4 DEF TypeOK
<1>7. CASE r = a
  <2>1. \A k \in DOMAIN queues[r] :
          queues'[r][k] = IF k = q THEN Tail(queues[r][q]) ELSE queues[r][k]
    BY <1>5, <1>7
  <2>2. DOMAIN queues'[r] = DOMAIN queues[r]
    BY <1>5, <1>7
  <2> QED BY <1>1, <1>3, <1>4, <1>6, <1>7, <2>1, <2>2
<1>8. CASE r # a
  BY <1>1, <1>5, <1>6, <1>8
<1> QED BY <1>7, <1>8

\* What was queued stays queued, or was consumed.
LEMMA QueuedStable ==
  ASSUME TypeOK, PublishInv, [Next]_vars, NEW m, NEW r \in Agents, Queued(m, r)
  PROVE  Queued(m, r)'
<1>0. consumed[r] \in Seq(MsgIds)
  BY DEF TypeOK
<1>1. CASE UNCHANGED <<queues, consumed>>
  BY <1>1 DEF Queued, In
<1>2. ASSUME NEW a \in Agents, Register(a) PROVE Queued(m, r)'
  BY <1>2, RegisterQueues DEF Queued, In
<1>3. ASSUME NEW a \in Agents, pc[a] \in {"put", "retry"}, PutNowait(a), UNCHANGED consumed
      PROVE  Queued(m, r)'
  <2>1. cur[a] \in MsgIds
    BY <1>3, CurIsMsg
  <2>2. \A k \in DOMAIN queues[r] : In(m, queues[r][k]) => In(m, queues'[r][k])
    BY <1>3, <2>1, PutQueues, InAppend
  <2>3. DOMAIN queues'[r] = DOMAIN queues[r]
    BY <1>3, PutQueues
  <2> QED BY <1>3, <2>2, <2>3 DEF Queued, In
<1>4. ASSUME NEW a \in Consumers, Consume(a) PROVE Queued(m, r)'
  <2>1. ASSUME In(m, consumed[r]) PROVE In(m, consumed'[r])
    <3>1. ASSUME NEW k \in DOMAIN queues[r], queues[r][k] \in Seq(MsgIds), queues[r][k] # <<>>,
                 consumed'[r] = Append(consumed[r], Head(queues[r][k]))
          PROVE  In(m, consumed'[r])
      <4>1. Head(queues[r][k]) \in MsgIds
        BY <3>1
      <4> QED BY <1>0, <2>1, <3>1, <4>1, InAppend
    <3> QED BY <1>4, <2>1, <3>1, ConsumeQueues
  <2>2. ASSUME NEW k \in DOMAIN queues[r], In(m, queues[r][k])
        PROVE  In(m, consumed'[r]) \/ In(m, queues'[r][k])
    <3>1. CASE queues'[r][k] = queues[r][k]
      BY <2>2, <3>1
    <3>2. CASE /\ queues[r][k] \in Seq(MsgIds) /\ queues[r][k] # <<>>
               /\ queues'[r][k] = Tail(queues[r][k])
               /\ consumed'[r] = Append(consumed[r], Head(queues[r][k]))
      <4>1. Head(queues[r][k]) \in MsgIds
        BY <3>2
      <4>2. m = Head(queues[r][k]) \/ In(m, Tail(queues[r][k]))
        BY <2>2, <3>2, HeadOrTail
      <4> QED BY <1>0, <3>2, <4>1, <4>2, InAppend
    <3> QED BY <1>4, <3>1, <3>2, ConsumeQueues
  <2>3. DOMAIN queues'[r] = DOMAIN queues[r]
    BY <1>4, ConsumeQueues
  <2> QED BY <2>1, <2>2, <2>3 DEF Queued, In
<1> QED BY <1>1, <1>2, <1>3, <1>4, QueueKinds

LEMMA QueuesBoundedStep ==
  TypeOK /\ PublishInv /\ QueuesBounded /\ [Next]_vars => QueuesBounded'
<1> SUFFICES ASSUME TypeOK, PublishInv, QueuesBounded, [Next]_vars,
                    NEW r \in Agents, NEW k \in DOMAIN queues'[r]
             PROVE  Len(queues'[r][k]) <= QueueSize
  BY DEF QueuesBounded
<1>0. QueueSize \in Nat
  BY BrokerAssumption
<1>1. CASE UNCHANGED <<queues, consumed>>
  BY <1>1 DEF QueuesBounded
<1>2. ASSUME NEW a \in Agents, Register(a) PROVE Len(queues'[r][k]) <= QueueSize
  <2>1. CASE k \in DOMAIN queues[r]
    BY <1>2, <2>1, RegisterQueues DEF QueuesBounded
  <2>2. CASE queues'[r][k] = <<>>
    BY <1>0, <2>2
  <2> QED BY <1>2, <2>1, <2>2, RegisterQueues
<1>3. ASSUME NEW a \in Agents, pc[a] \in {"put", "retry"}, ~QueueFull(a), PutNowait(a)
      PROVE  Len(queues'[r][k]) <= QueueSize
  <2>1. k \in DOMAIN queues[r] /\ queues[r][k] \in Seq(MsgIds)
    BY <1>3, PutQueues
  <2>2. CASE r = to[a] /\ k = qref[a]
    <3>1. Len(queues[r][k]) \in Nat /\ ~(Len(queues[r][k]) >= QueueSize)
      BY <1>3, <2>1, <2>2 DEF QueueFull
    <3>2. Len(Append(queues[r][k], cur[a])) = Len(queues[r][k]) + 1
      BY <2>1
    <3>3. queues'[r][k] = Append(queues[r][k], cur[a])
      BY <1>3, <2>1, <2>2, PutQueues
    <3> QED BY <1>0, <3>1, <3>2, <3>3
  <2>3. CASE ~(r = to[a] /\ k = qref[a])
    BY <1>3, <2>1, <2>3, PutQueues DEF QueuesBounded
  <2> QED BY <2>2, <2>3
<1>4. ASSUME NEW a \in Consumers, Consume(a) PROVE Len(queues'[r][k]) <= QueueSize
  <2>1. k \in DOMAIN queues[r] /\ Len(queues[r][k]) <= QueueSize
    BY <1>4, ConsumeQueues DEF QueuesBounded
  <2>2. CASE queues'[r][k] = queues[r][k]
    BY <2>1, <2>2
  <2>3. CASE /\ queues[r][k] \in Seq(MsgIds) /\ queues[r][k] # <<>>
             /\ queues'[r][k] = Tail(queues[r][k])
    <3>1. Len(Tail(queues[r][k])) = Len(queues[r][k]) - 1 /\ Len(queues[r][k]) \in Nat
      BY <2>3
    <3> QED BY <1>0, <2>1, <2>3, <3>1
  <2> QED BY <1>4, <2>1, <2>2, <2>3, ConsumeQueues
<1> QED BY <1>1, <1>2, <1>3, <1>4, QueueKinds

\* A publish() comes to receive_message only by a successful put, and no other
\* step moves its message, its receiver or its pc there.
LEMMA ReceivingKinds ==
  ASSUME TypeOK, PublishInv, [Next]_vars, NEW a \in Agents, pc'[a] = "receive"
  PROVE  \/ pc[a] = "receive" /\ cur'[a] = cur[a] /\ to'[a] = to[a]
         \/ PutOk(a)
<1>1. CASE PublishStep(a)
  <2> USE DEF TypeOK
  <2>1. CASE RouteBroadcast(a) \/ RouteUnicast(a) \/ RouteUnknown(a) \/ LogEnvelope(a)
    BY <2>1 DEF RouteBroadcast, RouteUnicast, RouteUnknown, LogEnvelope
  <2>2. CASE IterateRaises(a) \/ IterateEnd(a) \/ Callbacks(a) \/ PutFull(a)
    BY <2>2 DEF IterateRaises, IterateEnd, Callbacks, PutFull
  <2>3. CASE IterateNext(a)
    BY <2>3 DEF IterateNext
  <2>4. CASE ReceiveMessage(a) \/ RetryPut(a) \/ DeadLetter(a)
    BY <2>4 DEF ReceiveMessage, RetryPut, DeadLetter, AfterEnqueue
  <2> QED BY <1>1, <2>1, <2>2, <2>3, <2>4 DEF PublishStep
<1> QED BY <1>1, ThreadFrame DEF Untouched, Begins

\* A successful put leaves the message in a Queue object of its receiver.
LEMMA PutOkQueues ==
  ASSUME TypeOK, PublishInv, NEW a \in Agents, PutOk(a)
  PROVE  Queued(cur[a], to[a])'
<1>1. /\ pc[a] = "put" /\ PutNowait(a) /\ UNCHANGED <<cur, to>>
  BY DEF PutOk
<1>2. cur[a] \in MsgIds
  BY <1>1, CurIsMsg
<1>3. to[a] \in Agents /\ qref[a] \in DOMAIN queues[to[a]]
  BY <1>1, PutQueues
<1>4. /\ qref[a] \in DOMAIN queues'[to[a]] /\ queues[to[a]][qref[a]] \in Seq(MsgIds)
      /\ queues'[to[a]][qref[a]] = Append(queues[to[a]][qref[a]], cur[a])
  BY <1>1, <1>3, PutQueues
<1>5. In(cur[a], queues'[to[a]][qref[a]])
  BY <1>2, <1>4, InAppend
<1> QED BY <1>1, <1>4, <1>5 DEF Queued, In

LEMMA ChannelInvStep ==
  TypeOK /\ PublishInv /\ ChannelInv /\ [Next]_vars => ChannelInv'
<1> SUFFICES ASSUME TypeOK, PublishInv, ChannelInv, [Next]_vars PROVE ChannelInv'
  OBVIOUS
<1>1. QueuesBounded'
  BY QueuesBoundedStep DEF ChannelInv
<1>2. ReceivingQueued'
  <2> SUFFICES ASSUME NEW a \in Agents, pc'[a] = "receive"
               PROVE  Queued(cur[a], to[a])'
    BY DEF ReceivingQueued
  <2>1. CASE pc[a] = "receive" /\ cur'[a] = cur[a] /\ to'[a] = to[a]
    <3>1. Queued(cur[a], to[a]) /\ to[a] \in Agents
      BY <2>1 DEF ChannelInv, ReceivingQueued, TypeOK
    <3>2. ASSUME NEW n, NEW b \in Agents, Queued(n, b), cur'[a] = n, to'[a] = b
          PROVE  Queued(cur[a], to[a])'
      <4>1. Queued(n, b)'
        BY <3>2, QueuedStable
      <4> QED BY <3>2, <4>1 DEF Queued
    <3> QED BY <2>1, <3>1, <3>2
  <2>2. CASE PutOk(a)
    BY <2>2, PutOkQueues
  <2> QED BY <2>1, <2>2, ReceivingKinds
<1>3. InboxWasQueued'
  <2> SUFFICES ASSUME NEW r \in Agents, NEW i \in DOMAIN received'[r]
               PROVE  Queued(received[r][i], r)'
    BY DEF InboxWasQueued, Queued, In
  <2>1. \A m : Queued(m, r) => Queued(m, r)'
    BY QueuedStable
  <2>2. CASE i \in DOMAIN received[r] /\ received'[r][i] = received[r][i]
    <3>1. Queued(received[r][i], r)
      BY <2>2 DEF ChannelInv, InboxWasQueued, Queued
    <3> QED BY <2>1, <2>2, <3>1 DEF Queued, In
  <2>3. ASSUME NEW a \in Agents, ReceiveMessage(a), r = to[a], received'[r][i] = cur[a]
        PROVE  Queued(received[r][i], r)'
    <3>1. Queued(cur[a], r)
      BY <2>3 DEF ReceiveMessage, ChannelInv, ReceivingQueued
    <3> QED BY <2>1, <2>3, <3>1 DEF Queued, In
  <2> QED BY <2>2, <2>3, StepKinds, ReceiveGrows
<1> QED BY <1>1, <1>2, <1>3 DEF ChannelInv

\* Whatever re-registrations, retries and concurrent publishers do, no Queue
\* object outgrows its limit and an inbox holds nothing that was not queued for
\* the agent first, nor anything twice.
THEOREM ChannelsAgree == Spec => []ChannelsSound
<1>1. Init => ChannelInv
  <2> SUFFICES ASSUME Init PROVE ChannelInv
    OBVIOUS
  <2>1. QueueSize \in Nat /\ Len(<<>>) = 0
    BY BrokerAssumption
  <2>2. \A r \in Agents : \A k \in DOMAIN queues[r] : queues[r][k] = <<>>
    BY DEF Init
  <2>3. QueuesBounded
    BY <2>1, <2>2 DEF QueuesBounded
  <2> QED BY <2>3 DEF Init, ChannelInv, InboxWasQueued, ReceivingQueued
<1>2. ChannelInv /\ ReceivedOnce => ChannelsSound
  BY DEF ChannelInv, ChannelsSound
<1> QED
  BY <1>1, <1>2, ChannelInvStep, TypeCorrect, InOrderAndOnce, PTL DEF Spec

-----------------------------------------------------------------------------
(* Dead letters.                                                            *)

\* m never reached r, and no publish() is going to hand it over any more.
Lost(m, r) ==
  /\ Addressed(m, r) /\ ~In(m, received[r])
  /\ \A a \in Agents : cur[a] = m => ~Pending(a, r)

\* An _enqueue that gives up has not delivered, its fan-out not being torn.
GivesUpUndelivered ==
  \A a \in Agents :
    pc[a] = "dlq" /\ ~Torn(cur[a]) => ~In(cur[a], received[to[a]])

\* m is for nobody the broker could know.
ForNobody(m) == \A r \in Agents : msgs[m].receiver # r /\ ~IsBroadcast(m)

DeadLetterInv ==
  /\ GivesUpUndelivered
  /\ \A i \in DOMAIN dlq : /\ dlq[i] \in DOMAIN msgs
                           /\ \/ ForNobody(dlq[i]) \/ Torn(dlq[i])
                              \/ \E r \in Agents : Lost(dlq[i], r)

\* A receiver is never pending again for a message that has been created and
\* whose fan-out is not torn.
LEMMA PendingShrinks ==
  ASSUME TypeOK, PublishInv, [Next]_vars, NEW a \in Agents, NEW r \in Agents, Pending(a, r)'
  PROVE  \/ (Pending(a, r) \/ Torn(cur[a])) /\ cur'[a] = cur[a]
         \/ cur'[a] \notin DOMAIN msgs
<1> DEFINE Goal == \/ (Pending(a, r) \/ Torn(cur[a])) /\ cur'[a] = cur[a]
                   \/ cur'[a] \notin DOMAIN msgs
<1>1. CASE Untouched(a)
  BY <1>1 DEF Untouched, Pending, Enqueuing
<1>2. CASE Begins(a)
  <2>1. Len(msgs) \in Nat /\ DOMAIN msgs = 1..Len(msgs)
    BY DEF TypeOK
  <2>2. Len(msgs) + 1 \notin 1..Len(msgs)
    BY <2>1
  <2> QED BY <1>2, <2>1, <2>2 DEF Begins
<1>3. CASE PublishStep(a)
  <2> USE DEF Pending, Enqueuing, TypeOK
  <2>1. CASE LogEnvelope(a)
    BY <2>1 DEF LogEnvelope
  <2>2. CASE RouteBroadcast(a) \/ RouteUnicast(a) \/ RouteUnknown(a)
    BY <2>2 DEF RouteBroadcast, RouteUnicast, RouteUnknown
  <2>3. CASE IterateRaises(a) \/ IterateEnd(a) \/ Callbacks(a)
    BY <2>3 DEF IterateRaises, IterateEnd, Callbacks
  <2>4. CASE IterateNext(a)
    <3>1. pc[a] = "iterate" /\ ~SetResized(a) /\ cur'[a] = cur[a]
      BY <2>4 DEF IterateNext
    <3>2. PICK b \in ahead[a] : /\ seen'[a] = seen[a] \cup {b} /\ to'[a] = b
                               /\ pc'[a] \in {"put", "iterate"}
      BY <2>4, <3>1 DEF IterateNext, BeginEnqueue
    <3>3. ~Torn(cur[a]) => b \notin seen[a]
      BY <3>1, SizeUnchanged
    <3> QED BY <3>1, <3>2, <3>3
  <2>5. CASE PutOk(a)
    BY <2>5 DEF PutOk
  <2>6. CASE PutFull(a)
    BY <2>6 DEF PutFull
  <2>7. CASE ReceiveMessage(a)
    BY <2>7 DEF ReceiveMessage, AfterEnqueue
  <2>8. CASE RetryPut(a) \/ DeadLetter(a)
    BY <2>8 DEF RetryPut, DeadLetter, AfterEnqueue
  <2> QED BY <1>3, <2>1, <2>2, <2>3, <2>4, <2>5, <2>6, <2>7, <2>8 DEF PublishStep
<1> QED BY <1>1, <1>2, <1>3, ThreadFrame

\* A lost message stays lost: nothing but a torn fan-out delivers it later.
LEMMA LostStays ==
  ASSUME TypeOK, PublishInv, [Next]_vars, NEW m \in DOMAIN msgs, NEW r \in Agents, Lost(m, r),
         ~Torn(m)
  PROVE  Lost(m, r)'
<1>1. Addressed(m, r)'
  BY MsgsGrow DEF Lost, Addressed, IsBroadcast
<1>2. ~In(m, received'[r])
  <2>1. CASE UNCHANGED received
    BY <2>1 DEF Lost, In
  <2>2. ASSUME NEW a \in Agents, ReceiveMessage(a) PROVE ~In(m, received'[r])
    <3>1. pc[a] = "receive"
      BY <2>2 DEF ReceiveMessage
    <3>2. ~(r = to[a] /\ cur[a] = m)
      BY <3>1 DEF Lost, Pending
    <3> QED BY <2>2, <3>2, ReceiveGrows DEF Lost, In
  <2> QED BY <2>1, <2>2, StepKinds
<1>3. ASSUME NEW a \in Agents, cur'[a] = m PROVE ~Pending(a, r)'
  BY <1>3, PendingShrinks DEF Lost
<1> QED BY <1>1, <1>2, <1>3 DEF Lost, In

LEMMA GivesUpStep ==
  TypeOK /\ PublishInv /\ GivesUpUndelivered /\ [Next]_vars => GivesUpUndelivered'
<1> SUFFICES ASSUME TypeOK, PublishInv, GivesUpUndelivered, [Next]_vars,
                    NEW a \in Agents, pc'[a] = "dlq", ~Torn(cur[a])'
             PROVE  ~In(cur[a], received[to[a]])'
  BY DEF GivesUpUndelivered
<1>0. cur'[a] = cur[a] /\ pc[a] # "idle" => ~Torn(cur[a])
  <2>1. \A m \in MsgIds : Torn(m) => churned'[m] = {"add", "remove"}
    BY TornStays DEF Torn
  <2> QED BY <2>1, CurIsMsg DEF Torn
<1>1. CASE PublishStep(a)
  <2> USE DEF TypeOK
  <2>1. CASE LogEnvelope(a) \/ RouteBroadcast(a) \/ RouteUnicast(a) \/ RouteUnknown(a)
    BY <2>1 DEF LogEnvelope, RouteBroadcast, RouteUnicast, RouteUnknown
  <2>2. CASE IterateRaises(a) \/ IterateEnd(a) \/ Callbacks(a) \/ PutOk(a)
    BY <2>2 DEF IterateRaises, IterateEnd, Callbacks, PutOk
  <2>3. CASE IterateNext(a)
    BY <2>3 DEF IterateNext
  <2>4. CASE PutFull(a)
    <3>1. Pending(a, to[a]) /\ to[a] \in Agents
      BY <2>4 DEF PutFull, Pending
    <3>2. ~In(cur[a], received[to[a]])
      BY <1>0, <2>4, <3>1 DEF PutFull, PublishInv, DeliveryInv, NotYetReceived
    <3> QED BY <2>4, <3>2 DEF PutFull, agentVars, In
  <2>5. CASE ReceiveMessage(a) \/ RetryPut(a) \/ DeadLetter(a)
    BY <2>5 DEF ReceiveMessage, RetryPut, DeadLetter, AfterEnqueue
  <2> QED BY <1>1, <2>1, <2>2, <2>3, <2>4, <2>5 DEF PublishStep
<1>2. CASE Untouched(a)
  <2>1. pc[a] = "dlq" /\ cur'[a] = cur[a] /\ to'[a] = to[a] /\ to[a] \in Agents
    BY <1>2 DEF Untouched, TypeOK
  <2>2. ~In(cur[a], received[to[a]])
    BY <1>0, <2>1 DEF GivesUpUndelivered
  <2>3. CASE UNCHANGED received
    BY <2>1, <2>2, <2>3 DEF In
  <2>4. ASSUME NEW b \in Agents, ReceiveMessage(b)
        PROVE  ~In(cur[a], received[to[a]])'
    <3>1. cur[b] # cur[a]
      BY <2>1, <2>4, OwnMessage DEF ReceiveMessage
    <3>2. ~In(cur[a], received'[to[a]])
      BY <2>1, <2>2, <2>4, <3>1, ReceiveGrows DEF In
    <3> QED BY <2>1, <3>2 DEF In
  <2> QED BY <2>3, <2>4, StepKinds
<1> QED BY <1>1, <1>2, ThreadFrame DEF Begins

\* Trimming forgets entries and invents none.
LEMMA TrimmedElements ==
  ASSUME NEW S, NEW s \in Seq(S), NEW cap \in Nat \ {0}
  PROVE  \A i \in DOMAIN Trimmed(s, cap) : \E j \in DOMAIN s : Trimmed(s, cap)[i] = s[j]
<1>1. CASE Len(s) > cap
  <2> DEFINE k == Len(s) - (cap + 1) \div 2 + 1
  <2>1. Len(s) \in Nat /\ (cap + 1) \div 2 \in 1..cap
    OBVIOUS
  <2>2. k \in 1..Len(s)
    BY <1>1, <2>1
  <2>3. Trimmed(s, cap) = SubSeq(s, k, Len(s))
    BY <1>1 DEF Trimmed
  <2> HIDE DEF k
  <2>4. /\ Len(SubSeq(s, k, Len(s))) = Len(s) - k + 1
        /\ \A i \in 1..(Len(s) - k + 1) : SubSeq(s, k, Len(s))[i] = s[k + i - 1]
    BY <2>1, <2>2
  <2>5. DOMAIN SubSeq(s, k, Len(s)) = 1..(Len(s) - k + 1)
    BY <2>1, <2>2
  <2>6. \A i \in 1..(Len(s) - k + 1) : k + i - 1 \in DOMAIN s
    BY <2>1, <2>2
  <2> QED BY <2>3, <2>4, <2>5, <2>6
<1>2. CASE ~(Len(s) > cap)
  BY <1>2 DEF Trimmed
<1> QED BY <1>1, <1>2

\* A letter goes to the dead letter queue only if it is for nobody or lost, or
\* its fan-out is torn.
LEMMA DeadLettersLost ==
  ASSUME TypeOK, PublishInv, GivesUpUndelivered, NEW a \in Agents,
         RouteUnknown(a) \/ DeadLetter(a)
  PROVE  ForNobody(cur[a])' \/ Torn(cur[a])' \/ \E r \in Agents : Lost(cur[a], r)'
<1>1. /\ pc[a] \in {"route", "dlq"} /\ UNCHANGED <<msgs, received, cur, seen, to, churned>>
      /\ \A b \in Agents : b # a => pc'[b] = pc[b]
  BY DEF RouteUnknown, DeadLetter, agentVars, TypeOK
<1>2. \A b \in Agents : b # a /\ cur[b] = cur[a] => pc[b] = "idle"
  BY <1>1, OwnMessage
<1>3. \A b, r \in Agents : b # a /\ cur[b] = cur[a] => ~Pending(b, r)'
  BY <1>1, <1>2 DEF Pending, Enqueuing
<1>4. CASE RouteUnknown(a)
  <2>1. pc'[a] = "callbacks" /\ pc[a] = "route" /\ ~IsBroadcast(cur[a])
    BY <1>4 DEF RouteUnknown, TypeOK
  <2>2. \A r \in Agents : ~Pending(a, r)'
    BY <2>1 DEF Pending, Enqueuing
  <2>3. CASE \E r \in Agents : msgs[cur[a]].receiver = r
    <3>1. PICK r \in Agents : msgs[cur[a]].receiver = r
      BY <2>3
    <3>2. ~In(cur[a], received[r])
      BY <2>1 DEF PublishInv, DeliveryInv, NotYetReceived, Pending, FanoutInv, Torn
    <3>3. Lost(cur[a], r)'
      BY <1>1, <1>3, <2>2, <3>1, <3>2 DEF Lost, Addressed, In
    <3> QED BY <3>3
  <2>4. CASE ~ \E r \in Agents : msgs[cur[a]].receiver = r
    BY <1>1, <2>1, <2>4 DEF ForNobody, IsBroadcast
  <2> QED BY <2>3, <2>4
<1>5. CASE Torn(cur[a])
  BY <1>1, <1>5 DEF Torn
<1>6. CASE DeadLetter(a) /\ ~Torn(cur[a])
  <2>1. pc'[a] = AfterEnqueue(a) /\ pc[a] = "dlq" /\ to[a] \in Agents
    BY <1>6 DEF DeadLetter, TypeOK
  <2>2. Addressed(cur[a], to[a]) /\ to[a] \in seen[a]
    BY <2>1 DEF PublishInv, DeliveryInv, EnqueueTarget, Enqueuing
  <2>3. ~In(cur[a], received[to[a]])
    BY <1>6, <2>1 DEF GivesUpUndelivered
  <2>4. seen'[a] = seen[a] /\ pc'[a] \in {"iterate", "callbacks"}
    BY <1>1, <2>1 DEF AfterEnqueue
  <2>5. ~Pending(a, to[a])'
    BY <1>1, <2>2, <2>4 DEF Pending, Enqueuing
  <2>6. Lost(cur[a], to[a])'
    BY <1>1, <1>3, <2>1, <2>2, <2>3, <2>5 DEF Lost, Addressed, IsBroadcast, In
  <2> QED BY <1>1, <2>1, <2>6 DEF Lost, Addressed, IsBroadcast, In, Pending
<1> QED BY <1>4, <1>5, <1>6

LEMMA DeadLetterInvStep ==
  TypeOK /\ PublishInv /\ DeadLetterInv /\ [Next]_vars => DeadLetterInv'
<1> SUFFICES ASSUME TypeOK, PublishInv, DeadLetterInv, [Next]_vars PROVE DeadLetterInv'
  OBVIOUS
<1> DEFINE Dead(m) == /\ m \in DOMAIN msgs
                      /\ \/ ForNobody(m) \/ Torn(m)
                         \/ \E r \in Agents : Lost(m, r)
<1>1. GivesUpUndelivered'
  BY GivesUpStep DEF DeadLetterInv
<1>2. ASSUME NEW m, Dead(m) PROVE Dead(m)'
  <2>1. m \in MsgIds /\ m \in DOMAIN msgs' /\ msgs'[m] = msgs[m]
    <3>1. DOMAIN msgs = 1..Len(msgs) /\ Len(msgs) \in Nat /\ Len(msgs) <= MaxMsgs
      BY DEF TypeOK
    <3>2. m \in MsgIds
      BY <1>2, <3>1, BrokerAssumption DEF MsgIds
    <3> QED BY <1>2, <3>2, MsgsGrow
  <2>2. CASE ForNobody(m)
    BY <2>1, <2>2 DEF ForNobody, IsBroadcast
  <2>3. CASE Torn(m)
    BY <2>1, <2>3, TornStays
  <2>4. ASSUME ~Torn(m), NEW r \in Agents, Lost(m, r) PROVE Dead(m)'
    BY <1>2, <2>1, <2>4, LostStays
  <2> QED BY <1>2, <2>2, <2>3, <2>4
<1>3. \A i \in DOMAIN dlq : Dead(dlq[i])
  BY DEF DeadLetterInv
<1>4. CASE dlq' = dlq
  <2>1. \A i \in DOMAIN dlq' : Dead(dlq[i])'
    BY <1>2, <1>3, <1>4
  <2> QED BY <1>1, <2>1 DEF DeadLetterInv
<1>5. ASSUME NEW a \in Agents, RouteUnknown(a) \/ DeadLetter(a) PROVE DeadLetterInv'
  <2> DEFINE s == Append(dlq, cur[a])
  <2>1. /\ pc[a] # "idle" /\ UNCHANGED <<msgs, cur>>
        /\ dlq' = s \/ dlq' = Trimmed(s, MaxDlq)
    BY <1>5 DEF RouteUnknown, DeadLetter, agentVars
  <2>2. cur[a] \in MsgIds /\ cur[a] \in DOMAIN msgs /\ dlq \in Seq(MsgIds)
    BY <2>1, CurIsMsg DEF TypeOK
  <2>3. ForNobody(cur[a])' \/ Torn(cur[a])' \/ \E r \in Agents : Lost(cur[a], r)'
    BY <1>5, DeadLettersLost DEF DeadLetterInv
  <2>4. \A j \in DOMAIN s : s[j] = cur[a] \/ \E i \in DOMAIN dlq : s[j] = dlq[i]
    BY <2>2, AppendElements
  <2>5. s \in Seq(MsgIds) /\ MaxDlq \in Nat \ {0}
    BY <2>2, BrokerAssumption
  <2> HIDE DEF s
  <2>6. \A i \in DOMAIN dlq' : \E j \in DOMAIN s : dlq'[i] = s[j]
    BY <2>1, <2>5, TrimmedElements
  <2> SUFFICES ASSUME NEW i \in DOMAIN dlq' PROVE Dead(dlq[i])'
    BY <1>1 DEF DeadLetterInv
  <2>7. CASE dlq'[i] = cur[a]
    <3>1. cur'[a] = dlq'[i] /\ dlq'[i] \in DOMAIN msgs'
      BY <2>1, <2>2, <2>7
    <3> QED BY <2>3, <3>1 DEF ForNobody, Lost, Addressed, IsBroadcast, In, Torn
  <2>8. ASSUME NEW j \in DOMAIN dlq, dlq'[i] = dlq[j] PROVE Dead(dlq[i])'
    BY <1>2, <1>3, <2>8
  <2> QED BY <2>4, <2>6, <2>7, <2>8
<1> QED BY <1>4, <1>5, Frame

\* An envelope in the dead letter queue failed to reach somebody it was meant
\* for, and stays undelivered: neither a retry nor a later step of the fan-out
\* hands over what was given up.
THEOREM DeadLettersStayUndelivered == Spec => []DeadLetterUndelivered
<1>1. Init => DeadLetterInv
  BY DEF Init, DeadLetterInv, GivesUpUndelivered
<1>2. DeadLetterInv => DeadLetterUndelivered
  BY DEF DeadLetterInv, DeadLetterUndelivered, ForNobody, Lost
<1> QED
  BY <1>1, <1>2, DeadLetterInvStep, TypeCorrect, PTL DEF Spec

-----------------------------------------------------------------------------
(* Delivery without congestion.                                             *)

\* A publish() that is over has run its callbacks at most once, and no running
\* one works on a message that was observed.
ObservedDone ==
  \A i \in DOMAIN observed :
    /\ observed[i] \in DOMAIN msgs
    /\ \A a \in Agents : pc[a] # "idle" => cur[a] # observed[i]

\* Nothing is routed before its publish() comes to the routing.
NotRouted ==
  /\ \A m \in MsgIds : m \notin DOMAIN msgs => start[m] = {}
  /\ \A a \in Agents : pc[a] \in {"publish", "route"} => start[cur[a]] = {}

\* A failed put is remembered on the envelope.
FailureCounted ==
  \A a \in Agents : pc[a] \in {"retry", "dlq"} => retry_count[cur[a]] > 0

\* Without subscribe() and unsubscribe() every subscriber is registered, and no
\* fan-out loses one.
SubscribersStay ==
  churn = 0 =>
    /\ \A t \in Topic : \A r \in subscriptions[t] : Registered(r)
    /\ \A m \in MsgIds : "remove" \notin churned[m]
    /\ \A a \in Agents : pc[a] \in Enqueuing /\ ~IsBroadcast(cur[a]) =>
         start[cur[a]] \subseteq seen[a]

\* The receivers a publish() has dealt with, the sender left out.
Handled(a) ==
  CASE pc[a] = "iterate" -> seen[a] \ {a}
    [] pc[a] \in {"put", "receive"} -> seen[a] \ {a, to[a]}
    [] pc[a] = "callbacks" -> start[cur[a]] \ {a}
    [] OTHER -> {}

HandledHave ==
  churn = 0 =>
    \A a \in Agents : pc[a] # "idle" /\ retry_count[cur[a]] = 0 =>
      \A r \in Handled(a) : In(cur[a], received[r])

UncongestedInv ==
  /\ ObservedDone /\ NotRouted /\ FailureCounted /\ SubscribersStay /\ HandledHave
  /\ UncongestedDelivery

\* Without churn subscriptions only grow, by registration, and registered
\* agents stay registered.
LEMMA SubscriptionsGrow ==
  ASSUME TypeOK, PublishInv, [Next]_vars, churn' = 0
  PROVE  /\ churn = 0
         /\ \A t \in Topic : subscriptions[t] \subseteq subscriptions'[t]
         /\ \A t \in Topic : \A r \in subscriptions'[t] :
              r \in subscriptions[t] \/ Registered(r)'
         /\ \A m \in MsgIds : "remove" \notin churned[m] => "remove" \notin churned'[m]
         /\ \A r \in Agents : Registered(r) => Registered(r)'
<1>1. \A r \in Agents : Registered(r) => Registered(r)'
  <2> SUFFICES ASSUME NEW r \in Agents, Registered(r) PROVE Registered(r)'
    OBVIOUS
  <2>1. queues[r] \in Seq(Seq(MsgIds)) /\ queues'[r] \in Seq(Seq(MsgIds))
    BY TypeStep DEF TypeOK
  <2>2. 1 \in DOMAIN queues[r]
    BY <2>1 DEF Registered
  <2>3. 1 \in DOMAIN queues'[r]
    BY <2>2, QueueKinds, RegisterQueues, PutQueues, ConsumeQueues
  <2> QED BY <2>1, <2>3 DEF Registered
<1>2. CASE UNCHANGED <<churn, churned, subscriptions>>
  BY <1>1, <1>2
<1>3. CASE churn' = churn + 1
  BY <1>3 DEF TypeOK
<1>4. ASSUME NEW b \in Agents, Register(b)
      PROVE  /\ churn = 0
             /\ \A t \in Topic : subscriptions[t] \subseteq subscriptions'[t]
             /\ \A t \in Topic : \A r \in subscriptions'[t] :
                  r \in subscriptions[t] \/ Registered(r)'
             /\ \A m \in MsgIds : "remove" \notin churned[m] => "remove" \notin churned'[m]
  <2>1. /\ churn' = churn /\ queues' = [queues EXCEPT ![b] = Append(@, <<>>)]
        /\ subscriptions' = [t \in Topic |-> IF t \in RegisterTopics(b)
                                              THEN subscriptions[t] \cup {b}
                                              ELSE subscriptions[t]]
    BY <1>4 DEF Register, AddSubscriber
  <2>2. queues[b] \in Seq(Seq(MsgIds)) /\ <<>> \in Seq(MsgIds)
    BY DEF TypeOK
  <2>3. Len(Append(queues[b], <<>>)) = Len(queues[b]) + 1 /\ Len(queues[b]) \in Nat
    BY <2>2
  <2>4. Registered(b)'
    BY <2>1, <2>3 DEF Registered, TypeOK
  <2>5. ASSUME NEW m \in MsgIds, "remove" \notin churned[m] PROVE "remove" \notin churned'[m]
    BY <1>4, <2>5 DEF Register, AddSubscriber, NoteChurn
  <2> QED BY <2>1, <2>4, <2>5
<1> QED BY <1>1, <1>2, <1>3, <1>4, Frame

\* The receivers of a message change only when its own publish() routes it.
LEMMA StartKept ==
  ASSUME TypeOK, PublishInv, [Next]_vars, NEW m \in MsgIds,
         \A b \in Agents : pc[b] = "route" => cur[b] # m
  PROVE  start'[m] = start[m]
<1>1. ASSUME NEW b \in Agents, RouteBroadcast(b) \/ RouteUnicast(b)
      PROVE  start'[m] = start[m]
  BY <1>1 DEF RouteBroadcast, RouteUnicast, TypeOK
<1> QED BY <1>1, Frame

\* A failure counted on an envelope is never forgotten.
LEMMA RetriesKept ==
  ASSUME TypeOK, PublishInv, [Next]_vars, NEW m \in MsgIds
  PROVE  retry_count'[m] \in Nat /\ retry_count'[m] >= retry_count[m]
<1>0. retry_count[m] \in Nat /\ retry_count'[m] \in Nat
  BY TypeStep DEF TypeOK
<1>1. ASSUME NEW b \in Agents, PutFull(b) PROVE retry_count'[m] >= retry_count[m]
  <2>1. retry_count'[m] = retry_count[m] \/ retry_count'[m] = retry_count[m] + 1
    BY <1>1 DEF PutFull, TypeOK
  <2> QED BY <1>0, <2>1
<1> QED BY <1>0, <1>1, Frame

LEMMA CurKept ==
  ASSUME NEW a \in Agents, PublishStep(a)
  PROVE  cur' = cur /\ pc[a] # "idle"
<1>1. CASE LogEnvelope(a) \/ RouteBroadcast(a) \/ RouteUnicast(a) \/ RouteUnknown(a)
  BY <1>1 DEF LogEnvelope, RouteBroadcast, RouteUnicast, RouteUnknown
<1>2. CASE IterateRaises(a) \/ IterateNext(a) \/ IterateEnd(a) \/ Callbacks(a)
  BY <1>2 DEF IterateRaises, IterateNext, IterateEnd, Callbacks
<1>3. CASE ReceiveMessage(a) \/ PutFull(a) \/ DeadLetter(a) \/ RetryPut(a) \/ PutOk(a)
  BY <1>3 DEF ReceiveMessage, PutFull, DeadLetter, RetryPut, PutOk
<1> QED BY <1>1, <1>2, <1>3 DEF PublishStep

\* The next message of an agent is new.
LEMMA BeginsNew ==
  ASSUME TypeOK, NEW a \in Agents, Begins(a)
  PROVE  cur'[a] \in MsgIds /\ cur'[a] \notin DOMAIN msgs
<1>1. Len(msgs) \in Nat /\ DOMAIN msgs = 1..Len(msgs)
  BY DEF TypeOK
<1>2. Len(msgs) + 1 \notin 1..Len(msgs)
  BY <1>1
<1> QED BY <1>1, <1>2 DEF Begins

LEMMA ObservedDoneStep ==
  TypeOK /\ PublishInv /\ ObservedDone /\ [Next]_vars => ObservedDone'
<1> SUFFICES ASSUME TypeOK, PublishInv, ObservedDone, [Next]_vars PROVE ObservedDone'
  OBVIOUS
<1> DEFINE Done(m) == m \in DOMAIN msgs /\ \A a \in Agents : pc[a] # "idle" => cur[a] # m
<1>1. ASSUME NEW m, Done(m) PROVE Done(m)'
  <2>1. m \in DOMAIN msgs'
    BY <1>1, MsgsGrow
  <2>2. ASSUME NEW a \in Agents, pc'[a] # "idle" PROVE cur'[a] # m
    <3>1. CASE Untouched(a)
      BY <1>1, <2>2, <3>1 DEF Untouched
    <3>2. CASE Begins(a)
      BY <1>1, <3>2, BeginsNew
    <3>3. CASE PublishStep(a)
      BY <1>1, <3>3, CurKept
    <3> QED BY <3>1, <3>2, <3>3, ThreadFrame
  <2> QED BY <2>1, <2>2
<1>2. \A i \in DOMAIN observed : Done(observed[i])
  BY DEF ObservedDone
<1>3. CASE observed' = observed
  <2>1. \A i \in DOMAIN observed' : Done(observed[i])'
    BY <1>1, <1>2, <1>3
  <2> QED BY <2>1 DEF ObservedDone
<1>4. ASSUME NEW b \in Agents, Callbacks(b) PROVE ObservedDone'
  <2>1. /\ pc[b] # "idle" /\ UNCHANGED <<msgs, cur>> /\ observed' = Append(observed, cur[b])
        /\ \A a \in Agents : pc'[a] = IF a = b THEN "idle" ELSE pc[a]
    BY <1>4 DEF Callbacks, agentVars, TypeOK
  <2>2. cur[b] \in MsgIds /\ cur[b] \in DOMAIN msgs /\ observed \in Seq(MsgIds)
    BY <2>1, CurIsMsg DEF TypeOK
  <2>3. \A j \in DOMAIN observed' :
          observed'[j] = cur[b] \/ \E i \in DOMAIN observed : observed'[j] = observed[i]
    BY <2>1, <2>2, AppendElements
  <2>4. \A a \in Agents : pc'[a] # "idle" => cur'[a] # cur[b]
    BY <2>1, OwnMessage
  <2> SUFFICES ASSUME NEW j \in DOMAIN observed' PROVE Done(observed[j])'
    BY DEF ObservedDone
  <2>5. CASE observed'[j] = cur[b]
    BY <2>1, <2>2, <2>4, <2>5
  <2>6. ASSUME NEW i \in DOMAIN observed, observed'[j] = observed[i]
        PROVE  Done(observed[j])'
    BY <1>1, <1>2, <2>6
  <2> QED BY <2>3, <2>5, <2>6
<1> QED BY <1>3, <1>4, Frame

LEMMA NotRoutedStep ==
  TypeOK /\ PublishInv /\ NotRouted /\ [Next]_vars => NotRouted'
<1> SUFFICES ASSUME TypeOK, PublishInv, NotRouted, [Next]_vars PROVE NotRouted'
  OBVIOUS
<1>1. ASSUME NEW m \in MsgIds, m \notin DOMAIN msgs PROVE start'[m] = {}
  <2>1. \A b \in Agents : pc[b] = "route" => cur[b] # m
    BY <1>1 DEF PublishInv, DeliveryInv, CurMine
  <2> QED BY <1>1, <2>1, StartKept DEF NotRouted
<1>2. ASSUME NEW a \in Agents, pc'[a] \in {"publish", "route"} PROVE start'[cur'[a]] = {}
  <2>1. CASE Untouched(a)
    <3>1. pc[a] \in {"publish", "route"} /\ cur'[a] = cur[a] /\ pc'[a] = pc[a]
      BY <1>2, <2>1 DEF Untouched
    <3>2. cur[a] \in MsgIds /\ start[cur[a]] = {}
      BY <3>1, CurIsMsg DEF NotRouted
    <3>3. ASSUME NEW b \in Agents, RouteBroadcast(b) \/ RouteUnicast(b)
          PROVE  start'[cur[a]] = start[cur[a]]
      <4>1. pc[b] = "route" /\ (pc'[b] = "iterate" \/ pc'[b] = "put")
        BY <3>3 DEF RouteBroadcast, RouteUnicast, TypeOK
      <4>2. b # a
        BY <3>1, <4>1
      <4>3. cur[b] # cur[a]
        BY <3>1, <4>1, <4>2, OwnMessage
      <4>4. \E S : start' = [start EXCEPT ![cur[b]] = S]
        BY <3>3 DEF RouteBroadcast, RouteUnicast
      <4>5. start \in [MsgIds -> SUBSET Agents]
        BY DEF TypeOK
      <4> QED BY <3>2, <4>3, <4>4, <4>5
    <3> QED BY <3>1, <3>2, <3>3, Frame
  <2>2. CASE Begins(a)
    BY <1>1, <2>2, BeginsNew
  <2>3. CASE PublishStep(a)
    <3>1. LogEnvelope(a)
      <4> USE <1>2 DEF TypeOK
      <4>1. CASE RouteBroadcast(a) \/ RouteUnicast(a) \/ RouteUnknown(a)
        BY <4>1 DEF RouteBroadcast, RouteUnicast, RouteUnknown
      <4>2. CASE IterateRaises(a) \/ IterateEnd(a) \/ Callbacks(a)
        BY <4>2 DEF IterateRaises, IterateEnd, Callbacks
      <4>3. CASE IterateNext(a)
        BY <4>3 DEF IterateNext
      <4>4. CASE ReceiveMessage(a) \/ RetryPut(a) \/ DeadLetter(a)
        BY <4>4 DEF ReceiveMessage, RetryPut, DeadLetter, AfterEnqueue
      <4>5. CASE PutFull(a) \/ PutOk(a)
        BY <4>5 DEF PutFull, PutOk
      <4> QED BY <2>3, <4>1, <4>2, <4>3, <4>4, <4>5 DEF PublishStep
    <3> QED BY <3>1 DEF LogEnvelope, NotRouted
  <2> QED BY <2>1, <2>2, <2>3, ThreadFrame
<1>3. \A m \in MsgIds : m \notin DOMAIN msgs' => start'[m] = {}
  BY <1>1, MsgsGrow
<1> QED BY <1>2, <1>3 DEF NotRouted

LEMMA FailureCountedStep ==
  TypeOK /\ PublishInv /\ FailureCounted /\ [Next]_vars => FailureCounted'
<1> SUFFICES ASSUME TypeOK, PublishInv, FailureCounted, [Next]_vars,
                    NEW a \in Agents, pc'[a] \in {"retry", "dlq"}
             PROVE  retry_count'[cur'[a]] > 0
  BY DEF FailureCounted
<1>1. CASE Untouched(a)
  <2>1. pc[a] \in {"retry", "dlq"} /\ cur'[a] = cur[a]
    BY <1>1 DEF Untouched
  <2>2. cur[a] \in MsgIds /\ retry_count[cur[a]] > 0
    BY <2>1, CurIsMsg DEF FailureCounted
  <2>3. retry_count'[cur[a]] >= retry_count[cur[a]] /\ retry_count'[cur[a]] \in Nat
    BY <2>2, RetriesKept
  <2>4. retry_count[cur[a]] \in Nat
    BY <2>2 DEF TypeOK
  <2> QED BY <2>1, <2>2, <2>3, <2>4
<1>2. CASE PublishStep(a)
  <2>1. PutFull(a)
    <3> USE DEF TypeOK
    <3>1. CASE RouteBroadcast(a) \/ RouteUnicast(a) \/ RouteUnknown(a) \/ LogEnvelope(a)
      BY <3>1 DEF RouteBroadcast, RouteUnicast, RouteUnknown, LogEnvelope
    <3>2. CASE IterateRaises(a) \/ IterateEnd(a) \/ Callbacks(a) \/ PutOk(a)
      BY <3>2 DEF IterateRaises, IterateEnd, Callbacks, PutOk
    <3>3. CASE IterateNext(a)
      BY <3>3 DEF IterateNext
    <3>4. CASE ReceiveMessage(a) \/ RetryPut(a) \/ DeadLetter(a)
      BY <3>4 DEF ReceiveMessage, RetryPut, DeadLetter, AfterEnqueue
    <3> QED BY <1>2, <3>1, <3>2, <3>3, <3>4 DEF PublishStep
  <2>2. pc[a] = "put" /\ cur' = cur /\ retry_count' = [retry_count EXCEPT ![cur[a]] = @ + 1]
    BY <2>1 DEF PutFull
  <2>3. cur[a] \in MsgIds
    BY <2>2, CurIsMsg
  <2>4. retry_count[cur[a]] \in Nat /\ retry_count'[cur[a]] = retry_count[cur[a]] + 1
    BY <2>2, <2>3 DEF TypeOK
  <2> QED BY <2>2, <2>4
<1> QED BY <1>1, <1>2, ThreadFrame DEF Begins

\* A publish() that another thread's step leaves alone keeps its receivers.
LEMMA UntouchedStart ==
  ASSUME TypeOK, PublishInv, [Next]_vars, NEW a \in Agents, Untouched(a),
         pc[a] \in Enqueuing \cup {"iterate", "callbacks"}
  PROVE  cur[a] \in MsgIds /\ start'[cur[a]] = start[cur[a]]
<1>1. cur[a] \in MsgIds
  BY CurIsMsg DEF Enqueuing
<1>2. \A b \in Agents : pc[b] = "route" => cur[b] # cur[a]
  BY OwnMessage DEF Enqueuing
<1> QED BY <1>1, <1>2, StartKept

LEMMA SubscribersStayStep ==
  TypeOK /\ PublishInv /\ SubscribersStay /\ [Next]_vars => SubscribersStay'
<1> SUFFICES ASSUME TypeOK, PublishInv, SubscribersStay, [Next]_vars, churn' = 0
             PROVE  /\ \A t \in Topic : \A r \in subscriptions'[t] : Registered(r)'
                    /\ \A m \in MsgIds : "remove" \notin churned'[m]
                    /\ \A a \in Agents : pc'[a] \in Enqueuing /\ ~IsBroadcast(cur[a])' =>
                         start'[cur'[a]] \subseteq seen'[a]
  BY DEF SubscribersStay
<1>1. \A t \in Topic : \A r \in subscriptions'[t] : Registered(r)'
  BY SubscriptionsGrow DEF SubscribersStay, TypeOK
<1>2. churn = 0 /\ \A m \in MsgIds : "remove" \notin churned'[m]
  BY SubscriptionsGrow DEF SubscribersStay
<1> SUFFICES ASSUME NEW a \in Agents, pc'[a] \in Enqueuing, ~IsBroadcast(cur[a])'
             PROVE  start'[cur'[a]] \subseteq seen'[a]
  BY <1>1, <1>2
<1>3. ASSUME pc[a] # "idle", cur'[a] = cur[a] PROVE ~IsBroadcast(cur[a])
  BY <1>3, CurIsMsg, MsgsGrow DEF IsBroadcast
<1>4. ASSUME pc[a] \in Enqueuing, cur'[a] = cur[a], start'[cur[a]] = start[cur[a]],
             seen[a] \subseteq seen'[a]
      PROVE  start'[cur'[a]] \subseteq seen'[a]
  <2>1. pc[a] # "idle"
    BY <1>4 DEF Enqueuing
  <2> QED BY <1>2, <1>3, <1>4, <2>1 DEF SubscribersStay
<1>5. CASE Untouched(a)
  BY <1>4, <1>5, UntouchedStart DEF Untouched
<1>6. CASE PublishStep(a)
  <2>0. cur' = cur /\ pc[a] # "idle" /\ cur[a] \in MsgIds /\ ~IsBroadcast(cur[a])
    BY <1>3, <1>6, CurKept, CurIsMsg
  <2>1. CASE RouteUnicast(a)
    BY <2>0, <2>1 DEF RouteUnicast, TypeOK
  <2>2. CASE LogEnvelope(a) \/ RouteBroadcast(a) \/ RouteUnknown(a) \/ Callbacks(a)
    BY <2>2 DEF LogEnvelope, RouteBroadcast, RouteUnknown, Callbacks, Enqueuing, TypeOK
  <2>3. CASE IterateRaises(a) \/ IterateNext(a) \/ IterateEnd(a)
    BY <2>0, <2>3 DEF IterateRaises, IterateNext, IterateEnd, PublishInv, DeliveryInv,
                      IteratesBroadcast
  <2>4. CASE PutOk(a) \/ PutFull(a)
    <3>1. pc[a] \in Enqueuing /\ start' = start /\ seen' = seen
      BY <2>4 DEF PutOk, PutFull, Enqueuing
    <3> QED BY <1>4, <2>0, <3>1
  <2>5. CASE ReceiveMessage(a) \/ RetryPut(a) \/ DeadLetter(a)
    <3>1. pc[a] \in Enqueuing /\ start' = start /\ seen' = seen
      BY <2>5 DEF ReceiveMessage, RetryPut, DeadLetter, Enqueuing
    <3> QED BY <1>4, <2>0, <3>1
  <2> QED BY <1>6, <2>1, <2>2, <2>3, <2>4, <2>5 DEF PublishStep
<1> QED BY <1>5, <1>6, ThreadFrame DEF Begins, Enqueuing

\* Without unsubscribe() a fan-out that goes on is over the set of its start.
LEMMA FanoutWhole ==
  ASSUME TypeOK, PublishInv, SubscribersStay, churn = 0, NEW a \in Agents,
         pc[a] = "iterate", ~SetResized(a)
  PROVE  /\ subscriptions[TopicOf(cur[a])] = start[cur[a]]
         /\ ahead[a] = start[cur[a]] \ seen[a]
<1>1. cur[a] \in MsgIds
  BY CurIsMsg
<1>2. ~Torn(cur[a])
  BY <1>1 DEF SubscribersStay, Torn
<1> QED BY <1>2, SizeUnchanged

LEMMA HandledHaveStep ==
  ASSUME TypeOK, PublishInv, UncongestedInv, [Next]_vars
  PROVE  HandledHave'
<1> SUFFICES ASSUME churn' = 0, NEW a \in Agents, pc'[a] # "idle",
                    retry_count'[cur'[a]] = 0, NEW r \in Handled(a)'
             PROVE  In(cur'[a], received'[r])
  BY DEF HandledHave, In
<1>0. churn = 0
  BY SubscriptionsGrow
<1>1. ASSUME pc[a] # "idle", cur'[a] = cur[a] PROVE retry_count[cur[a]] = 0
  <2>1. cur[a] \in MsgIds /\ retry_count[cur[a]] \in Nat
    BY <1>1, CurIsMsg DEF TypeOK
  <2>2. retry_count'[cur[a]] >= retry_count[cur[a]]
    BY <2>1, RetriesKept
  <2> QED BY <1>1, <2>1, <2>2
<1>2. ASSUME pc[a] # "idle", cur'[a] = cur[a], r \in Handled(a), r \in Agents
      PROVE  In(cur'[a], received'[r])
  BY <1>0, <1>1, <1>2, ReceivedStays DEF UncongestedInv, HandledHave
<1>3. CASE Untouched(a)
  <2>1. pc[a] # "idle" /\ cur'[a] = cur[a] /\ pc'[a] = pc[a]
        /\ to'[a] = to[a] /\ seen'[a] = seen[a]
    BY <1>3 DEF Untouched
  <2>2. CASE pc[a] = "callbacks"
    <3>1. start'[cur[a]] = start[cur[a]] /\ cur[a] \in MsgIds
      BY <1>3, <2>2, UntouchedStart
    <3>2. r \in start[cur[a]] \ {a}
      BY <2>1, <2>2, <3>1 DEF Handled
    <3>3. r \in Handled(a) /\ r \in Agents
      BY <2>2, <3>1, <3>2 DEF Handled, TypeOK
    <3> QED BY <1>2, <2>1, <3>3
  <2>3. CASE pc[a] # "callbacks"
    <3>1. r \in Handled(a) /\ r \in Agents
      BY <2>1, <2>3 DEF Handled, TypeOK
    <3> QED BY <1>2, <2>1, <3>1
  <2> QED BY <2>2, <2>3
<1>4. CASE Begins(a)
  BY <1>4 DEF Begins, Handled
<1>5. CASE PublishStep(a)
  <2>0. cur' = cur /\ pc[a] # "idle" /\ cur[a] \in MsgIds
    BY <1>5, CurKept, CurIsMsg
  <2>1. CASE LogEnvelope(a) \/ IterateRaises(a) \/ Callbacks(a)
    BY <2>1 DEF LogEnvelope, IterateRaises, Callbacks, Handled, TypeOK
  <2>2. CASE RouteBroadcast(a)
    BY <2>2 DEF RouteBroadcast, Handled, TypeOK
  <2>3. CASE RouteUnicast(a)
    BY <2>3 DEF RouteUnicast, BeginEnqueue, Handled, TypeOK
  <2>4. CASE RouteUnknown(a)
    <3>1. pc[a] = "route" /\ pc'[a] = "callbacks" /\ start' = start
      BY <2>4 DEF RouteUnknown, TypeOK
    <3>2. start[cur[a]] = {}
      BY <3>1 DEF UncongestedInv, NotRouted
    <3> QED BY <2>0, <3>1, <3>2 DEF Handled
  <2>5. CASE IterateNext(a)
    <3>1. PICK b \in ahead[a] :
            /\ seen' = [seen EXCEPT ![a] = @ \cup {b}]
            /\ to' = [to EXCEPT ![a] = b]
            /\ pc' = [pc EXCEPT ![a] = IF b # a /\ Registered(b) THEN "put" ELSE @]
      BY <2>5 DEF IterateNext, BeginEnqueue
    <3>2. Registered(b)
      <4>1. b \in subscriptions[TopicOf(cur[a])]
        BY <1>0, <2>5, <3>1, FanoutWhole DEF IterateNext, UncongestedInv
      <4> QED BY <1>0, <4>1, TopicMapType DEF UncongestedInv, SubscribersStay, TopicOf
    <3>3. /\ pc[a] = "iterate" /\ seen'[a] = seen[a] \cup {b} /\ to'[a] = b
          /\ pc'[a] = IF b # a THEN "put" ELSE "iterate"
      BY <2>5, <3>1, <3>2 DEF IterateNext, TypeOK
    <3>4. r \in seen[a] \ {a}
      BY <3>3 DEF Handled
    <3>5. r \in Handled(a) /\ r \in Agents
      BY <3>3, <3>4 DEF Handled, TypeOK
    <3> QED BY <1>2, <2>0, <3>5
  <2>6. CASE IterateEnd(a)
    <3>1. /\ pc[a] = "iterate" /\ pc'[a] = "callbacks" /\ start' = start
          /\ ~SetResized(a) /\ ahead[a] = {}
      BY <2>6 DEF IterateEnd, TypeOK
    <3>2. ahead[a] = start[cur[a]] \ seen[a]
      BY <1>0, <3>1, FanoutWhole DEF UncongestedInv
    <3>3. start[cur[a]] \subseteq seen[a]
      BY <3>1, <3>2
    <3>4. r \in start[cur[a]] \ {a}
      BY <2>0, <3>1 DEF Handled
    <3>5. r \in Handled(a) /\ r \in Agents
      BY <3>1, <3>3, <3>4 DEF Handled, TypeOK
    <3> QED BY <1>2, <2>0, <3>5
  <2>7. CASE PutOk(a)
    <3>1. pc[a] = "put" /\ pc'[a] = "receive" /\ seen' = seen /\ to' = to
      BY <2>7 DEF PutOk, TypeOK
    <3>2. r \in Handled(a) /\ r \in Agents
      BY <3>1 DEF Handled, TypeOK
    <3> QED BY <1>2, <2>0, <3>2
  <2>8. CASE PutFull(a)
    BY <2>8 DEF PutFull, Handled, TypeOK
  <2>9. CASE ReceiveMessage(a)
    <3>1. /\ pc[a] = "receive" /\ pc'[a] = AfterEnqueue(a) /\ seen' = seen
          /\ start' = start /\ to[a] \in Agents
      BY <2>9 DEF ReceiveMessage, TypeOK
    <3>2. r \in seen[a] \ {a}
      <4>1. CASE IsBroadcast(cur[a])
        BY <3>1, <4>1 DEF AfterEnqueue, Handled
      <4>2. CASE ~IsBroadcast(cur[a])
        <5>1. start[cur[a]] \subseteq seen[a]
          BY <1>0, <3>1, <4>2 DEF UncongestedInv, SubscribersStay, Enqueuing
        <5>2. r \in start[cur[a]] \ {a}
          BY <2>0, <3>1, <4>2 DEF AfterEnqueue, Handled
        <5> QED BY <5>1, <5>2
      <4> QED BY <4>1, <4>2
    <3>3. r \in Agents
      BY <3>2 DEF TypeOK
    <3>4. CASE r # to[a]
      <4>1. r \in Handled(a)
        BY <3>1, <3>2, <3>4 DEF Handled
      <4> QED BY <1>2, <2>0, <3>3, <4>1
    <3>5. CASE r = to[a]
      <4>1. received'[r] = Append(received[r], cur[a]) /\ received[r] \in Seq(MsgIds)
        BY <2>9, <3>1, <3>5 DEF ReceiveMessage, TypeOK
      <4> QED BY <2>0, <4>1, InAppend
    <3> QED BY <3>4, <3>5
  <2>10. CASE RetryPut(a) \/ DeadLetter(a)
    <3>1. pc[a] \in {"retry", "dlq"}
      BY <2>10 DEF RetryPut, DeadLetter
    <3>2. retry_count[cur[a]] > 0 /\ retry_count[cur[a]] = 0
      BY <1>1, <2>0, <3>1 DEF UncongestedInv, FailureCounted
    <3> QED BY <3>2
  <2> QED BY <1>5, <2>1, <2>2, <2>3, <2>4, <2>5, <2>6, <2>7, <2>8, <2>9, <2>10
             DEF PublishStep
<1> QED BY <1>3, <1>4, <1>5, ThreadFrame

LEMMA UncongestedDeliveryStep ==
  ASSUME TypeOK, PublishInv, UncongestedInv, [Next]_vars
  PROVE  UncongestedDelivery'
<1> SUFFICES ASSUME churn' = 0, NEW i \in DOMAIN observed', retry_count'[observed'[i]] = 0,
                    NEW r \in start'[observed'[i]] \ {msgs'[observed'[i]].sender}
             PROVE  In(observed'[i], received'[r])
  BY DEF UncongestedDelivery, In
<1> DEFINE m == observed'[i]
<1>0. churn = 0
  BY SubscriptionsGrow
<1>1. ASSUME m \in DOMAIN msgs, m \in MsgIds, \A b \in Agents : pc[b] = "route" => cur[b] # m
      PROVE  /\ retry_count[m] = 0 /\ start'[m] = start[m] /\ msgs'[m] = msgs[m]
             /\ r \in Agents
  <2>1. retry_count'[m] >= retry_count[m] /\ retry_count[m] \in Nat
    BY <1>1, RetriesKept DEF TypeOK
  <2>2. start'[m] = start[m] /\ start[m] \subseteq Agents
    BY <1>1, StartKept DEF TypeOK
  <2> QED BY <1>1, <2>1, <2>2, MsgsGrow
<1>2. ASSUME NEW j \in DOMAIN observed, m = observed[j] PROVE In(m, received'[r])
  <2>1. /\ m \in DOMAIN msgs /\ m \in MsgIds
        /\ \A b \in Agents : pc[b] = "route" => cur[b] # m
    BY <1>2 DEF UncongestedInv, ObservedDone, TypeOK
  <2>2. In(m, received[r])
    BY <1>0, <1>1, <1>2, <2>1 DEF UncongestedInv, UncongestedDelivery
  <2> QED BY <1>1, <2>1, <2>2, ReceivedStays
<1>3. ASSUME NEW b \in Agents, Callbacks(b), m = cur[b] PROVE In(m, received'[r])
  <2>1. pc[b] = "callbacks"
    BY <1>3 DEF Callbacks
  <2>2. /\ m \in DOMAIN msgs /\ m \in MsgIds /\ msgs[m].sender = b
        /\ \A c \in Agents : pc[c] = "route" => cur[c] # m
    BY <1>3, <2>1, CurIsMsg, OwnMessage DEF PublishInv, DeliveryInv, CurMine
  <2>3. r \in Handled(b)
    BY <1>1, <1>3, <2>1, <2>2 DEF Handled
  <2>4. In(m, received[r])
    BY <1>0, <1>1, <1>3, <2>1, <2>2, <2>3 DEF UncongestedInv, HandledHave
  <2> QED BY <1>1, <2>2, <2>4, ReceivedStays
<1>4. ASSUME NEW b \in Agents, Callbacks(b), m # cur[b] PROVE \E j \in DOMAIN observed : m = observed[j]
  <2>1. observed' = Append(observed, cur[b]) /\ observed \in Seq(MsgIds) /\ cur[b] \in MsgIds
    BY <1>4, CurIsMsg DEF Callbacks, TypeOK
  <2> QED BY <1>4, <2>1, AppendElements
<1> QED BY <1>2, <1>3, <1>4, Frame

\* While nobody changes subscriptions by hand, a publish() that completed
\* without meeting a full queue has put its message into the inbox of every
\* receiver it was routed to, although the fan-out runs without the lock and
\* agents register meanwhile.
THEOREM OnlyCongestionLoses == Spec => []UncongestedDelivery
<1>1. Init => UncongestedInv
  <2> SUFFICES ASSUME Init PROVE UncongestedInv
    OBVIOUS
  <2>1. ObservedDone /\ FailureCounted /\ HandledHave /\ UncongestedDelivery
    BY DEF Init, ObservedDone, FailureCounted, HandledHave, UncongestedDelivery
  <2>2. NotRouted
    BY DEF Init, NotRouted
  <2>3. SubscribersStay
    <3>1. \A t \in Topic : \A r \in subscriptions[t] : r \in Started
      BY DEF Init
    <3>2. \A r \in Started : queues[r] = << <<>> >>
      BY BrokerAssumption DEF Init
    <3>3. Len(<< <<>> >>) = 1
      OBVIOUS
    <3>4. \A t \in Topic : \A r \in subscriptions[t] : Registered(r)
      BY <3>1, <3>2, <3>3 DEF Registered
    <3> QED BY <3>4 DEF Init, SubscribersStay, Enqueuing
  <2> QED BY <2>1, <2>2, <2>3 DEF UncongestedInv
<1>2. TypeOK /\ PublishInv /\ UncongestedInv /\ [Next]_vars => UncongestedInv'
  BY ObservedDoneStep, NotRoutedStep, FailureCountedStep, SubscribersStayStep,
     HandledHaveStep, UncongestedDeliveryStep DEF UncongestedInv
<1>3. UncongestedInv => UncongestedDelivery
  BY DEF UncongestedInv
<1> QED
  BY <1>1, <1>2, <1>3, TypeCorrect, PTL DEF Spec
=============================================================================
