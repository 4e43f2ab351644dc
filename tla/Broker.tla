------------------------------- MODULE Broker -------------------------------
(***************************************************************************)
(* The in-process publish/subscribe broker (mas/messaging/broker.py) with   *)
(* the agent side of messaging (mas/agents/base_agent.py).                  *)
(*                                                                         *)
(* Every agent runs on a thread of its own, so publish() is modelled as a   *)
(* small program per agent: the envelope is logged under the broker's lock, *)
(* everything after that (routing, put_nowait, receive_message, the retry,  *)
(* the callbacks) runs without it and interleaves with the other threads.   *)
(* A message is an index of msgs; its envelope has the same identity.       *)
(***************************************************************************)
EXTENDS Naturals, Sequences, FiniteSets

CONSTANTS
  Agents,       \* agent ids that may register (a subset of the six roles)
  Started,      \* the agents main() has registered when the model starts
  Letters,      \* the [sender, receiver, intent] that agents may send
  Consumers,    \* agents whose queue somebody consumes (the runtimes: none)
  ChurnTopics,  \* topics that subscribe()/unsubscribe() are called for
  QueueSize,    \* max_queue_size of every agent queue (500 in the code)
  MaxRetries,   \* MessageEnvelope.max_retries (3 in the code)
  MaxLog,       \* MAX_ENVELOPE_LOG (2000 in the code)
  MaxDlq,       \* MAX_DLQ (500 in the code)
  AckWindow,    \* how much of the log acknowledge() searches (200)
  MaxMsgs,      \* bound: messages created in a run
  MaxRegs,      \* bound: register() calls per agent
  MaxChurn,     \* bound: subscribe()/unsubscribe() calls
  MaxAcks       \* bound: acknowledge() calls

AGENT_IDS == {"EA", "QA", "SA", "DA", "IA", "PA"}

Topic == {"equipment", "quality", "supply", "demand", "inventory", "planning",
          "broadcast", "alerts", "cnp"}

Intent == {"CFP", "PROPOSE", "ACCEPT_PROPOSAL", "REJECT_PROPOSAL", "ACCEPT_JOB",
           "REJECT_JOB", "ALERT", "DEMAND_CHANGE", "STOCK_ALERT", "PLAN_UPDATE",
           "INFORM", "REQUEST", "ACKNOWLEDGE", "CONFIRM", "TOOL_CALL",
           "TOOL_RESULT", "STATUS_REPORT"}

\* The topic publish() derives from a message's intent.
INTENT_TOPIC_MAP(i) ==
  CASE i = "ALERT" -> "alerts"
    [] i = "DEMAND_CHANGE" -> "demand"
    [] i = "STOCK_ALERT" -> "inventory"
    [] i = "PLAN_UPDATE" -> "planning"
    [] i \in {"CFP", "PROPOSE", "ACCEPT_PROPOSAL", "REJECT_PROPOSAL",
              "ACCEPT_JOB", "REJECT_JOB"} -> "cnp"
    [] OTHER -> "broadcast"

AGENT_DEFAULT_TOPICS == [EA |-> "equipment", QA |-> "quality", SA |-> "supply",
                         DA |-> "demand", IA |-> "inventory", PA |-> "planning"]

\* What register() subscribes an agent to.
RegisterTopics(a) == {"broadcast", "alerts", "cnp", AGENT_DEFAULT_TOPICS[a]}

ASSUME BrokerAssumption ==
  /\ Agents \subseteq AGENT_IDS
  /\ Started \subseteq Agents /\ Consumers \subseteq Agents
  /\ ChurnTopics \subseteq Topic
  /\ Letters \subseteq [sender : Agents, receiver : STRING, intent : Intent]
  /\ QueueSize \in Nat \ {0} /\ MaxRetries \in Nat \ {0}
  /\ MaxLog \in Nat \ {0} /\ MaxDlq \in Nat \ {0} /\ AckWindow \in Nat \ {0}
  /\ MaxMsgs \in Nat /\ MaxRegs \in Nat /\ MaxChurn \in Nat /\ MaxAcks \in Nat

VARIABLES
  msgs,          \* every message created: [sender, receiver, intent]
  outbox,        \* BaseAgent.outbox
  inbox,         \* BaseAgent.inbox
  received,      \* history: everything receive_message was ever called with
  queues,        \* the Queue objects made for each agent; the last is current
  consumed,      \* history: what consume() returned to each agent
  subscriptions, \* MessageBroker.subscriptions
  envelope_log,  \* MessageBroker.envelope_log
  dlq,           \* MessageBroker.dlq
  retry_count,   \* MessageEnvelope.retry_count, shared by a whole fan-out
  acked,         \* envelopes with the acked flag
  metrics,       \* BrokerMetrics
  observed,      \* history: envelopes the on_message callbacks were given
  churn,         \* number of subscribe/unsubscribe calls so far
  churned,       \* history: what was done to the set a message's fan-out is over
  pc,            \* where each agent's publish() stands
  cur,           \* the message it is publishing
  start,         \* per message: the receivers when routing began
  seen,          \* receivers publish() has already handled
  to,            \* agent_id argument of the running _enqueue
  qref,          \* the Queue object that _enqueue fetched
  ahead          \* subscribers in the part of the set not yet iterated over

agentVars == <<msgs, outbox, inbox, received>>
brokerVars == <<queues, consumed, subscriptions, envelope_log, dlq, retry_count,
                acked, metrics, observed, churn, churned>>
threadVars == <<pc, cur, start, seen, to, qref, ahead>>
vars == <<agentVars, brokerVars, threadVars>>

MsgIds == 1..MaxMsgs
Cfp == [sender |-> "PA", receiver |-> "ALL", intent |-> "CFP"]
Message == Letters \cup (IF "PA" \in Agents THEN {Cfp} ELSE {})
\* BrokerMetrics: total_published, total_delivered, total_acked, total_dlq.
Metrics == [published : Nat, delivered : Nat, acked : Nat, dlq : Nat]
Steps == {"idle", "publish", "route", "iterate", "put", "receive", "retry",
          "dlq", "callbacks"}
\* The steps of publish() at which _enqueue works for one receiver.
Enqueuing == {"put", "receive", "retry", "dlq"}

Registered(a) == Len(queues[a]) > 0
TopicOf(m) == INTENT_TOPIC_MAP(msgs[m].intent)
IsBroadcast(m) == msgs[m].receiver = "ALL"

\* list[-cap // 2:] keeps the last ceil(cap / 2) elements.
Trimmed(s, cap) ==
  IF Len(s) > cap THEN SubSeq(s, Len(s) - (cap + 1) \div 2 + 1, Len(s)) ELSE s

Init ==
  /\ msgs = <<>>
  /\ outbox = [a \in Agents |-> <<>>]
  /\ inbox = [a \in Agents |-> <<>>]
  /\ received = [a \in Agents |-> <<>>]
  /\ queues = [a \in Agents |-> IF a \in Started THEN << <<>> >> ELSE <<>>]
  /\ consumed = [a \in Agents |-> <<>>]
  /\ subscriptions = [t \in Topic |-> {a \in Started : t \in RegisterTopics(a)}]
  /\ envelope_log = <<>>
  /\ dlq = <<>>
  /\ retry_count = [m \in MsgIds |-> 0]
  /\ acked = {}
  /\ metrics = [published |-> 0, delivered |-> 0, acked |-> 0, dlq |-> 0]
  /\ observed = <<>>
  /\ churn = 0
  /\ churned = [m \in MsgIds |-> {}]
  /\ pc = [a \in Agents |-> "idle"]
  /\ cur = [a \in Agents |-> 0]
  /\ start = [m \in MsgIds |-> {}]
  /\ seen = [a \in Agents |-> {}]
  /\ to = [a \in Agents |-> a]
  /\ qref = [a \in Agents |-> 0]
  /\ ahead = [a \in Agents |-> {}]

-----------------------------------------------------------------------------
(* Registration and subscription, each a critical section of _lock.  The     *)
(* sets in subscriptions are hash tables which publish() iterates over        *)
(* without the lock, slot by slot: a change moves under a running fan-out.    *)

\* publish() of a is in its loop over the subscribers of t.
Iterating(a, t) ==
  /\ pc[a] \in Enqueuing \cup {"iterate"}
  /\ IsBroadcast(cur[a]) /\ TopicOf(cur[a]) = t

\* The sets of the topics T change: note on every message whose fan-out is
\* over one of them how.
NoteChurn(T, change) ==
  churned' = [m \in MsgIds |->
                IF \E a \in Agents : cur[a] = m /\ \E t \in T : Iterating(a, t)
                THEN churned[m] \cup {change} ELSE churned[m]]

\* What a's iterator has before it once r is new in the sets of T: a set it
\* has not entered yet, whole.  Later, r may land in a slot on either side of
\* it, and a table that has to grow is rebuilt: then so may everybody else.
AheadOf(a, r, T) ==
  IF \E t \in T : Iterating(a, t)
  THEN LET S == subscriptions[TopicOf(cur[a])] \cup {r}
       IN  IF seen[a] = {} THEN {S} ELSE SUBSET S
  ELSE {ahead[a]}

\* set.add of r for the topics T; one that has r already stays as it is.
AddSubscriber(r, T) ==
  LET changed == {t \in T : r \notin subscriptions[t]} IN
    /\ subscriptions' = [t \in Topic |-> IF t \in T THEN subscriptions[t] \cup {r}
                                                    ELSE subscriptions[t]]
    /\ ahead' \in {f \in [Agents -> SUBSET Agents] :
                     \A a \in Agents : f[a] \in AheadOf(a, r, changed)}
    /\ NoteChurn(changed, "add")

\* A second registration replaces the agent's Queue by an empty one.
Register(a) ==
  /\ Len(queues[a]) < MaxRegs
  /\ queues' = [queues EXCEPT ![a] = Append(@, <<>>)]
  /\ AddSubscriber(a, RegisterTopics(a))
  /\ UNCHANGED <<agentVars, consumed, envelope_log, dlq, retry_count, acked,
                 metrics, observed, churn, pc, cur, start, seen, to, qref>>

Subscribe(a, t) ==
  /\ churn < MaxChurn
  /\ churn' = churn + 1
  /\ AddSubscriber(a, {t})
  /\ UNCHANGED <<agentVars, queues, consumed, envelope_log, dlq, retry_count,
                 acked, metrics, observed, pc, cur, start, seen, to, qref>>

\* set.discard empties r's slot wherever it is, and moves nobody.
Unsubscribe(r, t) ==
  /\ churn < MaxChurn
  /\ churn' = churn + 1
  /\ subscriptions' = [subscriptions EXCEPT ![t] = @ \ {r}]
  /\ ahead' = [a \in Agents |-> IF Iterating(a, t) THEN ahead[a] \ {r} ELSE ahead[a]]
  /\ NoteChurn(IF r \in subscriptions[t] THEN {t} ELSE {}, "remove")
  /\ UNCHANGED <<agentVars, queues, consumed, envelope_log, dlq, retry_count,
                 acked, metrics, observed, pc, cur, start, seen, to, qref>>

-----------------------------------------------------------------------------
(* publish(), one action per step another thread can run between.           *)

\* AgentMessage.create: the message exists, its publish() is about to start.
Create(l) ==
  /\ pc[l.sender] = "idle"
  /\ Len(msgs) < MaxMsgs
  /\ msgs' = Append(msgs, l)
  /\ cur' = [cur EXCEPT ![l.sender] = Len(msgs) + 1]

\* send_message: without a broker the message only lands in the outbox.
SendMessage(l) ==
  /\ Create(l)
  /\ outbox' = [outbox EXCEPT ![l.sender] = Append(@, Len(msgs) + 1)]
  /\ pc' = [pc EXCEPT ![l.sender] = IF Registered(l.sender) THEN "publish" ELSE @]
  /\ UNCHANGED <<inbox, received, brokerVars, start, seen, to, qref, ahead>>

\* _broadcast_cfp publishes directly: the CFP is never in the outbox.
BroadcastCfp ==
  /\ "PA" \in Agents /\ Registered("PA")
  /\ Create(Cfp)
  /\ pc' = [pc EXCEPT !["PA"] = "publish"]
  /\ UNCHANGED <<outbox, inbox, received, brokerVars, start, seen, to, qref, ahead>>

\* Under _lock: append to the log, trim it to half when it overflows.
LogEnvelope(a) ==
  /\ pc[a] = "publish"
  /\ envelope_log' = Trimmed(Append(envelope_log, cur[a]), MaxLog)
  /\ metrics' = [metrics EXCEPT !.published = @ + 1]
  /\ pc' = [pc EXCEPT ![a] = "route"]
  /\ UNCHANGED <<agentVars, queues, consumed, subscriptions, dlq, retry_count,
                 acked, observed, churn, churned, cur, start,
                 seen, to, qref, ahead>>

RouteBroadcast(a) ==
  /\ pc[a] = "route" /\ IsBroadcast(cur[a])
  /\ start' = [start EXCEPT ![cur[a]] = subscriptions[TopicOf(cur[a])]]
  /\ ahead' = [ahead EXCEPT ![a] = subscriptions[TopicOf(cur[a])]]
  /\ seen' = [seen EXCEPT ![a] = {}]
  /\ pc' = [pc EXCEPT ![a] = "iterate"]
  /\ UNCHANGED <<agentVars, brokerVars, cur, to, qref>>

\* _enqueue(r) begins: fetch r's Queue object; a missing one ends it at once.
BeginEnqueue(a, r) ==
  /\ to' = [to EXCEPT ![a] = r]
  /\ qref' = [qref EXCEPT ![a] = Len(queues[r])]

RouteUnicast(a) ==
  /\ pc[a] = "route" /\ ~IsBroadcast(cur[a])
  /\ \E r \in Agents :
       /\ msgs[cur[a]].receiver = r /\ Registered(r)
       /\ BeginEnqueue(a, r)
       /\ start' = [start EXCEPT ![cur[a]] = {r}]
       /\ seen' = [seen EXCEPT ![a] = {r}]
  /\ pc' = [pc EXCEPT ![a] = "put"]
  /\ UNCHANGED <<agentVars, brokerVars, cur, ahead>>

\* An unknown receiver: dead letter, trimmed like the log.
RouteUnknown(a) ==
  /\ pc[a] = "route" /\ ~IsBroadcast(cur[a])
  /\ ~ \E r \in Agents : msgs[cur[a]].receiver = r /\ Registered(r)
  /\ dlq' = Trimmed(Append(dlq, cur[a]), MaxDlq)
  /\ metrics' = [metrics EXCEPT !.dlq = @ + 1]
  /\ pc' = [pc EXCEPT ![a] = "callbacks"]
  /\ UNCHANGED <<agentVars, queues, consumed, subscriptions, envelope_log,
                 retry_count, acked, observed, churn, churned, cur, start,
                 seen, to, qref, ahead>>

\* The subscriber set is iterated without the lock.  CPython compares the
\* set's size with the one at the start on every step of the iteration, and
\* nothing else: a set that lost one subscriber and gained one passes.
SetResized(a) == Cardinality(subscriptions[TopicOf(cur[a])])
                   # Cardinality(start[cur[a]])

\* Mutant: the RuntimeError is caught and the fan-out started again.
IterateRaises_StartsAgain(a) ==
  /\ pc[a] = "iterate" /\ SetResized(a)
  /\ pc' = [pc EXCEPT ![a] = "route"]
  /\ ahead' = [ahead EXCEPT ![a] = {}]
  /\ UNCHANGED <<agentVars, brokerVars, cur, start, seen, to, qref>>

\* RuntimeError: Set changed size during iteration.  It leaves publish();
\* the agents not reached yet and the callbacks get nothing.
IterateRaises(a) ==
  /\ pc[a] = "iterate" /\ SetResized(a)
  /\ pc' = [pc EXCEPT ![a] = "idle"]
  /\ ahead' = [ahead EXCEPT ![a] = {}]
  /\ UNCHANGED <<agentVars, brokerVars, cur, start, seen, to, qref>>

\* Mutant: the sender of a broadcast is not left out.
IterateNext_Sender(a) ==
  /\ pc[a] = "iterate" /\ ~SetResized(a)
  /\ \E r \in ahead[a] :
       /\ ahead' = [ahead EXCEPT ![a] = @ \ {r}]
       /\ seen' = [seen EXCEPT ![a] = @ \cup {r}]
       /\ BeginEnqueue(a, r)
       /\ pc' = [pc EXCEPT ![a] = IF Registered(r) THEN "put" ELSE @]
  /\ UNCHANGED <<agentVars, brokerVars, cur, start>>

\* The next occupied slot: not always that of a subscriber of the start, nor
\* of one who was not served before.
IterateNext(a) ==
  /\ pc[a] = "iterate" /\ ~SetResized(a)
  /\ \E r \in ahead[a] :
       /\ ahead' = [ahead EXCEPT ![a] = @ \ {r}]
       /\ seen' = [seen EXCEPT ![a] = @ \cup {r}]
       /\ BeginEnqueue(a, r)
       /\ pc' = [pc EXCEPT ![a] = IF r # a /\ Registered(r) THEN "put" ELSE @]
  /\ UNCHANGED <<agentVars, brokerVars, cur, start>>

\* The end of the table.
IterateEnd(a) ==
  /\ pc[a] = "iterate" /\ ~SetResized(a) /\ ahead[a] = {}
  /\ pc' = [pc EXCEPT ![a] = "callbacks"]
  /\ UNCHANGED <<agentVars, brokerVars, cur, start, seen, to, qref, ahead>>

\* Mutant: a delivered envelope falls through to the dead letter branch.
AfterEnqueue_FallThrough(a) ==
  CASE pc[a] = "receive" -> "dlq"
    [] IsBroadcast(cur[a]) /\ pc[a] # "receive" -> "iterate"
    [] OTHER -> "callbacks"

\* Where publish() goes on when _enqueue returns.
AfterEnqueue(a) == IF IsBroadcast(cur[a]) THEN "iterate" ELSE "callbacks"

QueueFull(a) == Len(queues[to[a]][qref[a]]) >= QueueSize

\* put_nowait on the Queue object fetched earlier, then record_delivery.
PutNowait(a) ==
  /\ queues' = [queues EXCEPT ![to[a]][qref[a]] = Append(@, cur[a])]
  /\ metrics' = [metrics EXCEPT !.delivered = @ + 1]

\* Mutant: the first put, too, leaves the inbox alone.
PutOk_QueueOnly(a) ==
  /\ pc[a] = "put" /\ ~QueueFull(a)
  /\ PutNowait(a)
  /\ pc' = [pc EXCEPT ![a] = AfterEnqueue(a)]
  /\ UNCHANGED <<agentVars, consumed, subscriptions, envelope_log, dlq,
                 retry_count, acked, observed, churn, churned, cur, start,
                 seen, to, qref, ahead>>

PutOk(a) ==
  /\ pc[a] = "put" /\ ~QueueFull(a)
  /\ PutNowait(a)
  /\ pc' = [pc EXCEPT ![a] = "receive"]
  /\ UNCHANGED <<agentVars, consumed, subscriptions, envelope_log, dlq,
                 retry_count, acked, observed, churn, churned, cur, start,
                 seen, to, qref, ahead>>

\* Mutant: the newest message goes to the front of the inbox.
ReceiveMessage_Front(a) ==
  /\ pc[a] = "receive"
  /\ inbox' = [inbox EXCEPT ![to[a]] = <<cur[a]>> \o @]
  /\ received' = [received EXCEPT ![to[a]] = <<cur[a]>> \o @]
  /\ pc' = [pc EXCEPT ![a] = AfterEnqueue(a)]
  /\ UNCHANGED <<msgs, outbox, brokerVars, cur, start, seen, to, qref, ahead>>

\* agent.receive_message, under the receiving agent's lock.
ReceiveMessage(a) ==
  /\ pc[a] = "receive"
  /\ inbox' = [inbox EXCEPT ![to[a]] = Append(@, cur[a])]
  /\ received' = [received EXCEPT ![to[a]] = Append(@, cur[a])]
  /\ pc' = [pc EXCEPT ![a] = AfterEnqueue(a)]
  /\ UNCHANGED <<msgs, outbox, brokerVars, cur, start, seen, to, qref, ahead>>

\* except Full: count the failure on the envelope, which the whole fan-out
\* shares, and decide between one retry and the dead letter queue.
PutFull(a) ==
  /\ pc[a] = "put" /\ QueueFull(a)
  /\ retry_count' = [retry_count EXCEPT ![cur[a]] = @ + 1]
  /\ pc' = [pc EXCEPT ![a] = IF retry_count[cur[a]] + 1 < MaxRetries
                             THEN "retry" ELSE "dlq"]
  /\ UNCHANGED <<agentVars, queues, consumed, subscriptions, envelope_log, dlq,
                 acked, metrics, observed, churn, churned, cur, start,
                 seen, to, qref, ahead>>

\* Mutant: retries until there is room.
RetryPut_Forever(a) ==
  /\ pc[a] = "retry"
  /\ \/ /\ ~QueueFull(a)
        /\ PutNowait(a)
        /\ pc' = [pc EXCEPT ![a] = AfterEnqueue(a)]
     \/ /\ QueueFull(a)
        /\ UNCHANGED <<queues, metrics, pc>>
  /\ UNCHANGED <<agentVars, consumed, subscriptions, envelope_log, dlq,
                 retry_count, acked, observed, churn, churned, cur, start,
                 seen, to, qref, ahead>>

\* The retry after the sleep: a success fills the Queue only (no
\* receive_message), a second Full is logged and forgotten.
RetryPut(a) ==
  /\ pc[a] = "retry"
  /\ \/ /\ ~QueueFull(a)
        /\ PutNowait(a)
     \/ /\ QueueFull(a)
        /\ UNCHANGED <<queues, metrics>>
  /\ pc' = [pc EXCEPT ![a] = AfterEnqueue(a)]
  /\ UNCHANGED <<agentVars, consumed, subscriptions, envelope_log, dlq,
                 retry_count, acked, observed, churn, churned, cur, start,
                 seen, to, qref, ahead>>

\* retry_count reached max_retries: dead letter, without a trim.
DeadLetter(a) ==
  /\ pc[a] = "dlq"
  /\ dlq' = Append(dlq, cur[a])
  /\ metrics' = [metrics EXCEPT !.dlq = @ + 1]
  /\ pc' = [pc EXCEPT ![a] = AfterEnqueue(a)]
  /\ UNCHANGED <<agentVars, queues, consumed, subscriptions, envelope_log,
                 retry_count, acked, observed, churn, churned, cur, start,
                 seen, to, qref, ahead>>

\* The on_message callbacks; what they raise is swallowed.
Callbacks(a) ==
  /\ pc[a] = "callbacks"
  /\ observed' = Append(observed, cur[a])
  /\ pc' = [pc EXCEPT ![a] = "idle"]
  /\ UNCHANGED <<agentVars, queues, consumed, subscriptions, envelope_log, dlq,
                 retry_count, acked, metrics, churn, churned, cur, start,
                 seen, to, qref, ahead>>

-----------------------------------------------------------------------------
(* The receiving side.                                                      *)

\* pop_inbox; only PlanningAgent.sense calls it.
PopInbox ==
  /\ "PA" \in Agents /\ inbox["PA"] # <<>>
  /\ inbox' = [inbox EXCEPT !["PA"] = <<>>]
  /\ UNCHANGED <<msgs, outbox, received, brokerVars, threadVars>>

\* consume(), and each turn of consume_all(); an empty queue returns nothing.
Consume(a) ==
  /\ Registered(a)
  /\ LET q == Len(queues[a]) IN
       /\ queues[a][q] # <<>>
       /\ consumed' = [consumed EXCEPT ![a] = Append(@, Head(queues[a][q]))]
       /\ queues' = [queues EXCEPT ![a][q] = Tail(@)]
  /\ UNCHANGED <<agentVars, subscriptions, envelope_log, dlq, retry_count, acked,
                 metrics, observed, churn, churned, threadVars>>

\* acknowledge() of a consumed envelope: looks for it, not yet acked, in the
\* tail of the log; the counter goes up whether or not it is found.
Acknowledge(a, m) ==
  /\ \E i \in DOMAIN consumed[a] : consumed[a][i] = m
  /\ metrics.acked < MaxAcks
  /\ LET n == Len(envelope_log)
         tail == {envelope_log[i] : i \in {j \in 1..n : j > n - AckWindow}}
     IN  acked' = acked \cup ({m} \cap tail)
  /\ metrics' = [metrics EXCEPT !.acked = @ + 1]
  /\ UNCHANGED <<agentVars, queues, consumed, subscriptions, envelope_log, dlq,
                 retry_count, observed, churn, churned, threadVars>>

-----------------------------------------------------------------------------
\* The steps of a publish() that has begun.
PublishStep(a) ==
  \/ LogEnvelope(a)
  \/ RouteBroadcast(a) \/ RouteUnicast(a) \/ RouteUnknown(a)
  \/ IterateRaises(a) \/ IterateNext(a) \/ IterateEnd(a)
  \/ PutOk(a) \/ ReceiveMessage(a) \/ PutFull(a) \/ RetryPut(a) \/ DeadLetter(a)
  \/ Callbacks(a)

Next ==
  \/ \E a \in Agents :
       \/ Register(a)
       \/ \E t \in ChurnTopics : Subscribe(a, t) \/ Unsubscribe(a, t)
       \/ PublishStep(a)
       \/ \E m \in MsgIds : Acknowledge(a, m)
  \/ \E a \in Consumers : Consume(a)
  \/ \E l \in Letters : SendMessage(l)
  \/ BroadcastCfp
  \/ PopInbox

Spec == Init /\ [][Next]_vars

\* A thread inside publish() keeps running: nothing in it blocks for ever
\* (put_nowait, short critical sections, a 10 ms sleep).
FairSpec == Spec /\ \A a \in Agents : WF_vars(PublishStep(a))
-----------------------------------------------------------------------------
(* Properties.                                                              *)

In(m, s) == \E i \in DOMAIN s : s[i] = m

\* m is meant for r: r is its receiver, or m is a broadcast of someone else.
Addressed(m, r) ==
  \/ msgs[m].receiver = r
  \/ IsBroadcast(m) /\ msgs[m].sender # r

\* A subscriber was taken from the set under m's fan-out and one was added, so
\* that its size need not tell the iterator: all bets on m are off.
Torn(m) == churned[m] = {"add", "remove"}

\* The type of every variable.
TypeOK ==
  /\ msgs \in Seq(Message)
  /\ Len(msgs) <= MaxMsgs
  /\ outbox \in [Agents -> Seq(MsgIds)]
  /\ inbox \in [Agents -> Seq(MsgIds)]
  /\ received \in [Agents -> Seq(MsgIds)]
  /\ queues \in [Agents -> Seq(Seq(MsgIds))]
  /\ consumed \in [Agents -> Seq(MsgIds)]
  /\ subscriptions \in [Topic -> SUBSET Agents]
  /\ envelope_log \in Seq(MsgIds)
  /\ dlq \in Seq(MsgIds)
  /\ retry_count \in [MsgIds -> Nat]
  /\ acked \subseteq MsgIds
  /\ metrics \in Metrics
  /\ observed \in Seq(MsgIds)
  /\ churn \in Nat
  /\ churned \in [MsgIds -> SUBSET {"add", "remove"}]
  /\ pc \in [Agents -> Steps]
  /\ cur \in [Agents -> 0..MaxMsgs]
  /\ start \in [MsgIds -> SUBSET Agents]
  /\ seen \in [Agents -> SUBSET Agents]
  /\ to \in [Agents -> Agents]
  /\ qref \in [Agents -> Nat]
  /\ ahead \in [Agents -> SUBSET Agents]

\* A running publish() works on a message of its own agent.
CurMine ==
  \A a \in Agents : pc[a] # "idle" =>
    cur[a] \in DOMAIN msgs /\ msgs[cur[a]].sender = a

\* cur is the latest message of each agent: publish() calls do not nest.
CurLatest == \A m \in DOMAIN msgs : m <= cur[msgs[m].sender]

ReceivedPosted ==
  \A r \in Agents : \A i \in DOMAIN received[r] : received[r][i] \in DOMAIN msgs

\* _enqueue works for a receiver the message is meant for, which the routing
\* has marked as handled, and on an existing Queue object.
EnqueueTarget ==
  \A a \in Agents : pc[a] \in Enqueuing =>
    /\ Addressed(cur[a], to[a])
    /\ to[a] \in seen[a]
    /\ qref[a] \in DOMAIN queues[to[a]]

IteratesBroadcast == \A a \in Agents : pc[a] = "iterate" => IsBroadcast(cur[a])

\* The receivers publish() has still to hand its message to.
Pending(a, r) ==
  \/ pc[a] \in {"publish", "route"}
  \/ pc[a] \in Enqueuing \cup {"iterate"} /\ r \notin seen[a]
  \/ pc[a] \in {"put", "receive"} /\ r = to[a]

NotYetReceived ==
  \A a, r \in Agents : Pending(a, r) /\ ~Torn(cur[a]) => ~In(cur[a], received[r])

\* A fan-out over a set that nobody changed has its start before it, less what
\* it has seen; one over a set that only grew, or only shrank, has a set of
\* another size than it started with, and will raise.
FanoutSound(a) ==
  LET m == cur[a]
      S == subscriptions[TopicOf(m)]
  IN  /\ "add" \in churned[m] \/ S \subseteq start[m]
      /\ "remove" \in churned[m] \/ start[m] \subseteq S
      /\ Torn(m) \/ churned[m] = {} \/ S # start[m]
      /\ churned[m] = {} => ahead[a] = start[m] \ seen[a]

FanoutInv ==
  /\ \A m \in MsgIds : m \notin DOMAIN msgs => churned[m] = {}
  /\ \A a \in Agents : pc[a] \in {"publish", "route"} => churned[cur[a]] = {}
  /\ \A a \in Agents : Iterating(a, TopicOf(cur[a])) => FanoutSound(a)

\* What holds of the running publish() calls between any two steps, from
\* which ReceivedOnce and SenderOrder follow: each works on the latest message
\* of its own agent and on an existing Queue object, for a receiver the message
\* is meant for, and a receiver it has not handled does not have the message
\* (unless the subscriber set was swapped under it).
DeliveryInv ==
  /\ CurMine /\ CurLatest /\ ReceivedPosted
  /\ IteratesBroadcast /\ EnqueueTarget /\ NotYetReceived

PublishInv == DeliveryInv /\ FanoutInv

\* No agent's inbox gets the same message twice, whatever the retries, the
\* other publishers and registrations do (publish, _enqueue).  Only an
\* unsubscribe() and an addition under one fan-out, which leave the set at a
\* size its iterator accepts, can bring an agent before it a second time.
ReceivedOnce ==
  \A r \in Agents : \A i, j \in DOMAIN received[r] :
    received[r][i] = received[r][j] => i = j \/ Torn(received[r][i])

\* Messages of one sender reach an inbox in the order they were created: a
\* message that waits in _enqueue's retry is never overtaken by a later one,
\* and one that a torn fan-out hands over again is still the sender's latest.
SenderOrder ==
  \A r \in Agents : \A i, j \in DOMAIN received[r] :
    i < j /\ msgs[received[r][i]].sender = msgs[received[r][j]].sender
      => \/ received[r][i] < received[r][j]
         \/ received[r][i] = received[r][j] /\ Torn(received[r][i])

\* No Queue object exceeds max_queue_size, although no lock is held from the
\* moment _enqueue fetches it to the retried put.
QueuesBounded ==
  \A r \in Agents : \A k \in DOMAIN queues[r] : Len(queues[r][k]) <= QueueSize

\* What receive_message handed over was put in a Queue of the agent before
\* (and is there, was consumed, or sits in a Queue a re-registration replaced):
\* of the two delivery channels of _enqueue the inbox never runs ahead.
InboxWasQueued ==
  \A r \in Agents : \A i \in DOMAIN received[r] :
    \/ In(received[r][i], consumed[r])
    \/ \E k \in DOMAIN queues[r] : In(received[r][i], queues[r][k])

\* The two channels of a delivery, Queue and inbox, while agents register again
\* and subscriptions change: no message is received twice unless its fan-out is
\* torn, no Queue overflows, and nothing is received that was not queued.
ChannelsSound == ReceivedOnce /\ QueuesBounded /\ InboxWasQueued

\* A dead-lettered envelope really failed to reach somebody it was meant for
\* (publish of an unknown receiver, _enqueue with the retries used up), unless
\* its fan-out was torn and the failure was a second delivery.
DeadLetterUndelivered ==
  \A i \in DOMAIN dlq :
    LET m == dlq[i] IN
      \/ \A r \in Agents : msgs[m].receiver # r /\ ~IsBroadcast(m)
      \/ Torn(m)
      \/ \E r \in Agents : Addressed(m, r) /\ ~In(m, received[r])

\* While no subscription is changed by hand, a message whose publish()
\* completed and that met no full queue is in the inbox of every receiver it
\* was routed to: the only way to lose one is a full queue.
UncongestedDelivery ==
  churn = 0 =>
    \A i \in DOMAIN observed :
      LET m == observed[i] IN
        retry_count[m] = 0 =>
          \A r \in start[m] \ {msgs[m].sender} : In(m, received[r])

\* publish() always returns to its caller: no sequence of full queues,
\* re-registrations or subscription changes keeps a sender in it.
PublishReturns == \A a \in Agents : pc[a] # "idle" ~> pc[a] = "idle"

\* The module's docstring promises "At-least-once" delivery with a dead letter
\* queue for undelivered messages: once publish() returned, every receiver the
\* message was routed to has it, or the envelope is in the DLQ.
AtLeastOnceOrDeadLetter ==
  \A i \in DOMAIN observed :
    \A r \in start[observed[i]] \ {msgs[observed[i]].sender} :
      In(observed[i], received[r]) \/ In(observed[i], dlq)

\* The promise publish() keeps: a mailbox that may lose messages but neither
\* reorders them nor, its fan-out not torn, duplicates one (see Mailbox.tla).
Promise == INSTANCE Mailbox WITH posted <- msgs, mail <- received,
                                 again <- {m \in MsgIds : Torn(m)}
ImplementsMailbox == Promise!Spec
=============================================================================
