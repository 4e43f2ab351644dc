# A TLA+ development of the manufacturing multi-agent system

This directory models the Python program under `src/mas`: six agents (EA, QA,
SA, DA, IA, PA) that watch a simulated six-station factory, exchange messages
over an in-process broker and negotiate the line speed in contract-net (CNP)
rounds. TLC checks the modules on small instances; TLAPS proves every safety
property of the passing runs for all values of the constants.

## 1. Inventory

The process of `main.py` has these threads, which share Python objects and few
locks: ENV-TICK (`FactoryRuntime._env_loop`), EVENT-GEN (`_event_loop`), one
thread per agent (`_agent_loop`), and the web server's. `run_scenario.py` runs a
second runtime (`AgentRuntime`) over the same factory with a warehouse and a
demand model; its threads are SC-ENV, SC-EVENT and the agents'.

| Component | State | Operations | Interaction | What makes it correct |
|---|---|---|---|---|
| Message broker, `messaging/broker.py`, `message.py` | agent queues, subscriptions, envelope log, DLQ, metrics | register, subscribe, unsubscribe, publish/`_enqueue`, consume, acknowledge | called on the sender's thread; puts into a `Queue` and the receiver's inbox; callbacks | no duplicates and order per sender unless a set is exchanged under its own fan-out, bounded queues, a loss only where a queue is full, publish() returns |
| Agent messaging, `agents/base_agent.py` | inbox, outbox | send_message, receive_message, pop_inbox | called by broker and by the agent's own thread | what was received was queued before |
| Planning agent and CNP round, `agents/planning_agent.py`, `protocol/cnp_session.py`, `planning_sub/` | session, cooldown, strategy log | sense, reason, initiate_cnp | asks the other agents, sets the stations' speeds | speeds within the constraints, rounds apart, rounds end, a timed-out round leaves no trace |
| Factory runtime, `runtime/factory_runtime.py` | cached snapshot, `_cnp_in_progress`, counters, log buffer | the loops, `_apply_dynamics`, `_run_pa` | owns the threads | its flag and PA's session agree; events are not lost |
| Factory and stations, `domain/environment.py`, `machines.py` | machines, products, orders, materials, counters | run_cycle, get_snapshot, breakdown, repair, shipments, consumption | written by ENV-TICK, EVENT-GEN and PA with no lock; read by the API | conservation of products and shipments, every failure repaired, consistent snapshots |
| Business events, `domain/business_events.py` | bounded deque | append, tail | appended by run_cycle, copied by get_snapshot in one C call | bounded, newest kept |
| Proposals and strategy, `protocol/cnp_comparison.py`, `planning_sub/`, `intelligence/optimization_engine.py`, `domain_inference.py` | none | normalise, score, rank, choose, explain, report | computed inside a round; the LLM may add words | scoring twice changes nothing, one winner everywhere, numbers are the solver's |
| Sense-reason-act pipeline, `protocol/agent_protocol.py`, `sra_langgraph.py` | the agent's state, decisions | run_cycle_with_router | agent thread; router before reason | alerts survive the fallback, except PA's own and those PA's full Queue loses |
| Decision router, `intelligence/decision_router.py` | decision log | route: safety rule, threshold rule, LLM, reasoning | called by the pipeline | bounded log; rules before anything else |
| Domain agents EA, QA, SA, DA, IA | estimates, queues, modes, histories | sense, reason, act, handle_cfp, execute_accepted_proposal | alerts to PA; bids, and QA's mode, on PA's thread | bids within what a round expects, no stale life estimate missed |
| Scenario runtime and environment, `runtime/scenario_runtime.py`, `domain/manufacturing_env.py`, `inventory.py`, `demand.py`, `scenario/loader.py`, `run_scenario.py` | warehouse, demand, breaches, results | cycle, receive, ship, new order, stop, results | results are read while SC-ENV may still run | stock booked once per warehouse, requests equal credits, runs end |
| REST and SSE server, `api/server.py` | one queue per SSE client, the event loop | stream, ask, push, start, stop | pushed to by runtime threads; asks the LLM on the loop | a slow client harms nobody else, questions are answered, streams end |
| LLM client, `intelligence/llm.py`, `monitoring_qa.py` | call log, audit log, counters | complete_json, complete_text | PA's thread and the server's, no lock | bounded logs that show the latest calls |
| MQTT bridge, `messaging/mqtt_bridge.py` | connection, subscriptions | publish, subscribe, callbacks | no traffic in this program (section 7) | |
| Tools, mock models, agentic loop, contract-net helper | registry metrics | | built, never called (section 7) | |
| Configuration, logging, schema, command line | none | | | |

Hard behaviours: publish() runs mostly without the broker's lock; the
factory has no lock at all, so read-modify-write sequences of ENV-TICK,
EVENT-GEN and PA interleave; PA decides on a copy of a snapshot while production
goes on; a round has a deadline that is looked at between two responders only;
queues are bounded and, in the runtimes, never consumed; PA's thread runs the
other agents' `handle_cfp` while their own threads work; the server's one event
loop is held by blocking calls; stop() joins nobody. The list with source lines
is `hazards` in `PROJECT.json`.

## 2. Modules

| Module | Models | Used by |
|---|---|---|
| `Broker` | broker and agent messaging | `MCBroker`, `BrokerProofs` |
| `Mailbox` | abstract: what the broker promises | instantiated by `Broker` |
| `Planning` | PA's thread, the CNP round, the line speed shared with EVENT-GEN | `MCPlanning`, `PlanningProofs` |
| `FactoryLine` | production cycles, events, dynamics, snapshots: the products | `MCFactoryLine`, `FactoryLineProofs` |
| `Machine` | one work center's counters, tool, sensor, and the room temperature | `MCMachine`, `FactoryLineProofs` |
| `DomainAgents` | operators: what EA, QA, SA, DA, IA and the router compute | `AgentCycle`, `Strategy` |
| `AgentBids` | the bids `Planning` assumes and `AgentCycle` shows | `MCPlanning`, `AgentCycle` |
| `AgentCycle` | the six agent threads over `DomainAgents` | `MCAgentCycle`, `AgentCycleProofs` |
| `Strategy` | from bids to the strategy and its report | `MCStrategy`, `StrategyProofs` |
| `ScenarioEnv` | a scenario run: warehouse, demand, results | `MCScenarioEnv`, `ScenarioEnvProofs` |
| `SseHub` | event streams | `ApiServer` |
| `LlmClient` | the shared LLM client and its logs | `ApiServer` |
| `ApiServer` | composition of the two on the server's event loop | `MCApiServer`, `ApiServerProofs` |
| `SumLemmas` | no model: what the proofs need to know of sums | all proofs that count or add up |

The `MC` modules hold the constants' values; the `Proofs` modules the
theorems. A definition called `X_Y` with the comment "Mutant" is a broken variant
of `X`, used to see that a property can fail; no specification refers to it.

Everywhere a step ends where CPython may switch threads: at a call or a loop's
jump back. A plain `x += 1` is one step; `x += f()` is two. Agent loops, dynamics
and events exist twice, in `factory_runtime.py` and `scenario_runtime.py`, line for
line alike; the map names one of the copies.

### Broker

A message is an index of `msgs`, and its envelope has the same identity. `pc[a]`
says where the publish() of agent `a` stands: `publish` (log the envelope under
the lock), `route`, `iterate` (the loop over the subscriber set), `put`, `receive`,
`retry`, `dlq`, `callbacks`. Every boundary is a place where another thread can run. A
`Queue` object is a member of `queues[a]`: `register()` makes a new one, while a
running `_enqueue` keeps the object it fetched (`qref`). `retry_count` is kept
per envelope, as in the code, so a fan-out shares it. `received`, `consumed`,
`observed`, `start` and `churned` are histories.

The subscriber set is a hash table that the fan-out walks slot by slot without the
lock. CPython compares only the set's size with that at the loop's start: if it differs,
the loop raises (`IterateRaises`), out of publish(). `ahead[a]` is what the iterator of
`a` has before it. A subscriber that is removed leaves its slot empty; one that is added
may land before the iterator or behind it, and a table that grows is rebuilt, so that
anybody may then be before it again (`AheadOf`). After one removal and one addition
the size is what it was, and such a fan-out, called torn (`Torn`), serves an agent
twice or skips one. In the program itself nobody calls subscribe or unsubscribe once
agents are running, and register only before the runtime starts (main.py:106,
run_scenario.py:112); the broker's interface admits all of them at any time.

### Planning

`pc` is PA's thread: `sleep`, `sense`, `begin`, `collect`, `execute`, `apply`.
`SenseReason` is sense(), reason() and the test of `_cnp_in_progress` in one step: only
PA's thread touches what they read, apart from the inbox, which is popped under
its lock. Which proposal wins is free: the scores are data, and every
property holds for every ranking. Exceptions of a responder are the branch of
`CollectNext` without a proposal. `elapsed` counts clock ticks up to just beyond
the deadline. `speed_recovery` is two actions because `random.randint` runs
between the read and the write of the speed. QA's bids are in Korean in the
code; `tightened` stands for 강화 and `total` for 전수. An exception that leaves
`initiate_cnp` has no action: it would leave `_cnp_in_progress` set for good, since
`_run_pa` clears the flag without a `finally` (factory_runtime.py:334-347), but outside
its `try` blocks (publishing the CFP, the collection, the LLM call, the execution) no
statement of the round was found that raises.

### FactoryLine

ENV-TICK is a program: `StartCycle`, then per station `CheckStation`,
`EnterMachine` (and `EnteredMachine`), `JudgeQuality`; `FinishGood` or `FinishOther`;
`ShipNext`/`ShipEnd` per order; `ConsumeRead`/`ConsumeWrite`/`ConsumeEnd` per
material; `EnvSnapTotals`/`EnvPublish`; `RepairNext`/`RepairEnd`;
`RefillNext`/`RefillAdd`/`RefillEnd`. EVENT-GEN is `BreakdownCheck` and
`TriggerBreakdown`, `NewOrder`, `MaterialArrival`; the API is `ApiSnapTotals` and
`ApiServe`. A step ends where CPython may switch threads (a call of Python code, a loop's
jump back) between two accesses to something another thread writes. `EnumYields`
tells two builds apart: on Python 3.10 and 3.11, which `pyproject.toml` admits,
looking up `MachineState.RUNNING` runs Python code, so `execute_cycle` can be
interrupted between its check of the state and its store of RUNNING; on 3.12 it
cannot.

Sensor values, shifts, times and energy decide only how a part is judged and how
long a repair takes; both are free choices. Tool wear and drift are in `Machine`.

### Machine

One station and the room temperature, in the steps FactoryLine abstracts from.
`env.pc` is ENV-TICK in `_update_ambient`, `run_cycle`/`execute_cycle` and
`_apply_dynamics`; `gen.pc` is EVENT-GEN in a breakdown, wear spike, shock or
temperature change; `api.pc` is an unlocked `get_status`. `seen` is what a thread
has read before a call and stores a sum of after it. `hist` counts what was
added, and what fell between such a read and its store. The drift a sensor has of its own
(`DriftPerCycle`) may be negative, as that of the nugget diameter is (machines.py:420):
its `_drift` then falls below zero, and recover() raises it to zero at least.

### DomainAgents and AgentCycle

`DomainAgents` has no state: alerts, memories and bids as functions of a snapshot
whose stations, sensors, materials and orders are records of small integers.
What an agent's buffers would have accumulated (trend, control-chart rules, Cpk) is
part of the snapshot. `AgentCycle` runs them: `Wake` copies the snapshot, `Sense`
(for EA one step per station), `Decide` (router and reason), `SendAlert`, `EndCycle`;
PA takes its inbox, decides, then `Collect`s a bid from each agent on its own thread
and `Execute`s. `Fault` is an exception: in the graph path it leads to the
sequential path, which starts again from sense; there it ends the cycle, and the
agent's state stays what it was. `sources` remembers from which snapshots EA's
half-renewed estimates come. An alert goes through the broker: `Publish` puts it into PA's
Queue, which no runtime consumes, and into the inbox, or, once that Queue has taken
`QueueSize` messages, nowhere (the retries, drops and dead letters of that are in
`Broker`). `Collect` takes
no bid (`NoBid`) from an agent whose handle_cfp raises: EA's iterates over the dictionary
of estimates EA's own thread may be filling (`Growing`). An inbox tells alerts apart by severity only, so it is
a count for each. `SnapshotsOf(n)` is the type of a snapshot of `n` stations; that no
sensor of one has a name in QA's `_spec_limits` is assumed, because `get_snapshot`
takes the names from the keys in machines.py, which are English.

### Strategy

One round as computation: `Collect` and `CollectFails` (normalise, clamp, first
evaluation), `RankAll` (second evaluation and sort), `BuildByRules` or
`BuildBySolver`, and `Report`. The LLM is off, raises, or gives one of `LlmAnswers`: nothing,
opinions on every number but no rationale (the words are then canned ones, under a
decision that is still called hybrid), or a rationale too. Metrics are hundredths and scores ten-thousandths, so that the four
decimals the code rounds to are exact. A block of metrics is a function on the keys
the dict has, so that `Get` sees a missing key; `Or` is Python's `or`, for which zero
is missing too. The sort is a stable one by `Place`, the number of proposals that come
before one. `RawBids` is what the agents may send, `IsRawBid` what is known of it.

### ScenarioEnv

`Config` is what the loader makes of a scenario file and the command line.
SC-ENV's cycle is `cycle`, `deliver`, `receive`, `ship`, `orders`/`credit`, `record`,
`breach`, `publish`, `count`; SC-EVENT places an order in the factory's list and then in
the demand's; the main thread polls `total_cycles`, may be interrupted, clears
`_running`, and reads the results in four steps. `env.open` is the copy of the open
orders that SC-ENV loops over, as the set of indices still to be served, the least first.

### SseHub, LlmClient, ApiServer

`SseHub`: a client is absent, connected (its queue listed, its generator not yet
run), streaming, ended or left; a push copies the list of queues and puts one by
one. The broker's `on_message` runs on whichever thread publishes, so every agent's
thread is a pusher, and ENV-TICK pushes its ticks too. `LlmClient`: a request waits,
answers or fails; `_audit` and the call log append and then cut as separate steps; the
error path holds on to a list that may have been replaced (`stale`). `ApiServer` puts both
on one event loop: `loop` says what holds it, an idle generator's blocking `get` or a
question's LLM request. `Bind` has three outcomes: the server is up; the port is taken and
`enabled` cleared; the port was free when checked and is not any more when uvicorn binds
it, so that the thread ends and `enabled` stays. A posted `body` is a question, a blank one
(also when it is no JSON), or JSON that is no object, whose `.get` raises outside the
handler's try. `bound` picks one of three small instances per behaviour: two browsers and
more events than a queue holds; a browser and a question answered by rules; the same
with an LLM.

## 3. Runs

Where several facts tell one story, a run checks their conjunction: `ChannelsSound`,
`RoundOutcome`, `ShipmentsSound`, `ThreadsConsistent`, `RecordsAgree`, `LogsSound`,
`StreamsSound`, `ServerSound`, `RankingSound`, `OneStrategy` and `CountsAgree`. The parts
have names and comments of their own in the modules. The types of all modules are proved.

| Run | Result | Shows |
|---|---|---|
| `broker_traffic` | pass | Three agents, alerts to PA and calls for proposals, queues of one: order, dead letters, no loss but by a full queue while nobody changes subscriptions by hand, the refinement of `Mailbox`, and that publish() returns |
| `broker_admin` | pass | Queue and inbox agree and nobody gets a message twice but from a torn fan-out (`ChannelsSound`), while agents register again, subscribe, unsubscribe and acknowledge under a running publish() |
| `broker_atleastonce` | violation | A message that meets a full queue reaches neither inbox nor DLQ |
| `planning_rounds` | pass | Rounds with the runtime's bids, expiring deadlines, stale snapshots and speed recovery: speeds within the constraints, rounds apart, accounted for and ending |
| `factory_line` | pass | Products, defects, shipments and snapshots balance in every interleaving |
| `factory_repairs` | pass | Without switch points in Enum lookups every counted failure is repaired or keeps its machine down |
| `factory_lost_breakdown` | violation | With them, `execute_cycle` overwrites a breakdown |
| `agent_cycles` | pass | Six agent threads, two snapshots, one exception, a Queue of PA that fills up: alerts are accounted for, bids are those `Planning` assumes, EA's bid never misses a station that is short of life, a critical alert starts a round |
| `scenario_env` | pass | Goods, requests, credits, breaches and snapshots agree while orders arrive, the results stay coherent although nobody is joined, and every run ends |
| `api_server` | pass | Order and losses per client while another client's queue is full, who reads which queue, the LLM's logs, the truth of an answer's mode; questions are answered, streams drain and end |
| `strategy` | pass | Scoring twice, ranking, solver, LLM and report agree on one winner with the solver's numbers; a better bid never scores lower unless a metric is zero, which the code reads as missing |
| `machine` | pass | What of a station's counters, wear, drift and temperature unlocked updates may lose, with a spike that two cycles outrun and a sensor that drifts downwards |

**Bounds.** Every bound is a constant whose name starts with `Max`. The limits of
the code (500, 2000, 10 cycles, ...) are shrunk so that they are
reached: a queue of one message and two retries fill up with two messages; a
log of two envelopes trims with the third; three agents are the least with two
receivers of a broadcast. `broker_admin` allows two changes of subscriptions, the least that
tear a fan-out, so an agent is served twice in that run; `broker_traffic` has none
(`MaxChurn` 0), since `UncongestedDelivery` promises nothing once there are any. In `Planning` two responders give a round with none, one
or both proposals, two stations put a recovery between two writes of the same
round, and four cycles with a cooldown of one hold two rounds. In `FactoryLine`
two stations have a first, a last and a predecessor; three cycles and one small
order let finished goods pile up, so that a shipment can be cut by the
order as well as by the stock; two events are enough for a breakdown and an
order or two breakdowns. In `AgentCycle` a calm
and a critical snapshot make every agent change its mind once; two wake-ups of the
domain agents let one of them work with the old snapshot while another has the new
one; PA's Queue takes two messages and is then full. `Machine` has two ticks and a
spike of one cycle, so that more cycles can fall into a spike than it takes and the life
goes back, and three events; a tool life of 5 passes all regions. That the region goes
back takes longer runs; `ToolsOnlyWear` is proved for those too. `ScenarioEnv` aims at four cycles and
may run to six, with one new order. `ApiServer` has queues of two
and, for two browsers, three events, so that one browser's queue is full while the other
reads; logs of one entry and two LLM requests of PA, so that logs are cut. `Strategy` takes all
combinations of bids just below, at and above each agent's thresholds. All but
`Planning` end when their bounds are used up, so their runs do not check
deadlock; PA wakes up for ever and `planning_rounds` does.

**Fairness.** `Broker!FairSpec` has weak fairness of each thread inside publish():
`put_nowait` does not block, the locks are held for a few statements, the one
sleep lasts 10 ms. Nothing is assumed of consumers, new messages or
registrations. `Planning!FairSpec` has weak fairness of PA's thread:
`handle_cfp` and `execute_accepted_proposal` compute locally, the LLM call has a
timeout. Neither production, events nor alerts are assumed to go on.
`AgentCycle!FairSpec` is the same for PA's thread. `ScenarioEnv!Fairness`: SC-ENV, the
second half of a new order, the end of SC-EVENT's loop and the main thread go on,
since they sleep for bounded times; orders and interrupts need not come. The
threads are daemons: this is about the time the process lives, which main ends.
`ApiServer!FairSpec`: asyncio runs its ready tasks in turn, so a generator or a
posted question that is ready again and again gets the loop (strong fairness: others
hold it in between); a `get` times out after a second and an LLM request at the
client's timeout (weak fairness). Browsers, pushes, questions, PA and stop() are free.

## 4. Findings

* `broker.py:18-20` promises at-least-once delivery and a DLQ for what is
  undelivered. `_enqueue`'s retry puts into the queue without
  `receive_message`, and a second failure below `max_retries` is dropped.
* `execute_cycle` (machines.py:259-263) can overwrite a breakdown with RUNNING:
  the failure is counted, the machine is never repaired.

Divergences met while modelling that have no run of their own:

* In the runtimes nobody consumes PA's Queue in the broker. After `max_queue_size` messages
  every further alert to PA meets a full Queue, and the retry that finds no room
  does not reach its inbox either: PA hears nothing more for the rest of the process
  (`AlertsAccountedFor`; factory_runtime.py and scenario_runtime.py have no call of consume).
* publish() raises out of send_message when a set it iterates over changes its size, and
  an exchange of subscribers under it delivers twice or skips (broker.py:253-255).
* EA's `handle_cfp` iterates over `_rul_estimates` on PA's thread while EA's own may be
  adding a station to it: the RuntimeError is swallowed and the round does without EA's bid.

* `ARCHITECTURE.md:482` has PA start a round on two alerts; `reason()` wants one
  CRITICAL or two HIGH and the cooldown, and drops alerts that do not qualify.
* `HOW_IT_WORKS.md:165` says only a round changes the line's speed; the
  `speed_recovery` event does too and can write back a speed it read before the round.
* `run_cycle` judges a part at a machine that broke down after its check, although
  `execute_cycle` returned no readings (`UncountedPartsBounded`, a part of `CountsAgree`, bounds the effect).
* With the LLM enabled `cnp_numeric_strategy` maps 전수 (total inspection) to
  "standard" before `clamp_strategy` looks for it, so `approval_required` stays
  false, unlike in `tests/test_cnp_golden.py:91-94`. QA never bids 전수, so no run
  of the program meets it.
* `_consume_materials` (environment.py:408) can overwrite an arrival; `ArrivalsInStock`
  shows that nothing else is lost. `get_snapshot` (environment.py:469) reads totals and
  orders at different moments.
* QA's Cpk is never computed: `_spec_limits` has Korean names, the sensors English ones.
  QA therefore always bids 90 % and 강화, and a round that QA's own alert starts
  turns its total inspection into a tightened one (quality_agent.py:197, 265-268).
  Its run rule 4 is called "3점 중 2점" and looks at nine points (322-324).
* The router's LLM route is unreachable: PA's alerts have no `type`, other agents'
  observations no `alerts` (against agent_protocol.py:111).
* `cnp_comparison` picks defaults with `or`: an effect, cost or risk of 0.0 counts as
  missing. It calls an expected effect "float 0~1" (cnp_comparison.py:16); QA's default
  Cpk of 2 makes it 1.25.
* The runtimes call `mqtt.publish_dict` (factory_runtime.py:167, scenario_runtime.py:137),
  which does not exist; the AttributeError is swallowed each tick.
* An answer of the LLM without a rationale gets canned words (optimization_engine.py:116)
  under a decision called `hybrid_solver_llm`.
* `_drift` of a sensor that drifts downwards falls below zero, and recover()'s
  `max(0, ...)` (machines.py:199) then raises it.
* A JSON body of /api/ask that is no object raises outside the handler's try
  (server.py:206-207): the client gets a bare 500 instead of mode "error". A port that is taken
  between the check and uvicorn's bind (server.py:487-493) ends the thread with `enabled` set.
* The LLM client's error path appends to `call_log` without cutting it.
* SSE: a client that leaves before its generator runs leaks its queue; two pushers may
  give two clients different orders; stop() before the server is up does not reach it.
* Scenario runs count a good unit twice: it may be delivered to a factory order and is
  received by the warehouse (manufacturing_env.py:63-66); process_shipments ignores what
  ship() returns and credits the request; the file's event probabilities are loaded
  (loader.py:255) and not used (scenario_runtime.py:174-178).
* Sensors for which high is healthy (machines.py:420, 433, 459) always read CRITICAL
  (156). OEE's availability cancels out, so that downtime never enters it (323-343,
  against ARCHITECTURE.md:664). Tools are never changed: reset and start_setup have no caller.
* IA takes `max(priority, "MEDIUM")` of strings (inventory_agent.py:131); DA reports
  its utilisation as `on_time_rate`.

## 5. Proofs

All theorems hold for all constants that satisfy the modules' `ASSUME`s.

**BrokerProofs.** The inductive invariant is `TypeOK` with `PublishInv`. Its first half
is about deliveries: a running publish() works on the latest message of its own agent
(`CurMine`, `CurLatest`), `_enqueue` works for somebody the message is meant for and on
an existing queue (`EnqueueTarget`, `IteratesBroadcast`), and a receiver not handled yet has
not received the message unless the fan-out is torn (`NotYetReceived`). The second half
(`FanoutInv`) is about the set under a fan-out: if nobody changed it, the iterator has
before it what it started with less what it has served; if subscribers were only added or
only removed, the set's size is not what it was, so the loop raises and serves nobody
else. What is left is the torn fan-out, which nothing is promised of. `SenderOrder` and
`ReceivedOnce` are not inductive: that the message about to be received is newer
than all of its sender's in that inbox follows from `CurLatest` and `NotYetReceived` only,
and a torn fan-out that serves an agent again still brings the sender's latest message.
`InOrderAndOnce` proves both, and `Implements` proves the refinement of `Mailbox`
step by step, with the torn messages as those that `Mailbox` may hand over again:
creating a message is `Post`, `ReceiveMessage` is `Deliver`, a change of subscriptions may
be `Tamper`, everything else stutters. On top of it: `ChannelsAgree` needs that a message
between `put_nowait` and `receive_message` is queued already (`ReceivingQueued`);
`DeadLettersStayUndelivered` needs that somebody who missed a message is not going to get it
any more (`Lost`), since "not received" alone could be undone by a
fan-out still under way; `OnlyCongestionLoses` needs that a failed put leaves its mark
on the envelope (`FailureCounted`), that subscribers stay while a fan-out iterates
(`SubscribersStay`), and that every receiver dealt with has the message or a failure
(`HandledHave`).

**PlanningProofs.** The inductive invariant is `TypeOK`, `PlanningInv` and
`SpeedWithinConstraints`: flag, session and thread agree (`RoundState`), a round
being carried out has a strategy that was bid (`StrategyMade`,
`ExecutedSoFar`), a recovery in flight holds a speed of the line
(`RecoveryHoldsSpeed`), and snapshots never go back (`LastRoundKnown`). From it
follow `SpeedSafe`, `CooldownKept`, `RoundsAddUp` and, with it, `OutcomeSound` (every
round accounted for, no trace of a timed-out one, an applied strategy is the winner's bid).
They rest on the constant `Bids`; that the agents keep to it is `BidsAreAsAssumed` below.

**FactoryLineProofs.** `NoProductLost` proves `LineFlow` for a line of any length from
`TypeOK` and `StepInv` (where the loops stand); `NothingOverDelivered`,
`BreaksOnlyRunning` and, for builds without `EnumYields`, `EveryFailureRepaired`
follow on top of it. That the machine EVENT-GEN has chosen is still running when
it is stopped rests on a fact about the whole program: nothing but EVENT-GEN itself
takes a machine out of RUNNING. `DefectsAreSettled` and `ShipmentsAreSound` are
about sums over all stations and all orders, which a step changes in one term;
`SnapshotsBalance` adds what a get_snapshot under way has read (`SnapInv`), and
`OnlyTheWindowLosesMaterial` what a consumption is about to store (`StockInv`).

Its last part is about `Machine`. `MachineTypesHold` needs that a spike in flight holds a
natural number.
`WearAccounted` becomes inductive with `SpikeHoldsLife`: only cycles, all counted in the
spike's window, have moved on from the life a spike in flight has read. `ToolOnlyWears` holds
for any spike and any number of ticks: a life goes back only in the store of a spike that more
cycles outran than it takes, and the region, by `RegionReached` and the monotonicity of
`RegionOf`, only after one. The code's spikes are 50 to 200 cycles and a window is one
call long, but nothing enforces that. `DriftAccounted` holds for sensors that drift either way; it
needs `RecoveryHoldsDrift` (only shocks, all counted, have moved on from the drift a recovery
has read) and `OneDirection` (a sensor's own drift never changes its sign);
`AmbientAtRest` is inductive itself. `UncountedPartsBounded` needs
`PartPaidFor`: the part about to be judged has a counted cycle or a failure of its own;
`StatusInOrder` rests on it. The types, `AmbientAtRest`, the broker's `PublishInv`,
PA's `PlanningInv` and the factory's `NoOverDelivery` and `BreakdownHitsRunning` have
theorems for every instance.

**ScenarioEnvProofs.** One invariant per question, over the types and `StepInv` (a
quantity is under way exactly between the warehouse's shipment and its credit).
`GoodsInv` places the one part between line and warehouse. `LedgerInv` says that the
quantity under way fits the order it is for, which is what keeps a credit from being
cut, and that an order's status agrees with its credits; it is proved with the sum of
all credits. `HistoryInv` says how far stock history and breach counter have come in
the current cycle; the counter is the cardinality of the set of low cycles. `ResultsInv`
compares each value the main thread has read with the one it reads later, and rests on
`_running` being false by then, so that SC-ENV finishes at most one cycle.

**ApiServerProofs.** Each component sees a step of the server as one of its own or as
a stutter (`LlmNext`, `SseNext`). `LogsAreSound` is inductive once the excess of a log
is the number of threads between append and cut, a cardinality that changes by one.
`StreamsAreSound`, for any pushing threads, needs that a push serves each client of its copied list once
(`LeftOnce`) and that a client still to be served has not seen the event
(`NotYetSeen`); without them an event could be queued twice or after its successor.
`AnswersAreTrue` follows from what is known of a question before it is answered
(`AskInv`), whatever was posted.

**AgentCycleProofs.** First what the agents compute, for every snapshot of the type:
alerts have a severity, bids have their ranges, a bottleneck is a station,
remaining life is a number. `ThreadsAreConsistent` says of alerts that those in the inbox, those
in hand and those the broker did not deliver are all that were sent and not reasoned
about, unless an exception in PA's own cycle lost some, and that none is undelivered
before PA's Queue is full. It needs that a thread inside its
cycle holds a snapshot (`HeldInv`), that PA has alerts in hand only between sense and
reason (`PendingInv`: otherwise its next sense would drop them), and that QA's Cpk
stays at its default (`CpkInv`), from which `BidsAreAsAssumed` follows for every state
an agent's thread may be in. `TotalInspectionIsJustified` uses that PA's round can only
set QA's mode to what QA bid. `EaBidsFromLastTwo` needs `EstimatesInv`: the stations before the
current one have the estimates of the snapshot in hand, so that a completed pass leaves
one snapshot's estimates behind; an exception in between starts the pass again.

**StrategyProofs.** Three layers. The sort, for any sequence and key: `Above` is a
strict weak order (`AboveAsymmetric`, `AboveTransitive`, `LevelAlike`), hence `Before`, which
breaks ties by position, a strict total one; so the places of the proposals differ, and
being as many as the places there are, they fill them (`PlaceTaken`): a sorted sequence
has the members of the original one in order (`SortedProperties`), and its head is the
first with the best key (`SortedHead`). The scores, for any metrics in their scale:
normalising what was normalised changes nothing, although a zero is replaced by a default
or by a synonym (`NormalizeAgain`), so that a second evaluation changes nothing
(`EvaluateAgain`); the product of effect and confidence, the penalty and the rounding
are monotone (`BetterScores`). The round: the invariant `StrategyInv` says that
everything collected is an evaluated bid and the ranking is its sorted form
(`RankedAll`), that the strategy is the first one's (`DecisionMade`), and that the
LLM's context is that of its reading (`ContextKnown`). An answer of the LLM is merged key by key, numbers ignored
(`SolverFields`), for every member of `LlmAnswers`. `OneWinner` is not inductive
without the ranking's order, which the solver's sort by another key needs to keep the
winner (`SolverKeepsWinner`). From it follow `RankingIsSound`, `OneStrategyMade`,
`BetterBidsScoreHigher` and `SignalsNeverContradict`. `AgentsBidInScale` shows that what
each agent returns is what `StrategyAssumption` says of `RawBids`.

**SumLemmas.** The library defines a sum over a finite set by a fold. Its value is an
integer, does not depend on the order of the terms and follows a change of one term.
The library's induction rule cannot be instantiated by the provers installed here;
the lemmas use the least element of a set of naturals instead, taken from
the well-foundedness of `<`.

**Assumptions.** Beyond ranges of constants: the LLM client is called by PA and the
server, PA is one of the threads that push events and the server's is not
(`ApiAssumption`); no sensor's name is in QA's limits, and snapshots have
the types of `get_snapshot` (`AgentCycleAssumption`); the speed limits of a round lie
within the 40 to 100 % to which the solver clamps (`StrategyAssumption`), as those of
`CNPConstraints`, built only with its defaults, do: with wider limits the solver and the
ranking would name different speeds.

**Only model-checked.** The leads-to properties: `PublishReturns`, `RoundEnds`,
`CriticalStartsRound`, `RunEnds`, `AskAnswered`, `StreamsDrain` and `StreamsEnd`. They rest
on fairness, which is out of the prover's reach.

## 6. Plan

Done: all modules above, and a theorem for every safety property the passing runs check.
Worth adding: the MQTT bridge and the factory runtime's start and stop, once the runtimes
call what the bridge offers.

## 7. Not modelled

* The MQTT bridge: nothing is published through it and nobody subscribes, because the
  runtimes call a method it does not have. Its callbacks under a non-reentrant lock,
  its count of active topics and its local fallback would matter with traffic.
* The business event store: one writer, a fixed maximum, and readers that copy it in one C call.
* Tool registry, mock models, agentic loop and the contract-net helper: built or
  defined, never called. The same holds of demand forecasts and setup changes.
* Prompts and wording of the LLM, REST routes that only read and format, configuration, logging,
  terminal output and JSON schemas: no state that others depend on.
* start and stop of the factory runtime, whose pattern and consequences are in
  `ScenarioEnv`, and its log buffer, appended and cut under a lock of its own.
