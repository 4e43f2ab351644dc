----------------------------- MODULE AgentCycle -----------------------------
(***************************************************************************)
(* The agent threads: the runtime's _agent_loop, run_cycle_with_router with *)
(* its LangGraph path and the sequential path it falls back to, the         *)
(* decision router, and each agent's sense, reason and act.  What the       *)
(* agents compute is in DomainAgents; here is who runs when.                *)
(*                                                                         *)
(* Every agent is a thread.  PA's thread calls into the others: in a        *)
(* contract-net round it runs their handle_cfp and QA's                     *)
(* execute_accepted_proposal while their own threads are anywhere in their  *)
(* cycle, and no lock guards what those read and write.                     *)
(***************************************************************************)
EXTENDS DomainAgents, AgentBids

CONSTANTS
  Agents,       \* the domain agents whose threads run, among EA QA SA DA IA
  Responders,   \* the same agents, in the order of the runtime's agents dict
  Snapshots,    \* the snapshots ENV-TICK may publish, as a sequence
  NumStations,  \* stations in each of them
  LlmEnabled,   \* llm_client.enabled
  Cooldown,     \* cycles between two rounds (10)
  OeeGap,       \* cycles before a low OEE alone starts a round (30)
  QueueSize,    \* max_queue_size of PA's Queue in the broker (500)
  LogMax,       \* entries that make the router trim its log (300) ...
  LogKeep,      \* ... to this many (150)
  MaxCycle,     \* bound: production cycles of a run
  MaxWakes,     \* bound: cycles of the domain agents together
  Faulty,       \* bound: the threads in which an exception may be raised
  MaxFaults     \* bound: exceptions raised inside a cycle

ASSUME AgentCycleAssumption ==
  /\ Agents \subseteq {"EA", "QA", "SA", "DA", "IA"}
  /\ Responders \in Seq(Agents) /\ Range(Responders) = Agents
  /\ NumStations \in Nat \ {0}
  /\ Snapshots \in Seq(SnapshotsOf(NumStations))
  /\ \A i \in DOMAIN Snapshots : CpkStatus(Snapshots[i]) = {}
  /\ LlmEnabled \in BOOLEAN
  /\ Cooldown \in Nat /\ OeeGap \in Nat /\ QueueSize \in Nat
  /\ LogMax \in Nat /\ LogKeep \in 0..LogMax
  /\ MaxCycle \in Nat /\ MaxWakes \in Nat
  /\ Faulty \subseteq Agents \cup {"PA"} /\ MaxFaults \in Nat

VARIABLES
  cycle, cached,  \* the cached snapshot: its cycle and its index; 0: none yet
  pc,             \* where each thread stands
  fallen,         \* whether the graph path gave up and the sequential one runs
  held,           \* the index and cycle of the snapshot each thread works with
  state,          \* AgentState, as the dashboard shows it
  todo,           \* the alerts act() has still to send
  station,        \* EA's loop over the stations in sense()
  rul,            \* EA._rul_estimates
  queue,          \* EA._maintenance_queue
  mode,           \* QA._inspection_mode
  cpk,            \* the worst value at the end of QA._cpk_history
  reorder_log,    \* SA._reorder_log
  util,           \* DA._capacity_util
  flow,           \* IA's bottleneck, scrap rate, WIP alerts and throughput
  queued,         \* envelopes in PA's Queue, which no runtime ever consumes
  inbox,          \* the alerts in PA's inbox: how many of each severity
  pending,        \* those PA's cycle works with
  last_cnp_cycle, \* PA._last_cnp_cycle
  bids,           \* the proposals of the running round, NoBid where there is none
  logged,         \* entries of HybridDecisionRouter._decision_log
  wakes, faults,  \* the bounded counts
  unread,         \* history: alerts sent to PA minus alerts PA reasoned about
  undelivered,    \* history: the sent alerts that never came to PA's inbox
  sources,        \* history: the snapshots EA's estimates may come from
  judged          \* history: the snapshot QA last reasoned about; 0: none

envVars == <<cycle, cached>>
threadVars == <<pc, fallen, held, state, todo, station, wakes, faults, sources, judged>>
memVars == <<rul, queue, mode, cpk, reorder_log, util, flow>>
mailVars == <<queued, inbox, unread, undelivered>>
paVars == <<mailVars, pending, last_cnp_cycle, bids>>
vars == <<envVars, threadVars, memVars, paVars, logged>>

NoSnap == [index |-> 0, cycle |-> 0]
NoBid == [speed |-> 0, mode |-> "none", cost |-> 0, viol |-> 0]
Threads == Agents \cup {"PA"}
Snap(a) == Snapshots[held[a].index]

Init ==
  /\ cycle = 0 /\ cached = 0
  /\ pc = [a \in Threads |-> "sleep"]
  /\ fallen = [a \in Threads |-> FALSE]
  /\ held = [a \in Threads |-> NoSnap]
  /\ state = [a \in Threads |-> "IDLE"]
  /\ todo = [a \in Agents |-> <<>>]
  /\ station = 1
  /\ rul = [s \in 1..NumStations |-> NoRul]
  /\ queue = {}
  /\ mode = "standard" /\ cpk = 200
  /\ reorder_log = <<>>
  /\ util = 0
  /\ flow = [bottleneck |-> 0, scrap |-> 0, wip |-> 0, throughput |-> <<>>]
  /\ inbox = NoAlerts /\ pending = NoAlerts
  /\ last_cnp_cycle = 0 /\ bids = <<>>
  /\ logged = 0
  /\ wakes = 0 /\ faults = 0
  /\ queued = 0 /\ unread = 0 /\ undelivered = 0
  /\ sources = {} /\ judged = 0

\* The cycle of a thread is over.
Sleeps(a) ==
  /\ held' = [held EXCEPT ![a] = NoSnap]
  /\ fallen' = [fallen EXCEPT ![a] = FALSE]

-----------------------------------------------------------------------------
\* ENV-TICK publishes the snapshot of another production cycle.
EnvTick(i) ==
  /\ cycle < MaxCycle
  /\ cycle' = cycle + 1
  /\ cached' = i
  /\ UNCHANGED <<threadVars, memVars, paVars, logged>>

\* _agent_loop: after its interval a thread copies the cached snapshot; without
\* one it sleeps on.
Wake(a) ==
  /\ pc[a] = "sleep" /\ cached # 0
  /\ a \in Agents => wakes < MaxWakes
  /\ wakes' = IF a \in Agents THEN wakes + 1 ELSE wakes
  /\ held' = [held EXCEPT ![a] = [index |-> cached, cycle |-> cycle]]
  /\ pc' = [pc EXCEPT ![a] = "sense"]
  /\ UNCHANGED <<envVars, fallen, state, todo, station, faults, sources, judged,
                 memVars, paVars, logged>>

\* Mutant: the estimate of a station is only renewed when it got worse.
EaSense_OnlyWorse ==
  /\ pc["EA"] = "sense"
  /\ state' = [state EXCEPT !["EA"] = "SENSING"]
  /\ LET r == RulOf(Snap("EA").stations[station])
     IN  rul' = [rul EXCEPT ![station] = IF rul[station] = NoRul THEN r
                                         ELSE IF r < @ THEN r ELSE @]
  /\ IF station < NumStations
     THEN /\ station' = station + 1
          /\ sources' = sources \cup {held["EA"].index}
          /\ UNCHANGED pc
     ELSE /\ station' = 1
          /\ pc' = [pc EXCEPT !["EA"] = "decide"]
          /\ sources' = {held["EA"].index}
  /\ UNCHANGED <<envVars, fallen, held, todo, wakes, faults, judged, queue, mode,
                 cpk, reorder_log, util, flow, paVars, logged>>

\* EA's sense(): one station's estimate after the other.
EaSense ==
  /\ pc["EA"] = "sense"
  /\ state' = [state EXCEPT !["EA"] = "SENSING"]
  /\ rul' = [rul EXCEPT ![station] = RulOf(Snap("EA").stations[station])]
  /\ IF station < NumStations
     THEN /\ station' = station + 1
          /\ sources' = sources \cup {held["EA"].index}
          /\ UNCHANGED pc
     ELSE /\ station' = 1
          /\ pc' = [pc EXCEPT !["EA"] = "decide"]
          /\ sources' = {held["EA"].index}
  /\ UNCHANGED <<envVars, fallen, held, todo, wakes, faults, judged, queue, mode,
                 cpk, reorder_log, util, flow, paVars, logged>>

\* The sense() of QA, SA, DA and IA: what each remembers for its bid.
Sense(a) ==
  /\ a # "EA" /\ pc[a] = "sense"
  /\ state' = [state EXCEPT ![a] = "SENSING"]
  /\ cpk' = IF a = "QA" THEN WorstCpk(Snap(a)) ELSE cpk
  /\ util' = IF a = "DA" THEN CapacityUtil(Snap(a), held[a].cycle) ELSE util
  /\ flow' = IF a = "IA" THEN IaFlow(Snap(a), flow) ELSE flow
  /\ pc' = [pc EXCEPT ![a] = "decide"]
  /\ UNCHANGED <<envVars, fallen, held, todo, station, wakes, faults, sources, judged,
                 rul, queue, mode, reorder_log, paVars, logged>>

\* Mutant: the inbox is read and not cleared.
PaSense_NotCleared ==
  /\ pc["PA"] = "sense"
  /\ state' = [state EXCEPT !["PA"] = "SENSING"]
  /\ pending' = inbox
  /\ pc' = [pc EXCEPT !["PA"] = "decide"]
  /\ UNCHANGED <<envVars, fallen, held, todo, station, wakes, faults, sources,
                 judged, memVars, mailVars, last_cnp_cycle, bids, logged>>

\* PA's sense() empties the inbox.
PaSense ==
  /\ pc["PA"] = "sense"
  /\ state' = [state EXCEPT !["PA"] = "SENSING"]
  /\ pending' = inbox
  /\ inbox' = NoAlerts
  /\ pc' = [pc EXCEPT !["PA"] = "decide"]
  /\ UNCHANGED <<envVars, fallen, held, todo, station, wakes, faults, sources,
                 judged, memVars, queued, unread, undelivered, last_cnp_cycle,
                 bids, logged>>

\* _record: the log is cut when it has grown over its limit.
Record(n) == IF n + 1 > LogMax THEN LogKeep ELSE n + 1

\* The router, which runs before reason(): a decision of its own is recorded,
\* and its only actions are log lines.
Route(a, alerts) ==
  logged' = IF RouteOf(a, Snap(a), alerts, LlmEnabled) = "none"
            THEN logged ELSE Record(logged)

\* reason(): the alerts to send.
AlertsOf(a, snap) ==
  CASE a = "EA" -> EaAlerts(snap)
    [] a = "QA" -> QaAlerts(snap)
    [] a = "SA" -> SaAlerts(snap)
    [] a = "DA" -> DaAlerts(snap, util)
    [] a = "IA" -> IaAlerts(snap)

\* The router and reason() of a domain agent.  QA changes its inspection mode
\* here, before its alerts go out.
Decide(a) ==
  /\ pc[a] = "decide"
  /\ state' = [state EXCEPT ![a] = "REASONING"]
  /\ Route(a, NoAlerts)
  /\ todo' = [todo EXCEPT ![a] = AlertsOf(a, Snap(a))]
  /\ mode' = IF a = "QA" THEN QaMode(Snap(a), mode) ELSE mode
  /\ judged' = IF a = "QA" THEN held[a].index ELSE judged
  /\ pc' = [pc EXCEPT ![a] = "act"]
  /\ UNCHANGED <<envVars, fallen, held, station, wakes, faults, sources, rul,
                 queue, cpk, reorder_log, util, flow, paVars>>

\* PA's reason() over the snapshot it holds, however old that is by now.
PaRound(alerts) ==
  CallsForRound(alerts, Snap("PA"), held["PA"].cycle - last_cnp_cycle,
                Cooldown, OeeGap)

\* The router, reason() and the empty act() of PA, then _run_pa: a round begins
\* or the alerts are logged and gone.  initiate_cnp remembers the cycle first.
PaDecide ==
  /\ pc["PA"] = "decide"
  /\ Route("PA", pending)
  /\ unread' = unread - Count(pending)
  /\ pending' = NoAlerts
  /\ state' = [state EXCEPT !["PA"] = "IDLE"]
  /\ IF PaRound(pending)
     THEN /\ last_cnp_cycle' = held["PA"].cycle
          /\ pc' = [pc EXCEPT !["PA"] = "collect"]
     ELSE /\ pc' = [pc EXCEPT !["PA"] = "sleep"]
          /\ UNCHANGED last_cnp_cycle
  /\ Sleeps("PA")
  /\ UNCHANGED <<envVars, todo, station, wakes, faults, sources,
                 judged, memVars, queued, inbox, undelivered, bids>>

\* The broker's publish() of an alert: into PA's Queue and PA's inbox, or, with
\* the Queue full, into neither.  (The retry finds it full again: nobody takes
\* anything out.  See Broker for the steps in between.)
Publish(severity) ==
  /\ unread' = unread + 1
  /\ \/ /\ queued < QueueSize
        /\ queued' = queued + 1
        /\ inbox' = [inbox EXCEPT ![severity] = @ + 1]
        /\ UNCHANGED undelivered
     \/ /\ queued >= QueueSize
        /\ undelivered' = undelivered + 1
        /\ UNCHANGED <<queued, inbox>>

\* act(): the next alert is sent to PA.
SendAlert(a) ==
  /\ pc[a] = "act" /\ todo[a] # <<>>
  /\ state' = [state EXCEPT ![a] = "ACTING"]
  /\ Publish(Head(todo[a]))
  /\ todo' = [todo EXCEPT ![a] = Tail(@)]
  /\ UNCHANGED <<envVars, pc, fallen, held, station, wakes, faults, sources,
                 judged, memVars, pending, last_cnp_cycle, bids, logged>>

\* What act() leaves behind once the alerts are sent: EA replaces its
\* maintenance queue if it decided anything, SA appends its purchase orders.
EaAct(snap, old) == IF EaMaintenance(snap) # {} THEN EaMaintenance(snap) ELSE old
SaAct(snap, log) == log \o SaReorders(snap)

\* act() ends.
EndCycle(a) ==
  /\ pc[a] = "act" /\ todo[a] = <<>>
  /\ queue' = IF a = "EA" THEN EaAct(Snap(a), queue) ELSE queue
  /\ reorder_log' = IF a = "SA" THEN SaAct(Snap(a), reorder_log) ELSE reorder_log
  /\ state' = [state EXCEPT ![a] = "IDLE"]
  /\ pc' = [pc EXCEPT ![a] = "sleep"]
  /\ Sleeps(a)
  /\ UNCHANGED <<envVars, todo, station, wakes, faults, sources,
                 judged, rul, mode, cpk, util, flow, paVars, logged>>

\* An exception inside the cycle.  If the graph runs it, the sequential path
\* takes over and begins again with sense(); if that one does (because the graph
\* gave up, or MAS_USE_LANGGRAPH is off), the loop logs the error and the thread
\* sleeps.  The state shown stays what it was, and what the
\* cycle had in hand is gone.
Fault(a) ==
  /\ faults < MaxFaults /\ pc[a] \in {"sense", "decide", "act"}
  /\ faults' = faults + 1
  /\ \/ /\ ~fallen[a]
        /\ fallen' = [fallen EXCEPT ![a] = TRUE]
        /\ pc' = [pc EXCEPT ![a] = "sense"]
        /\ UNCHANGED held
     \/ /\ Sleeps(a)
        /\ pc' = [pc EXCEPT ![a] = "sleep"]
  /\ todo' = IF a \in Agents THEN [todo EXCEPT ![a] = <<>>] ELSE todo
  /\ pending' = IF a = "PA" THEN NoAlerts ELSE pending
  /\ station' = IF a = "EA" THEN 1 ELSE station
  /\ UNCHANGED <<envVars, state, wakes, sources, judged, memVars, mailVars,
                 last_cnp_cycle, bids, logged>>

-----------------------------------------------------------------------------
(* PA's round, on PA's thread, as far as it touches the other agents; its   *)
(* deadline and its strategy are Planning's.                                *)

\* handle_cfp of each agent, from what it remembers at this moment.
BidOf(a) ==
  CASE a = "EA" -> EaBid(rul)
    [] a = "QA" -> QaBid(cpk)
    [] a = "SA" -> SaBid(reorder_log)
    [] a = "DA" -> DaBid(util)
    [] a = "IA" -> IaBid(flow)

\* EA's thread may be adding a station to the estimates EA's handle_cfp iterates
\* over.  (QA's histories gain no key while no sensor has spec limits.)
Growing(a) ==
  a = "EA" /\ pc[a] = "sense" /\ \E s \in 1..NumStations : rul[s] = NoRul

\* The next responder bids, or its dict changes size under the iteration: PA
\* swallows the exception and does without its bid.
Collect ==
  /\ pc["PA"] = "collect" /\ Len(bids) < Len(Responders)
  /\ LET a == Responders[Len(bids) + 1] IN
       \/ bids' = Append(bids, BidOf(a))
       \/ Growing(a) /\ bids' = Append(bids, NoBid)
  /\ UNCHANGED <<envVars, threadVars, memVars, mailVars, pending, last_cnp_cycle,
                 logged>>

\* execute_accepted_proposal: every bidder is told, and only QA's changes
\* anything.  (Without any bid the round ends in initiate_cnp.)
QaModes == {bids[i].mode : i \in {j \in DOMAIN bids : /\ Responders[j] = "QA"
                                                     /\ bids[j] # NoBid}}
Execute ==
  /\ pc["PA"] = "collect" /\ Len(bids) = Len(Responders)
  /\ mode' \in IF QaModes = {} THEN {mode} ELSE QaModes
  /\ bids' = <<>>
  /\ pc' = [pc EXCEPT !["PA"] = "sleep"]
  /\ UNCHANGED <<envVars, fallen, held, state, todo, station, wakes, faults,
                 sources, judged, rul, queue, cpk, reorder_log, util, flow,
                 mailVars, pending, last_cnp_cycle, logged>>

-----------------------------------------------------------------------------
AgentStep(a) ==
  \/ Wake(a)
  \/ a = "EA" /\ EaSense
  \/ Sense(a) \/ Decide(a) \/ SendAlert(a) \/ EndCycle(a)

PaStep == Wake("PA") \/ PaSense \/ PaDecide \/ Collect \/ Execute

Next ==
  \/ \E i \in DOMAIN Snapshots : EnvTick(i)
  \/ \E a \in Agents : AgentStep(a)
  \/ PaStep
  \/ \E a \in Faulty : Fault(a)

Spec == Init /\ [][Next]_vars

\* PA's thread keeps running: it computes locally and sleeps for its interval.
FairSpec == Spec /\ WF_vars(PaStep)
-----------------------------------------------------------------------------
(* Properties.                                                              *)

\* The type of every variable; the router's log stays within its limit.
TypeOK ==
  /\ cycle \in Nat /\ cached \in 0..Len(Snapshots)
  /\ pc \in [Threads -> {"sleep", "sense", "decide", "act", "collect"}]
  /\ fallen \in [Threads -> BOOLEAN]
  /\ held \in [Threads -> [index : 0..Len(Snapshots), cycle : Nat]]
  /\ state \in [Threads -> {"IDLE", "SENSING", "REASONING", "ACTING"}]
  /\ todo \in [Agents -> Seq(Severity)]
  /\ station \in 1..NumStations
  /\ rul \in [1..NumStations -> Nat]
  /\ queue \subseteq [station : 1..NumStations, action : {"emergency", "tool"}]
  /\ mode \in InspectionMode /\ cpk \in Nat
  /\ reorder_log \in Seq({"urgent", "regular"})
  /\ util \in 0..150
  /\ flow \in [bottleneck : 0..NumStations, scrap : 0..100, wip : Nat,
               throughput : Seq(Nat)]
  /\ inbox \in [Severity -> Nat] /\ pending \in [Severity -> Nat]
  /\ last_cnp_cycle \in Nat /\ bids \in Seq(Bid \cup {NoBid}) /\ logged \in 0..LogMax
  /\ queued \in 0..QueueSize
  /\ unread \in Nat /\ undelivered \in Nat /\ faults \in Nat

\* Every alert an agent sent is in PA's inbox, in PA's hands, has been reasoned
\* about, or was never delivered, and never two of these.  An alert is lost in
\* two ways only: to an exception in PA's own cycle, whose fallback senses again
\* and finds the inbox it has just emptied; and to PA's Queue, which takes
\* QueueSize alerts in the life of the process and then delivers no more.
AlertsAccountedFor ==
  LET known == Count(inbox) + Count(pending)
  IN  /\ known + undelivered <= unread
      /\ faults = 0 => known + undelivered = unread
      /\ undelivered > 0 => queued = QueueSize
      /\ known <= queued

\* The dashboard shows a sleeping agent idle; another state is left behind only
\* by an exception.
IdleWhenAsleep ==
  \A a \in Threads :
    pc[a] \in {"sleep", "collect"} /\ state[a] # "IDLE" => faults > 0

\* The threads' state fits together in every interleaving, with at most one
\* exception: types, alerts on their way, and what the dashboard shows.
ThreadsConsistent == TypeOK /\ AlertsAccountedFor /\ IdleWhenAsleep

\* Whatever an agent's thread was doing when PA asked, it bids one of the
\* speeds and modes Planning assumes of it, or does not bid.
BidsWithinPlanning ==
  \A i \in DOMAIN bids :
    \/ bids[i] = NoBid
    \/ [speed |-> bids[i].speed, mode |-> bids[i].mode] \in RuntimeBids[Responders[i]]

\* PA reads EA's estimates while EA's thread renews them station by station,
\* so that a bid may mix two snapshots.  Once every station has an estimate, a
\* station short of life in both of them is never missed, and EA asks to slow
\* down only if one of them had such a station.
EaBidFromLastTwo ==
  LET Low(i, s) == RulOf(Snapshots[i].stations[s]) < RulCnp
      speed == EaBid(rul).speed
  IN  (\A s \in 1..NumStations : rul[s] # NoRul) =>
        /\ speed = 80 => \E i \in sources, s \in 1..NumStations : Low(i, s)
        /\ (\E s \in 1..NumStations : \A i \in sources : Low(i, s)) => speed = 80

\* QA inspects every part only while the last snapshot it reasoned about gave
\* it cause for concern, whatever PA's rounds did to the mode in between.
TotalInspectionJustified ==
  mode = "total" => judged # 0 /\ ~QaCalm(Snapshots[judged])

\* A critical alert that waits for a sleeping PA when the cooldown is over
\* starts a round.  (One that PA takes while it works with a snapshot from
\* within the cooldown starts none.)
CriticalStartsRound ==
  (/\ pc["PA"] = "sleep" /\ faults = MaxFaults
   /\ cycle - last_cnp_cycle > Cooldown
   /\ inbox["CRITICAL"] > 0) ~> pc["PA"] = "collect"
=============================================================================
