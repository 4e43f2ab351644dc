------------------------------ MODULE Planning ------------------------------
(***************************************************************************)
(* The planning agent's thread and its contract-net round: the runtime's    *)
(* _agent_loop and _run_pa, PlanningAgent.sense/reason/initiate_cnp, the    *)
(* CNPSession, and the line speed that PA shares with the EVENT-GEN thread. *)
(*                                                                         *)
(* Four threads interleave: ENV-TICK publishes snapshots, the other agents  *)
(* put alerts into PA's inbox, PA decides and negotiates, and EVENT-GEN     *)
(* restores speeds.  What a proposal scores is data the control does not    *)
(* depend on: any proposal of a round may be ranked first.                  *)
(***************************************************************************)
EXTENDS Integers, Sequences

CONSTANTS
  Responders,   \* the other agents, in the order of the runtime's agents dict
  Bids,         \* agent -> the [speed, mode] its handle_cfp may return
  Stations,     \* the work centers of the line, in order
  LlmEnabled,   \* llm_client.enabled
  SpeedMin,     \* CNPConstraints.speed_min_pct (40)
  SpeedMax,     \* CNPConstraints.speed_max_pct (100)
  MachineMin,   \* lower clamp of WorkCenter.set_speed (40)
  MachineMax,   \* upper clamp of WorkCenter.set_speed (110)
  ApprovalBelow,\* clamp_strategy asks for approval below this speed (70)
  Recovery,     \* increments of a speed_recovery event (5..15)
  Cooldown,     \* cycles between two rounds (10)
  OeeGap,       \* cycles before a low OEE alone starts a round (30)
  Deadline,     \* deadline_sec, in clock ticks
  MaxCycle,     \* bound: production cycles of a run
  MaxInbox      \* bound: alerts waiting in PA's inbox

\* Inspection modes.  QA bids in Korean: "tightened" and "total" stand for its
\* two modes, the second being the inspection of every part.
Mode == {"standard", "enhanced", "tightened", "total"}

ASSUME PlanningAssumption ==
  /\ Responders \in Seq(STRING)
  /\ \A r \in {Responders[i] : i \in DOMAIN Responders} :
       Bids[r] \subseteq [speed : Int, mode : Mode]
  /\ Stations \in Seq(STRING)
  /\ LlmEnabled \in BOOLEAN
  /\ SpeedMin \in Nat /\ SpeedMax \in Nat /\ SpeedMin <= SpeedMax
  /\ MachineMin \in Nat /\ MachineMax \in Nat /\ ApprovalBelow \in Nat
  /\ MachineMin <= SpeedMin /\ SpeedMax <= MachineMax
  /\ SpeedMax >= 100 /\ SpeedMin <= 100
  /\ Recovery \subseteq Nat
  /\ Cooldown \in Nat /\ OeeGap \in Nat /\ Deadline \in Nat
  /\ MaxCycle \in Nat /\ MaxInbox \in Nat

VARIABLES
  cycle,          \* the cycle of the cached snapshot; 0: no snapshot yet
  inbox,          \* severities of the alerts in PA's inbox
  speed,          \* WorkCenter.speed_pct of each station
  pc,             \* where PA's thread stands
  seen,           \* the snapshot's cycle PA works with
  last_cnp_cycle, \* PlanningAgent._last_cnp_cycle
  cnp_count,      \* PlanningAgent._cnp_count
  rt_cnp_count,   \* the runtime's cnp_count
  in_progress,    \* the runtime's _cnp_in_progress
  session,        \* CNPSession.state of the latest round
  elapsed,        \* time since its begin(), capped just beyond the deadline
  k,              \* loop index over responders or stations
  proposals,      \* the proposals collected in this round
  strategy,       \* what the round decided (its record once ranked)
  strategy_log,   \* PlanningAgent._strategy_log
  accepted,       \* agents whose proposal was executed in this round
  timeouts,       \* history: rounds that ended without a strategy
  rounds,         \* history: the cycle at which each round began
  ev              \* EVENT-GEN: [pc, station, old] of a running speed_recovery

lineVars == <<speed, ev>>
paVars == <<pc, seen, last_cnp_cycle, cnp_count, rt_cnp_count, in_progress,
            session, elapsed, k, proposals, strategy, strategy_log, accepted,
            timeouts, rounds>>
vars == <<cycle, inbox, lineVars, paVars>>

Severity == {"CRITICAL", "HIGH", "LOW"}
CNPState == {"idle", "collecting", "evaluating", "completed", "timeout"}
NumStations == Len(Stations)
StationIds == 1..NumStations

\* max(lo, min(hi, x))
Clamp(lo, hi, x) == IF x > hi THEN hi ELSE IF x < lo THEN lo ELSE x

Count(s, sev) == Len(SelectSeq(s, LAMBDA x : x = sev))

NoStrategy == [agent |-> "none", speed |-> 0, bid |-> "none", mode |-> "none",
               approval |-> FALSE]

Init ==
  /\ cycle = 0
  /\ inbox = <<>>
  /\ speed = [s \in StationIds |-> 100]
  /\ pc = "sleep"
  /\ seen = 0 /\ last_cnp_cycle = 0 /\ cnp_count = 0 /\ rt_cnp_count = 0
  /\ in_progress = FALSE
  /\ session = "idle"
  /\ elapsed = 0 /\ k = 1
  /\ proposals = <<>> /\ strategy = NoStrategy /\ strategy_log = <<>>
  /\ accepted = {}
  /\ timeouts = 0 /\ rounds = <<>>
  /\ ev = [pc |-> "sleep", station |-> 0, old |-> 0]

-----------------------------------------------------------------------------
(* The threads around PA.                                                   *)

\* ENV-TICK: one production cycle, then the new snapshot under _lock.
EnvTick ==
  /\ cycle < MaxCycle
  /\ cycle' = cycle + 1
  /\ UNCHANGED <<inbox, lineVars, paVars>>

\* Another agent's alert arrives (receive_message, see Broker).
AlertArrives(sev) ==
  /\ Len(inbox) < MaxInbox
  /\ inbox' = Append(inbox, sev)
  /\ UNCHANGED <<cycle, lineVars, paVars>>

\* EVENT-GEN, speed_recovery: the speed is read, randint runs ...
RecoveryRead(s) ==
  /\ ev.pc = "sleep" /\ speed[s] < 100
  /\ ev' = [pc |-> "write", station |-> s, old |-> speed[s]]
  /\ UNCHANGED <<cycle, inbox, speed, paVars>>

SetSpeed(s, v) ==
  speed' = [speed EXCEPT ![s] = Clamp(MachineMin, MachineMax, v)]

\* Mutant: the restored speed is not capped at 100 %.
RecoveryWrite_NoCap(d) ==
  /\ ev.pc = "write"
  /\ SetSpeed(ev.station, ev.old + d)
  /\ ev' = [ev EXCEPT !.pc = "sleep"]
  /\ UNCHANGED <<cycle, inbox, paVars>>

\* ... and a speed computed from what was read is written.
RecoveryWrite(d) ==
  /\ ev.pc = "write"
  /\ SetSpeed(ev.station, IF ev.old + d > 100 THEN 100 ELSE ev.old + d)
  /\ ev' = [ev EXCEPT !.pc = "sleep"]
  /\ UNCHANGED <<cycle, inbox, paVars>>

-----------------------------------------------------------------------------
(* PA's thread.                                                             *)

\* _agent_loop wakes up and copies the cached snapshot; without one it sleeps
\* on.
WakeUp ==
  /\ pc = "sleep" /\ cycle > 0
  /\ seen' = cycle
  /\ pc' = "sense"
  /\ UNCHANGED <<cycle, inbox, lineVars, last_cnp_cycle, cnp_count, rt_cnp_count,
                 in_progress, session, elapsed, k, proposals, strategy,
                 strategy_log, accepted, timeouts, rounds>>

\* Mutant: the cooldown is only asked of a round the OEE alone starts.
InitiateCnp_NoCooldown(alerts, lowOee) ==
  \/ Count(alerts, "CRITICAL") >= 1
  \/ Count(alerts, "HIGH") >= 2
  \/ lowOee /\ seen - last_cnp_cycle > OeeGap

\* reason(): does this cycle call for a round?
InitiateCnp(alerts, lowOee) ==
  /\ \/ Count(alerts, "CRITICAL") >= 1
     \/ Count(alerts, "HIGH") >= 2
     \/ lowOee /\ seen - last_cnp_cycle > OeeGap
  /\ seen - last_cnp_cycle > Cooldown

\* sense() pops the inbox, reason() decides, _run_pa checks and sets its flag.
\* Alerts that start no round are logged and gone.
SenseReason(lowOee) ==
  /\ pc = "sense"
  /\ inbox' = <<>>
  /\ \/ /\ InitiateCnp(inbox, lowOee) /\ ~in_progress
        /\ in_progress' = TRUE
        /\ pc' = "begin"
     \/ /\ ~InitiateCnp(inbox, lowOee) \/ in_progress
        /\ pc' = "sleep"
        /\ UNCHANGED in_progress
  /\ UNCHANGED <<cycle, lineVars, seen, last_cnp_cycle, cnp_count, rt_cnp_count,
                 session, elapsed, k, proposals, strategy, strategy_log,
                 accepted, timeouts, rounds>>

\* initiate_cnp up to mark_collecting: the session begins, the CFP goes out
\* (whatever publishing it raises is swallowed).
BeginRound ==
  /\ pc = "begin"
  /\ cnp_count' = cnp_count + 1
  /\ last_cnp_cycle' = seen
  /\ rounds' = Append(rounds, seen)
  /\ session' = "collecting" /\ elapsed' = 0
  /\ k' = 1 /\ proposals' = <<>> /\ accepted' = {} /\ strategy' = NoStrategy
  /\ pc' = "collect"
  /\ UNCHANGED <<cycle, inbox, lineVars, seen, rt_cnp_count, in_progress,
                 strategy_log, timeouts>>

\* Time passes while the responders work out their proposals.
Tick ==
  /\ pc = "collect" /\ elapsed <= Deadline
  /\ elapsed' = elapsed + 1
  /\ UNCHANGED <<cycle, inbox, lineVars, pc, seen, last_cnp_cycle, cnp_count,
                 rt_cnp_count, in_progress, session, k, proposals, strategy,
                 strategy_log, accepted, timeouts, rounds>>

IsExpired == elapsed > Deadline

\* Mutant: returning early skips clearing the runtime's flag.
GiveUp_FlagStays ==
  /\ session' = "timeout"
  /\ proposals' = <<>>
  /\ timeouts' = timeouts + 1
  /\ UNCHANGED in_progress
  /\ pc' = "sleep"

\* initiate_cnp returns None: mark_timeout, the runtime clears its flag.
GiveUp ==
  /\ session' = "timeout"
  /\ proposals' = <<>>
  /\ timeouts' = timeouts + 1
  /\ in_progress' = FALSE
  /\ pc' = "sleep"

\* The deadline is looked at before each responder is asked; when it has
\* passed, what was collected is thrown away.
CollectExpired ==
  /\ pc = "collect" /\ k <= Len(Responders) /\ IsExpired
  /\ GiveUp
  /\ UNCHANGED <<cycle, inbox, lineVars, seen, last_cnp_cycle, cnp_count,
                 rt_cnp_count, elapsed, k, strategy, strategy_log, accepted,
                 rounds>>

\* handle_cfp of the next responder: a proposal, with its speed clamped to the
\* session's constraints, or nothing (it returned none, or raised).
CollectNext ==
  /\ pc = "collect" /\ k <= Len(Responders) /\ ~IsExpired
  /\ \/ UNCHANGED proposals
     \/ \E b \in Bids[Responders[k]] :
          proposals' = Append(proposals,
            [agent |-> Responders[k], mode |-> b.mode,
             speed |-> Clamp(SpeedMin, SpeedMax, b.speed)])
  /\ k' = k + 1
  /\ UNCHANGED <<cycle, inbox, lineVars, pc, seen, last_cnp_cycle, cnp_count,
                 rt_cnp_count, in_progress, session, elapsed, strategy,
                 strategy_log, accepted, timeouts, rounds>>

CollectedNone ==
  /\ pc = "collect" /\ k > Len(Responders) /\ proposals = <<>>
  /\ GiveUp
  /\ UNCHANGED <<cycle, inbox, lineVars, seen, last_cnp_cycle, cnp_count,
                 rt_cnp_count, elapsed, k, strategy, strategy_log, accepted,
                 rounds>>

\* cnp_numeric_strategy knows two inspection modes; every other becomes
\* "standard".
NumericMode(m) == IF m \in {"enhanced", "tightened"} THEN "enhanced" ELSE "standard"

\* The mode of the strategy: the best proposal's own from the rules; with an
\* enabled LLM the numeric layer's, unless the LLM path failed.
StrategyModes(m) == {m} \cup (IF LlmEnabled THEN {NumericMode(m)} ELSE {})

\* clamp_strategy: the approval flag.
ApprovalRequired(v, m) == v < ApprovalBelow \/ m \in {"all", "full", "total"}

\* Rank, build the strategy from the best proposal, clamp it.
Evaluate ==
  /\ pc = "collect" /\ k > Len(Responders) /\ proposals # <<>>
  /\ session' = "evaluating"
  /\ \E w \in DOMAIN proposals : \E m \in StrategyModes(proposals[w].mode) :
       LET v == Clamp(SpeedMin, SpeedMax, proposals[w].speed)
       IN  strategy' = [agent |-> proposals[w].agent, speed |-> v,
                        bid |-> proposals[w].mode, mode |-> m,
                        approval |-> ApprovalRequired(v, m)]
  /\ k' = 1
  /\ pc' = "execute"
  /\ UNCHANGED <<cycle, inbox, lineVars, seen, last_cnp_cycle, cnp_count,
                 rt_cnp_count, in_progress, elapsed, proposals, strategy_log,
                 accepted, timeouts, rounds>>

HasProposal(r) == \E i \in DOMAIN proposals : proposals[i].agent = r

\* Mutant: only the winner's proposal is executed.
ExecuteNext_WinnerOnly ==
  /\ pc = "execute" /\ k <= Len(Responders)
  /\ accepted' = IF Responders[k] = strategy.agent
                 THEN accepted \cup {Responders[k]} ELSE accepted
  /\ k' = k + 1
  /\ UNCHANGED <<cycle, inbox, lineVars, pc, seen, last_cnp_cycle, cnp_count,
                 rt_cnp_count, in_progress, session, elapsed, proposals, strategy,
                 strategy_log, timeouts, rounds>>

\* execute_accepted_proposal of the next responder, if it made a proposal.
ExecuteNext ==
  /\ pc = "execute" /\ k <= Len(Responders)
  /\ accepted' = IF HasProposal(Responders[k])
                 THEN accepted \cup {Responders[k]} ELSE accepted
  /\ k' = k + 1
  /\ UNCHANGED <<cycle, inbox, lineVars, pc, seen, last_cnp_cycle, cnp_count,
                 rt_cnp_count, in_progress, session, elapsed, proposals, strategy,
                 strategy_log, timeouts, rounds>>

\* mark_completed; back in _run_pa, the runtime's counter follows PA's.
CompleteRound ==
  /\ pc = "execute" /\ k > Len(Responders)
  /\ session' = "completed"
  /\ strategy_log' = Append(strategy_log, strategy)
  /\ rt_cnp_count' = cnp_count
  /\ k' = 1
  /\ pc' = "apply"
  /\ UNCHANGED <<cycle, inbox, lineVars, seen, last_cnp_cycle, cnp_count,
                 in_progress, elapsed, proposals, strategy, accepted, timeouts,
                 rounds>>

\* _run_pa sets the speed of one station after the other.
ApplyNext ==
  /\ pc = "apply" /\ k <= NumStations
  /\ SetSpeed(k, strategy.speed)
  /\ k' = k + 1
  /\ UNCHANGED <<cycle, inbox, ev, pc, seen, last_cnp_cycle, cnp_count,
                 rt_cnp_count, in_progress, session, elapsed, proposals, strategy,
                 strategy_log, accepted, timeouts, rounds>>

EndRound ==
  /\ pc = "apply" /\ k > NumStations
  /\ in_progress' = FALSE
  /\ pc' = "sleep"
  /\ UNCHANGED <<cycle, inbox, lineVars, seen, last_cnp_cycle, cnp_count,
                 rt_cnp_count, session, elapsed, k, proposals, strategy,
                 strategy_log, accepted, timeouts, rounds>>

-----------------------------------------------------------------------------
\* Everything a round does once reason() has asked for it.
RoundStep ==
  \/ BeginRound \/ CollectExpired \/ CollectNext \/ CollectedNone \/ Evaluate
  \/ ExecuteNext \/ CompleteRound \/ ApplyNext \/ EndRound

PaStep == WakeUp \/ (\E low \in BOOLEAN : SenseReason(low)) \/ RoundStep

Next ==
  \/ EnvTick
  \/ \E sev \in Severity : AlertArrives(sev)
  \/ \E s \in StationIds : RecoveryRead(s)
  \/ \E d \in Recovery : RecoveryWrite(d)
  \/ Tick
  \/ PaStep

Spec == Init /\ [][Next]_vars

\* PA's thread keeps running: handle_cfp and execute_accepted_proposal compute
\* locally and return, and the LLM call has a timeout.
FairSpec == Spec /\ WF_vars(PaStep)
-----------------------------------------------------------------------------
(* Properties.                                                              *)

RoundSteps == {"begin", "collect", "execute", "apply"}
AgentSet == {Responders[i] : i \in DOMAIN Responders}
LineSpeeds == SpeedMin..SpeedMax
Proposal == [agent : AgentSet, mode : Mode, speed : LineSpeeds]
Strategy == [agent : AgentSet, speed : LineSpeeds, bid : Mode, mode : Mode,
             approval : BOOLEAN]

\* The type of every variable.
TypeOK ==
  /\ cycle \in Nat
  /\ inbox \in Seq(Severity)
  /\ speed \in [StationIds -> Int]
  /\ pc \in RoundSteps \cup {"sleep", "sense"}
  /\ seen \in Nat /\ last_cnp_cycle \in Nat
  /\ cnp_count \in Nat /\ rt_cnp_count \in Nat
  /\ in_progress \in BOOLEAN
  /\ session \in CNPState
  /\ elapsed \in Nat /\ k \in Nat \ {0}
  /\ proposals \in Seq(Proposal)
  /\ strategy \in Strategy \cup {NoStrategy}
  /\ strategy_log \in Seq(Strategy)
  /\ accepted \subseteq AgentSet
  /\ timeouts \in Nat
  /\ rounds \in Seq(Nat)
  /\ ev \in [pc : {"sleep", "write"}, station : StationIds \cup {0}, old : Int]

\* Where PA's thread stands, the runtime's flag and the session's state agree:
\* no round begins while one is open, none stays open behind PA's back.
RoundState ==
  /\ in_progress <=> pc \in RoundSteps
  /\ session = "collecting" <=> pc = "collect"
  /\ session = "evaluating" <=> pc = "execute"
  /\ pc = "apply" => session = "completed"

\* A round that is being carried out has a strategy; while it still collects,
\* nobody has been told to execute anything.
StrategyMade ==
  /\ pc \in {"execute", "apply"} => strategy \in Strategy
  /\ pc = "collect" => accepted = {} /\ strategy = NoStrategy

\* The strategy is one of the bids.
WinnerBid ==
  \E i \in DOMAIN proposals :
    proposals[i].agent = strategy.agent /\ proposals[i].speed = strategy.speed

\* The loop over the responders has told those behind it that bid.
ExecutedSoFar ==
  pc = "execute" =>
    /\ WinnerBid
    /\ accepted = {r \in AgentSet : /\ HasProposal(r)
                                    /\ \E i \in DOMAIN Responders :
                                         i < k /\ Responders[i] = r}

\* The old speed a speed_recovery in flight holds is one of the line's.
RecoveryHoldsSpeed ==
  ev.pc = "write" => ev.station \in StationIds /\ ev.old \in LineSpeeds

\* PA never works with a snapshot older than the one of its last round, and
\* that round's cycle is what the cooldown counts from.
LastRoundKnown ==
  /\ last_cnp_cycle <= seen /\ seen <= cycle
  /\ \A i \in DOMAIN rounds : rounds[i] <= last_cnp_cycle
  /\ pc = "begin" => seen - last_cnp_cycle > Cooldown

\* What holds between any two steps of any thread, and carries the properties
\* below: flag, session and thread agree, a round in progress is whole, and
\* neither a stale snapshot nor a speed read before a round is out of range.
PlanningInv ==
  /\ RoundState /\ StrategyMade /\ ExecutedSoFar
  /\ RecoveryHoldsSpeed /\ LastRoundKnown

\* Whatever an agent recommends (DA: 110 %), whoever wins, and whatever
\* speed_recovery reads and writes in between, no station ever runs outside
\* the limits of CNPConstraints.
SpeedWithinConstraints == \A s \in StationIds : speed[s] \in LineSpeeds

\* Two rounds are more than the cooldown apart, however the snapshot PA works
\* with lags behind production and however long a round takes.
RoundsSpaced ==
  /\ \A i \in DOMAIN rounds : rounds[i] > Cooldown
  /\ \A i, j \in DOMAIN rounds : i < j => rounds[j] - rounds[i] > Cooldown

\* Every round is accounted for: it is open, has a logged strategy, or timed
\* out; the runtime's counter never runs ahead of PA's.
RoundAccounting ==
  /\ cnp_count = Len(strategy_log) + timeouts
                   + (IF pc \in {"collect", "execute"} THEN 1 ELSE 0)
  /\ cnp_count = Len(rounds)
  /\ Len(strategy_log) <= rt_cnp_count /\ rt_cnp_count <= cnp_count

\* A round whose collection expired, or that got no proposal, leaves no trace:
\* nobody executed anything and there is no strategy to apply.
TimeoutLeavesNoTrace ==
  session = "timeout" => accepted = {} /\ strategy = NoStrategy /\ proposals = <<>>

\* When the line speed is set, exactly the agents that bid have executed their
\* proposals, the winner among them, and the speed is the winner's bid.
AppliedAsBid ==
  pc = "apply" =>
    /\ accepted = {r \in AgentSet : HasProposal(r)}
    /\ strategy.agent \in accepted
    /\ WinnerBid

\* How a round may end: it is counted once, without effect if it timed out, and
\* otherwise with what was bid.
RoundOutcome == RoundAccounting /\ TimeoutLeavesNoTrace /\ AppliedAsBid

\* A round that has begun ends, and the flag that keeps others out is cleared:
\* no deadline, missing proposal or exception of a responder keeps it set.
RoundEnds == in_progress ~> ~in_progress

=============================================================================
