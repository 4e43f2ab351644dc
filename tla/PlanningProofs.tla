--------------------------- MODULE PlanningProofs ---------------------------
(***************************************************************************)
(* Proofs about Planning for every set of responders and their bids, every  *)
(* line, cooldown, deadline and bound.                                      *)
(***************************************************************************)
EXTENDS Planning, TLAPS

\* The clamp puts every number between its bounds and leaves those there alone.
LEMMA ClampBounds ==
  ASSUME NEW lo \in Int, NEW hi \in Int, NEW x \in Int, lo <= hi
  PROVE  /\ Clamp(lo, hi, x) \in lo..hi
         /\ x \in lo..hi => Clamp(lo, hi, x) = x
  BY DEF Clamp

\* The speed limits are numbers, and in order.
LEMMA Limits ==
  /\ SpeedMin \in Int /\ SpeedMax \in Int /\ SpeedMin <= SpeedMax
  /\ MachineMin \in Int /\ MachineMax \in Int /\ MachineMin <= MachineMax
  /\ MachineMin <= SpeedMin /\ SpeedMax <= MachineMax
  /\ SpeedMin <= 100 /\ 100 <= SpeedMax
  BY PlanningAssumption

LEMMA NumericModeType == \A m : NumericMode(m) \in Mode
  BY DEF NumericMode, Mode

LEMMA AgentSetElements ==
  ASSUME NEW i \in Nat \ {0}, i <= Len(Responders)
  PROVE  /\ Responders[i] \in AgentSet
         /\ Bids[Responders[i]] \subseteq [speed : Int, mode : Mode]
  BY PlanningAssumption DEF AgentSet

\* What a responder bids becomes a proposal within the constraints.
LEMMA BidType ==
  ASSUME NEW r \in AgentSet, NEW b \in [speed : Int, mode : Mode]
  PROVE  [agent |-> r, mode |-> b.mode,
          speed |-> Clamp(SpeedMin, SpeedMax, b.speed)] \in Proposal
<1>1. Clamp(SpeedMin, SpeedMax, b.speed) \in LineSpeeds
  BY ClampBounds, Limits DEF LineSpeeds
<1> QED
  BY <1>1 DEF Proposal

\* The strategy of a round is a strategy, and its winner's bid unchanged.
LEMMA EvaluateStrategy ==
  ASSUME TypeOK, Evaluate
  PROVE  /\ strategy' \in Strategy
         /\ \E w \in DOMAIN proposals : /\ proposals[w].agent = strategy'.agent
                                        /\ proposals[w].speed = strategy'.speed
<1>1. PICK w \in DOMAIN proposals : \E m \in StrategyModes(proposals[w].mode) :
        strategy' = [agent |-> proposals[w].agent,
                     speed |-> Clamp(SpeedMin, SpeedMax, proposals[w].speed),
                     bid |-> proposals[w].mode, mode |-> m,
                     approval |-> ApprovalRequired(
                       Clamp(SpeedMin, SpeedMax, proposals[w].speed), m)]
  BY DEF Evaluate
<1>2. proposals[w] \in Proposal
  BY DEF TypeOK
<1>3. /\ proposals[w].agent \in AgentSet /\ proposals[w].mode \in Mode
      /\ proposals[w].speed \in SpeedMin..SpeedMax
  BY <1>2 DEF Proposal, LineSpeeds
<1>4. Clamp(SpeedMin, SpeedMax, proposals[w].speed) = proposals[w].speed
  <2>1. proposals[w].speed \in Int
    BY <1>3, Limits
  <2> QED BY <1>3, <2>1, ClampBounds, Limits
<1>5. StrategyModes(proposals[w].mode) \subseteq Mode
  BY <1>3, NumericModeType DEF StrategyModes
<1>6. \A v, m : ApprovalRequired(v, m) \in BOOLEAN
  BY DEF ApprovalRequired
<1> QED
  BY <1>1, <1>3, <1>4, <1>5, <1>6 DEF Strategy, LineSpeeds

LEMMA TypeInit == Init => TypeOK
<1> SUFFICES ASSUME Init PROVE TypeOK
  OBVIOUS
<1>1. /\ inbox \in Seq(Severity) /\ proposals \in Seq(Proposal)
      /\ strategy_log \in Seq(Strategy) /\ rounds \in Seq(Nat)
  BY DEF Init
<1>2. speed \in [StationIds -> Int]
  BY DEF Init
<1>3. ev \in [pc : {"sleep", "write"}, station : StationIds \cup {0}, old : Int]
  BY DEF Init
<1> QED
  <2>1. in_progress \in BOOLEAN /\ session \in CNPState
    BY DEF Init, CNPState
  <2>2. /\ cycle \in Nat /\ seen \in Nat /\ last_cnp_cycle \in Nat
        /\ cnp_count \in Nat /\ rt_cnp_count \in Nat /\ elapsed \in Nat
        /\ k \in Nat \ {0} /\ timeouts \in Nat
    BY DEF Init
  <2>3. /\ pc \in RoundSteps \cup {"sleep", "sense"} /\ accepted \subseteq AgentSet
        /\ strategy \in Strategy \cup {NoStrategy}
    BY DEF Init
  <2> QED BY <1>1, <1>2, <1>3, <2>1, <2>2, <2>3 DEF TypeOK

LEMMA TypeStep == TypeOK /\ PlanningInv /\ [Next]_vars => TypeOK'
<1> SUFFICES ASSUME TypeOK, PlanningInv, [Next]_vars PROVE TypeOK'
  OBVIOUS
<1> USE DEF lineVars, paVars
<1>1. CASE EnvTick
  BY <1>1 DEF EnvTick, TypeOK
<1>2. ASSUME NEW sev \in Severity, AlertArrives(sev) PROVE TypeOK'
  <2>1. inbox' \in Seq(Severity)
    BY <1>2 DEF AlertArrives, TypeOK
  <2> QED BY <1>2, <2>1 DEF AlertArrives, TypeOK
<1>3. ASSUME NEW s \in StationIds, RecoveryRead(s) PROVE TypeOK'
  <2>1. speed[s] \in Int
    BY DEF TypeOK
  <2>2. ev' \in [pc : {"sleep", "write"}, station : StationIds \cup {0}, old : Int]
    BY <1>3, <2>1 DEF RecoveryRead
  <2> QED BY <1>3, <2>2 DEF RecoveryRead, TypeOK
<1>4. ASSUME NEW s, NEW v \in Int, SetSpeed(s, v)
      PROVE  speed' \in [StationIds -> Int]
  <2>1. Clamp(MachineMin, MachineMax, v) \in Int
    BY PlanningAssumption DEF Clamp
  <2> QED BY <1>4, <2>1 DEF SetSpeed, TypeOK
<1>5. ASSUME NEW d \in Recovery, RecoveryWrite(d) PROVE TypeOK'
  <2>1. d \in Int /\ ev.old \in Int
    BY PlanningAssumption DEF TypeOK
  <2>2. speed' \in [StationIds -> Int]
    BY <1>4, <1>5, <2>1 DEF RecoveryWrite
  <2>3. ev' \in [pc : {"sleep", "write"}, station : StationIds \cup {0}, old : Int]
    BY <1>5 DEF RecoveryWrite, TypeOK
  <2> QED BY <1>5, <2>2, <2>3 DEF RecoveryWrite, TypeOK
<1>6. CASE Tick
  BY <1>6 DEF Tick, TypeOK
<1>7. CASE WakeUp
  BY <1>7 DEF WakeUp, TypeOK
<1>8. ASSUME NEW low \in BOOLEAN, SenseReason(low) PROVE TypeOK'
  <2>1. inbox' \in Seq(Severity)
    BY <1>8 DEF SenseReason
  <2>2. pc' \in RoundSteps \cup {"sleep", "sense"} /\ in_progress' \in BOOLEAN
    BY <1>8 DEF SenseReason, TypeOK, RoundSteps
  <2> QED BY <1>8, <2>1, <2>2 DEF SenseReason, TypeOK
<1>9. CASE BeginRound
  <2>1. rounds' \in Seq(Nat) /\ proposals' \in Seq(Proposal)
    BY <1>9 DEF BeginRound, TypeOK
  <2>2. pc' \in RoundSteps \cup {"sleep", "sense"} /\ session' \in CNPState
    BY <1>9 DEF BeginRound, RoundSteps, CNPState
  <2> QED BY <1>9, <2>1, <2>2 DEF BeginRound, TypeOK
<1>10. CASE CollectExpired \/ CollectedNone
  <2>1. GiveUp
    BY <1>10 DEF CollectExpired, CollectedNone
  <2>2. proposals' \in Seq(Proposal)
    BY <2>1 DEF GiveUp
  <2>3. UNCHANGED <<cycle, inbox, speed, ev, seen, last_cnp_cycle, cnp_count,
                    rt_cnp_count, elapsed, k, strategy, strategy_log, accepted,
                    rounds>>
    BY <1>10 DEF CollectExpired, CollectedNone
  <2>4. in_progress' \in BOOLEAN /\ session' \in CNPState
    BY <2>1 DEF GiveUp, CNPState
  <2>5. pc' \in RoundSteps \cup {"sleep", "sense"} /\ timeouts' \in Nat
    BY <2>1 DEF GiveUp, TypeOK
  <2> QED BY <2>2, <2>3, <2>4, <2>5 DEF TypeOK
<1>11. CASE CollectNext
  <2>1. proposals' \in Seq(Proposal)
    <3>1. k \in Nat \ {0} /\ k <= Len(Responders)
      BY <1>11 DEF CollectNext, TypeOK
    <3>2. CASE UNCHANGED proposals
      BY <3>2 DEF TypeOK
    <3>3. ASSUME NEW b \in Bids[Responders[k]],
                 proposals' = Append(proposals,
                   [agent |-> Responders[k], mode |-> b.mode,
                    speed |-> Clamp(SpeedMin, SpeedMax, b.speed)])
          PROVE  proposals' \in Seq(Proposal)
      <4>1. [agent |-> Responders[k], mode |-> b.mode,
             speed |-> Clamp(SpeedMin, SpeedMax, b.speed)] \in Proposal
        BY <3>1, BidType, AgentSetElements
      <4> QED BY <3>3, <4>1 DEF TypeOK
    <3> QED BY <1>11, <3>2, <3>3 DEF CollectNext
  <2> QED BY <1>11, <2>1 DEF CollectNext, TypeOK
<1>12. CASE Evaluate
  <2>1. strategy' \in Strategy
    BY <1>12, EvaluateStrategy
  <2>2. session' \in CNPState /\ pc' \in RoundSteps
    BY <1>12 DEF Evaluate, CNPState, RoundSteps
  <2> QED BY <1>12, <2>1, <2>2 DEF Evaluate, TypeOK
<1>13. CASE ExecuteNext
  <2>1. Responders[k] \in AgentSet
    BY <1>13, AgentSetElements DEF ExecuteNext, TypeOK
  <2> QED BY <1>13, <2>1 DEF ExecuteNext, TypeOK
<1>14. CASE CompleteRound
  <2>1. strategy \in Strategy
    BY <1>14 DEF CompleteRound, PlanningInv, StrategyMade
  <2>2. strategy_log' \in Seq(Strategy)
    BY <1>14, <2>1 DEF CompleteRound, TypeOK
  <2>3. session' \in CNPState /\ pc' \in RoundSteps
    BY <1>14 DEF CompleteRound, CNPState, RoundSteps
  <2> QED BY <1>14, <2>2, <2>3 DEF CompleteRound, TypeOK
<1>15. CASE ApplyNext
  <2>1. strategy.speed \in LineSpeeds
    BY <1>15 DEF ApplyNext, PlanningInv, StrategyMade, Strategy
  <2>2. strategy.speed \in Int
    BY <2>1, PlanningAssumption DEF LineSpeeds
  <2>3. speed' \in [StationIds -> Int]
    BY <1>4, <1>15, <2>2 DEF ApplyNext
  <2> QED BY <1>15, <2>3 DEF ApplyNext, TypeOK
<1>16. CASE EndRound
  BY <1>16 DEF EndRound, TypeOK
<1>17. CASE UNCHANGED vars
  BY <1>17 DEF vars, TypeOK
<1> QED
  BY <1>1, <1>2, <1>3, <1>5, <1>6, <1>7, <1>8, <1>9, <1>10, <1>11, <1>12, <1>13,
     <1>14, <1>15, <1>16, <1>17 DEF Next, PaStep, RoundStep

-----------------------------------------------------------------------------
(* PlanningInv and the speed limits are inductive together: recovery writes  *)
(* what it read, and a round writes what its strategy holds.                 *)

LEMMA PlanningInvInit == Init => PlanningInv /\ SpeedWithinConstraints
<1> SUFFICES ASSUME Init PROVE PlanningInv /\ SpeedWithinConstraints
  OBVIOUS
<1>1. RoundState
  BY DEF Init, RoundState, RoundSteps
<1>2. StrategyMade /\ ExecutedSoFar /\ RecoveryHoldsSpeed /\ LastRoundKnown
  BY DEF Init, StrategyMade, ExecutedSoFar, RecoveryHoldsSpeed, LastRoundKnown
<1>3. SpeedWithinConstraints
  BY Limits DEF Init, SpeedWithinConstraints, LineSpeeds
<1> QED
  BY <1>1, <1>2, <1>3 DEF PlanningInv

\* Each step of PA's thread moves pc, session and flag together.
LEMMA RoundStateStep == TypeOK /\ RoundState /\ [Next]_vars => RoundState'
<1> SUFFICES ASSUME TypeOK, RoundState, [Next]_vars PROVE RoundState'
  OBVIOUS
<1> USE DEF RoundState, RoundSteps, lineVars, paVars
<1>1. CASE UNCHANGED paVars
  BY <1>1
<1>2. CASE Tick
  BY <1>2 DEF Tick
<1>3. CASE WakeUp
  BY <1>3 DEF WakeUp
<1>4. ASSUME NEW low \in BOOLEAN, SenseReason(low) PROVE RoundState'
  BY <1>4 DEF SenseReason
<1>5. CASE BeginRound
  BY <1>5 DEF BeginRound
<1>6. CASE CollectExpired \/ CollectedNone
  BY <1>6 DEF CollectExpired, CollectedNone, GiveUp
<1>7. CASE CollectNext
  BY <1>7 DEF CollectNext
<1>8. CASE Evaluate
  BY <1>8 DEF Evaluate
<1>9. CASE ExecuteNext
  BY <1>9 DEF ExecuteNext
<1>10. CASE CompleteRound
  BY <1>10 DEF CompleteRound
<1>11. CASE ApplyNext
  BY <1>11 DEF ApplyNext
<1>12. CASE EndRound
  BY <1>12 DEF EndRound
<1> QED
  BY <1>1, <1>2, <1>3, <1>4, <1>5, <1>6, <1>7, <1>8, <1>9, <1>10, <1>11, <1>12
     DEF Next, PaStep, RoundStep, EnvTick, AlertArrives, RecoveryRead,
         RecoveryWrite, vars

LEMMA StrategyStep ==
  TypeOK /\ StrategyMade /\ ExecutedSoFar /\ [Next]_vars
    => StrategyMade' /\ ExecutedSoFar'
<1> SUFFICES ASSUME TypeOK, StrategyMade, ExecutedSoFar, [Next]_vars
             PROVE  StrategyMade' /\ ExecutedSoFar'
  OBVIOUS
<1> USE DEF lineVars, paVars
<1>1. CASE UNCHANGED <<pc, k, proposals, strategy, accepted>>
  BY <1>1 DEF StrategyMade, ExecutedSoFar, WinnerBid, HasProposal
<1>2. CASE pc' \in {"sleep", "sense", "begin"}
  BY <1>2 DEF StrategyMade, ExecutedSoFar
<1>3. CASE BeginRound
  BY <1>3 DEF BeginRound, StrategyMade, ExecutedSoFar
<1>4. CASE CollectNext
  BY <1>4 DEF CollectNext, StrategyMade, ExecutedSoFar
<1>5. CASE Evaluate
  <2>1. /\ pc' = "execute" /\ k' = 1 /\ accepted' = {} /\ proposals' = proposals
    BY <1>5 DEF Evaluate, StrategyMade
  <2>2. strategy' \in Strategy /\ WinnerBid'
    BY <1>5, <2>1, EvaluateStrategy DEF WinnerBid
  <2>3. \A i \in DOMAIN Responders : ~(i < 1)
    BY PlanningAssumption
  <2> QED BY <2>1, <2>2, <2>3 DEF StrategyMade, ExecutedSoFar
<1>6. CASE ExecuteNext
  <2>1. /\ pc = "execute" /\ k \in DOMAIN Responders /\ Responders[k] \in AgentSet
        /\ k' = k + 1 /\ UNCHANGED <<pc, proposals, strategy>>
        /\ accepted' = IF HasProposal(Responders[k])
                       THEN accepted \cup {Responders[k]} ELSE accepted
    BY <1>6, AgentSetElements, PlanningAssumption DEF ExecuteNext, TypeOK
  <2>2. StrategyMade' /\ WinnerBid'
    BY <2>1 DEF StrategyMade, ExecutedSoFar, WinnerBid
  <2>3. \A i \in DOMAIN Responders : i < k + 1 <=> (i < k \/ i = k)
    BY PlanningAssumption DEF TypeOK
  <2>4. \A r : HasProposal(r)' <=> HasProposal(r)
    BY <2>1 DEF HasProposal
  <2> DEFINE Told(r) == HasProposal(r) /\ \E i \in DOMAIN Responders :
                                            i < k /\ Responders[i] = r
             ToldNext(r) == HasProposal(r) /\ \E i \in DOMAIN Responders :
                                            i < k + 1 /\ Responders[i] = r
  <2>5. \A r : ToldNext(r) <=> (Told(r) \/ (r = Responders[k] /\ HasProposal(r)))
    BY <2>1, <2>3
  <2>6. accepted = {r \in AgentSet : Told(r)}
    BY <2>1 DEF ExecutedSoFar
  <2>7. accepted' = {r \in AgentSet : ToldNext(r)}
    BY <2>1, <2>5, <2>6
  <2> QED BY <2>1, <2>2, <2>4, <2>7 DEF ExecutedSoFar
<1>7. CASE CompleteRound
  BY <1>7 DEF CompleteRound, StrategyMade, ExecutedSoFar
<1>8. CASE ApplyNext
  BY <1>8 DEF ApplyNext, StrategyMade, ExecutedSoFar
<1> QED
  BY <1>1, <1>2, <1>3, <1>4, <1>5, <1>6, <1>7, <1>8
     DEF Next, PaStep, RoundStep, EnvTick, AlertArrives, RecoveryRead,
         RecoveryWrite, Tick, WakeUp, SenseReason, CollectExpired, CollectedNone,
         GiveUp, EndRound, vars

\* set_speed of a number within the constraints is that number.
LEMMA SetSpeedWithin ==
  ASSUME TypeOK, SpeedWithinConstraints, NEW s, NEW v \in LineSpeeds, SetSpeed(s, v)
  PROVE  SpeedWithinConstraints'
<1>1. v \in Int /\ v \in MachineMin..MachineMax
  BY Limits DEF LineSpeeds
<1>2. Clamp(MachineMin, MachineMax, v) = v
  BY <1>1, ClampBounds, Limits
<1> QED
  BY <1>2 DEF SetSpeed, SpeedWithinConstraints, TypeOK

LEMMA SpeedStep ==
  TypeOK /\ StrategyMade /\ RecoveryHoldsSpeed /\ SpeedWithinConstraints /\ [Next]_vars
    => RecoveryHoldsSpeed' /\ SpeedWithinConstraints'
<1> SUFFICES ASSUME TypeOK, StrategyMade, RecoveryHoldsSpeed,
                    SpeedWithinConstraints, [Next]_vars
             PROVE  RecoveryHoldsSpeed' /\ SpeedWithinConstraints'
  OBVIOUS
<1> USE DEF lineVars, paVars
<1>1. CASE UNCHANGED lineVars
  BY <1>1 DEF RecoveryHoldsSpeed, SpeedWithinConstraints
<1>2. ASSUME NEW s \in StationIds, RecoveryRead(s)
      PROVE  RecoveryHoldsSpeed' /\ SpeedWithinConstraints'
  BY <1>2 DEF RecoveryRead, RecoveryHoldsSpeed, SpeedWithinConstraints
<1>3. ASSUME NEW d \in Recovery, RecoveryWrite(d)
      PROVE  RecoveryHoldsSpeed' /\ SpeedWithinConstraints'
  <2> DEFINE v == IF ev.old + d > 100 THEN 100 ELSE ev.old + d
  <2>1. ev.old \in LineSpeeds /\ d \in Nat
    BY <1>3, PlanningAssumption DEF RecoveryWrite, RecoveryHoldsSpeed
  <2>2. v \in LineSpeeds
    BY <2>1, Limits DEF LineSpeeds
  <2>3. SpeedWithinConstraints'
    BY <1>3, <2>2, SetSpeedWithin DEF RecoveryWrite
  <2>4. ev'.pc = "sleep"
    BY <1>3 DEF RecoveryWrite, TypeOK
  <2> QED BY <2>3, <2>4 DEF RecoveryHoldsSpeed
<1>4. CASE ApplyNext
  <2>1. strategy.speed \in LineSpeeds
    BY <1>4 DEF ApplyNext, StrategyMade, Strategy
  <2> QED BY <1>4, <2>1, SetSpeedWithin DEF ApplyNext, RecoveryHoldsSpeed
<1> QED
  BY <1>1, <1>2, <1>3, <1>4
     DEF Next, PaStep, RoundStep, EnvTick, AlertArrives, Tick, WakeUp, SenseReason,
         BeginRound, CollectExpired, CollectNext, CollectedNone, Evaluate,
         ExecuteNext, CompleteRound, EndRound, vars

\* Appending adds one element at the end.
LEMMA AppendElements ==
  ASSUME NEW S, NEW s \in Seq(S), NEW e \in S
  PROVE  /\ Len(Append(s, e)) = Len(s) + 1 /\ Len(s) \in Nat
         /\ DOMAIN s = 1..Len(s) /\ DOMAIN Append(s, e) = 1..(Len(s) + 1)
         /\ Append(s, e)[Len(s) + 1] = e
         /\ \A i \in DOMAIN s : Append(s, e)[i] = s[i]
  OBVIOUS

\* The cooldown: reason() compares with the same snapshot that becomes the
\* round's cycle, and no later snapshot is older.
LEMMA SpacingStep ==
  TypeOK /\ LastRoundKnown /\ RoundsSpaced /\ [Next]_vars
    => LastRoundKnown' /\ RoundsSpaced'
<1> SUFFICES ASSUME TypeOK, LastRoundKnown, RoundsSpaced, [Next]_vars
             PROVE  LastRoundKnown' /\ RoundsSpaced'
  OBVIOUS
<1> USE DEF lineVars, paVars
<1>0. /\ cycle \in Nat /\ seen \in Nat /\ last_cnp_cycle \in Nat /\ Cooldown \in Nat
      /\ rounds \in Seq(Nat)
  BY PlanningAssumption DEF TypeOK
<1>1. CASE UNCHANGED <<cycle, seen, last_cnp_cycle, rounds>> /\ pc' # "begin"
  BY <1>1 DEF LastRoundKnown, RoundsSpaced
<1>2. CASE UNCHANGED <<seen, last_cnp_cycle, rounds, pc>> /\ cycle' = cycle + 1
  BY <1>0, <1>2 DEF LastRoundKnown, RoundsSpaced
<1>3. CASE WakeUp
  BY <1>0, <1>3 DEF WakeUp, LastRoundKnown, RoundsSpaced
<1>4. ASSUME NEW low \in BOOLEAN, SenseReason(low)
      PROVE  LastRoundKnown' /\ RoundsSpaced'
  <2>1. UNCHANGED <<cycle, seen, last_cnp_cycle, rounds>>
    BY <1>4 DEF SenseReason
  <2>2. pc' = "begin" => seen - last_cnp_cycle > Cooldown
    BY <1>4 DEF SenseReason, InitiateCnp
  <2> QED BY <2>1, <2>2 DEF LastRoundKnown, RoundsSpaced
<1>5. CASE BeginRound
  <2> DEFINE n == Len(rounds) + 1
  <2>1. /\ seen - last_cnp_cycle > Cooldown /\ last_cnp_cycle' = seen
        /\ UNCHANGED <<cycle, seen>> /\ pc' = "collect"
        /\ rounds' = Append(rounds, seen)
    BY <1>5 DEF BeginRound, LastRoundKnown
  <2>2. /\ DOMAIN rounds = 1..Len(rounds) /\ DOMAIN rounds' = 1..n
        /\ Len(rounds) \in Nat /\ rounds'[n] = seen
        /\ \A i \in DOMAIN rounds : rounds'[i] = rounds[i] /\ rounds[i] \in Nat
    BY <1>0, <2>1, AppendElements
  <2>3. \A i \in DOMAIN rounds : seen - rounds[i] > Cooldown
    BY <1>0, <2>1, <2>2 DEF LastRoundKnown
  <2>4. \A i \in DOMAIN rounds' : rounds'[i] > Cooldown /\ rounds'[i] <= seen
    BY <1>0, <2>1, <2>2, <2>3 DEF RoundsSpaced, LastRoundKnown
  <2>5. \A i, j \in DOMAIN rounds' : i < j => rounds'[j] - rounds'[i] > Cooldown
    <3> SUFFICES ASSUME NEW i \in DOMAIN rounds', NEW j \in DOMAIN rounds', i < j
                 PROVE  rounds'[j] - rounds'[i] > Cooldown
      OBVIOUS
    <3>1. i \in DOMAIN rounds /\ (j \in DOMAIN rounds \/ j = n)
      BY <2>2
    <3>2. CASE j \in DOMAIN rounds
      BY <2>2, <3>1, <3>2 DEF RoundsSpaced
    <3>3. CASE j = n
      BY <2>2, <2>3, <3>1, <3>3
    <3> QED BY <3>1, <3>2, <3>3
  <2> QED BY <1>0, <2>1, <2>4, <2>5 DEF LastRoundKnown, RoundsSpaced
<1>6. CASE UNCHANGED <<cycle, seen, last_cnp_cycle, rounds, pc>>
  BY <1>6 DEF LastRoundKnown, RoundsSpaced
<1> QED
  BY <1>1, <1>2, <1>3, <1>4, <1>5, <1>6
     DEF Next, PaStep, RoundStep, EnvTick, AlertArrives, RecoveryRead,
         RecoveryWrite, Tick, CollectExpired, CollectNext, CollectedNone, GiveUp,
         Evaluate, ExecuteNext, CompleteRound, ApplyNext, EndRound, vars

\* Every round ends up in exactly one column of the books.
LEMMA AccountingStep ==
  TypeOK /\ StrategyMade /\ RoundAccounting /\ [Next]_vars => RoundAccounting'
<1> SUFFICES ASSUME TypeOK, StrategyMade, RoundAccounting, [Next]_vars
             PROVE  RoundAccounting'
  OBVIOUS
<1> USE DEF lineVars, paVars
<1>0. /\ cnp_count \in Nat /\ rt_cnp_count \in Nat /\ timeouts \in Nat
      /\ Len(strategy_log) \in Nat /\ Len(rounds) \in Nat
  BY DEF TypeOK
<1>1. CASE /\ UNCHANGED <<cnp_count, rt_cnp_count, timeouts, strategy_log, rounds>>
           /\ pc' \in {"collect", "execute"} <=> pc \in {"collect", "execute"}
  BY <1>1 DEF RoundAccounting
<1>2. CASE BeginRound
  <2>1. Len(rounds') = Len(rounds) + 1
    BY <1>2, AppendElements DEF BeginRound, TypeOK
  <2> QED BY <1>0, <1>2, <2>1 DEF BeginRound, RoundAccounting
<1>3. CASE CollectExpired \/ CollectedNone
  <2>1. /\ pc = "collect" /\ pc' = "sleep" /\ timeouts' = timeouts + 1
        /\ UNCHANGED <<cnp_count, rt_cnp_count, strategy_log, rounds>>
    BY <1>3 DEF CollectExpired, CollectedNone, GiveUp
  <2> QED BY <1>0, <2>1 DEF RoundAccounting
<1>4. CASE CompleteRound
  <2>1. Len(strategy_log') = Len(strategy_log) + 1
    BY <1>4, AppendElements DEF CompleteRound, StrategyMade, TypeOK
  <2> QED BY <1>0, <1>4, <2>1 DEF CompleteRound, RoundAccounting
<1>5. ASSUME NEW low \in BOOLEAN, SenseReason(low) PROVE RoundAccounting'
  BY <1>1, <1>5 DEF SenseReason
<1>6. CASE WakeUp \/ EndRound
  BY <1>1, <1>6 DEF WakeUp, EndRound
<1>7. CASE Evaluate
  BY <1>1, <1>7 DEF Evaluate
<1>8. CASE UNCHANGED <<cnp_count, rt_cnp_count, timeouts, strategy_log, rounds, pc>>
  BY <1>1, <1>8
<1> QED
  BY <1>2, <1>3, <1>4, <1>5, <1>6, <1>7, <1>8
     DEF Next, PaStep, RoundStep, EnvTick, AlertArrives, RecoveryRead,
         RecoveryWrite, Tick, CollectNext, ExecuteNext, ApplyNext, vars

\* What a round leaves behind, whether it timed out or is being applied.
LEMMA OutcomeStep ==
  TypeOK /\ PlanningInv /\ TimeoutLeavesNoTrace /\ AppliedAsBid /\ [Next]_vars
    => TimeoutLeavesNoTrace' /\ AppliedAsBid'
<1> SUFFICES ASSUME TypeOK, PlanningInv, TimeoutLeavesNoTrace, AppliedAsBid,
                    [Next]_vars
             PROVE  TimeoutLeavesNoTrace' /\ AppliedAsBid'
  OBVIOUS
<1> USE DEF lineVars, paVars
<1>1. CASE /\ UNCHANGED <<session, accepted, strategy, proposals>>
           /\ pc' = pc \/ pc' # "apply"
  BY <1>1 DEF TimeoutLeavesNoTrace, AppliedAsBid, WinnerBid, HasProposal
<1>2. CASE BeginRound \/ CollectNext \/ Evaluate \/ ExecuteNext
  <2>1. session' # "timeout" /\ pc' # "apply"
    BY <1>2 DEF BeginRound, CollectNext, Evaluate, ExecuteNext, PlanningInv,
       RoundState
  <2> QED BY <2>1 DEF TimeoutLeavesNoTrace, AppliedAsBid
<1>3. CASE CollectExpired \/ CollectedNone
  BY <1>3 DEF CollectExpired, CollectedNone, GiveUp, PlanningInv, StrategyMade,
     TimeoutLeavesNoTrace, AppliedAsBid
<1>4. CASE CompleteRound
  <2>1. /\ pc = "execute" /\ k > Len(Responders) /\ session' = "completed"
        /\ UNCHANGED <<accepted, strategy, proposals>>
    BY <1>4 DEF CompleteRound
  <2>2. \A r \in AgentSet : \E i \in DOMAIN Responders : i < k /\ Responders[i] = r
    <3>1. Len(Responders) \in Nat /\ DOMAIN Responders = 1..Len(Responders)
      BY PlanningAssumption
    <3>2. \A i \in DOMAIN Responders : i < k
      BY <2>1, <3>1 DEF TypeOK
    <3> QED BY <3>2 DEF AgentSet
  <2>3. WinnerBid /\ accepted = {r \in AgentSet : HasProposal(r)}
    BY <2>1, <2>2 DEF PlanningInv, ExecutedSoFar
  <2>4. strategy \in Strategy
    BY <2>1 DEF PlanningInv, StrategyMade
  <2>5. strategy.agent \in AgentSet /\ HasProposal(strategy.agent)
    BY <2>3, <2>4 DEF Strategy, WinnerBid, HasProposal
  <2> QED BY <2>1, <2>3, <2>5 DEF TimeoutLeavesNoTrace, AppliedAsBid, WinnerBid,
             HasProposal
<1>5. ASSUME NEW low \in BOOLEAN, SenseReason(low)
      PROVE  TimeoutLeavesNoTrace' /\ AppliedAsBid'
  BY <1>1, <1>5 DEF SenseReason
<1>6. CASE WakeUp \/ EndRound
  BY <1>1, <1>6 DEF WakeUp, EndRound
<1>7. CASE UNCHANGED <<session, accepted, strategy, proposals, pc>>
  BY <1>1, <1>7
<1> QED
  BY <1>2, <1>3, <1>4, <1>5, <1>6, <1>7
     DEF Next, PaStep, RoundStep, EnvTick, AlertArrives, RecoveryRead,
         RecoveryWrite, Tick, ApplyNext, vars

-----------------------------------------------------------------------------
\* The state of PA's thread, of the session and of the recovery event always
\* fit together.
THEOREM PlanningCorrect == Spec => [](TypeOK /\ PlanningInv)
<1>1. Init => TypeOK /\ PlanningInv /\ SpeedWithinConstraints /\ RoundsSpaced
  BY TypeInit, PlanningInvInit DEF Init, RoundsSpaced
<1>2. TypeOK /\ PlanningInv /\ SpeedWithinConstraints /\ RoundsSpaced /\ [Next]_vars
        => (TypeOK /\ PlanningInv /\ SpeedWithinConstraints /\ RoundsSpaced)'
  BY TypeStep, RoundStateStep, StrategyStep, SpeedStep, SpacingStep DEF PlanningInv
<1> QED
  BY <1>1, <1>2, PTL DEF Spec

\* No station ever runs outside the speed limits of the negotiation, whatever
\* the agents bid, and whatever EVENT-GEN writes between a round's set_speeds.
THEOREM SpeedSafe == Spec => []SpeedWithinConstraints
<1>1. Init => SpeedWithinConstraints
  BY PlanningInvInit
<1>2. TypeOK /\ PlanningInv /\ SpeedWithinConstraints /\ [Next]_vars
        => SpeedWithinConstraints'
  BY SpeedStep DEF PlanningInv
<1> QED
  BY <1>1, <1>2, PlanningCorrect, PTL DEF Spec

\* Rounds keep the cooldown for every lag of the snapshot and every length of
\* a round.
THEOREM CooldownKept == Spec => []RoundsSpaced
<1>1. Init => RoundsSpaced
  BY DEF Init, RoundsSpaced
<1>2. TypeOK /\ PlanningInv /\ RoundsSpaced /\ [Next]_vars => RoundsSpaced'
  BY SpacingStep DEF PlanningInv
<1> QED
  BY <1>1, <1>2, PlanningCorrect, PTL DEF Spec

\* Rounds, strategies, timeouts and the runtime's counter always add up.
THEOREM RoundsAddUp == Spec => []RoundAccounting
<1>1. Init => RoundAccounting
  BY DEF Init, RoundAccounting
<1>2. TypeOK /\ PlanningInv /\ RoundAccounting /\ [Next]_vars => RoundAccounting'
  BY AccountingStep DEF PlanningInv
<1> QED
  BY <1>1, <1>2, PlanningCorrect, PTL DEF Spec

\* RoundOutcome: every round is accounted for, a timed-out one has no effect,
\* and an applied one is what was bid.
THEOREM OutcomeSound == Spec => []RoundOutcome
<1>1. Init => TimeoutLeavesNoTrace /\ AppliedAsBid
  BY DEF Init, TimeoutLeavesNoTrace, AppliedAsBid
<1>2. TypeOK /\ PlanningInv /\ (TimeoutLeavesNoTrace /\ AppliedAsBid) /\ [Next]_vars
        => (TimeoutLeavesNoTrace /\ AppliedAsBid)'
  BY OutcomeStep
<1>3. RoundAccounting /\ (TimeoutLeavesNoTrace /\ AppliedAsBid) => RoundOutcome
  BY DEF RoundOutcome
<1> QED
  BY <1>1, <1>2, <1>3, PlanningCorrect, RoundsAddUp, PTL DEF Spec
=============================================================================
