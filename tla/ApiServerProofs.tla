-------------------------- MODULE ApiServerProofs --------------------------
(***************************************************************************)
(* Proofs about ApiServer and the two components it composes: the logs of    *)
(* the LLM client that two threads share (LogsSound), the event streams      *)
(* (StreamsSound), and the types and answers of the server (ServerSound).    *)
(***************************************************************************)
EXTENDS ApiServer, FiniteSetTheorems, SequenceTheorems, TLAPS

-----------------------------------------------------------------------------
\* Which part of a step each component sees.

\* A step of the LLM client: a thread's own step, a request or an answer.
LlmNext ==
  \E t \in LlmThreads : \/ LlmStep(t) \/ Answer(t)
                        \/ \E kind \in {"json", "text"} : Request(t, kind)

\* A step of the streams.
SseNext ==
  \/ \E c \in Clients : \/ Connect(c) \/ StartStream(c) \/ EndStream(c)
                        \/ Disconnect(c) \/ DisconnectEarly(c) \/ Yield(c)
  \/ \E p \in Pushers : BeginPush(p) \/ PutNext(p)
  \/ UNCHANGED <<phase, sse_queues, queue, push, received, dropped, since>>
       /\ running' \in BOOLEAN

\* Every step of the server is a step of the client or leaves it alone.
LEMMA LlmPart == [Next]_vars => LlmNext \/ UNCHANGED llmVars
<1> SUFFICES ASSUME [Next]_vars PROVE LlmNext \/ UNCHANGED llmVars
  OBVIOUS
<1> USE ApiAssumption DEF LlmNext
<1>1. CASE Start \/ Bind \/ Stop
  BY <1>1 DEF Start, Bind, Stop
<1>2. CASE \E c \in Clients : \/ ClientConnects(c) \/ GeneratorStarts(c) \/ GeneratorEnds(c)
                              \/ ClientLeaves(c) \/ Turn(c) \/ TurnEnds(c)
  BY <1>2 DEF ClientConnects, GeneratorStarts, GeneratorEnds, ClientLeaves, Turn,
     TurnEnds, OnLoop
<1>3. CASE Ask \/ BeginAsk \/ BuildContext \/ FinishAsk
  BY <1>3 DEF Ask, BeginAsk, BuildContext, FinishAsk
<1>4. CASE \E t \in LlmThreads : LlmWorks(t)
  BY <1>4 DEF LlmWorks
<1>5. CASE \E p \in Pushers : Publishes(p)
  BY <1>5 DEF Publishes
<1>6. CASE PaRequest \/ PaAnswer
  BY <1>6 DEF PaRequest, PaAnswer
<1> QED BY <1>1, <1>2, <1>3, <1>4, <1>5, <1>6 DEF Next, vars

\* Every step of the server is a step of the streams or leaves them alone.
LEMMA SsePart == SseTypeOK /\ [Next]_vars => SseNext
<1> SUFFICES ASSUME SseTypeOK, [Next]_vars PROVE SseNext
  OBVIOUS
<1>0. running \in BOOLEAN
  BY DEF SseTypeOK
<1> USE DEF SseNext
<1>1. CASE Start \/ Bind \/ Stop
  BY <1>0, <1>1 DEF Start, Bind, Stop, sseVars
<1>2. CASE \E c \in Clients : \/ ClientConnects(c) \/ GeneratorStarts(c) \/ GeneratorEnds(c)
                              \/ ClientLeaves(c) \/ Turn(c) \/ TurnEnds(c)
  BY <1>0, <1>2 DEF ClientConnects, GeneratorStarts, GeneratorEnds, ClientLeaves, Turn,
     TurnEnds, OnLoop, sseVars
<1>3. CASE UNCHANGED sseVars
  BY <1>0, <1>3 DEF sseVars
<1>4. CASE Ask \/ BeginAsk \/ BuildContext \/ FinishAsk
  BY <1>3, <1>4 DEF Ask, BeginAsk, BuildContext, FinishAsk
<1>5. CASE \E t \in LlmThreads : LlmWorks(t)
  BY <1>3, <1>5 DEF LlmWorks
<1>6. CASE \E p \in Pushers : Publishes(p)
  BY <1>6 DEF Publishes
<1>7. CASE PaRequest \/ PaAnswer
  BY <1>3, <1>7 DEF PaRequest, PaAnswer
<1> QED BY <1>1, <1>2, <1>3, <1>4, <1>5, <1>6, <1>7 DEF Next, vars

-----------------------------------------------------------------------------
\* The logs of the LLM client.

\* The newer half of a log that is too long is its end, and not empty.
LEMMA HalfOf ==
  ASSUME NEW max \in Nat \ {0}
  PROVE  (max + 1) \div 2 \in Nat /\ 1 <= (max + 1) \div 2 /\ (max + 1) \div 2 <= max
OBVIOUS

LEMMA NewerHalfIs ==
  ASSUME NEW S, NEW log \in Seq(S), NEW max \in Nat \ {0}, Len(log) > max
  PROVE  /\ NewerHalf(log, max) \in Seq(S)
         /\ Len(NewerHalf(log, max)) = (max + 1) \div 2
         /\ (max + 1) \div 2 < Len(log)
         /\ \A i \in 1..((max + 1) \div 2) :
              NewerHalf(log, max)[i] = log[Len(log) - (max + 1) \div 2 + i]
<1> DEFINE keep == (max + 1) \div 2
<1>1. keep \in Nat /\ 1 <= keep /\ keep <= max /\ Len(log) \in Nat
  BY HalfOf, LenProperties
<1> HIDE DEF keep
<1>2. keep < Len(log)
  BY <1>1
<1>3. NewerHalf(log, max) = SubSeq(log, Len(log) - keep + 1, Len(log))
  BY <1>1, <1>2 DEF NewerHalf, keep
<1>4. Len(log) - keep + 1 \in 1..(Len(log) + 1) /\ Len(log) \in (Len(log) - keep + 1) - 1 .. Len(log)
  BY <1>1, <1>2
<1>5. /\ SubSeq(log, Len(log) - keep + 1, Len(log)) \in Seq(S)
      /\ Len(SubSeq(log, Len(log) - keep + 1, Len(log))) = keep
      /\ \A i \in 1..keep : SubSeq(log, Len(log) - keep + 1, Len(log))[i]
                              = log[Len(log) - keep + i]
  BY <1>1, <1>2, <1>4, SubSeqProperties
<1> QED BY <1>2, <1>3, <1>5 DEF keep

CallType == [pc : {"idle", "wait", "audit", "cutaudit", "log", "cutlog", "error", "stale",
                   "returned"},
             kind : {"json", "text"}, n : Nat, answer : BOOLEAN]

\* What a step of the client does to the calls: one thread moves, and the only
\* thing that may happen to another is that its list was replaced.
LEMMA CallEffect ==
  ASSUME LlmTypeOK, LlmNext
  PROVE  \E t \in LlmThreads :
           /\ call' \in [LlmThreads -> CallType]
           /\ call'[t].n <= MaxRequests[t]
           /\ \A u \in LlmThreads \ {t} :
                /\ call'[u].n = call[u].n
                /\ call'[u].pc = call[u].pc
                   \/ (call[u].pc = "error" /\ call'[u].pc = "stale")
<1> USE DEF CallType
<1>0. /\ call \in [LlmThreads -> CallType] /\ MaxRequests \in [LlmThreads -> Nat]
      /\ \A t \in LlmThreads : call[t].n <= MaxRequests[t]
  BY LlmAssumption DEF LlmTypeOK
<1>1. ASSUME NEW t \in LlmThreads, NEW r \in CallType, r.n <= MaxRequests[t],
             call' = [call EXCEPT ![t] = r]
      PROVE  /\ call' \in [LlmThreads -> CallType]
             /\ call'[t].n <= MaxRequests[t]
             /\ \A u \in LlmThreads \ {t} : call'[u] = call[u]
  BY <1>0, <1>1
<1>2. ASSUME NEW t \in LlmThreads,
             NEW p \in {"error", "cutaudit", "log", "cutlog", "returned"},
             Goto(t, p)
      PROVE  \E r \in CallType : r.n <= MaxRequests[t] /\ call' = [call EXCEPT ![t] = r]
  <2> DEFINE r == [pc |-> p, kind |-> call[t].kind, n |-> call[t].n, answer |-> call[t].answer]
  <2>1. [call[t] EXCEPT !.pc = p] = r /\ r \in CallType /\ r.n <= MaxRequests[t]
    BY <1>0, <1>2
  <2>2. call' = [call EXCEPT ![t] = r]
    BY <1>2, <2>1 DEF Goto
  <2> QED BY <2>1, <2>2
<1>3. ASSUME NEW t \in LlmThreads, Fail(t) \/ Audit(t) \/ CutAudit(t) \/ LogCall(t) \/ LogError(t)
      PROVE  \E p \in {"error", "cutaudit", "log", "cutlog", "returned"} : Goto(t, p)
  BY <1>3 DEF Fail, Audit, CutAudit, LogCall, LogError
<1>4. ASSUME NEW t \in LlmThreads, Respond(t)
      PROVE  \E r \in CallType : r.n <= MaxRequests[t] /\ call' = [call EXCEPT ![t] = r]
  <2>1. PICK some \in BOOLEAN : 
            call' = [call EXCEPT ![t] = [pc |-> "audit", kind |-> @.kind, n |-> @.n,
                                         answer |-> some]]
    BY <1>4 DEF Respond
  <2> DEFINE r == [pc |-> "audit", kind |-> call[t].kind, n |-> call[t].n, answer |-> some]
  <2>2. r \in CallType /\ r.n <= MaxRequests[t]
    BY <1>0
  <2>3. call' = [call EXCEPT ![t] = r]
    BY <2>1
  <2> QED BY <2>2, <2>3
<1>5. ASSUME NEW t \in LlmThreads, Answer(t)
      PROVE  \E r \in CallType : r.n <= MaxRequests[t] /\ call' = [call EXCEPT ![t] = r]
  <2> DEFINE r == [pc |-> "idle", kind |-> call[t].kind, n |-> call[t].n, answer |-> FALSE]
  <2>2. r \in CallType /\ r.n <= MaxRequests[t]
    BY <1>0
  <2>3. call' = [call EXCEPT ![t] = r]
    BY <1>5 DEF Answer
  <2> QED BY <2>2, <2>3
<1>6. ASSUME NEW t \in LlmThreads, NEW kind \in {"json", "text"}, Request(t, kind)
      PROVE  \E r \in CallType : r.n <= MaxRequests[t] /\ call' = [call EXCEPT ![t] = r]
  <2> DEFINE r == [pc |-> "wait", kind |-> kind, n |-> call[t].n + 1, answer |-> FALSE]
  <2>1. call[t].n < MaxRequests[t] /\ call[t].n \in Nat /\ MaxRequests[t] \in Nat
    BY <1>0, <1>6 DEF Request
  <2>2. r \in CallType /\ r.n <= MaxRequests[t]
    BY <1>0, <2>1
  <2>3. call' = [call EXCEPT ![t] = r]
    BY <1>6 DEF Request
  <2> QED BY <2>2, <2>3
<1>7. ASSUME NEW t \in LlmThreads, CutLog(t)
      PROVE  /\ call' \in [LlmThreads -> CallType]
             /\ call'[t].n <= MaxRequests[t]
             /\ \A u \in LlmThreads \ {t} :
                  /\ call'[u].n = call[u].n
                  /\ call'[u].pc = call[u].pc \/ (call[u].pc = "error" /\ call'[u].pc = "stale")
  <2>1. PICK b \in BOOLEAN : call' = CallsAfterCut(t, b)
    <3>1. (Len(call_log) > MaxCallLog) \in BOOLEAN
      OBVIOUS
    <3> QED BY <1>7, <3>1 DEF CutLog
  <2>2. ASSUME NEW u \in LlmThreads, NEW p \in {"returned", "stale"}
        PROVE  /\ [call[u] EXCEPT !.pc = p] \in CallType
               /\ [call[u] EXCEPT !.pc = p].n = call[u].n
               /\ [call[u] EXCEPT !.pc = p].pc = p
    BY <1>0
  <2>3. \A u \in LlmThreads : call'[u] = IF u = t THEN [call[u] EXCEPT !.pc = "returned"]
          ELSE IF b /\ call[u].pc = "error" THEN [call[u] EXCEPT !.pc = "stale"] ELSE call[u]
    BY <2>1 DEF CallsAfterCut
  <2>4. call' \in [LlmThreads -> CallType]
    BY <1>0, <2>1, <2>2 DEF CallsAfterCut
  <2>5. call'[t].n <= MaxRequests[t]
    BY <1>0, <2>2, <2>3
  <2>6. ASSUME NEW u \in LlmThreads \ {t}
        PROVE  /\ call'[u].n = call[u].n
               /\ call'[u].pc = call[u].pc \/ (call[u].pc = "error" /\ call'[u].pc = "stale")
    BY <2>2, <2>3
  <2> QED BY <2>4, <2>5, <2>6
<1>8. ASSUME NEW t \in LlmThreads, NEW r \in CallType, r.n <= MaxRequests[t],
             call' = [call EXCEPT ![t] = r]
      PROVE  /\ call' \in [LlmThreads -> CallType]
             /\ call'[t].n <= MaxRequests[t]
             /\ \A u \in LlmThreads \ {t} : call'[u].n = call[u].n /\ call'[u].pc = call[u].pc
  BY <1>1, <1>8
<1> HIDE DEF CallType
<1>9. PICK t \in LlmThreads : \/ LlmStep(t) \/ Answer(t)
                              \/ \E kind \in {"json", "text"} : Request(t, kind)
  BY DEF LlmNext
<1>10. CASE CutLog(t)
  BY <1>7, <1>10
<1>11. ASSUME ~CutLog(t)
       PROVE  \E r \in CallType : r.n <= MaxRequests[t] /\ call' = [call EXCEPT ![t] = r]
  BY <1>2, <1>3, <1>4, <1>5, <1>6, <1>9, <1>11 DEF LlmStep
<1> QED BY <1>8, <1>10, <1>11

LogEntry == LlmThreads \X Nat

\* What a step of the client does to the logs.
LEMMA LogsMove ==
  ASSUME LlmNext
  PROVE  \E t \in LlmThreads :
           \/ Audit(t) /\ UNCHANGED <<call_log, logged, errorsSince>>
           \/ CutAudit(t) /\ UNCHANGED <<call_log, logged, errorsSince>>
           \/ LogCall(t) /\ UNCHANGED <<audit_log, errorsSince>>
           \/ CutLog(t) /\ UNCHANGED <<audit_log, logged>>
           \/ /\ LogError(t) /\ UNCHANGED audit_log
              /\ call_log' = Append(call_log, Entry(t)) /\ logged' = Append(logged, Entry(t))
              /\ errorsSince' = errorsSince + 1
           \/ /\ \/ Respond(t) \/ Fail(t) \/ LogError(t) \/ Answer(t)
                 \/ \E kind \in {"json", "text"} : Request(t, kind)
              /\ UNCHANGED <<call_log, audit_log, logged, errorsSince>>
<1>1. PICK t \in LlmThreads : \/ LlmStep(t) \/ Answer(t)
                              \/ \E kind \in {"json", "text"} : Request(t, kind)
  BY DEF LlmNext
<1>2. CASE Audit(t) \/ CutAudit(t) \/ LogCall(t) \/ CutLog(t)
  BY <1>2 DEF Audit, CutAudit, LogCall, CutLog
<1>3. CASE LogError(t)
  BY <1>3 DEF LogError
<1>4. CASE Respond(t) \/ Fail(t)
  BY <1>4 DEF Respond, Fail
<1>5. CASE Answer(t) \/ \E kind \in {"json", "text"} : Request(t, kind)
  BY <1>5 DEF Answer, Request
<1> QED BY <1>1, <1>2, <1>3, <1>4, <1>5 DEF LlmStep

LEMMA LlmTypeStep == LlmTypeOK /\ (LlmNext \/ UNCHANGED llmVars) => LlmTypeOK'
<1> SUFFICES ASSUME LlmTypeOK, LlmNext \/ UNCHANGED llmVars PROVE LlmTypeOK'
  OBVIOUS
<1>1. CASE UNCHANGED llmVars
  BY <1>1 DEF LlmTypeOK, llmVars
<1>2. CASE LlmNext
  <2>1. call' \in [LlmThreads -> CallType] /\ \A t \in LlmThreads : call'[t].n <= MaxRequests[t]
    BY <1>2, CallEffect DEF LlmTypeOK
  <2>2. /\ call_log \in Seq(LogEntry) /\ audit_log \in Seq(LogEntry)
        /\ logged \in Seq(LogEntry) /\ errorsSince \in Nat
        /\ MaxCallLog \in Nat \ {0} /\ MaxAuditLog \in Nat \ {0}
        /\ \A t \in LlmThreads : Entry(t) \in LogEntry
    BY LlmAssumption DEF LlmTypeOK, Entry, LogEntry
  <2> HIDE DEF LogEntry
  <2>3. \A t \in LlmThreads, log \in Seq(LogEntry) : Append(log, Entry(t)) \in Seq(LogEntry)
    BY <2>2
  <2>4. ASSUME NEW log \in Seq(LogEntry), NEW max \in Nat \ {0}
        PROVE  (IF Len(log) > max THEN NewerHalf(log, max) ELSE log) \in Seq(LogEntry)
    BY <2>4, NewerHalfIs
  <2>5. audit_log' \in Seq(LogEntry)
    BY <1>2, <2>2, <2>3, <2>4, LogsMove DEF Audit, CutAudit
  <2>6. call_log' \in Seq(LogEntry)
    BY <1>2, <2>2, <2>3, <2>4, LogsMove DEF LogCall, CutLog
  <2>7. logged' \in Seq(LogEntry)
    BY <1>2, <2>2, <2>3, LogsMove DEF LogCall
  <2>8. errorsSince' \in Nat
    BY <1>2, <2>2, LogsMove DEF CutLog
  <2> QED BY <2>1, <2>5, <2>6, <2>7, <2>8 DEF LlmTypeOK, LogEntry, CallType
<1> QED BY <1>1, <1>2

\* The threads about to measure the audit log and the call log.
AuditCutters == {t \in LlmThreads : call[t].pc = "cutaudit"}
LogCutters == {t \in LlmThreads : call[t].pc = "cutlog"}

\* One log entry more is one thread more that has to measure the log.
LEMMA CuttersCount ==
  ASSUME LlmTypeOK, NEW t \in LlmThreads
  PROVE  /\ IsFiniteSet(AuditCutters) /\ IsFiniteSet(LogCutters)
         /\ Cardinality(AuditCutters) \in Nat /\ Cardinality(LogCutters) \in Nat
         /\ Cardinality(AuditCutters \cup {t}) =
              Cardinality(AuditCutters) + (IF t \in AuditCutters THEN 0 ELSE 1)
         /\ Cardinality(LogCutters \cup {t}) =
              Cardinality(LogCutters) + (IF t \in LogCutters THEN 0 ELSE 1)
         /\ Cardinality(AuditCutters \ {t}) =
              Cardinality(AuditCutters) - (IF t \in AuditCutters THEN 1 ELSE 0)
         /\ Cardinality(LogCutters \ {t}) =
              Cardinality(LogCutters) - (IF t \in LogCutters THEN 1 ELSE 0)
<1>1. IsFiniteSet(LlmThreads)
  <2>1. IsFiniteSet({"PA"} \cup {"API"})
    BY FS_Singleton, FS_Union
  <2>2. LlmThreads = {"PA"} \cup {"API"}
    BY ApiAssumption
  <2> QED BY <2>1, <2>2
<1>2. IsFiniteSet(AuditCutters) /\ IsFiniteSet(LogCutters)
  BY <1>1, FS_Subset DEF AuditCutters, LogCutters
<1> QED BY <1>2, FS_AddElement, FS_RemoveElement, FS_CardinalityType

\* Only the steps around a cut change who has to measure a log.
LEMMA CuttersMove ==
  ASSUME LlmTypeOK, NEW t \in LlmThreads
  PROVE  /\ Audit(t) => AuditCutters' = AuditCutters \cup {t} /\ t \notin AuditCutters
                        /\ LogCutters' = LogCutters
         /\ CutAudit(t) => AuditCutters' = AuditCutters \ {t} /\ LogCutters' = LogCutters
         /\ LogCall(t) => LogCutters' = LogCutters \cup {t} /\ t \notin LogCutters
                          /\ AuditCutters' = AuditCutters
         /\ CutLog(t) => LogCutters' = LogCutters \ {t} /\ AuditCutters' = AuditCutters
         /\ (Respond(t) \/ Fail(t) \/ LogError(t) \/ Answer(t)
               \/ \E kind \in {"json", "text"} : Request(t, kind))
              => LogCutters' = LogCutters /\ AuditCutters' = AuditCutters
<1>0. call \in [LlmThreads -> CallType]
  BY DEF LlmTypeOK, CallType
<1> USE DEF AuditCutters, LogCutters, CallType
<1>1. ASSUME NEW p \in {"error", "cutaudit", "log", "cutlog", "returned"}, Goto(t, p)
      PROVE  /\ call'[t].pc = p
             /\ \A u \in LlmThreads : u # t => call'[u] = call[u]
  BY <1>0, <1>1 DEF Goto
<1>2. ASSUME CutLog(t)
      PROVE  /\ call'[t].pc = "returned"
             /\ \A u \in LlmThreads : u # t =>
                  call'[u].pc = call[u].pc \/ (call[u].pc = "error" /\ call'[u].pc = "stale")
  <2>1. PICK b : call' = CallsAfterCut(t, b)
    BY <1>2 DEF CutLog
  <2>2. [call[t] EXCEPT !.pc = "returned"].pc = "returned"
    BY <1>0
  <2>3. \A u \in LlmThreads : [call[u] EXCEPT !.pc = "stale"].pc = "stale"
    BY <1>0
  <2> QED BY <2>1, <2>2, <2>3 DEF CallsAfterCut
<1>3. Audit(t) => AuditCutters' = AuditCutters \cup {t} /\ t \notin AuditCutters
                  /\ LogCutters' = LogCutters
  BY <1>1 DEF Audit
<1>4. CutAudit(t) => AuditCutters' = AuditCutters \ {t} /\ LogCutters' = LogCutters
  BY <1>1 DEF CutAudit
<1>5. LogCall(t) => LogCutters' = LogCutters \cup {t} /\ t \notin LogCutters
                    /\ AuditCutters' = AuditCutters
  BY <1>1 DEF LogCall
<1>6. CutLog(t) => LogCutters' = LogCutters \ {t} /\ AuditCutters' = AuditCutters
  BY <1>2 DEF CutLog
<1>7. Fail(t) \/ LogError(t) => LogCutters' = LogCutters /\ AuditCutters' = AuditCutters
  BY <1>1 DEF Fail, LogError
<1>8. Respond(t) => LogCutters' = LogCutters /\ AuditCutters' = AuditCutters
  BY <1>0 DEF Respond
<1>9. Answer(t) => LogCutters' = LogCutters /\ AuditCutters' = AuditCutters
  BY <1>0 DEF Answer
<1>10. (\E kind \in {"json", "text"} : Request(t, kind))
         => LogCutters' = LogCutters /\ AuditCutters' = AuditCutters
  BY <1>0 DEF Request
<1> QED BY <1>3, <1>4, <1>5, <1>6, <1>7, <1>8, <1>9, <1>10

\* Beyond its limit a log holds only what somebody has yet to measure.
LEMMA LogsBoundedStep == LlmTypeOK /\ LogsBounded /\ LlmNext => LogsBounded'
<1> SUFFICES ASSUME LlmTypeOK, LogsBounded, LlmNext PROVE LogsBounded'
  OBVIOUS
<1>1. /\ Len(audit_log) <= MaxAuditLog + Cardinality(AuditCutters)
      /\ Len(call_log) <= MaxCallLog + Cardinality(LogCutters) + errorsSince
  BY DEF LogsBounded, Measuring, AuditCutters, LogCutters
<1>2. SUFFICES /\ Len(audit_log') <= MaxAuditLog + Cardinality(AuditCutters')
               /\ Len(call_log') <= MaxCallLog + Cardinality(LogCutters') + errorsSince'
  BY DEF LogsBounded, Measuring, AuditCutters, LogCutters
<1>3. /\ call_log \in Seq(LogEntry) /\ audit_log \in Seq(LogEntry)
      /\ errorsSince \in Nat /\ MaxCallLog \in Nat \ {0} /\ MaxAuditLog \in Nat \ {0}
      /\ Len(call_log) \in Nat /\ Len(audit_log) \in Nat
  BY LlmAssumption DEF LlmTypeOK, LogEntry
<1>4. ASSUME NEW log \in Seq(LogEntry), NEW max \in Nat \ {0}
      PROVE  Len(IF Len(log) > max THEN NewerHalf(log, max) ELSE log) <= max
  <2>1. Len(log) \in Nat /\ (max + 1) \div 2 <= max
    BY HalfOf
  <2>2. CASE Len(log) > max
    BY <2>1, <2>2, NewerHalfIs
  <2> QED BY <2>1, <2>2
<1>5. PICK t \in LlmThreads :
           \/ Audit(t) /\ UNCHANGED <<call_log, logged, errorsSince>>
           \/ CutAudit(t) /\ UNCHANGED <<call_log, logged, errorsSince>>
           \/ LogCall(t) /\ UNCHANGED <<audit_log, errorsSince>>
           \/ CutLog(t) /\ UNCHANGED <<audit_log, logged>>
           \/ /\ LogError(t) /\ UNCHANGED audit_log
              /\ call_log' = Append(call_log, Entry(t)) /\ logged' = Append(logged, Entry(t))
              /\ errorsSince' = errorsSince + 1
           \/ /\ \/ Respond(t) \/ Fail(t) \/ LogError(t) \/ Answer(t)
                 \/ \E kind \in {"json", "text"} : Request(t, kind)
              /\ UNCHANGED <<call_log, audit_log, logged, errorsSince>>
  BY LogsMove
<1>6. /\ Len(Append(audit_log, Entry(t))) = Len(audit_log) + 1
      /\ Len(Append(call_log, Entry(t))) = Len(call_log) + 1
  BY <1>3, AppendProperties DEF Entry, LogEntry, LlmTypeOK
<1>7. Cardinality(AuditCutters) \in Nat /\ Cardinality(LogCutters) \in Nat
  BY CuttersCount
<1>8. CASE Audit(t) /\ UNCHANGED <<call_log, logged, errorsSince>>
  <2>1. /\ Cardinality(AuditCutters') = Cardinality(AuditCutters) + 1
        /\ LogCutters' = LogCutters
    BY <1>8, CuttersMove, CuttersCount
  <2>2. audit_log' = Append(audit_log, Entry(t))
    BY <1>8 DEF Audit
  <2> QED BY <1>1, <1>3, <1>6, <1>7, <1>8, <2>1, <2>2
<1>9. CASE CutAudit(t) /\ UNCHANGED <<call_log, logged, errorsSince>>
  <2>1. Cardinality(AuditCutters') \in Nat /\ LogCutters' = LogCutters
    BY <1>9, CuttersMove, CuttersCount, FS_Subset, FS_CardinalityType
  <2>2. Len(audit_log') <= MaxAuditLog /\ Len(audit_log') \in Nat
    <3>1. LlmTypeOK'
      BY LlmTypeStep
    <3>2. Len(audit_log') \in Nat
      BY <3>1 DEF LlmTypeOK
    <3> QED BY <1>3, <1>4, <1>9, <3>2 DEF CutAudit
  <2> QED BY <1>1, <1>3, <1>9, <2>1, <2>2
<1>10. CASE LogCall(t) /\ UNCHANGED <<audit_log, errorsSince>>
  <2>1. /\ Cardinality(LogCutters') = Cardinality(LogCutters) + 1
        /\ AuditCutters' = AuditCutters
    BY <1>10, CuttersMove, CuttersCount
  <2>2. call_log' = Append(call_log, Entry(t))
    BY <1>10 DEF LogCall
  <2> QED BY <1>1, <1>3, <1>6, <1>7, <1>10, <2>1, <2>2
<1>11. CASE CutLog(t) /\ UNCHANGED <<audit_log, logged>>
  <2>1. Cardinality(LogCutters') \in Nat /\ AuditCutters' = AuditCutters
    BY <1>11, CuttersMove, CuttersCount, FS_Subset, FS_CardinalityType
  <2>2. Len(call_log') <= MaxCallLog /\ Len(call_log') \in Nat /\ errorsSince' = 0
    <3>1. LlmTypeOK'
      BY LlmTypeStep
    <3>2. Len(call_log') \in Nat
      BY <3>1 DEF LlmTypeOK
    <3> QED BY <1>3, <1>4, <1>11, <3>2 DEF CutLog
  <2> QED BY <1>1, <1>3, <1>11, <2>1, <2>2
<1>12. CASE /\ LogError(t) /\ UNCHANGED audit_log
            /\ call_log' = Append(call_log, Entry(t)) /\ logged' = Append(logged, Entry(t))
            /\ errorsSince' = errorsSince + 1
  <2>1. LogCutters' = LogCutters /\ AuditCutters' = AuditCutters
    BY <1>12, CuttersMove
  <2> QED BY <1>1, <1>3, <1>6, <1>7, <1>12, <2>1
<1>13. CASE /\ \/ Respond(t) \/ Fail(t) \/ LogError(t) \/ Answer(t)
               \/ \E kind \in {"json", "text"} : Request(t, kind)
            /\ UNCHANGED <<call_log, audit_log, logged, errorsSince>>
  <2>1. LogCutters' = LogCutters /\ AuditCutters' = AuditCutters
    BY <1>13, CuttersMove
  <2> QED BY <1>1, <1>13, <2>1
<1> QED BY <1>5, <1>8, <1>9, <1>10, <1>11, <1>12, <1>13

\* A log that is the end of another, entry by entry.
EndOf(s, l) ==
  /\ Len(s) <= Len(l)
  /\ \A i \in 1..Len(s) : s[i] = l[Len(l) - Len(s) + i]

LEMMA EndIsSubSeq ==
  ASSUME NEW S, NEW s \in Seq(S), NEW l \in Seq(S)
  PROVE  EndOf(s, l) <=> /\ Len(s) <= Len(l)
                         /\ s = SubSeq(l, Len(l) - Len(s) + 1, Len(l))
<1> SUFFICES ASSUME Len(s) <= Len(l)
             PROVE  (\A i \in 1..Len(s) : s[i] = l[Len(l) - Len(s) + i])
                      <=> s = SubSeq(l, Len(l) - Len(s) + 1, Len(l))
  BY DEF EndOf
<1> DEFINE m == Len(l) - Len(s) + 1
           e == SubSeq(l, m, Len(l))
<1>1. Len(s) \in Nat /\ Len(l) \in Nat
  OBVIOUS
<1>2. m \in Int /\ Len(l) \in Int /\ (\A i \in m .. Len(l) : l[i] \in S)
  BY <1>1
<1>3. /\ e \in Seq(S) /\ Len(e) = Len(s)
      /\ \A i \in 1..Len(s) : e[i] = l[Len(l) - Len(s) + i]
  <2>1. /\ e \in Seq(S) /\ Len(e) = IF m <= Len(l) THEN Len(l) - m + 1 ELSE 0
        /\ \A i \in 1..(Len(l) - m + 1) : e[i] = l[m + i - 1]
    BY <1>2, SubSeqProperties
  <2>2. Len(l) - m + 1 = Len(s) /\ \A i \in Int : m + i - 1 = Len(l) - Len(s) + i
    BY <1>1
  <2> QED BY <1>1, <2>1, <2>2
<1> HIDE DEF e
<1>4. ASSUME \A i \in 1..Len(s) : s[i] = l[Len(l) - Len(s) + i] PROVE s = e
  <2>1. \A i \in 1..Len(s) : s[i] = e[i]
    BY <1>3, <1>4
  <2> QED BY <1>3, <2>1, SeqEqual
<1> QED BY <1>3, <1>4 DEF e

\* The log stays an end of everything logged when an entry is added to both ...
LEMMA EndAppend ==
  ASSUME NEW S, NEW s \in Seq(S), NEW l \in Seq(S), NEW e \in S, EndOf(s, l)
  PROVE  EndOf(Append(s, e), Append(l, e))
<1>1. /\ Len(s) \in Nat /\ Len(l) \in Nat
      /\ Len(Append(s, e)) = Len(s) + 1 /\ Len(Append(l, e)) = Len(l) + 1
  OBVIOUS
<1>2. ASSUME NEW i \in 1..(Len(s) + 1)
      PROVE  Append(s, e)[i] = Append(l, e)[Len(l) - Len(s) + i]
  <2>1. CASE i = Len(s) + 1
    BY <1>1, <2>1 DEF EndOf
  <2>2. CASE i \in 1..Len(s)
    <3>1. s[i] = l[Len(l) - Len(s) + i] /\ Len(l) - Len(s) + i \in 1..Len(l)
      BY <1>1, <2>2 DEF EndOf
    <3> QED BY <1>1, <2>2, <3>1
  <2>3. i = Len(s) + 1 \/ i \in 1..Len(s)
    BY <1>1
  <2> QED BY <2>1, <2>2, <2>3
<1>3. Len(l) + 1 - (Len(s) + 1) = Len(l) - Len(s) /\ Len(s) + 1 <= Len(l) + 1
  BY <1>1 DEF EndOf
<1>4. \A i \in 1..Len(Append(s, e)) :
        Append(s, e)[i] = Append(l, e)[Len(Append(l, e)) - Len(Append(s, e)) + i]
  <2> DEFINE a == Append(s, e)
             b == Append(l, e)
  <2>1. Len(a) = Len(s) + 1 /\ Len(b) - Len(a) = Len(l) - Len(s)
    BY <1>1, <1>3
  <2>2. \A i \in 1..(Len(s) + 1) : a[i] = b[Len(l) - Len(s) + i]
    BY <1>2
  <2> HIDE DEF a, b
  <2>3. \A i \in 1..Len(a) : a[i] = b[Len(b) - Len(a) + i]
    BY <2>1, <2>2
  <2> QED BY <2>3 DEF a, b
<1> QED BY <1>1, <1>3, <1>4 DEF EndOf

\* ... and when it is cut to its newer half.
LEMMA EndCut ==
  ASSUME NEW S, NEW s \in Seq(S), NEW l \in Seq(S), NEW max \in Nat \ {0},
         Len(s) > max, EndOf(s, l)
  PROVE  EndOf(NewerHalf(s, max), l)
<1> DEFINE keep == (max + 1) \div 2
           h == NewerHalf(s, max)
<1>1. /\ Len(h) = keep /\ keep < Len(s) /\ keep \in Nat
      /\ \A i \in 1..keep : h[i] = s[Len(s) - keep + i]
  BY NewerHalfIs, HalfOf
<1> HIDE DEF keep, h
<1>2. Len(s) \in Nat /\ Len(l) \in Nat /\ Len(s) <= Len(l)
  BY DEF EndOf
<1>3. ASSUME NEW i \in 1..keep PROVE h[i] = l[Len(l) - keep + i]
  <2>1. Len(s) - keep + i \in 1..Len(s)
    BY <1>1, <1>2
  <2>2. s[Len(s) - keep + i] = l[Len(l) - Len(s) + (Len(s) - keep + i)]
    BY <2>1 DEF EndOf
  <2>3. Len(l) - Len(s) + (Len(s) - keep + i) = Len(l) - keep + i
    BY <1>1, <1>2
  <2> QED BY <1>1, <2>2, <2>3
<1>4. EndOf(h, l)
  BY <1>1, <1>2, <1>3 DEF EndOf
<1> QED BY <1>4 DEF h

LatestInv ==
  /\ EndOf(call_log, logged)
  /\ Len(call_log) < Len(logged) => Len(call_log) >= (MaxCallLog + 1) \div 2

LEMMA LatestIs == ASSUME LlmTypeOK PROVE LatestInv <=> LogShowsLatest
<1>1. call_log \in Seq(LogEntry) /\ logged \in Seq(LogEntry)
  BY DEF LlmTypeOK, LogEntry
<1>2. EndOf(call_log, logged) <=>
        /\ Len(call_log) <= Len(logged)
        /\ call_log = SubSeq(logged, Len(logged) - Len(call_log) + 1, Len(logged))
  BY <1>1, EndIsSubSeq
<1> QED BY <1>2 DEF LatestInv, LogShowsLatest

LEMMA LatestStep == LlmTypeOK /\ LatestInv /\ LlmNext => LatestInv'
<1> SUFFICES ASSUME LlmTypeOK, LatestInv, LlmNext PROVE LatestInv'
  OBVIOUS
<1> DEFINE keep == (MaxCallLog + 1) \div 2
<1>1. /\ call_log \in Seq(LogEntry) /\ logged \in Seq(LogEntry)
      /\ Len(call_log) \in Nat /\ Len(logged) \in Nat
      /\ \A t \in LlmThreads : Entry(t) \in LogEntry
      /\ MaxCallLog \in Nat \ {0}
  BY LlmAssumption DEF LlmTypeOK, LogEntry, Entry
<1>2. keep \in Nat
  BY <1>1, HalfOf
<1> HIDE DEF LogEntry, keep
<1>3. EndOf(call_log, logged) /\ (Len(call_log) < Len(logged) => Len(call_log) >= keep)
  BY DEF LatestInv, keep
<1>4. SUFFICES /\ EndOf(call_log', logged')
               /\ Len(call_log') < Len(logged') => Len(call_log') >= keep
  BY DEF LatestInv, keep, EndOf
<1>5. ASSUME NEW t \in LlmThreads, call_log' = Append(call_log, Entry(t)),
             logged' = Append(logged, Entry(t))
      PROVE  /\ EndOf(call_log', logged')
             /\ Len(call_log') < Len(logged') => Len(call_log') >= keep
  <2>1. EndOf(call_log', logged')
    BY <1>1, <1>3, <1>5, EndAppend
  <2>2. Len(call_log') = Len(call_log) + 1 /\ Len(logged') = Len(logged) + 1
    BY <1>1, <1>5
  <2> QED BY <1>1, <1>2, <1>3, <2>1, <2>2
<1>6. ASSUME NEW t \in LlmThreads, CutLog(t)
      PROVE  /\ EndOf(call_log', logged')
             /\ Len(call_log') < Len(logged') => Len(call_log') >= keep
  <2>1. logged' = logged /\ call_log' = IF Len(call_log) > MaxCallLog
                                        THEN NewerHalf(call_log, MaxCallLog) ELSE call_log
    BY <1>6 DEF CutLog
  <2>2. CASE Len(call_log) > MaxCallLog
    <3>1. EndOf(NewerHalf(call_log, MaxCallLog), logged)
      BY <1>1, <1>3, <2>2, EndCut
    <3>2. Len(NewerHalf(call_log, MaxCallLog)) = keep
      BY <1>1, <2>2, NewerHalfIs DEF keep
    <3> QED BY <1>2, <2>1, <2>2, <3>1, <3>2
  <2> QED BY <1>3, <2>1, <2>2
<1> QED BY <1>3, <1>5, <1>6, LogsMove DEF LogCall, Audit, CutAudit

\* What the runs check of the two logs, with its types.
LogsInv == LlmTypeOK /\ LogsSound

LEMMA LogsInit == Init => LogsInv
<1> SUFFICES ASSUME Init PROVE LogsInv
  OBVIOUS
<1>1. /\ call = [t \in LlmThreads |->
                   [pc |-> "idle", kind |-> "json", n |-> 0, answer |-> FALSE]]
      /\ call_log = << >> /\ audit_log = << >> /\ logged = << >> /\ errorsSince = 0
  BY DEF Init, LlmInit
<1>2. /\ MaxCallLog \in Nat \ {0} /\ MaxAuditLog \in Nat \ {0}
      /\ MaxRequests \in [LlmThreads -> Nat]
  BY LlmAssumption
<1>3. << >> \in Seq(LogEntry) /\ Len(<< >>) = 0
  OBVIOUS
<1>4. LlmTypeOK
  BY <1>1, <1>2, <1>3 DEF LlmTypeOK, LogEntry
<1>5. LogsBounded
  <2>1. AuditCutters = {} /\ LogCutters = {}
    BY <1>1 DEF AuditCutters, LogCutters
  <2>2. Cardinality(AuditCutters) = 0 /\ Cardinality(LogCutters) = 0
    BY <2>1, FS_EmptySet
  <2> QED BY <1>1, <1>2, <1>3, <2>2 DEF LogsBounded, Measuring, AuditCutters, LogCutters
<1>6. LatestInv
  BY <1>1, <1>3 DEF LatestInv, EndOf
<1> QED BY <1>4, <1>5, <1>6, LatestIs DEF LogsInv, LogsSound

LEMMA LogsStep == LogsInv /\ [Next]_vars => LogsInv'
<1> SUFFICES ASSUME LogsInv, [Next]_vars PROVE LogsInv'
  OBVIOUS
<1>1. LlmTypeOK /\ LogsBounded /\ LatestInv
  BY LatestIs DEF LogsInv, LogsSound
<1>2. LlmTypeOK'
  BY <1>1, LlmPart, LlmTypeStep
<1>3. CASE LlmNext
  <2>1. LogsBounded' /\ LatestInv'
    BY <1>1, <1>3, LogsBoundedStep, LatestStep
  <2>2. LatestInv' <=> LogShowsLatest'
    BY <1>2, LatestIs, PTL
  <2> QED BY <1>2, <2>1, <2>2 DEF LogsInv, LogsSound
<1>4. CASE UNCHANGED llmVars
  BY <1>2, <1>4 DEF LogsInv, LogsSound, LogsBounded, LogShowsLatest, Measuring, llmVars
<1> QED BY <1>3, <1>4, LlmPart

\* The call log and the audit log, which PA's thread and the API's event loop
\* append to and cut without a lock, stay bounded but for errors, and the call
\* log always shows the latest calls in order, for all limits.
THEOREM LogsAreSound == Spec => []LogsSound
<1>1. LogsInv => LogsSound
  BY DEF LogsInv
<1> QED BY <1>1, LogsInit, LogsStep, PTL DEF Spec

-----------------------------------------------------------------------------
\* The event streams.

\* What each client has seen or will see: events yielded, then events queued.
SeenBy == [c \in Clients |-> received[c] \o queue[c]]

\* A thread serves each client of its copy of the list once, with an event.
LeftOnce ==
  \A p \in Pushers : /\ IsInjective(push[p].left)
                     /\ push[p].left # << >> => push[p].n >= 1

\* A client still to be served has not seen the event on its way to it.
NotYetSeen ==
  \A c \in Clients, p \in Pushers : c \in Range(push[p].left) =>
    \A e \in Range(SeenBy[c]) : e.from = p => e.n < push[p].n

\* The inductive invariant of the streams.
StreamInv == SseTypeOK /\ LeftOnce /\ NotYetSeen /\ StreamsSound

LEMMA RangeAppend ==
  ASSUME NEW S, NEW s \in Seq(S), NEW x \in S
  PROVE  Range(Append(s, x)) = Range(s) \cup {x}
<1>1. /\ DOMAIN Append(s, x) = 1..(Len(s) + 1) /\ DOMAIN s = 1..Len(s) /\ Len(s) \in Nat
      /\ Append(s, x)[Len(s) + 1] = x
      /\ \A i \in 1..Len(s) : Append(s, x)[i] = s[i]
  OBVIOUS
<1>2. \A i \in 1..(Len(s) + 1) : i = Len(s) + 1 \/ i \in 1..Len(s)
  BY <1>1
<1>3. \A i \in 1..Len(s) : i \in 1..(Len(s) + 1)
  BY <1>1
<1>4. Len(s) + 1 \in 1..(Len(s) + 1)
  BY <1>1
<1> QED BY <1>1, <1>2, <1>3, <1>4 DEF Range

LEMMA RangeEmpty == Range(<< >>) = {}
BY DEF Range

\* list.remove takes out the one place of a client and keeps the others.
LEMMA RemoveFirstIs ==
  ASSUME NEW S, NEW s \in Seq(S), IsInjective(s), NEW c
  PROVE  /\ RemoveFirst(s, c) \in Seq(S)
         /\ IsInjective(RemoveFirst(s, c))
         /\ Range(RemoveFirst(s, c)) = Range(s) \ {c}
<1>1. CASE ~\E i \in 1..Len(s) : s[i] = c
  <2>1. RemoveFirst(s, c) = s
    BY <1>1 DEF RemoveFirst
  <2>2. c \notin Range(s)
    BY <1>1 DEF Range
  <2> QED BY <2>1, <2>2
<1>2. ASSUME NEW k \in 1..Len(s), s[k] = c
      PROVE  /\ RemoveFirst(s, c) \in Seq(S)
             /\ IsInjective(RemoveFirst(s, c))
             /\ Range(RemoveFirst(s, c)) = Range(s) \ {c}
  <2> DEFINE r == RemoveAt(s, k)
             a == SubSeq(s, 1, k - 1)
             b == SubSeq(s, k + 1, Len(s))
  <2>0. Len(s) \in Nat /\ DOMAIN s = 1..Len(s) /\ k \in Int /\ 1 <= k /\ k <= Len(s)
    OBVIOUS
  <2>1. RemoveFirst(s, c) = r
    <3>1. {i \in 1..Len(s) : s[i] = c} = {k}
      BY <1>2, <2>0 DEF IsInjective
    <3>2. Min({k}) = k
      BY <2>0 DEF Min
    <3>3. SelectInSeq(s, LAMBDA v : v = c) = k
      BY <3>1, <3>2 DEF SelectInSeq
    <3> QED BY <1>2, <3>3 DEF RemoveFirst
  <2>2. /\ a \in Seq(S) /\ Len(a) = k - 1
        /\ \A i \in 1..(k - 1) : a[i] = s[i]
    BY <2>0, SubSeqProperties
  <2>3. /\ b \in Seq(S) /\ Len(b) = Len(s) - k
        /\ \A i \in 1..(Len(s) - k) : b[i] = s[k + i]
    <3>1. k + 1 \in Int /\ Len(s) \in Int /\ \A i \in (k + 1) .. Len(s) : s[i] \in S
      BY <2>0
    <3>2. /\ b \in Seq(S) /\ Len(b) = IF k + 1 <= Len(s) THEN Len(s) - (k + 1) + 1 ELSE 0
          /\ \A i \in 1..(Len(s) - (k + 1) + 1) : b[i] = s[(k + 1) + i - 1]
      BY <3>1, SubSeqProperties
    <3> HIDE DEF b
    <3>3. Len(s) - (k + 1) + 1 = Len(s) - k /\ \A i \in Int : (k + 1) + i - 1 = k + i
      BY <2>0
    <3>4. Len(b) = Len(s) - k
      <4>1. CASE k + 1 <= Len(s)
        BY <4>1, <3>2, <3>3
      <4>2. CASE ~(k + 1 <= Len(s))
        <5>0. \A n, m \in Int : m <= n /\ ~(m + 1 <= n) => n = m
          OBVIOUS
        <5>1. Len(s) \in Int /\ k \in Int /\ k <= Len(s)
          BY <2>0
        <5>2. Len(s) = k
          BY ONLY <4>2, <5>0, <5>1
        <5> QED BY <4>2, <5>2, <3>2
      <4> QED BY <4>1, <4>2
    <3>5. \A i \in 1..(Len(s) - k) : b[i] = s[(k + 1) + i - 1]
      BY <3>2, <3>3
    <3>6. \A i \in 1..(Len(s) - k) : b[i] = s[k + i]
      BY <3>3, <3>5
    <3> QED BY <3>2, <3>4, <3>6
  <2> HIDE DEF a, b
  <2>4. /\ r = a \o b /\ r \in Seq(S) /\ Len(r) = Len(s) - 1 /\ DOMAIN r = 1..(Len(s) - 1)
    <3>1. r = a \o b
      BY DEF RemoveAt, a, b
    <3>2. a \o b \in Seq(S) /\ Len(a \o b) = Len(a) + Len(b)
      BY <2>2, <2>3, ConcatProperties
    <3>3. Len(r) = Len(s) - 1 /\ r \in Seq(S)
      BY <2>0, <2>2, <2>3, <3>1, <3>2
    <3> QED BY <3>1, <3>3, LenProperties
  <2> HIDE DEF r
  <2>5. \A i \in 1..(Len(s) - 1) : r[i] = s[IF i < k THEN i ELSE i + 1]
    <3> TAKE i \in 1..(Len(s) - 1)
    <3>1. \A j \in 1..(Len(a) + Len(b)) :
            (a \o b)[j] = IF j <= Len(a) THEN a[j] ELSE b[j - Len(a)]
      BY <2>2, <2>3, ConcatProperties
    <3>2. r[i] = IF i <= k - 1 THEN a[i] ELSE b[i - (k - 1)]
      <4>1. i \in 1..(Len(a) + Len(b)) /\ Len(a) = k - 1
        BY <2>0, <2>2, <2>3
      <4>2. r[i] = (a \o b)[i]
        BY <2>4
      <4> QED BY <3>1, <4>1, <4>2
    <3>3. CASE i < k
      BY <2>0, <2>2, <3>2, <3>3
    <3>4. CASE ~(i < k)
      <4>1. i - (k - 1) \in 1..(Len(s) - k) /\ k + (i - (k - 1)) = i + 1 /\ ~(i <= k - 1)
        BY <2>0, <3>4
      <4> QED BY <2>3, <3>2, <3>4, <4>1
    <3> QED BY <3>3, <3>4
  <2>6. IsInjective(r)
    <3> SUFFICES ASSUME NEW i \in 1..(Len(s) - 1), NEW j \in 1..(Len(s) - 1), r[i] = r[j]
                 PROVE  i = j
      BY <2>4 DEF IsInjective
    <3> DEFINE ii == IF i < k THEN i ELSE i + 1
               jj == IF j < k THEN j ELSE j + 1
    <3>1. ii \in 1..Len(s) /\ jj \in 1..Len(s)
      BY <2>0
    <3>2. s[ii] = s[jj]
      BY <2>5
    <3>3. ii = jj
      BY <2>0, <3>1, <3>2 DEF IsInjective
    <3> QED BY <2>0, <3>3
  <2>7. ASSUME NEW x \in Range(s), x # c PROVE x \in Range(r)
    <3>1. PICK i \in 1..Len(s) : x = s[i]
      BY <2>0 DEF Range
    <3>2. i # k
      BY <1>2, <2>7, <3>1
    <3> DEFINE j == IF i < k THEN i ELSE i - 1
    <3>3. j \in 1..(Len(s) - 1) /\ (IF j < k THEN j ELSE j + 1) = i
      BY <2>0, <3>2
    <3> HIDE DEF j
    <3>4. r[j] = x
      BY <2>5, <3>1, <3>3
    <3> QED BY <2>4, <3>3, <3>4 DEF Range
  <2>8. ASSUME NEW x \in Range(r) PROVE x \in Range(s) /\ x # c
    <3>1. PICK i \in 1..(Len(s) - 1) : x = r[i]
      BY <2>4 DEF Range
    <3> DEFINE j == IF i < k THEN i ELSE i + 1
    <3>2. j \in 1..Len(s) /\ j # k
      BY <2>0
    <3>3. x = s[j]
      BY <2>5, <3>1
    <3> HIDE DEF j
    <3> QED BY <1>2, <2>0, <3>2, <3>3 DEF Range, IsInjective
  <2> QED BY <2>1, <2>4, <2>6, <2>7, <2>8
<1> QED BY <1>1, <1>2

\* A sequence is its head and its tail.
LEMMA HeadTailConcat ==
  ASSUME NEW S, NEW t \in Seq(S), t # << >>
  PROVE  t = <<Head(t)>> \o Tail(t) /\ <<Head(t)>> \in Seq(S) /\ Tail(t) \in Seq(S)
<1>1. /\ Head(t) \in S /\ Tail(t) \in Seq(S) /\ Len(Tail(t)) = Len(t) - 1
      /\ \A i \in 1..Len(Tail(t)) : Tail(t)[i] = t[i + 1]
      /\ Len(t) \in Nat /\ Len(t) > 0 /\ Head(t) = t[1]
  OBVIOUS
<1> DEFINE h == <<Head(t)>>
           r == Tail(t)
<1>2. h \in Seq(S) /\ Len(h) = 1 /\ h[1] = t[1]
  BY <1>1
<1>3. /\ h \o r \in Seq(S) /\ Len(h \o r) = Len(h) + Len(r)
      /\ \A i \in 1..(Len(h) + Len(r)) :
           (h \o r)[i] = IF i <= Len(h) THEN h[i] ELSE r[i - Len(h)]
  BY <1>1, <1>2, ConcatProperties
<1> HIDE DEF h, r
<1>4. Len(r) = Len(t) - 1 /\ \A i \in 1..(Len(t) - 1) : r[i] = t[i + 1]
  BY <1>1 DEF r
<1>5. Len(h \o r) = Len(t)
  BY <1>1, <1>2, <1>3, <1>4
<1>6. ASSUME NEW i \in 1..Len(t) PROVE (h \o r)[i] = t[i]
  <2>1. i \in 1..(Len(h) + Len(r))
    BY <1>1, <1>2, <1>4
  <2>2. (h \o r)[i] = IF i <= 1 THEN h[i] ELSE r[i - 1]
    BY <1>2, <1>3, <2>1
  <2>3. CASE i = 1
    BY <1>2, <2>2, <2>3
  <2>4. CASE i > 1
    <3>1. i - 1 \in 1..(Len(t) - 1) /\ (i - 1) + 1 = i
      BY <1>1, <2>4
    <3> QED BY <1>4, <2>2, <2>4, <3>1
  <2>5. i = 1 \/ i > 1
    OBVIOUS
  <2> QED BY <2>3, <2>4, <2>5
<1>7. h \o r = t
  BY <1>3, <1>5, <1>6, SeqEqual
<1> QED BY <1>1, <1>2, <1>7 DEF h, r

\* Yielding moves the first event queued to the end of those received.
LEMMA YieldConcat ==
  ASSUME NEW S, NEW s \in Seq(S), NEW t \in Seq(S), t # << >>
  PROVE  Append(s, Head(t)) \o Tail(t) = s \o t
<1>1. t = <<Head(t)>> \o Tail(t) /\ <<Head(t)>> \in Seq(S) /\ Tail(t) \in Seq(S) /\ Head(t) \in S
  BY HeadTailConcat, HeadTailProperties
<1>2. Append(s, Head(t)) = s \o <<Head(t)>>
  BY <1>1, AppendIsConcat
<1>3. (s \o <<Head(t)>>) \o Tail(t) = s \o (<<Head(t)>> \o Tail(t))
  BY <1>1, ConcatAssociative
<1> QED BY <1>1, <1>2, <1>3

\* An event queued comes after everything seen.
LEMMA AppendConcat ==
  ASSUME NEW S, NEW s \in Seq(S), NEW t \in Seq(S), NEW e \in S
  PROVE  s \o Append(t, e) = Append(s \o t, e) /\ s \o t \in Seq(S)
<1>1. Append(t, e) = t \o <<e>> /\ <<e>> \in Seq(S) /\ s \o t \in Seq(S)
  BY AppendIsConcat, ConcatProperties
<1>2. Append(s \o t, e) = (s \o t) \o <<e>>
  BY <1>1, AppendIsConcat
<1>3. (s \o t) \o <<e>> = s \o (t \o <<e>>)
  BY <1>1, ConcatAssociative
<1> QED BY <1>1, <1>2, <1>3

\* The five things a step may do to the streams: list a client, take one out,
\* begin a push, serve one client, or none of these.
Lists(c) ==
  /\ phase[c] = "absent" /\ phase' = [phase EXCEPT ![c] = "connected"]
  /\ sse_queues' = Append(sse_queues, c)
  /\ since' = [since EXCEPT ![c] = [p \in Pushers |-> push[p].n]]
  /\ UNCHANGED <<queue, push, received, dropped>> /\ SeenBy' = SeenBy

Unlists(c) ==
  /\ phase' = [phase EXCEPT ![c] = "ended"]
  /\ sse_queues' = RemoveFirst(sse_queues, c)
  /\ queue' = [queue EXCEPT ![c] = << >>] /\ received' = [received EXCEPT ![c] = << >>]
  /\ dropped' = [dropped EXCEPT ![c] = {}]
  /\ since' = [since EXCEPT ![c] = [p \in Pushers |-> 0]]
  /\ UNCHANGED push /\ SeenBy' = [SeenBy EXCEPT ![c] = << >>]

Begins(p) ==
  /\ push[p].left = << >>
  /\ push' = [push EXCEPT ![p] = [n |-> push[p].n + 1, left |-> sse_queues]]
  /\ UNCHANGED <<phase, sse_queues, queue, received, dropped, since>> /\ SeenBy' = SeenBy

Serves(p, c) ==
  /\ push[p].left # << >> /\ c = Head(push[p].left)
  /\ push' = [push EXCEPT ![p] = [n |-> push[p].n, left |-> Tail(push[p].left)]]
  /\ \/ /\ Len(queue[c]) < QueueMax
        /\ queue' = [queue EXCEPT ![c] = Append(queue[c], Event(p))]
        /\ SeenBy' = [SeenBy EXCEPT ![c] = Append(SeenBy[c], Event(p))]
        /\ UNCHANGED dropped
     \/ /\ dropped' = [dropped EXCEPT ![c] = dropped[c] \cup {Event(p)}]
        /\ UNCHANGED queue /\ SeenBy' = SeenBy
  /\ UNCHANGED <<phase, sse_queues, received, since>>

\* An event may move from a queue to what was received, and a client may start
\* or leave.
Idles ==
  /\ SeenBy' = SeenBy /\ UNCHANGED <<sse_queues, push, dropped, since>>
  /\ \A c \in Clients : phase'[c] = phase[c]
                        \/ (phase[c] = "connected" /\ phase'[c] \in {"streaming", "left"})
  /\ \/ UNCHANGED <<queue, received>>
     \/ \E c \in Clients : queue[c] # << >>
          /\ queue' = [queue EXCEPT ![c] = Tail(queue[c])]
          /\ received' = [received EXCEPT ![c] = Append(received[c], Head(queue[c]))]
  /\ phase' \in [Clients -> {"absent", "connected", "streaming", "ended", "left"}]

LEMMA SeenType ==
  ASSUME SseTypeOK
  PROVE  SeenBy \in [Clients -> Seq(EventType)]
<1> USE DEF SseTypeOK
<1>1. ASSUME NEW c \in Clients PROVE received[c] \o queue[c] \in Seq(EventType)
  BY ConcatProperties
<1> QED BY <1>1 DEF SeenBy

\* Every step of the streams is one of the five.
LEMMA StreamKinds ==
  ASSUME SseTypeOK, SseNext
  PROVE  \/ \E c \in Clients : Lists(c) \/ Unlists(c)
         \/ \E p \in Pushers : Begins(p) \/ \E c \in Clients : Serves(p, c)
         \/ Idles
<1>0. /\ queue \in [Clients -> Seq(EventType)] /\ received \in [Clients -> Seq(EventType)]
      /\ push \in [Pushers -> [n : Nat, left : Seq(Clients)]]
      /\ phase \in [Clients -> {"absent", "connected", "streaming", "ended", "left"}]
      /\ \A p \in Pushers : Event(p) \in EventType
  BY DEF SseTypeOK, Event, EventType
<1> HIDE DEF EventType
<1>1. UNCHANGED <<queue, received>> => SeenBy' = SeenBy
  BY DEF SeenBy
<1>2. ASSUME NEW c \in Clients, Connect(c) PROVE Lists(c)
  BY <1>1, <1>2 DEF Connect, Lists
<1>3. ASSUME NEW c \in Clients, CloseStream(c) PROVE Unlists(c)
  <2>1. SeenBy' = [SeenBy EXCEPT ![c] = << >>]
    <3>1. SeenBy' = [d \in Clients |-> received'[d] \o queue'[d]]
      BY DEF SeenBy
    <3>2. \A d \in Clients : received'[d] \o queue'[d] = IF d = c THEN << >> ELSE SeenBy[d]
      <4> TAKE d \in Clients
      <4>1. CASE d = c
        <5>1. received'[d] = << >> /\ queue'[d] = << >>
          BY <1>0, <1>3, <4>1 DEF CloseStream
        <5> QED BY <4>1, <5>1, ConcatEmptySeq
      <4>2. CASE d # c
        <5>1. received'[d] = received[d] /\ queue'[d] = queue[d]
          BY <1>0, <1>3, <4>2 DEF CloseStream
        <5> QED BY <4>2, <5>1 DEF SeenBy
      <4> QED BY <4>1, <4>2
    <3>3. DOMAIN SeenBy = Clients
      BY DEF SeenBy
    <3> QED BY <3>1, <3>2, <3>3
  <2> QED BY <1>3, <2>1 DEF CloseStream, Unlist, Unlists
<1>4. ASSUME NEW c \in Clients, StartStream(c) \/ DisconnectEarly(c) PROVE Idles
  BY <1>0, <1>1, <1>4 DEF StartStream, DisconnectEarly, Idles
<1>5. ASSUME NEW c \in Clients, Yield(c) PROVE Idles
  <2>1. /\ queue[c] # << >>
        /\ queue' = [queue EXCEPT ![c] = Tail(queue[c])]
        /\ received' = [received EXCEPT ![c] = Append(received[c], Head(queue[c]))]
    BY <1>5 DEF Yield
  <2>2. Append(received[c], Head(queue[c])) \o Tail(queue[c]) = received[c] \o queue[c]
    BY <1>0, <2>1, YieldConcat
  <2>3. \A d \in Clients : received'[d] \o queue'[d] = received[d] \o queue[d]
    BY <1>0, <2>1, <2>2
  <2>4. SeenBy' = SeenBy
    BY <2>3 DEF SeenBy
  <2> QED BY <1>0, <1>5, <2>1, <2>4 DEF Yield, Idles
<1>6. ASSUME NEW p \in Pushers, BeginPush(p) PROVE Begins(p)
  BY <1>0, <1>1, <1>6 DEF BeginPush, Begins
<1>7. ASSUME NEW p \in Pushers, PutNext(p) PROVE \E c \in Clients : Serves(p, c)
  <2> DEFINE c == Head(push[p].left)
  <2>1. push[p].left # << >> /\ push[p].left \in Seq(Clients) /\ c \in Clients
    BY <1>0, <1>7 DEF PutNext
  <2>2. push' = [push EXCEPT ![p] = [n |-> push[p].n, left |-> Tail(push[p].left)]]
    BY <1>7 DEF PutNext
  <2>3. ASSUME queue' = [queue EXCEPT ![c] = Append(queue[c], Event(p))], UNCHANGED received
        PROVE  SeenBy' = [SeenBy EXCEPT ![c] = Append(SeenBy[c], Event(p))]
    <3>1. SeenBy' = [d \in Clients |-> received'[d] \o queue'[d]]
      BY DEF SeenBy
    <3>2. received[c] \o Append(queue[c], Event(p)) = Append(received[c] \o queue[c], Event(p))
      BY <1>0, <2>1, AppendConcat
    <3>3. \A d \in Clients : received'[d] \o queue'[d]
            = IF d = c THEN Append(SeenBy[c], Event(p)) ELSE SeenBy[d]
      BY <1>0, <2>1, <2>3, <3>2 DEF SeenBy
    <3>4. DOMAIN SeenBy = Clients
      BY DEF SeenBy
    <3> QED BY <3>1, <3>3, <3>4
  <2>4. Serves(p, c)
    BY <1>1, <1>7, <2>1, <2>2, <2>3 DEF PutNext, Serves
  <2> QED BY <2>1, <2>4
<1>8. ASSUME UNCHANGED <<phase, sse_queues, queue, push, received, dropped, since>> PROVE Idles
  BY <1>0, <1>1, <1>8 DEF Idles
<1> QED BY <1>2, <1>3, <1>4, <1>5, <1>6, <1>7, <1>8 DEF SseNext, EndStream, Disconnect

LEMMA RangeHeadTail ==
  ASSUME NEW S, NEW s \in Seq(S), s # << >>
  PROVE  /\ Head(s) \in Range(s) /\ Range(Tail(s)) \subseteq Range(s)
         /\ Range(s) = Range(Tail(s)) \cup {Head(s)}
         /\ IsInjective(s) => IsInjective(Tail(s)) /\ Head(s) \notin Range(Tail(s))
<1> DEFINE t == Tail(s)
<1>1. /\ Len(s) \in Nat /\ Len(s) > 0 /\ DOMAIN s = 1..Len(s) /\ Head(s) = s[1]
      /\ DOMAIN t = 1..(Len(s) - 1) /\ \A i \in 1..(Len(s) - 1) : t[i] = s[i + 1]
  OBVIOUS
<1> HIDE DEF t
<1>2. Head(s) \in Range(s)
  BY <1>1 DEF Range
<1>3. \A i \in 1..(Len(s) - 1) : i + 1 \in 1..Len(s) /\ i + 1 # 1
  BY <1>1
<1>4. Range(t) \subseteq Range(s)
  BY <1>1, <1>3 DEF Range
<1>5. ASSUME NEW x \in Range(s), x # Head(s) PROVE x \in Range(t)
  <2>1. PICK i \in 1..Len(s) : x = s[i]
    BY <1>1 DEF Range
  <2>2. i - 1 \in 1..(Len(s) - 1) /\ (i - 1) + 1 = i
    BY <1>1, <1>5, <2>1
  <2>3. x = t[i - 1]
    BY <1>1, <2>1, <2>2
  <2> QED BY <1>1, <2>2, <2>3 DEF Range
<1>6. ASSUME IsInjective(s) PROVE IsInjective(t) /\ Head(s) \notin Range(t)
  <2>1. \A i, j \in 1..(Len(s) - 1) : t[i] = t[j] => i = j
    <3> TAKE i, j \in 1..(Len(s) - 1)
    <3> HAVE t[i] = t[j]
    <3>1. s[i + 1] = s[j + 1]
      BY <1>1
    <3>2. i + 1 = j + 1
      BY <1>1, <1>3, <1>6, <3>1 DEF IsInjective
    <3> QED BY <3>2
  <2>2. \A i \in 1..(Len(s) - 1) : t[i] # s[1]
    BY <1>1, <1>3, <1>6 DEF IsInjective
  <2> QED BY <1>1, <2>1, <2>2 DEF IsInjective, Range
<1> QED BY <1>2, <1>4, <1>5, <1>6 DEF t

LEMMA InjectiveAppend ==
  ASSUME NEW S, NEW s \in Seq(S), NEW x \in S, IsInjective(s), x \notin Range(s)
  PROVE  IsInjective(Append(s, x))
<1> DEFINE t == Append(s, x)
<1>1. /\ Len(s) \in Nat /\ DOMAIN s = 1..Len(s) /\ DOMAIN t = 1..(Len(s) + 1)
      /\ t[Len(s) + 1] = x /\ \A i \in 1..Len(s) : t[i] = s[i]
  OBVIOUS
<1>2. \A i \in 1..(Len(s) + 1) : i = Len(s) + 1 \/ i \in 1..Len(s)
  BY <1>1
<1>3. \A i \in 1..Len(s) : s[i] # x
  BY <1>1 DEF Range
<1>4. \A i, j \in 1..Len(s) : s[i] = s[j] => i = j
  BY <1>1 DEF IsInjective
<1> HIDE DEF t
<1>5. \A i, j \in 1..(Len(s) + 1) : t[i] = t[j] => i = j
  BY <1>1, <1>2, <1>3, <1>4
<1>6. IsInjective(t)
  BY <1>1, <1>5 DEF IsInjective
<1> QED BY <1>6 DEF t

\* Which events a client has, whichever way they are kept.
LEMMA SeenRange ==
  ASSUME SseTypeOK, NEW c \in Clients
  PROVE  Range(SeenBy[c]) = Range(received[c]) \cup Range(queue[c])
<1> DEFINE s == received[c]
           t == queue[c]
<1>1. s \in Seq(EventType) /\ t \in Seq(EventType) /\ SeenBy[c] = s \o t
  BY DEF SseTypeOK, SeenBy
<1> HIDE DEF s, t
<1>2. /\ s \o t \in Seq(EventType) /\ Len(s \o t) = Len(s) + Len(t)
      /\ \A i \in 1..(Len(s) + Len(t)) :
           (s \o t)[i] = IF i <= Len(s) THEN s[i] ELSE t[i - Len(s)]
  BY <1>1, ConcatProperties
<1>3. /\ Len(s) \in Nat /\ Len(t) \in Nat
      /\ DOMAIN s = 1..Len(s) /\ DOMAIN t = 1..Len(t)
      /\ DOMAIN (s \o t) = 1..(Len(s) + Len(t))
  BY <1>1, <1>2
<1>4. ASSUME NEW i \in 1..Len(s) PROVE i \in 1..(Len(s) + Len(t)) /\ (s \o t)[i] = s[i]
  BY <1>2, <1>3
<1>5. ASSUME NEW i \in 1..Len(t)
      PROVE  Len(s) + i \in 1..(Len(s) + Len(t)) /\ (s \o t)[Len(s) + i] = t[i]
  <2>1. Len(s) + i \in 1..(Len(s) + Len(t)) /\ ~(Len(s) + i <= Len(s)) /\ Len(s) + i - Len(s) = i
    BY <1>3
  <2> QED BY <1>2, <2>1
<1>6. ASSUME NEW i \in 1..(Len(s) + Len(t))
      PROVE  \/ i \in 1..Len(s) /\ (s \o t)[i] = s[i]
             \/ i - Len(s) \in 1..Len(t) /\ (s \o t)[i] = t[i - Len(s)]
  <2>1. i \in 1..Len(s) \/ (i - Len(s) \in 1..Len(t) /\ ~(i <= Len(s)))
    BY <1>3
  <2> QED BY <1>2, <1>4, <2>1
<1>7. Range(s \o t) = Range(s) \cup Range(t)
  <2>1. ASSUME NEW x \in Range(s \o t) PROVE x \in Range(s) \cup Range(t)
    <3>1. PICK i \in 1..(Len(s) + Len(t)) : x = (s \o t)[i]
      BY <1>3 DEF Range
    <3> QED BY <1>3, <1>6, <3>1 DEF Range
  <2>2. ASSUME NEW x \in Range(s) PROVE x \in Range(s \o t)
    <3>1. PICK i \in 1..Len(s) : x = s[i]
      BY <1>3 DEF Range
    <3>2. i \in DOMAIN (s \o t) /\ x = (s \o t)[i]
      BY <1>3, <1>4, <3>1
    <3> QED BY <3>2 DEF Range
  <2>3. ASSUME NEW x \in Range(t) PROVE x \in Range(s \o t)
    <3>1. PICK i \in 1..Len(t) : x = t[i]
      BY <1>3 DEF Range
    <3>2. Len(s) + i \in DOMAIN (s \o t) /\ x = (s \o t)[Len(s) + i]
      BY <1>3, <1>5, <3>1
    <3> QED BY <3>2 DEF Range
  <2> QED BY <2>1, <2>2, <2>3
<1> QED BY <1>1, <1>7 DEF s, t

\* The numbers of a pusher only grow, so that what was pushed stays so.
LEMMA EventsGrow ==
  ASSUME SseTypeOK,
         \/ UNCHANGED push
         \/ \E p \in Pushers : Begins(p) \/ \E c \in Clients : Serves(p, c)
  PROVE  /\ push' \in [Pushers -> [n : Nat, left : Seq(Clients)]]
         /\ \A p \in Pushers : push[p].n <= push'[p].n
         /\ Events \subseteq Events'
<1>0. push \in [Pushers -> [n : Nat, left : Seq(Clients)]] /\ sse_queues \in Seq(Clients)
  BY DEF SseTypeOK
<1>1. /\ push' \in [Pushers -> [n : Nat, left : Seq(Clients)]]
      /\ \A p \in Pushers : push[p].n <= push'[p].n
  <2>1. CASE UNCHANGED push
    BY <1>0, <2>1
  <2>2. ASSUME NEW p \in Pushers, Begins(p)
        PROVE  /\ push' \in [Pushers -> [n : Nat, left : Seq(Clients)]]
               /\ \A q \in Pushers : push[q].n <= push'[q].n
    BY <1>0, <2>2 DEF Begins
  <2>3. ASSUME NEW p \in Pushers, NEW c \in Clients, Serves(p, c)
        PROVE  /\ push' \in [Pushers -> [n : Nat, left : Seq(Clients)]]
               /\ \A q \in Pushers : push[q].n <= push'[q].n
    <3>1. push[p].left \in Seq(Clients) /\ push[p].n \in Nat
      BY <1>0
    <3>2. /\ push[p].left # << >>
          /\ push' = [push EXCEPT ![p] = [n |-> push[p].n, left |-> Tail(push[p].left)]]
      BY <2>3 DEF Serves
    <3>3. Tail(push[p].left) \in Seq(Clients)
      BY <3>1, <3>2
    <3> QED BY <1>0, <3>1, <3>2, <3>3
  <2> QED BY <2>1, <2>2, <2>3
<1>2. ASSUME NEW e \in Events PROVE e \in Events'
  <2>1. e \in EventType /\ e.n \in 1..push[e.from].n /\ e.from \in Pushers /\ e.n \in Nat
    BY DEF Events, EventType
  <2>2. push[e.from].n \in Nat /\ push'[e.from].n \in Nat /\ push[e.from].n <= push'[e.from].n
    BY <1>0, <1>1, <2>1
  <2>3. e.n \in 1..push'[e.from].n
    BY <2>1, <2>2
  <2> QED BY <2>1, <2>3 DEF Events
<1> QED BY <1>1, <1>2

LEMMA SseTypeStep == SseTypeOK /\ QueuesHaveReaders /\ LeftOnce /\ SseNext => SseTypeOK'
<1> SUFFICES ASSUME SseTypeOK, QueuesHaveReaders, LeftOnce, SseNext PROVE SseTypeOK'
  OBVIOUS
<1>0. /\ queue \in [Clients -> Seq(EventType)] /\ received \in [Clients -> Seq(EventType)]
      /\ dropped \in [Clients -> SUBSET EventType]
      /\ push \in [Pushers -> [n : Nat, left : Seq(Clients)]]
      /\ since \in [Clients -> [Pushers -> Nat]]
      /\ sse_queues \in Seq(Clients) /\ IsInjective(sse_queues)
      /\ phase \in [Clients -> {"absent", "connected", "streaming", "ended", "left"}]
      /\ \A c \in Clients : /\ Range(queue[c]) \cup Range(received[c]) \subseteq Events
                            /\ Len(queue[c]) <= QueueMax
                            /\ dropped[c] \subseteq Events
      /\ QueueMax \in Nat
  BY SseAssumption DEF SseTypeOK
<1>1. running' \in BOOLEAN
  BY DEF SseTypeOK, SseNext, Connect, StartStream, EndStream, Disconnect, DisconnectEarly,
     Yield, CloseStream, BeginPush, PutNext
<1> HIDE DEF EventType, Events
<1> DEFINE T == /\ phase' \in [Clients -> {"absent", "connected", "streaming", "ended", "left"}]
                /\ sse_queues' \in Seq(Clients) /\ IsInjective(sse_queues')
                /\ queue' \in [Clients -> Seq(EventType)]
                /\ received' \in [Clients -> Seq(EventType)]
                /\ dropped' \in [Clients -> SUBSET EventType]
                /\ push' \in [Pushers -> [n : Nat, left : Seq(Clients)]]
                /\ since' \in [Clients -> [Pushers -> Nat]]
                /\ \A c \in Clients :
                     /\ Range(queue'[c]) \cup Range(received'[c]) \subseteq Events'
                     /\ Len(queue'[c]) <= QueueMax
                     /\ dropped'[c] \subseteq Events'
<1>2. SUFFICES T
  BY <1>1 DEF SseTypeOK, EventType
<1>3. ASSUME NEW c \in Clients, Lists(c) PROVE T
  <2>1. Events \subseteq Events' /\ push' = push
    BY <1>3, EventsGrow DEF Lists
  <2>2. c \notin Range(sse_queues)
    BY <1>3 DEF Lists, QueuesHaveReaders
  <2>3. sse_queues' \in Seq(Clients) /\ IsInjective(sse_queues')
    BY <1>0, <1>3, <2>2, InjectiveAppend DEF Lists
  <2>4. since' \in [Clients -> [Pushers -> Nat]]
    BY <1>0, <1>3 DEF Lists
  <2> QED BY <1>0, <1>3, <2>1, <2>3, <2>4 DEF Lists
<1>4. ASSUME NEW c \in Clients, Unlists(c) PROVE T
  <2>1. Events \subseteq Events' /\ push' = push
    BY <1>4, EventsGrow DEF Unlists
  <2>2. sse_queues' \in Seq(Clients) /\ IsInjective(sse_queues')
    BY <1>0, <1>4, RemoveFirstIs DEF Unlists
  <2>3. since' \in [Clients -> [Pushers -> Nat]]
    BY <1>0, <1>4 DEF Unlists
  <2>4. /\ queue' \in [Clients -> Seq(EventType)] /\ received' \in [Clients -> Seq(EventType)]
        /\ dropped' \in [Clients -> SUBSET EventType]
        /\ phase' \in [Clients -> {"absent", "connected", "streaming", "ended", "left"}]
    BY <1>0, <1>4 DEF Unlists
  <2>5. ASSUME NEW d \in Clients
        PROVE  /\ Range(queue'[d]) \cup Range(received'[d]) \subseteq Events'
               /\ Len(queue'[d]) <= QueueMax
               /\ dropped'[d] \subseteq Events'
    <3>1. CASE d = c
      <4>1. queue'[d] = << >> /\ received'[d] = << >> /\ dropped'[d] = {}
        BY <1>0, <1>4, <3>1 DEF Unlists
      <4> QED BY <1>0, <4>1, RangeEmpty
    <3>2. CASE d # c
      BY <1>0, <1>4, <2>1, <3>2 DEF Unlists
    <3> QED BY <3>1, <3>2
  <2> QED BY <1>0, <2>1, <2>2, <2>3, <2>4, <2>5
<1>5. ASSUME NEW p \in Pushers, Begins(p) PROVE T
  <2>1. Events \subseteq Events' /\ push' \in [Pushers -> [n : Nat, left : Seq(Clients)]]
    BY <1>5, EventsGrow
  <2> QED BY <1>0, <1>5, <2>1 DEF Begins
<1>6. ASSUME NEW p \in Pushers, NEW c \in Clients, Serves(p, c) PROVE T
  <2>1. Events \subseteq Events' /\ push' \in [Pushers -> [n : Nat, left : Seq(Clients)]]
    BY <1>6, EventsGrow
  <2>2. Event(p) \in EventType
    BY <1>0 DEF Event, EventType
  <2>3. Event(p) \in Events'
    <3>1. push[p].n \in Nat /\ push[p].n >= 1 /\ push'[p].n = push[p].n
      BY <1>0, <1>6 DEF LeftOnce, Serves
    <3>2. Event(p).from = p /\ Event(p).n = push[p].n
      BY DEF Event
    <3> QED BY <2>2, <3>1, <3>2 DEF Events, EventType
  <2>4. UNCHANGED <<phase, sse_queues, received, since>>
    BY <1>6 DEF Serves
  <2>5. CASE /\ queue' = [queue EXCEPT ![c] = Append(queue[c], Event(p))]
             /\ Len(queue[c]) < QueueMax /\ dropped' = dropped
    <3>1. /\ Append(queue[c], Event(p)) \in Seq(EventType)
          /\ Len(Append(queue[c], Event(p))) <= QueueMax
          /\ Range(Append(queue[c], Event(p))) = Range(queue[c]) \cup {Event(p)}
      <4>1. queue[c] \in Seq(EventType) /\ Len(queue[c]) \in Nat
        BY <1>0
      <4>2. /\ Append(queue[c], Event(p)) \in Seq(EventType)
            /\ Len(Append(queue[c], Event(p))) = Len(queue[c]) + 1
        BY <2>2, <4>1
      <4>3. Len(Append(queue[c], Event(p))) <= QueueMax
        BY <1>0, <2>5, <4>1, <4>2
      <4> QED BY <2>2, <4>1, <4>2, <4>3, RangeAppend
    <3>2. queue' \in [Clients -> Seq(EventType)]
      BY <1>0, <2>5, <3>1
    <3>3. ASSUME NEW d \in Clients
          PROVE  /\ Range(queue'[d]) \cup Range(received'[d]) \subseteq Events'
                 /\ Len(queue'[d]) <= QueueMax
                 /\ dropped'[d] \subseteq Events'
      <4>1. queue'[d] = IF d = c THEN Append(queue[c], Event(p)) ELSE queue[d]
        BY <1>0, <2>5
      <4>2. Range(queue'[d]) \subseteq Events' /\ Len(queue'[d]) <= QueueMax
        BY <1>0, <2>1, <2>3, <3>1, <4>1
      <4> QED BY <1>0, <2>1, <2>4, <2>5, <4>2
    <3> QED BY <1>0, <2>1, <2>4, <2>5, <3>2, <3>3
  <2>6. CASE /\ dropped' = [dropped EXCEPT ![c] = dropped[c] \cup {Event(p)}]
             /\ queue' = queue
    <3>1. dropped' \in [Clients -> SUBSET EventType]
      BY <1>0, <2>2, <2>6
    <3>2. \A d \in Clients : dropped'[d] \subseteq Events'
      BY <1>0, <2>1, <2>3, <2>6
    <3> QED BY <1>0, <2>1, <2>4, <2>6, <3>1, <3>2
  <2> QED BY <1>6, <2>5, <2>6 DEF Serves
<1>7. ASSUME Idles PROVE T
  <2>1. Events \subseteq Events' /\ UNCHANGED <<sse_queues, push, dropped, since>>
    BY <1>7, EventsGrow DEF Idles
  <2>2. phase' \in [Clients -> {"absent", "connected", "streaming", "ended", "left"}]
    BY <1>7 DEF Idles
  <2>3. CASE UNCHANGED <<queue, received>>
    BY <1>0, <2>1, <2>2, <2>3
  <2>4. ASSUME NEW c \in Clients, queue[c] # << >>,
               queue' = [queue EXCEPT ![c] = Tail(queue[c])],
               received' = [received EXCEPT ![c] = Append(received[c], Head(queue[c]))]
        PROVE  T
    <3>1. /\ queue[c] \in Seq(EventType) /\ received[c] \in Seq(EventType)
          /\ Head(queue[c]) \in EventType /\ Tail(queue[c]) \in Seq(EventType)
          /\ Len(queue[c]) \in Nat /\ Len(Tail(queue[c])) = Len(queue[c]) - 1
      BY <1>0, <2>4
    <3>2. /\ Append(received[c], Head(queue[c])) \in Seq(EventType)
          /\ Range(Append(received[c], Head(queue[c]))) = Range(received[c]) \cup {Head(queue[c])}
          /\ Range(Tail(queue[c])) \subseteq Range(queue[c])
          /\ Head(queue[c]) \in Range(queue[c])
      BY <2>4, <3>1, RangeAppend, RangeHeadTail
    <3>3. queue' \in [Clients -> Seq(EventType)] /\ received' \in [Clients -> Seq(EventType)]
      BY <1>0, <2>4, <3>1, <3>2
    <3>4. ASSUME NEW d \in Clients
          PROVE  /\ Range(queue'[d]) \cup Range(received'[d]) \subseteq Events'
                 /\ Len(queue'[d]) <= QueueMax
                 /\ dropped'[d] \subseteq Events'
      <4>1. CASE d = c
        <5>1. queue'[d] = Tail(queue[c]) /\ received'[d] = Append(received[c], Head(queue[c]))
          BY <1>0, <2>4, <4>1
        <5>2. Len(queue'[d]) <= QueueMax
          BY <1>0, <3>1, <5>1
        <5> QED BY <1>0, <2>1, <3>2, <4>1, <5>1, <5>2
      <4>2. CASE d # c
        BY <1>0, <2>1, <2>4, <4>2
      <4> QED BY <4>1, <4>2
    <3> QED BY <1>0, <2>1, <2>2, <3>3, <3>4
  <2> QED BY <1>7, <2>3, <2>4 DEF Idles
<1> QED BY <1>3, <1>4, <1>5, <1>6, <1>7, StreamKinds

LEMMA LeftOnceStep == SseTypeOK /\ LeftOnce /\ SseNext => LeftOnce'
<1> SUFFICES ASSUME SseTypeOK, LeftOnce, SseNext PROVE LeftOnce'
  OBVIOUS
<1>0. /\ push \in [Pushers -> [n : Nat, left : Seq(Clients)]]
      /\ sse_queues \in Seq(Clients) /\ IsInjective(sse_queues)
  BY DEF SseTypeOK
<1>1. CASE UNCHANGED push
  BY <1>1 DEF LeftOnce
<1>2. ASSUME NEW p \in Pushers, Begins(p) PROVE LeftOnce'
  BY <1>0, <1>2 DEF LeftOnce, Begins
<1>3. ASSUME NEW p \in Pushers, NEW c \in Clients, Serves(p, c) PROVE LeftOnce'
  <2>1. IsInjective(push[p].left) /\ push[p].left # << >> /\ push[p].n >= 1
    BY <1>3 DEF LeftOnce, Serves
  <2>2. IsInjective(Tail(push[p].left))
    BY <1>0, <2>1, RangeHeadTail
  <2>3. push' = [push EXCEPT ![p] = [n |-> push[p].n, left |-> Tail(push[p].left)]]
    BY <1>3 DEF Serves
  <2> QED BY <1>0, <2>1, <2>2, <2>3 DEF LeftOnce
<1> QED BY <1>1, <1>2, <1>3, StreamKinds DEF Lists, Unlists, Idles

\* Only a client that was served by p has one place less to wait for p.
LEMMA LeftMoves ==
  ASSUME SseTypeOK, LeftOnce, NEW p \in Pushers, NEW c \in Clients, Serves(p, c)
  PROVE  /\ Range(push[p].left) = Range(push'[p].left) \cup {c}
         /\ c \notin Range(push'[p].left)
         /\ push'[p].n = push[p].n
         /\ \A q \in Pushers : q # p => push'[q] = push[q]
<1>0. push \in [Pushers -> [n : Nat, left : Seq(Clients)]]
  BY DEF SseTypeOK
<1>1. push' = [push EXCEPT ![p] = [n |-> push[p].n, left |-> Tail(push[p].left)]]
  BY DEF Serves
<1>2. push'[p].left = Tail(push[p].left) /\ push'[p].n = push[p].n
  BY <1>0, <1>1
<1>3. push[p].left \in Seq(Clients) /\ push[p].left # << >> /\ c = Head(push[p].left)
  BY <1>0 DEF Serves
<1>4. IsInjective(push[p].left)
  BY DEF LeftOnce
<1> QED BY <1>0, <1>1, <1>2, <1>3, <1>4, RangeHeadTail

LEMMA NotYetSeenStep ==
  SseTypeOK /\ LeftOnce /\ NotYetSeen /\ SseNext => NotYetSeen'
<1> SUFFICES ASSUME SseTypeOK, LeftOnce, NotYetSeen, SseNext,
                    NEW c \in Clients, NEW p \in Pushers, c \in Range(push'[p].left),
                    NEW e \in Range(SeenBy'[c]), e.from = p
             PROVE  e.n < push'[p].n
  BY DEF NotYetSeen
<1>0. /\ push \in [Pushers -> [n : Nat, left : Seq(Clients)]]
      /\ SeenBy \in [Clients -> Seq(EventType)]
      /\ \A d \in Clients : Range(SeenBy[d]) \subseteq Events
  BY SeenType, SeenRange DEF SseTypeOK
<1>1. ASSUME UNCHANGED push, e \in Range(SeenBy[c]) PROVE e.n < push'[p].n
  BY <1>1 DEF NotYetSeen
<1>2. ASSUME NEW d \in Clients, Lists(d) PROVE e.n < push'[p].n
  BY <1>1, <1>2 DEF Lists
<1>3. ASSUME Idles PROVE e.n < push'[p].n
  BY <1>1, <1>3 DEF Idles
<1>4. ASSUME NEW d \in Clients, Unlists(d) PROVE e.n < push'[p].n
  <2>1. SeenBy'[c] = IF c = d THEN << >> ELSE SeenBy[c]
    BY <1>0, <1>4 DEF Unlists
  <2>2. e \in Range(SeenBy[c])
    BY <2>1, RangeEmpty
  <2> QED BY <1>1, <1>4, <2>2 DEF Unlists
<1>5. ASSUME NEW q \in Pushers, Begins(q) PROVE e.n < push'[p].n
  <2>1. e \in Range(SeenBy[c]) /\ e \in Events
    BY <1>0, <1>5 DEF Begins
  <2>2. push'[p] = IF p = q THEN [n |-> push[q].n + 1, left |-> sse_queues] ELSE push[p]
    BY <1>0, <1>5 DEF Begins
  <2>3. CASE p = q
    <3>1. e.n \in 1..push[p].n /\ push[p].n \in Nat /\ push'[p].n = push[p].n + 1
      BY <1>0, <2>1, <2>2, <2>3 DEF Events
    <3> QED BY <3>1
  <2>4. CASE p # q
    BY <2>1, <2>2, <2>4 DEF NotYetSeen
  <2> QED BY <2>3, <2>4
<1>6. ASSUME NEW q \in Pushers, NEW d \in Clients, Serves(q, d) PROVE e.n < push'[p].n
  <2>1. c \in Range(push[p].left) /\ push'[p].n = push[p].n /\ (p = q => c # d)
    BY <1>6, LeftMoves
  <2>2. e \in Range(SeenBy[c]) \/ (c = d /\ e = Event(q))
    <3>1. CASE SeenBy' = SeenBy
      BY <3>1
    <3>2. CASE SeenBy' = [SeenBy EXCEPT ![d] = Append(SeenBy[d], Event(q))]
      <4>1. Event(q) \in EventType
        BY <1>0 DEF Event, EventType
      <4>2. Range(Append(SeenBy[d], Event(q))) = Range(SeenBy[d]) \cup {Event(q)}
        BY <1>0, <4>1, RangeAppend
      <4> QED BY <1>0, <3>2, <4>2
    <3> QED BY <1>6, <3>1, <3>2 DEF Serves
  <2>3. c = d /\ e = Event(q) => FALSE
    BY <2>1 DEF Event
  <2> QED BY <2>1, <2>2, <2>3 DEF NotYetSeen
<1> QED BY <1>2, <1>3, <1>4, <1>5, <1>6, StreamKinds

\* The order of what a client sees of one pusher.
SeenInOrder ==
  \A c \in Clients : \A i, j \in DOMAIN SeenBy[c] :
    i < j /\ SeenBy[c][i].from = SeenBy[c][j].from => SeenBy[c][i].n < SeenBy[c][j].n

LEMMA OrderIs == ClientOrder <=> SeenInOrder
BY DEF ClientOrder, SeenInOrder, SeenBy

LEMMA OrderStep ==
  SseTypeOK /\ LeftOnce /\ NotYetSeen /\ SeenInOrder /\ SseNext => SeenInOrder'
<1> SUFFICES ASSUME SseTypeOK, LeftOnce, NotYetSeen, SeenInOrder, SseNext PROVE SeenInOrder'
  OBVIOUS
<1>0. /\ push \in [Pushers -> [n : Nat, left : Seq(Clients)]]
      /\ SeenBy \in [Clients -> Seq(EventType)]
  BY SeenType DEF SseTypeOK
<1>1. CASE SeenBy' = SeenBy
  BY <1>1 DEF SeenInOrder
<1>2. ASSUME NEW d \in Clients, Unlists(d) PROVE SeenInOrder'
  <2>1. \A c \in Clients : SeenBy'[c] = << >> \/ SeenBy'[c] = SeenBy[c]
    BY <1>0, <1>2 DEF Unlists
  <2>2. DOMAIN << >> = {}
    OBVIOUS
  <2> QED BY <2>1, <2>2 DEF SeenInOrder
<1>3. ASSUME NEW p \in Pushers, NEW d \in Clients, Serves(p, d),
             SeenBy' = [SeenBy EXCEPT ![d] = Append(SeenBy[d], Event(p))]
      PROVE  SeenInOrder'
  <2> DEFINE s == SeenBy[d]
             x == Event(p)
  <2>1. s \in Seq(EventType) /\ x \in EventType /\ Len(s) \in Nat /\ x.from = p /\ x.n = push[p].n
    <3>1. s \in Seq(EventType) /\ Len(s) \in Nat
      BY <1>0
    <3>2. x \in EventType /\ x.from = p /\ x.n = push[p].n
      BY <1>0 DEF Event, EventType
    <3> QED BY <3>1, <3>2
  <2>2. \A e \in Range(s) : e.from = p => e.n < push[p].n
    BY <1>3, LeftMoves DEF NotYetSeen
  <2> HIDE DEF s, x
  <2>3. /\ DOMAIN Append(s, x) = 1..(Len(s) + 1) /\ DOMAIN s = 1..Len(s)
        /\ Append(s, x)[Len(s) + 1] = x /\ \A i \in 1..Len(s) : Append(s, x)[i] = s[i]
    BY <2>1
  <2>4. \A i \in 1..Len(s) : s[i].from = p => s[i].n < x.n
    BY <2>1, <2>2, <2>3 DEF Range
  <2>5. \A i, j \in 1..Len(s) : i < j /\ s[i].from = s[j].from => s[i].n < s[j].n
    BY <2>3 DEF SeenInOrder, s
  <2>6. \A i, j \in 1..(Len(s) + 1) : i < j =>
          i \in 1..Len(s) /\ (j \in 1..Len(s) \/ j = Len(s) + 1)
    BY <2>1
  <2>7. \A i, j \in 1..(Len(s) + 1) :
          i < j /\ Append(s, x)[i].from = Append(s, x)[j].from
            => Append(s, x)[i].n < Append(s, x)[j].n
    BY <2>1, <2>3, <2>4, <2>5, <2>6
  <2>8. \A c \in Clients : SeenBy'[c] = IF c = d THEN Append(s, x) ELSE SeenBy[c]
    BY <1>0, <1>3 DEF s, x
  <2> QED BY <2>3, <2>7, <2>8 DEF SeenInOrder
<1> QED BY <1>1, <1>2, <1>3, StreamKinds DEF Lists, Begins, Serves, Idles

\* No event is missed but by a full queue of one's own.
OnlyRefused ==
  \A c \in Clients, p \in Pushers : c \in Range(sse_queues) =>
    \A n \in since[c][p] + 1 .. push[p].n :
      \/ [from |-> p, n |-> n] \in Range(SeenBy[c]) \cup dropped[c]
      \/ n = push[p].n /\ c \in Range(push[p].left)

LEMMA RefusedIs == ASSUME SseTypeOK PROVE OnlyFullDrops <=> OnlyRefused
<1>1. /\ Range(sse_queues) \subseteq Clients
      /\ push \in [Pushers -> [n : Nat, left : Seq(Clients)]]
      /\ since \in [Clients -> [Pushers -> Nat]]
  BY DEF SseTypeOK, Range
<1> DEFINE done(c, p) == push[p].n - (IF c \in Range(push[p].left) THEN 1 ELSE 0)
           got(c) == Range(SeenBy[c]) \cup dropped[c]
<1>2. ASSUME NEW c \in Clients, NEW p \in Pushers
      PROVE  \A n \in since[c][p] + 1 .. push[p].n :
               n \in since[c][p] + 1 .. done(c, p)
                 <=> ~(n = push[p].n /\ c \in Range(push[p].left))
  <2>1. since[c][p] \in Nat /\ push[p].n \in Nat
    BY <1>1
  <2> QED BY <2>1
<1>3. ASSUME NEW c \in Clients, NEW p \in Pushers
      PROVE  \A n \in since[c][p] + 1 .. done(c, p) : n \in since[c][p] + 1 .. push[p].n
  <2>1. since[c][p] \in Nat /\ push[p].n \in Nat
    BY <1>1
  <2> QED BY <2>1
<1>4. OnlyFullDrops <=> \A c \in Range(sse_queues), p \in Pushers :
        \A n \in since[c][p] + 1 .. done(c, p) : [from |-> p, n |-> n] \in got(c)
  BY <1>1 DEF OnlyFullDrops, SeenBy
<1> HIDE DEF done, got
<1> QED BY <1>1, <1>2, <1>3, <1>4 DEF OnlyRefused, got

LEMMA RefusedStep ==
  SseTypeOK /\ LeftOnce /\ OnlyRefused /\ SseNext => OnlyRefused'
<1> SUFFICES ASSUME SseTypeOK, LeftOnce, OnlyRefused, SseNext,
                    NEW c \in Clients, NEW p \in Pushers, c \in Range(sse_queues'),
                    NEW n \in since'[c][p] + 1 .. push'[p].n
             PROVE  \/ [from |-> p, n |-> n] \in Range(SeenBy'[c]) \cup dropped'[c]
                    \/ n = push'[p].n /\ c \in Range(push'[p].left)
  BY DEF OnlyRefused
<1>0. /\ push \in [Pushers -> [n : Nat, left : Seq(Clients)]]
      /\ SeenBy \in [Clients -> Seq(EventType)] /\ dropped \in [Clients -> SUBSET EventType]
      /\ since \in [Clients -> [Pushers -> Nat]]
      /\ sse_queues \in Seq(Clients) /\ IsInjective(sse_queues)
      /\ push[p].n \in Nat /\ since[c][p] \in Nat
  BY SeenType DEF SseTypeOK
<1> DEFINE R == \/ [from |-> p, n |-> n] \in Range(SeenBy'[c]) \cup dropped'[c]
                \/ n = push'[p].n /\ c \in Range(push'[p].left)
<1>1. ASSUME c \in Range(sse_queues), UNCHANGED <<push, dropped>>, SeenBy' = SeenBy,
             since'[c] = since[c]
      PROVE  R
  BY <1>1 DEF OnlyRefused
<1>2. ASSUME NEW d \in Clients, Lists(d) PROVE R
  <2>1. Range(sse_queues') = Range(sse_queues) \cup {d}
    BY <1>0, <1>2, RangeAppend DEF Lists
  <2>2. CASE c = d
    <3>1. since'[c][p] = push[p].n /\ push' = push
      BY <1>0, <1>2, <2>2 DEF Lists
    <3>2. n \in push[p].n + 1 .. push[p].n
      BY <3>1
    <3> QED BY <1>0, <3>2
  <2>3. CASE c # d
    BY <1>0, <1>1, <1>2, <2>1, <2>3 DEF Lists
  <2> QED BY <2>2, <2>3
<1>3. ASSUME NEW d \in Clients, Unlists(d) PROVE R
  <2>1. Range(sse_queues') = Range(sse_queues) \ {d}
    BY <1>0, <1>3, RemoveFirstIs DEF Unlists
  <2>2. c # d /\ c \in Range(sse_queues)
    BY <2>1
  <2>3. since'[c] = since[c] /\ SeenBy'[c] = SeenBy[c] /\ dropped'[c] = dropped[c] /\ push' = push
    BY <1>0, <1>3, <2>2 DEF Unlists
  <2> QED BY <2>2, <2>3 DEF OnlyRefused
<1>4. ASSUME NEW q \in Pushers, Begins(q) PROVE R
  <2>1. /\ UNCHANGED <<sse_queues, dropped, since>> /\ SeenBy' = SeenBy
        /\ push'[p] = IF p = q THEN [n |-> push[q].n + 1, left |-> sse_queues] ELSE push[p]
    BY <1>0, <1>4 DEF Begins
  <2>2. CASE p = q
    <3>1. /\ push'[p].n = push[p].n + 1 /\ push'[p].left = sse_queues
          /\ Range(push[p].left) = {}
      BY <1>4, <2>1, <2>2, RangeEmpty DEF Begins
    <3>2. n = push[p].n + 1 \/ n \in since[c][p] + 1 .. push[p].n
      BY <1>0, <2>1, <3>1
    <3> QED BY <2>1, <3>1, <3>2 DEF OnlyRefused
  <2>3. CASE p # q
    BY <2>1, <2>3 DEF OnlyRefused
  <2> QED BY <2>2, <2>3
<1>5. ASSUME NEW q \in Pushers, NEW d \in Clients, Serves(q, d) PROVE R
  <2>1. UNCHANGED <<sse_queues, since>> /\ push'[p].n = push[p].n
    BY <1>5, LeftMoves DEF Serves
  <2>2. \/ [from |-> p, n |-> n] \in Range(SeenBy[c]) \cup dropped[c]
        \/ n = push[p].n /\ c \in Range(push[p].left)
    BY <2>1 DEF OnlyRefused
  <2>3. Event(q) \in EventType /\ Event(q) = [from |-> q, n |-> push[q].n]
    BY <1>0 DEF Event, EventType
  <2>4. /\ Range(SeenBy[c]) \cup dropped[c] \subseteq Range(SeenBy'[c]) \cup dropped'[c]
        /\ Event(q) \in Range(SeenBy'[d]) \cup dropped'[d]
    <3>1. CASE /\ SeenBy' = [SeenBy EXCEPT ![d] = Append(SeenBy[d], Event(q))]
               /\ dropped' = dropped
      <4>1. Range(Append(SeenBy[d], Event(q))) = Range(SeenBy[d]) \cup {Event(q)}
        BY <1>0, <2>3, RangeAppend
      <4> QED BY <1>0, <3>1, <4>1
    <3>2. CASE /\ dropped' = [dropped EXCEPT ![d] = dropped[d] \cup {Event(q)}]
               /\ SeenBy' = SeenBy
      BY <1>0, <3>2
    <3> QED BY <1>5, <3>1, <3>2 DEF Serves
  <2>5. CASE n = push[p].n /\ c \in Range(push[p].left)
    <3>1. c \in Range(push'[p].left) \/ (p = q /\ c = d)
      BY <1>5, <2>5, LeftMoves
    <3> QED BY <2>1, <2>3, <2>4, <2>5, <3>1
  <2> QED BY <2>2, <2>4, <2>5
<1>6. ASSUME Idles PROVE R
  BY <1>1, <1>6 DEF Idles
<1> QED BY <1>2, <1>3, <1>4, <1>5, <1>6, StreamKinds

LEMMA ReadersStep == SseTypeOK /\ QueuesHaveReaders /\ SseNext => QueuesHaveReaders'
<1> SUFFICES ASSUME SseTypeOK, QueuesHaveReaders, SseNext,
                    NEW c \in Clients, c \in Range(sse_queues')
             PROVE  phase'[c] \in {"connected", "streaming", "left"}
  BY DEF QueuesHaveReaders
<1>0. /\ phase \in [Clients -> {"absent", "connected", "streaming", "ended", "left"}]
      /\ sse_queues \in Seq(Clients) /\ IsInjective(sse_queues)
  BY DEF SseTypeOK
<1>1. ASSUME UNCHANGED <<sse_queues, phase>>
      PROVE  phase'[c] \in {"connected", "streaming", "left"}
  BY <1>1 DEF QueuesHaveReaders
<1>2. ASSUME NEW d \in Clients, Lists(d)
      PROVE  phase'[c] \in {"connected", "streaming", "left"}
  <2>1. Range(sse_queues') = Range(sse_queues) \cup {d}
    BY <1>0, <1>2, RangeAppend DEF Lists
  <2> QED BY <1>0, <1>2, <2>1 DEF Lists, QueuesHaveReaders
<1>3. ASSUME NEW d \in Clients, Unlists(d)
      PROVE  phase'[c] \in {"connected", "streaming", "left"}
  <2>1. Range(sse_queues') = Range(sse_queues) \ {d}
    BY <1>0, <1>3, RemoveFirstIs DEF Unlists
  <2> QED BY <1>0, <1>3, <2>1 DEF Unlists, QueuesHaveReaders
<1>4. ASSUME Idles PROVE phase'[c] \in {"connected", "streaming", "left"}
  BY <1>4 DEF Idles, QueuesHaveReaders
<1> QED BY <1>1, <1>2, <1>3, <1>4, StreamKinds DEF Begins, Serves

LEMMA StreamInit == Init => StreamInv
<1> SUFFICES ASSUME Init PROVE StreamInv
  OBVIOUS
<1>1. /\ running = FALSE /\ phase = [c \in Clients |-> "absent"] /\ sse_queues = << >>
      /\ queue = [c \in Clients |-> << >>] /\ received = [c \in Clients |-> << >>]
      /\ push = [p \in Pushers |-> [n |-> 0, left |-> << >>]]
      /\ dropped = [c \in Clients |-> {}]
      /\ since = [c \in Clients |-> [p \in Pushers |-> 0]]
  BY DEF Init, SseInit
<1>2. /\ Range(<< >>) = {} /\ IsInjective(<< >>) /\ Len(<< >>) = 0 /\ QueueMax \in Nat
      /\ << >> \in Seq(Clients) /\ << >> \in Seq(EventType)
  BY RangeEmpty, SseAssumption DEF IsInjective
<1>3. SseTypeOK
  <2>1. running \in BOOLEAN /\ sse_queues \in Seq(Clients) /\ IsInjective(sse_queues)
    BY <1>1, <1>2
  <2>2. phase \in [Clients -> {"absent", "connected", "streaming", "ended", "left"}]
    BY <1>1
  <2>3. queue \in [Clients -> Seq(EventType)] /\ received \in [Clients -> Seq(EventType)]
    BY <1>1, <1>2
  <2>4. dropped \in [Clients -> SUBSET EventType] /\ since \in [Clients -> [Pushers -> Nat]]
    BY <1>1
  <2>5. push \in [Pushers -> [n : Nat, left : Seq(Clients)]]
    BY <1>1, <1>2
  <2>6. \A c \in Clients : /\ Range(queue[c]) \cup Range(received[c]) \subseteq Events
                           /\ Len(queue[c]) <= QueueMax
                           /\ dropped[c] \subseteq Events
    BY <1>1, <1>2
  <2> QED BY <2>1, <2>2, <2>3, <2>4, <2>5, <2>6 DEF SseTypeOK
<1>4. LeftOnce /\ NotYetSeen
  BY <1>1, <1>2 DEF LeftOnce, NotYetSeen
<1>5. SeenInOrder
  <2>1. \A c \in Clients : SeenBy[c] = << >>
    BY <1>1, ConcatEmptySeq DEF SeenBy
  <2> QED BY <2>1 DEF SeenInOrder
<1>6. OnlyRefused /\ QueuesHaveReaders
  BY <1>1, <1>2 DEF OnlyRefused, QueuesHaveReaders
<1> QED BY <1>3, <1>4, <1>5, <1>6, OrderIs, RefusedIs DEF StreamInv, StreamsSound

LEMMA StreamStep == StreamInv /\ [Next]_vars => StreamInv'
<1> SUFFICES ASSUME StreamInv, [Next]_vars PROVE StreamInv'
  OBVIOUS
<1>1. /\ SseTypeOK /\ LeftOnce /\ NotYetSeen /\ SeenInOrder /\ OnlyRefused
      /\ QueuesHaveReaders /\ SseNext
  BY OrderIs, RefusedIs, SsePart DEF StreamInv, StreamsSound
<1>2. SseTypeOK' /\ LeftOnce' /\ NotYetSeen' /\ SeenInOrder' /\ OnlyRefused' /\ QueuesHaveReaders'
  BY <1>1, SseTypeStep, LeftOnceStep, NotYetSeenStep, OrderStep, RefusedStep, ReadersStep
<1>3. (ClientOrder' <=> SeenInOrder') /\ (OnlyFullDrops' <=> OnlyRefused')
  BY <1>2, OrderIs, RefusedIs, PTL
<1> QED BY <1>2, <1>3 DEF StreamInv, StreamsSound

\* Each browser sees the events of a pushing thread in order and at most once,
\* misses one only because its own queue was full, and no listed queue but one
\* abandoned before its generator ran is without a reader: for any browsers, any
\* publishing threads (PA among them) and any number of places in a queue.
THEOREM StreamsAreSound == Spec => []StreamsSound
<1>1. StreamInv => StreamsSound
  BY DEF StreamInv
<1> QED BY <1>1, StreamInit, StreamStep, PTL DEF Spec

-----------------------------------------------------------------------------
\* The questions.

ModeType == {"none", "llm", "heuristic", "error", "bare 500"}
BodyType == {"question", "blank", "no object"}
Section == Unguarded \cup Guarded
AskType == [n : Nat, pc : {"none", "posted", "build", "llm", "answered"}, body : BodyType,
            failed : SUBSET Section, text : BOOLEAN, mode : ModeType]

\* What is known of a question before it is answered.
AskInv ==
  /\ ask \in AskType /\ ask.n <= bound.questions /\ bound \in Bounds
  /\ ask.pc \in {"none", "posted", "build"} =>
       ask.mode = "none" /\ ~ask.text /\ ask.failed = {} /\ ask.body # "no object"
  /\ ask.pc = "llm" =>
       ask.mode = "none" /\ ~ask.text /\ ask.body = "question" /\ ask.failed \cap Unguarded = {}
  /\ AnswerSound

\* The thread of the server and what holds its loop.
LoopType ==
  /\ server \in {"none", "starting", "up", "busy", "failed", "exiting"} /\ enabled \in BOOLEAN
  /\ loop \in {"idle", "ask"} \cup Clients

LEMMA LoopStep == LoopType /\ [Next]_vars => LoopType'
<1> SUFFICES ASSUME LoopType, [Next]_vars PROVE LoopType'
  OBVIOUS
<1> USE DEF LoopType
<1>1. CASE Start \/ Bind \/ Stop
  BY <1>1 DEF Start, Bind, Stop
<1>2. CASE UNCHANGED apiVars
  BY <1>2 DEF apiVars
<1>3. ASSUME NEW c \in Clients, Turn(c) \/ TurnEnds(c) PROVE LoopType'
  BY <1>3 DEF Turn, TurnEnds
<1>4. CASE \E c \in Clients : \/ ClientConnects(c) \/ GeneratorStarts(c) \/ GeneratorEnds(c)
                              \/ ClientLeaves(c)
  BY <1>2, <1>4 DEF ClientConnects, GeneratorStarts, GeneratorEnds, ClientLeaves, OnLoop
<1>5. CASE Ask \/ BeginAsk \/ BuildContext \/ FinishAsk
  BY <1>5 DEF Ask, BeginAsk, BuildContext, FinishAsk, Answered
<1>6. CASE \E t \in LlmThreads : LlmWorks(t)
  BY <1>2, <1>6 DEF LlmWorks
<1>7. CASE \E p \in Pushers : Publishes(p)
  BY <1>2, <1>7 DEF Publishes
<1>8. CASE PaRequest \/ PaAnswer
  BY <1>2, <1>8 DEF PaRequest, PaAnswer
<1>9. CASE UNCHANGED vars
  BY <1>2, <1>9 DEF vars
<1> QED BY <1>1, <1>3, <1>4, <1>5, <1>6, <1>7, <1>8, <1>9 DEF Next

\* The sections a failure leaves empty are guarded ones besides those that failed.
LEMMA Missing ==
  ASSUME NEW f \in SUBSET Section
  PROVE  /\ MissingSections(f) \in SUBSET Section
         /\ MissingSections(f) \cap Unguarded = f \cap Unguarded
<1>1. {"enriched", "context"} \subseteq Guarded /\ {"enriched", "context"} \cap Unguarded = {}
  BY DEF Guarded, Unguarded
<1> QED BY <1>1 DEF MissingSections, Section

\* Only the steps of a question change it.
LEMMA AskFrame ==
  ASSUME [Next]_vars
  PROVE  bound' = bound /\ (ask' = ask \/ Ask \/ BeginAsk \/ BuildContext \/ FinishAsk)
<1>1. CASE Start \/ Bind \/ Stop
  BY <1>1 DEF Start, Bind, Stop
<1>2. CASE UNCHANGED apiVars
  BY <1>2 DEF apiVars
<1>3. ASSUME NEW c \in Clients, Turn(c) \/ TurnEnds(c) PROVE bound' = bound /\ ask' = ask
  BY <1>3 DEF Turn, TurnEnds
<1>4. CASE \E c \in Clients : \/ ClientConnects(c) \/ GeneratorStarts(c) \/ GeneratorEnds(c)
                              \/ ClientLeaves(c)
  BY <1>2, <1>4 DEF ClientConnects, GeneratorStarts, GeneratorEnds, ClientLeaves, OnLoop
<1>5. CASE Ask \/ BeginAsk \/ BuildContext \/ FinishAsk
  BY <1>5 DEF Ask, BeginAsk, BuildContext, FinishAsk
<1>6. CASE \E t \in LlmThreads : LlmWorks(t)
  BY <1>2, <1>6 DEF LlmWorks
<1>7. CASE \E p \in Pushers : Publishes(p)
  BY <1>2, <1>7 DEF Publishes
<1>8. CASE PaRequest \/ PaAnswer
  BY <1>2, <1>8 DEF PaRequest, PaAnswer
<1>9. CASE UNCHANGED vars
  BY <1>2, <1>9 DEF vars
<1> QED BY <1>1, <1>3, <1>4, <1>5, <1>6, <1>7, <1>8, <1>9 DEF Next

LEMMA AskStep == LlmTypeOK /\ AskInv /\ [Next]_vars => AskInv'
<1> SUFFICES ASSUME LlmTypeOK, AskInv, [Next]_vars PROVE AskInv'
  OBVIOUS
<1>0. /\ ask \in AskType /\ ask.n <= bound.questions /\ bound' = bound /\ bound \in Bounds
      /\ bound.questions \in Nat /\ bound.llm \in BOOLEAN
      /\ \A f \in Failures : f \in SUBSET Section
  BY ApiAssumption, AskFrame DEF AskInv, Section
<1>1. CASE ask' = ask
  BY <1>0, <1>1 DEF AskInv, AnswerSound
<1>2. CASE Ask
  <2>1. ask' = [n |-> ask.n + 1, pc |-> "posted", body |-> "question", failed |-> {},
                text |-> FALSE, mode |-> "none"]
    BY <1>2 DEF Ask, NoQuestion
  <2>2. ask.n + 1 <= bound.questions /\ ask.n \in Nat
    BY <1>0, <1>2 DEF Ask, AskType
  <2>3. ask' \in AskType
    BY <2>1, <2>2 DEF AskType, BodyType, ModeType
  <2> QED BY <1>0, <2>1, <2>2, <2>3 DEF AskInv, AnswerSound
<1>3. CASE BeginAsk
  <2>1. ask.pc = "posted" /\ ask.mode = "none" /\ ~ask.text /\ ask.failed = {}
    BY <1>3 DEF BeginAsk, AskInv
  <2>2. ASSUME NEW b \in {"question", "blank"}, ask' = [ask EXCEPT !.pc = "build", !.body = b]
        PROVE  AskInv'
    <3>1. /\ ask' \in AskType /\ ask'.pc = "build" /\ ask'.mode = ask.mode
          /\ ask'.text = ask.text /\ ask'.failed = ask.failed /\ ask'.n = ask.n
          /\ ask'.body # "no object"
      BY <1>0, <2>2 DEF AskType, BodyType
    <3> QED BY <1>0, <2>1, <3>1 DEF AskInv, AnswerSound
  <2>3. ASSUME ask' = [ask EXCEPT !.pc = "answered", !.body = "no object", !.mode = "bare 500"]
        PROVE  AskInv'
    <3>1. /\ ask' \in AskType /\ ask'.pc = "answered" /\ ask'.mode = "bare 500"
          /\ ask'.text = ask.text /\ ask'.failed = ask.failed /\ ask'.n = ask.n
          /\ ask'.body = "no object"
      BY <1>0, <2>3 DEF AskType, BodyType, ModeType
    <3> QED BY <1>0, <2>1, <3>1 DEF AskInv, AnswerSound
  <2> QED BY <1>3, <2>2, <2>3 DEF BeginAsk
<1>4. ASSUME NEW mode \in ModeType, NEW f \in SUBSET Section, Answered(mode, f),
             ask.pc = "build",
             ask.body # "no object", mode \notin {"llm", "bare 500"},
             mode = "none" <=> ask.body = "blank", mode = "error" <=> f \cap Unguarded # {}
      PROVE  AskInv'
  <2>1. ask' = [ask EXCEPT !.pc = "answered", !.mode = mode, !.failed = f]
    BY <1>4 DEF Answered
  <2>2. /\ ask' \in AskType /\ ask'.pc = "answered" /\ ask'.mode = mode
        /\ ask'.failed = f /\ ask'.text = ask.text /\ ask'.body = ask.body /\ ask'.n = ask.n
    BY <1>0, <2>1 DEF AskType
  <2>3. ~ask.text
    BY <1>4 DEF AskInv
  <2>4. AnswerSound'
    BY <1>4, <2>2, <2>3 DEF AnswerSound
  <2> QED BY <1>0, <2>2, <2>4 DEF AskInv
<1>5. CASE BuildContext
  <2>1. ask.pc = "build"
    BY <1>5 DEF BuildContext
  <2>2. CASE ask.body = "blank" /\ Answered("none", {})
    BY <1>4, <2>1, <2>2 DEF ModeType
  <2>3. ASSUME ask.body = "question", NEW f \in Failures, Raises(f), Answered("error", f) PROVE AskInv'
    BY <1>0, <1>4, <2>1, <2>3 DEF ModeType, Raises
  <2>4. ASSUME ask.body = "question", NEW f \in Failures, ~Raises(f), Answered("heuristic", MissingSections(f))
        PROVE  AskInv'
    <3>1. MissingSections(f) \in SUBSET Section /\ MissingSections(f) \cap Unguarded = {}
      BY <1>0, <2>4, Missing DEF Raises
    <3> QED BY <1>4, <2>1, <2>4, <3>1 DEF ModeType
  <2>5. ASSUME ask.body = "question", NEW f \in Failures, ~Raises(f),
               ask' = [ask EXCEPT !.pc = "llm", !.failed = MissingSections(f)]
        PROVE  AskInv'
    <3>1. MissingSections(f) \in SUBSET Section /\ MissingSections(f) \cap Unguarded = {}
      BY <1>0, <2>5, Missing DEF Raises
    <3>2. /\ ask' \in AskType /\ ask'.pc = "llm" /\ ask'.mode = ask.mode
          /\ ask'.failed = MissingSections(f) /\ ask'.text = ask.text
          /\ ask'.body = ask.body /\ ask'.n = ask.n
      BY <1>0, <2>5, <3>1 DEF AskType
    <3>3. ask.mode = "none" /\ ~ask.text
      BY <2>1 DEF AskInv
    <3> QED BY <1>0, <2>5, <3>1, <3>2, <3>3 DEF AskInv, AnswerSound
  <2> QED BY <1>5, <2>2, <2>3, <2>4, <2>5 DEF BuildContext
<1>6. CASE FinishAsk
  <2> DEFINE a == call["API"].answer
  <2>1. a \in BOOLEAN
    BY ApiAssumption DEF LlmTypeOK
  <2>2. /\ ask.pc = "llm"
        /\ ask' = [ask EXCEPT !.pc = "answered", !.text = a,
                              !.mode = IF a THEN "llm" ELSE "heuristic"]
    BY <1>6 DEF FinishAsk
  <2>3. ask.mode = "none" /\ ~ask.text /\ ask.body = "question" /\ ask.failed \cap Unguarded = {}
    BY <2>2 DEF AskInv
  <2> HIDE DEF a
  <2>4. CASE a = TRUE
    <3>1. ask' = [ask EXCEPT !.pc = "answered", !.text = TRUE, !.mode = "llm"]
      BY <2>2, <2>4
    <3>2. /\ ask' \in AskType /\ ask'.pc = "answered" /\ ask'.mode = "llm"
          /\ ask'.failed = ask.failed /\ ask'.text = TRUE
          /\ ask'.body = ask.body /\ ask'.n = ask.n
      BY <1>0, <3>1 DEF AskType, ModeType
    <3> QED BY <1>0, <2>3, <3>2 DEF AskInv, AnswerSound
  <2>5. CASE a = FALSE
    <3>1. ask' = [ask EXCEPT !.pc = "answered", !.text = FALSE, !.mode = "heuristic"]
      BY <2>2, <2>5
    <3>2. /\ ask' \in AskType /\ ask'.pc = "answered" /\ ask'.mode = "heuristic"
          /\ ask'.failed = ask.failed /\ ask'.text = FALSE
          /\ ask'.body = ask.body /\ ask'.n = ask.n
      BY <1>0, <3>1 DEF AskType, ModeType
    <3> QED BY <1>0, <2>3, <3>2 DEF AskInv, AnswerSound
  <2> QED BY <2>1, <2>4, <2>5
<1> QED BY <1>1, <1>2, <1>3, <1>5, <1>6, AskFrame

\* The inductive invariant of the server: its components' and its own.
ServerInv == LogsInv /\ StreamInv /\ LoopType /\ AskInv

LEMMA ServerInvSound == ServerInv => ServerSound
<1> SUFFICES ASSUME ServerInv PROVE ServerSound
  OBVIOUS
<1>1. LlmTypeOK /\ SseTypeOK /\ LoopType /\ AnswerSound /\ bound \in Bounds
  BY DEF ServerInv, LogsInv, StreamInv, AskInv
<1>2. ask \in AskType /\ ask.n <= bound.questions /\ bound.questions \in Nat
  BY ApiAssumption DEF ServerInv, AskInv
<1>3. ask.n \in 0..bound.questions
  BY <1>2 DEF AskType
<1>4. ask \in [n : 0..bound.questions, pc : {"none", "posted", "build", "llm", "answered"},
               body : {"question", "blank", "no object"},
               failed : SUBSET (Unguarded \cup Guarded), text : BOOLEAN,
               mode : {"none", "llm", "heuristic", "error", "bare 500"}]
  BY <1>2, <1>3 DEF AskType, BodyType, ModeType, Section
<1> QED BY <1>1, <1>4 DEF ServerSound, TypeOK, LoopType

LEMMA ServerInit == Init => ServerInv
<1> SUFFICES ASSUME Init PROVE ServerInv
  OBVIOUS
<1>1. LoopType
  BY DEF Init, LoopType
<1>2. /\ ask = [n |-> 0, pc |-> "none", body |-> "question", failed |-> {}, text |-> FALSE,
                mode |-> "none"]
      /\ bound \in Bounds /\ bound.questions \in Nat
  BY ApiAssumption DEF Init, NoQuestion
<1>3. ask \in AskType
  BY <1>2 DEF AskType, BodyType, ModeType
<1>4. AskInv
  BY <1>2, <1>3 DEF AskInv, AnswerSound
<1> QED BY <1>1, <1>4, LogsInit, StreamInit DEF ServerInv

LEMMA ServerStep == ServerInv /\ [Next]_vars => ServerInv'
BY LogsStep, StreamStep, LoopStep, AskStep DEF ServerInv, LogsInv

\* The mode of every answer is true of how it came about, whatever was posted,
\* whichever sections failed, whatever the LLM did and whoever used it meanwhile.
THEOREM AnswersAreTrue == Spec => []ServerSound
<1> QED BY ServerInit, ServerStep, ServerInvSound, PTL DEF Spec
=============================================================================
