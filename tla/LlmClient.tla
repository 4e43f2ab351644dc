------------------------------ MODULE LlmClient ------------------------------
(***************************************************************************)
(* LLMClient (mas/intelligence/llm.py): one client shared, without a lock,  *)
(* by PA's thread, which asks for JSON (_call), and by the API's event      *)
(* loop, which asks for text (complete_text).  What is modelled is a        *)
(* request's life and the two logs kept about it, which are cut to their    *)
(* newer half once they are too long.  Prompts, answers and the token       *)
(* counters are data nothing here looks at.                                 *)
(*                                                                         *)
(* Cutting a log replaces the list object.  The error path evaluates        *)
(* self.call_log.append before its argument, whose calls may let the other  *)
(* thread run: after a cut the entry goes to the list that was replaced.    *)
(***************************************************************************)
EXTENDS Integers, Sequences, FiniteSets

CONSTANTS
  LlmThreads,   \* threads that use the client
  MaxCallLog,   \* LLMClient._max_call_log (200)
  MaxAuditLog,  \* LLMClient._max_audit_log (300)
  MaxRequests   \* bound: requests per thread

ASSUME LlmAssumption ==
  /\ MaxCallLog \in Nat \ {0} /\ MaxAuditLog \in Nat \ {0}
  /\ MaxRequests \in [LlmThreads -> Nat]

VARIABLES
  call,        \* thread -> [pc, kind, n, answer] of its request
  call_log,    \* entries <<thread, n>>
  audit_log,   \* entries <<thread, n>>
  logged,      \* history: all that was appended to call_log while it was current
  errorsSince  \* history: errors logged since call_log was last measured

llmVars == <<call, call_log, audit_log, logged, errorsSince>>

Entry(t) == <<t, call[t].n>>

Goto(t, pc) == call' = [call EXCEPT ![t].pc = pc]

\* log[-max // 2 :], the newer half (rounded up, as Python's // does).
NewerHalf(log, max) ==
  LET keep == (max + 1) \div 2
  IN  IF Len(log) > keep THEN SubSeq(log, Len(log) - keep + 1, Len(log)) ELSE log

LlmInit ==
  /\ call = [t \in LlmThreads |-> [pc |-> "idle", kind |-> "json", n |-> 0, answer |-> FALSE]]
  /\ call_log = << >> /\ audit_log = << >>
  /\ logged = << >> /\ errorsSince = 0

\* The HTTP request is out; the thread waits.
Request(t, kind) ==
  /\ call[t].pc = "idle" /\ call[t].n < MaxRequests[t]
  /\ call' = [call EXCEPT ![t] = [pc |-> "wait", kind |-> kind, n |-> @.n + 1, answer |-> FALSE]]
  /\ UNCHANGED <<call_log, audit_log, logged, errorsSince>>

\* No response in time, none at all, one without a choice, or one that is not
\* JSON where JSON was asked for: the list to append to is looked up.
Fail(t) ==
  /\ call[t].pc = "wait"
  /\ Goto(t, "error")
  /\ UNCHANGED <<call_log, audit_log, logged, errorsSince>>

\* A response with content.  A text may be blank: it is audited and logged as
\* a success but is no answer (return content or None).
Respond(t) ==
  /\ call[t].pc = "wait"
  /\ \E some \in IF call[t].kind = "json" THEN {TRUE} ELSE BOOLEAN :
       call' = [call EXCEPT ![t] = [pc |-> "audit", kind |-> @.kind, n |-> @.n, answer |-> some]]
  /\ UNCHANGED <<call_log, audit_log, logged, errorsSince>>

\* _audit appends ...
Audit(t) ==
  /\ call[t].pc = "audit"
  /\ audit_log' = Append(audit_log, Entry(t))
  /\ Goto(t, "cutaudit")
  /\ UNCHANGED <<call_log, logged, errorsSince>>

\* ... and cuts the log when it is too long.  (Measuring and cutting are one
\* step: a log that is cut twice still is its newer half.)
CutAudit(t) ==
  /\ call[t].pc = "cutaudit"
  /\ audit_log' = IF Len(audit_log) > MaxAuditLog
                  THEN NewerHalf(audit_log, MaxAuditLog) ELSE audit_log
  /\ Goto(t, "log")
  /\ UNCHANGED <<call_log, logged, errorsSince>>

\* The entry of a success is complete before the list is looked up.
LogCall(t) ==
  /\ call[t].pc = "log"
  /\ call_log' = Append(call_log, Entry(t))
  /\ logged' = Append(logged, Entry(t))
  /\ Goto(t, "cutlog")
  /\ UNCHANGED <<audit_log, errorsSince>>

\* t is done with the log; errors that had looked up the old list miss it.
CallsAfterCut(t, replaced) ==
  [u \in LlmThreads |->
     IF u = t THEN [call[u] EXCEPT !.pc = "returned"]
     ELSE IF replaced /\ call[u].pc = "error" THEN [call[u] EXCEPT !.pc = "stale"]
     ELSE call[u]]

\* Mutant: the older half of the log is kept.
CutLog_Older(t) ==
  /\ call[t].pc = "cutlog"
  /\ LET long == Len(call_log) > MaxCallLog
     IN  /\ call_log' = IF long THEN SubSeq(call_log, 1, (MaxCallLog + 1) \div 2) ELSE call_log
         /\ call' = CallsAfterCut(t, long)
  /\ errorsSince' = 0
  /\ UNCHANGED <<audit_log, logged>>

\* Only a success measures the call log and cuts it.
CutLog(t) ==
  /\ call[t].pc = "cutlog"
  /\ LET long == Len(call_log) > MaxCallLog
     IN  /\ call_log' = IF long THEN NewerHalf(call_log, MaxCallLog) ELSE call_log
         /\ call' = CallsAfterCut(t, long)
  /\ errorsSince' = 0
  /\ UNCHANGED <<audit_log, logged>>

\* The entry of an error goes to the list looked up before, which may no
\* longer be the log.
LogError(t) ==
  /\ \/ /\ call[t].pc = "error"
        /\ call_log' = Append(call_log, Entry(t))
        /\ logged' = Append(logged, Entry(t))
        /\ errorsSince' = errorsSince + 1
     \/ /\ call[t].pc = "stale"
        /\ UNCHANGED <<call_log, logged, errorsSince>>
  /\ Goto(t, "returned")
  /\ UNCHANGED audit_log

LlmStep(t) ==
  \/ Respond(t) \/ Fail(t) \/ Audit(t) \/ CutAudit(t)
  \/ LogCall(t) \/ CutLog(t) \/ LogError(t)

\* The caller has its answer, or None.
Answer(t) ==
  /\ call[t].pc = "returned"
  /\ call' = [call EXCEPT ![t] = [pc |-> "idle", kind |-> @.kind, n |-> @.n, answer |-> FALSE]]
  /\ UNCHANGED <<call_log, audit_log, logged, errorsSince>>

-----------------------------------------------------------------------------
LlmTypeOK ==
  /\ call \in [LlmThreads ->
       [pc : {"idle", "wait", "audit", "cutaudit", "log", "cutlog", "error", "stale", "returned"},
        kind : {"json", "text"}, n : Nat, answer : BOOLEAN]]
  /\ \A t \in LlmThreads : call[t].n <= MaxRequests[t]
  /\ call_log \in Seq(LlmThreads \X Nat) /\ audit_log \in Seq(LlmThreads \X Nat)
  /\ logged \in Seq(LlmThreads \X Nat) /\ errorsSince \in Nat

Measuring(p) == Cardinality({t \in LlmThreads : call[t].pc = p})

\* Both logs stay bounded while two threads append to them: beyond the limit
\* there is only what has not been measured yet, which for the audit log is
\* one entry per thread.  Errors append to the call log without measuring it,
\* so a provider that is down lets it grow by one entry per request until the
\* next success.
LogsBounded ==
  /\ Len(audit_log) <= MaxAuditLog + Measuring("cutaudit")
  /\ Len(call_log) <= MaxCallLog + Measuring("cutlog") + errorsSince

\* The log shows the latest calls in the order they were logged, whoever cut
\* it: it is always the end of everything logged, and at least half the limit.
LogShowsLatest ==
  /\ Len(call_log) <= Len(logged)
  /\ call_log = SubSeq(logged, Len(logged) - Len(call_log) + 1, Len(logged))
  /\ Len(call_log) < Len(logged) => Len(call_log) >= (MaxCallLog + 1) \div 2

\* The call log two threads append to and cut without a lock: bounded but for
\* errors, and the latest calls in order.
LogsSound == LogsBounded /\ LogShowsLatest
=============================================================================
