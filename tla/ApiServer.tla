------------------------------ MODULE ApiServer ------------------------------
(***************************************************************************)
(* MASApiServer as main.py runs it: a thread of its own (MAS-API) with one   *)
(* event loop that serves the streams (SseHub) and the questions about the   *)
(* plant (/api/ask), while every thread that publishes, and ENV-TICK at its  *)
(* ticks, push events and PA talks to the same LLM client (LlmClient).       *)
(*                                                                         *)
(* The handlers are coroutines, but what they call blocks: q.get(timeout=1)  *)
(* and the LLM request hold the loop, so everything else on it waits.        *)
(***************************************************************************)
EXTENDS LlmClient, SseHub

CONSTANTS
  Failures,  \* sets of payload sections that may fail together
  Bounds     \* bounds, one set of them per behaviour: whether there is an LLM,
             \* the browsers, the events of each pusher, the questions asked

Unguarded == {"control", "collaboration", "broker", "llm"}
Guarded == {"snapshot", "enriched", "agents", "router", "overview", "context"}

ASSUME ApiAssumption ==
  /\ LlmThreads = {"PA", "API"} /\ "PA" \in Pushers /\ "API" \notin Pushers
  /\ Bounds \subseteq [llm : BOOLEAN, clients : SUBSET Clients,
                       pushes : [Pushers -> Nat], questions : Nat]
  /\ \A f \in Failures : f \subseteq Unguarded \cup Guarded

VARIABLES
  server,   \* the MAS-API thread: none, starting, up, busy (port taken), failed
            \* (uvicorn could not bind) or exiting
  enabled,  \* MASApiServer.enabled
  bound,    \* the bounds of this behaviour; bound.llm is LLMClient.enabled
  loop,     \* what holds the event loop: idle, ask, or a client whose get waits
  ask       \* [n, pc, body, failed, text, mode] of the question on the loop

apiVars == <<server, enabled, bound, loop, ask>>
vars == <<llmVars, sseVars, apiVars>>

NoQuestion ==
  [n |-> 0, pc |-> "none", body |-> "question", failed |-> {}, text |-> FALSE, mode |-> "none"]

Init ==
  /\ LlmInit /\ SseInit
  /\ server = "none" /\ enabled \in BOOLEAN /\ bound \in Bounds
  /\ loop = "idle"
  /\ ask = NoQuestion

-----------------------------------------------------------------------------
\* The life of the server.

\* start(): the flag is set before anybody knows whether the port is free.
Start ==
  /\ server = "none" /\ enabled
  /\ running' = TRUE /\ server' = "starting"
  /\ UNCHANGED <<phase, sse_queues, queue, push, received, dropped, since>>
  /\ UNCHANGED <<llmVars, enabled, bound, loop, ask>>

\* _run: a port in use disables the server and ends its thread.  The port is
\* free again between the check and uvicorn's own bind: if that one fails, the
\* thread ends in uvicorn and the server still counts as enabled.
Bind ==
  /\ server = "starting"
  /\ \/ server' \in {"up", "failed"} /\ UNCHANGED enabled
     \/ server' = "busy" /\ enabled' = FALSE
  /\ UNCHANGED <<llmVars, sseVars, bound, loop, ask>>

\* Mutant: stop forgets the flag the streams look at.
Stop_FlagStays ==
  /\ running
  /\ server' = IF server = "up" THEN "exiting" ELSE server
  /\ UNCHANGED <<llmVars, sseVars, enabled, bound, loop, ask>>

\* stop(), after Ctrl+C: a server that is not up yet is not told to exit.
Stop ==
  /\ running
  /\ running' = FALSE
  /\ server' = IF server = "up" THEN "exiting" ELSE server
  /\ UNCHANGED <<phase, sse_queues, queue, push, received, dropped, since>>
  /\ UNCHANGED <<llmVars, enabled, bound, loop, ask>>

-----------------------------------------------------------------------------
\* Streams on the event loop.

OnLoop(c, action) == loop = "idle" /\ action /\ UNCHANGED <<llmVars, apiVars>>

ClientConnects(c) == c \in bound.clients /\ server = "up" /\ OnLoop(c, Connect(c))
GeneratorStarts(c) == OnLoop(c, StartStream(c))
GeneratorEnds(c) == OnLoop(c, EndStream(c))
ClientLeaves(c) == OnLoop(c, Disconnect(c) \/ DisconnectEarly(c))

\* while server._running: q.get(timeout=1.0) takes the loop ...
Turn(c) ==
  /\ loop = "idle" /\ phase[c] = "streaming" /\ running
  /\ loop' = c
  /\ UNCHANGED <<llmVars, sseVars, server, enabled, bound, ask>>

\* Mutant: get waits without a timeout.
TurnEnds_NoTimeout(c) ==
  /\ loop = c /\ loop' = "idle"
  /\ Yield(c)
  /\ UNCHANGED <<llmVars, server, enabled, bound, ask>>

\* ... and gives it back with an event, or after a second with a heartbeat;
\* stop() is only seen at the next turn.
TurnEnds(c) ==
  /\ loop = c /\ loop' = "idle"
  /\ Yield(c) \/ (queue[c] = << >> /\ UNCHANGED sseVars)
  /\ UNCHANGED <<llmVars, server, enabled, bound, ask>>

-----------------------------------------------------------------------------
\* Questions on the event loop.

\* A browser posts a question; it waits until the loop is free.
Ask ==
  /\ server = "up" /\ ask.n < bound.questions /\ ask.pc \in {"none", "answered"}
  /\ ask' = [NoQuestion EXCEPT !.n = ask.n + 1, !.pc = "posted"]
  /\ UNCHANGED <<llmVars, sseVars, server, enabled, bound, loop>>

\* post_ask reads the body.  One that is no JSON, is empty or has no question
\* asks a blank question; JSON that is no object has no get(), outside the try:
\* the framework answers with a bare 500.
BeginAsk ==
  /\ ask.pc = "posted" /\ loop = "idle"
  /\ \/ \E body \in {"question", "blank"} :
          /\ ask' = [ask EXCEPT !.pc = "build", !.body = body]
          /\ loop' = "ask"
     \/ /\ ask' = [ask EXCEPT !.pc = "answered", !.body = "no object", !.mode = "bare 500"]
        /\ UNCHANGED loop
  /\ UNCHANGED <<llmVars, sseVars, server, enabled, bound>>

\* Mutant: one agent whose status fails takes the whole payload with it.
Raises_AnyAgent(failed) == failed \cap (Unguarded \cup {"agents"}) # {}

\* _build_monitoring_payload: a guarded section that fails is left empty (the
\* enriched snapshot and the context also need the snapshot); one without a
\* guard raises.
Raises(failed) == failed \cap Unguarded # {}
MissingSections(failed) ==
  failed \cup (IF "snapshot" \in failed THEN {"enriched", "context"} ELSE {})

Answered(mode, failed) ==
  /\ loop' = "idle"
  /\ ask' = [ask EXCEPT !.pc = "answered", !.mode = mode, !.failed = failed]

\* answer_monitoring_question up to the LLM: a blank question is told so, an
\* exception becomes mode "error", and without an LLM rules give the answer.
BuildContext ==
  /\ ask.pc = "build"
  /\ \/ ask.body = "blank" /\ Answered("none", {}) /\ UNCHANGED llmVars
     \/ /\ ask.body = "question"
        /\ \E failed \in Failures :
             \/ /\ Raises(failed)
                /\ Answered("error", failed) /\ UNCHANGED llmVars
             \/ /\ ~Raises(failed) /\ ~bound.llm
                /\ Answered("heuristic", MissingSections(failed)) /\ UNCHANGED llmVars
             \/ /\ ~Raises(failed) /\ bound.llm
                /\ ask' = [ask EXCEPT !.pc = "llm", !.failed = MissingSections(failed)]
                /\ Request("API", "text") /\ UNCHANGED loop
  /\ UNCHANGED <<sseVars, server, enabled, bound>>

\* complete_text returned: a text is the answer, None falls back on the rules.
FinishAsk ==
  /\ ask.pc = "llm"
  /\ Answer("API")
  /\ loop' = "idle"
  /\ ask' = [ask EXCEPT !.pc = "answered", !.text = call["API"].answer,
                        !.mode = IF call["API"].answer THEN "llm" ELSE "heuristic"]
  /\ UNCHANGED <<sseVars, server, enabled, bound>>

-----------------------------------------------------------------------------
\* The runtime's threads.

LlmWorks(t) == LlmStep(t) /\ UNCHANGED <<sseVars, apiVars>>

\* on_message runs on whichever thread publishes; PA publishes and asks the
\* LLM by turns, and ENV-TICK also pushes its ticks.
Publishes(p) ==
  /\ p \in LlmThreads => call[p].pc = "idle"
  /\ (push[p].n < bound.pushes[p] /\ BeginPush(p)) \/ PutNext(p)
  /\ UNCHANGED <<llmVars, apiVars>>

PaRequest ==
  /\ bound.llm /\ push["PA"].left = << >>
  /\ Request("PA", "json")
  /\ UNCHANGED <<sseVars, apiVars>>

PaAnswer == Answer("PA") /\ UNCHANGED <<sseVars, apiVars>>

Next ==
  \/ Start \/ Bind \/ Stop
  \/ \E c \in Clients : \/ ClientConnects(c) \/ GeneratorStarts(c) \/ GeneratorEnds(c)
                        \/ ClientLeaves(c) \/ Turn(c) \/ TurnEnds(c)
  \/ Ask \/ BeginAsk \/ BuildContext \/ FinishAsk
  \/ \E t \in LlmThreads : LlmWorks(t)
  \/ \E p \in Pushers : Publishes(p)
  \/ PaRequest \/ PaAnswer

Spec == Init /\ [][Next]_vars

\* A generator is one task; the event loop runs its ready tasks in turn, so
\* it gets the loop again and again (strong fairness: others hold the loop in
\* between).  Requests end, by the client's timeout at the latest.
GeneratorRuns(c) == GeneratorStarts(c) \/ Turn(c) \/ GeneratorEnds(c)

FairSpec ==
  /\ Spec
  /\ \A c \in Clients : SF_vars(GeneratorRuns(c)) /\ WF_vars(TurnEnds(c))
  /\ SF_vars(BeginAsk)
  /\ WF_vars(BuildContext \/ FinishAsk \/ LlmWorks("API"))

-----------------------------------------------------------------------------
TypeOK ==
  /\ LlmTypeOK /\ SseTypeOK
  /\ server \in {"none", "starting", "up", "busy", "failed", "exiting"} /\ enabled \in BOOLEAN
  /\ loop \in {"idle", "ask"} \cup Clients
  /\ bound \in Bounds
  /\ ask \in [n : 0..bound.questions, pc : {"none", "posted", "build", "llm", "answered"},
             body : {"question", "blank", "no object"},
             failed : SUBSET (Unguarded \cup Guarded), text : BOOLEAN,
             mode : {"none", "llm", "heuristic", "error", "bare 500"}]

\* The mode of an answer is true of how it came about, whatever failed: the
\* LLM is named only if it gave a text, a section that fails costs its data
\* and not the answer, only what has no guard makes it an error, and only a
\* body that is no object gets no JSON answer at all.
AnswerSound ==
  ask.pc = "answered" =>
    /\ ask.mode = "none" <=> ask.body = "blank"
    /\ ask.mode = "bare 500" <=> ask.body = "no object"
    /\ ask.mode = "llm" <=> ask.text
    /\ ask.mode = "error" <=> ask.failed \cap Unguarded # {}

\* Types, and the truth of every answer.
ServerSound == TypeOK /\ AnswerSound

\* Every question is answered although streams hold the loop while they wait
\* for events, the LLM fails or gives a blank text, or a section raises.
AskAnswered == (ask.pc = "posted") ~> (ask.pc = "answered")

\* The streams get the loop back: an event queued for a client is yielded
\* unless the client leaves or the server stops, whatever question or idle
\* stream holds the loop meanwhile.
StreamsDrain ==
  \A c \in Clients : (phase[c] = "streaming" /\ queue[c] # << >>)
                       ~> (queue[c] = << >> \/ phase[c] = "ended" \/ ~running)

\* After stop() every stream ends, also one whose get was waiting.
StreamsEnd ==
  \A c \in Clients : (server = "exiting" /\ phase[c] = "streaming") ~> (phase[c] = "ended")
=============================================================================
