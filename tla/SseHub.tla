------------------------------- MODULE SseHub -------------------------------
(***************************************************************************)
(* The event streams of MASApiServer (mas/api/server.py): every client of   *)
(* /api/stream has a bounded queue in _sse_queues; threads of the runtime   *)
(* (push_event from ENV-TICK, _on_broker_message from whichever thread      *)
(* publishes) put an event into every queue of a copy of that list, and     *)
(* each client's generator takes them out again.  No lock guards the list.  *)
(***************************************************************************)
EXTENDS Integers, Sequences, FiniteSets, SequencesExt

CONSTANTS
  Clients,     \* browsers
  Pushers,     \* threads that push events
  QueueMax     \* Queue(maxsize=200)

ASSUME SseAssumption == QueueMax \in Nat \ {0}

VARIABLES
  running,     \* MASApiServer._running
  phase,       \* client -> absent, connected, streaming, ended or left
  sse_queues,  \* clients whose queue is in _sse_queues, in order
  queue,       \* client -> its queue of events [from, n]
  push,        \* pusher -> [n, left]: events pushed, clients still to serve
  received,    \* history: client -> events its generator yielded
  dropped,     \* history: client -> events put_nowait refused
  since        \* history: client -> pusher -> events pushed before it came

sseVars == <<running, phase, sse_queues, queue, push, received, dropped, since>>

SseInit ==
  /\ running = FALSE
  /\ phase = [c \in Clients |-> "absent"]
  /\ sse_queues = << >>
  /\ queue = [c \in Clients |-> << >>]
  /\ push = [p \in Pushers |-> [n |-> 0, left |-> << >>]]
  /\ received = [c \in Clients |-> << >>]
  /\ dropped = [c \in Clients |-> {}]
  /\ since = [c \in Clients |-> [p \in Pushers |-> 0]]

\* GET /api/stream: the queue is listed before the generator first runs.
Connect(c) ==
  /\ phase[c] = "absent"
  /\ phase' = [phase EXCEPT ![c] = "connected"]
  /\ sse_queues' = Append(sse_queues, c)
  /\ since' = [since EXCEPT ![c] = [p \in Pushers |-> push[p].n]]
  /\ UNCHANGED <<running, queue, push, received, dropped>>

StartStream(c) ==
  /\ phase[c] = "connected"
  /\ phase' = [phase EXCEPT ![c] = "streaming"]
  /\ UNCHANGED <<running, sse_queues, queue, push, received, dropped, since>>

\* q.get returns: the next event is yielded.
Yield(c) ==
  /\ queue[c] # << >>
  /\ received' = [received EXCEPT ![c] = Append(@, Head(queue[c]))]
  /\ queue' = [queue EXCEPT ![c] = Tail(@)]
  /\ UNCHANGED <<running, phase, sse_queues, push, dropped, since>>

\* finally: the queue is taken out of the list, if it is there.
Unlist(c) == sse_queues' = RemoveFirst(sse_queues, c)

\* The stream is over; its history is of no more interest.
CloseStream(c) ==
  /\ phase' = [phase EXCEPT ![c] = "ended"]
  /\ Unlist(c)
  /\ queue' = [queue EXCEPT ![c] = << >>]
  /\ received' = [received EXCEPT ![c] = << >>]
  /\ dropped' = [dropped EXCEPT ![c] = {}]
  /\ since' = [since EXCEPT ![c] = [p \in Pushers |-> 0]]
  /\ UNCHANGED <<running, push>>

\* while server._running: the stream ends when the server stops.
EndStream(c) ==
  /\ phase[c] = "streaming" /\ ~running
  /\ CloseStream(c)

\* The browser goes away: a running generator is closed and cleans up ...
Disconnect(c) ==
  /\ phase[c] = "streaming"
  /\ CloseStream(c)

\* ... but one that never ran has no finally: its queue stays listed.
DisconnectEarly(c) ==
  /\ phase[c] = "connected"
  /\ phase' = [phase EXCEPT ![c] = "left"]
  /\ UNCHANGED <<running, sse_queues, queue, push, received, dropped, since>>

Event(p) == [from |-> p, n |-> push[p].n]

\* push_event, _on_broker_message: the loop runs over a copy of the list.
BeginPush(p) ==
  /\ push[p].left = << >>
  /\ push' = [push EXCEPT ![p] = [n |-> @.n + 1, left |-> sse_queues]]
  /\ UNCHANGED <<running, phase, sse_queues, queue, received, dropped, since>>

\* Mutant: the try stands around the loop, so a full queue ends the push.
PutNext_StopsAtFull(p) ==
  /\ push[p].left # << >>
  /\ LET c == Head(push[p].left)
         full == Len(queue[c]) = QueueMax
     IN  /\ queue' = IF full THEN queue ELSE [queue EXCEPT ![c] = Append(@, Event(p))]
         /\ dropped' = IF full THEN [dropped EXCEPT ![c] = @ \cup {Event(p)}] ELSE dropped
         /\ push' = [push EXCEPT ![p] = [n |-> @.n, left |-> IF full THEN << >> ELSE Tail(@.left)]]
  /\ UNCHANGED <<running, phase, sse_queues, received, since>>

\* put_nowait into the next queue of the copy; Full drops the event for that
\* client and goes on with the others.
PutNext(p) ==
  /\ push[p].left # << >>
  /\ LET c == Head(push[p].left)
     IN  \/ /\ Len(queue[c]) < QueueMax
            /\ queue' = [queue EXCEPT ![c] = Append(@, Event(p))]
            /\ UNCHANGED dropped
         \/ /\ Len(queue[c]) = QueueMax
            /\ dropped' = [dropped EXCEPT ![c] = @ \cup {Event(p)}]
            /\ UNCHANGED queue
  /\ push' = [push EXCEPT ![p] = [n |-> @.n, left |-> Tail(@.left)]]
  /\ UNCHANGED <<running, phase, sse_queues, received, since>>

-----------------------------------------------------------------------------
EventType == [from : Pushers, n : Nat]
Events == {e \in EventType : e.n \in 1..push[e.from].n}

SseTypeOK ==
  /\ running \in BOOLEAN
  /\ phase \in [Clients -> {"absent", "connected", "streaming", "ended", "left"}]
  /\ sse_queues \in Seq(Clients) /\ IsInjective(sse_queues)
  /\ queue \in [Clients -> Seq(EventType)] /\ received \in [Clients -> Seq(EventType)]
  /\ dropped \in [Clients -> SUBSET EventType]
  /\ push \in [Pushers -> [n : Nat, left : Seq(Clients)]]
  /\ since \in [Clients -> [Pushers -> Nat]]
  /\ \A c \in Clients : /\ Range(queue[c]) \cup Range(received[c]) \subseteq Events
                        /\ Len(queue[c]) <= QueueMax
                        /\ dropped[c] \subseteq Events

\* What a client sees of one pusher comes in the order it was pushed, at most
\* once, whatever other threads push in between (two clients may see the
\* events of two pushers in different orders).
ClientOrder ==
  \A c \in Clients :
    LET seen == received[c] \o queue[c]
    IN  \A i, j \in DOMAIN seen :
          i < j /\ seen[i].from = seen[j].from => seen[i].n < seen[j].n

\* A client misses an event only if its own queue was full at that moment, so
\* a slow browser takes nothing from the others: of all events pushed since a
\* listed client came, each one was yielded, waits, or was refused, but for
\* those on their way.
OnlyFullDrops ==
  \A c \in Range(sse_queues), p \in Pushers :
    LET got == Range(received[c] \o queue[c]) \cup dropped[c]
        done == push[p].n - (IF c \in Range(push[p].left) THEN 1 ELSE 0)
    IN  \A n \in since[c][p] + 1 .. done : [from |-> p, n |-> n] \in got

\* A listed queue has a reader, or will have one: only a client that left
\* before its generator ran leaks its queue.
QueuesHaveReaders ==
  \A c \in Clients : c \in Range(sse_queues) =>
                       phase[c] \in {"connected", "streaming", "left"}

\* The streams as a whole: order, no loss but by a full queue of one's own, and
\* no queue without a reader but for one known leak.
StreamsSound == ClientOrder /\ OnlyFullDrops /\ QueuesHaveReaders
=============================================================================
