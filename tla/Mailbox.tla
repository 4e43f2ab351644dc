------------------------------- MODULE Mailbox -------------------------------
(***************************************************************************)
(* What the message broker promises its agents, with queues, retries and    *)
(* threads abstracted away: messages are posted once, and each agent's mail *)
(* grows by messages meant for it, for each sender in the order of posting. *)
(* Losing a message is allowed: the broker drops what meets a full queue.   *)
(* Handing one over twice is not, but for the messages of again, whose      *)
(* receivers were exchanged while they were being sent.                     *)
(***************************************************************************)
EXTENDS Naturals, Sequences

CONSTANTS
  Agents,
  Message   \* the messages that can be posted

VARIABLES
  posted,   \* every message: a record with at least sender and receiver
  mail,     \* the indices of posted each agent has been handed, in order
  again     \* those of messages whose set of receivers was tampered with

MeantFor(m, r) ==
  \/ posted[m].receiver = r
  \/ posted[m].receiver = "ALL" /\ posted[m].sender # r

Init ==
  /\ posted = <<>>
  /\ mail = [r \in Agents |-> <<>>]
  /\ again = {}

Post ==
  /\ \E p \in Message : posted' = Append(posted, p)
  /\ UNCHANGED <<mail, again>>

Deliver(r, m) ==
  /\ m \in DOMAIN posted
  /\ MeantFor(m, r)
  /\ \A i \in DOMAIN mail[r] :
       posted[mail[r][i]].sender = posted[m].sender =>
         mail[r][i] < m \/ (mail[r][i] = m /\ m \in again)
  /\ mail' = [mail EXCEPT ![r] = Append(@, m)]
  /\ UNCHANGED <<posted, again>>

\* The set of receivers changes under messages that have been posted.
Tamper ==
  /\ again \subseteq again' /\ again' \subseteq DOMAIN posted
  /\ UNCHANGED <<posted, mail>>

Next == Post \/ Tamper \/ \E r \in Agents : \E m \in DOMAIN posted : Deliver(r, m)

Spec == Init /\ [][Next]_<<posted, mail, again>>
=============================================================================
