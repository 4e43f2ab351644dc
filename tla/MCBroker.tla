------------------------------ MODULE MCBroker ------------------------------
(***************************************************************************)
(* Small instances of Broker for TLC.                                       *)
(***************************************************************************)
EXTENDS Broker

\* What the runtime sends besides PA's calls for proposals: alerts for PA.
AlertLetters == {[sender |-> a, receiver |-> "PA", intent |-> "ALERT"] :
                   a \in Agents \ {"PA"}}

\* A note for everybody, a message for an agent nobody registered.
AdminLetters == {[sender |-> "EA", receiver |-> r, intent |-> "INFORM"] :
                   r \in {"ALL", "ERP"}}
=============================================================================
