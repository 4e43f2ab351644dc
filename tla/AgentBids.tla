------------------------------ MODULE AgentBids ------------------------------
(***************************************************************************)
(* What the agents bid in a contract-net round.  Planning's instances take  *)
(* it as an assumption (the constant Bids), AgentCycle's runs show that the *)
(* agents keep to it.                                                       *)
(***************************************************************************)
RuntimeBids ==
  [EA |-> {[speed |-> 80, mode |-> "standard"], [speed |-> 100, mode |-> "standard"]},
   QA |-> {[speed |-> 90, mode |-> "tightened"]},
   SA |-> {[speed |-> 100, mode |-> "standard"]},
   DA |-> {[speed |-> 100, mode |-> "standard"], [speed |-> 110, mode |-> "standard"]},
   IA |-> {[speed |-> 100, mode |-> "standard"]}]
=============================================================================
