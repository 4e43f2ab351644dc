----------------------------- MODULE MCApiServer -----------------------------
(***************************************************************************)
(* Small instances of ApiServer, explored in one run, with queues of two     *)
(* events: two browsers and two publishing threads, whose events do not all  *)
(* fit into a queue; one browser and a question answered by rules; one       *)
(* browser while PA and a question share an LLM client whose logs are cut    *)
(* early.                                                                    *)
(***************************************************************************)
EXTENDS ApiServer

CONSTANTS c1, c2

ThreePushers == {"PA", "EA", "ENV"}
TwoLlmThreads == {"PA", "API"}
RequestsOf == [t \in TwoLlmThreads |-> IF t = "PA" THEN 2 ELSE 1]
SomeFailures == {{"snapshot", "agents"}, {"broker"}}

Pushes(pa, ea, env) ==
  [p \in ThreePushers |-> CASE p = "PA" -> pa [] p = "EA" -> ea [] p = "ENV" -> env]
Instances ==
  {[llm |-> FALSE, clients |-> {c1, c2}, pushes |-> Pushes(0, 1, 2), questions |-> 0],
   [llm |-> FALSE, clients |-> {c1}, pushes |-> Pushes(1, 0, 2), questions |-> 1],
   [llm |-> TRUE, clients |-> {c1}, pushes |-> Pushes(0, 0, 1), questions |-> 1]}
=============================================================================
