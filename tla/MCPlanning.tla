----------------------------- MODULE MCPlanning -----------------------------
(***************************************************************************)
(* Small instances of Planning for TLC: the agents bid what AgentCycle's    *)
(* runs show their handle_cfp to return.                                    *)
(***************************************************************************)
EXTENDS Planning, AgentBids

TwoResponders == <<"QA", "DA">>
Line == <<"WC-01", "WC-02">>
=============================================================================
