---------------------------- MODULE MCScenarioEnv ----------------------------
(***************************************************************************)
(* A small instance of ScenarioEnv for TLC: the warehouse starts at the     *)
(* safety stock, batches of 3 exceed the small orders, and shipments come   *)
(* every second cycle, as in the files of scenarios/.                       *)
(***************************************************************************)
EXTENDS ScenarioEnv

\* The interval and the batch size are left to the defaults.
SmallWarehouse == [stock |-> 5, initial_orders |-> <<4, 0, 6>>]

OneFactoryOrder == <<1>>
=============================================================================
