----------------------------- MODULE MCStrategy -----------------------------
(***************************************************************************)
(* A small instance of Strategy: bids on both sides of every threshold the   *)
(* agents compare with, and readings on both sides of every band.            *)
(***************************************************************************)
EXTENDS Strategy

AllResponders == <<"EA", "QA", "SA", "DA", "IA">>

Flow(scrap, wip, bottleneck, throughput) ==
  [scrap |-> scrap, wip |-> wip, bottleneck |-> bottleneck, throughput |-> throughput]

SomeBids ==
  [EA |-> {EaProposal(<<rul>>) : rul \in {0, 30, 60, 600, 1200}},
   QA |-> {QaProposal(200)},
   SA |-> {SaProposal(log) : log \in {<< >>, <<"planned">>, <<"planned", "urgent">>}},
   DA |-> {DaProposal(util) : util \in {90, 105, 150}},
   IA |-> {IaProposal(flow) : flow \in {Flow(0, 0, 0, << >>), Flow(2, 0, 1, <<1, 2, 3>>),
                                        Flow(5, 2, 1, <<1, 2, 2>>)}}]

SomeReadings == [vib : {20, 36, 41, 46, 52, 56}, ma : {20, 34}, oil : {400, 620, 760}]
=============================================================================
