---------------------------- MODULE MCAgentCycle ----------------------------
(***************************************************************************)
(* Small instances of AgentCycle for TLC: a line of three stations (the     *)
(* number QA needs for a worsening trend) and two snapshots.                *)
(***************************************************************************)
EXTENDS AgentCycle

AllResponders == <<"EA", "QA", "SA", "DA", "IA">>
AllAgents == {"EA", "QA", "SA", "DA", "IA"}

Sensor(name, value, dev, rules) ==
  [name |-> name, value |-> value, dev |-> dev, std |-> 1, rising |-> 0,
   gain |-> 117, rules |-> rules, cpk |-> 150, falling |-> FALSE]
Station(sensors, tool, mtbf, quality, oee) ==
  [sensors |-> sensors, tool |-> tool, mtbf |-> mtbf, rul_scale |-> 100,
   quality |-> quality, oee |-> oee]
Quiet == Sensor("oil_temp", 420, 0, 0)

\* All is well, but for a vibration over the router's threshold for EA.
Calm ==
  [stations |-> <<Station(<<Sensor("vibration", 46, 0, 0), Quiet>>, 80, 0, 98, 90),
                  Station(<<Quiet>>, 80, 0, 98, 90), Station(<<Quiet>>, 80, 0, 98, 90)>>,
   materials |-> <<[stock |-> 50, safety |-> 10, hours |-> 240, reorder |-> FALSE],
                   [stock |-> 50, safety |-> 10, hours |-> 240, reorder |-> FALSE]>>,
   orders |-> <<[qty |-> 10, delivered |-> 10, urgent |-> FALSE]>>,
   wip |-> <<0, 0>>, fg_stock |-> 5, produced |-> 10, scrap |-> 0, avg_oee |-> 90]

\* Quality is bad everywhere, two stations are worn and a tool is at its end,
\* one material runs out, another is due for an order, deliveries are late.
Crisis ==
  [stations |-> <<Station(<<Sensor("vibration", 56, 5, 0), Quiet>>, 80, 6, 85, 60),
                  Station(<<Quiet>>, 4, 0, 85, 60), Station(<<Quiet>>, 80, 6, 85, 60)>>,
   materials |-> <<[stock |-> 2, safety |-> 10, hours |-> 0, reorder |-> TRUE],
                   [stock |-> 9, safety |-> 10, hours |-> 20, reorder |-> TRUE]>>,
   orders |-> <<[qty |-> 10, delivered |-> 2, urgent |-> TRUE]>>,
   wip |-> <<0, 0>>, fg_stock |-> 5, produced |-> 0, scrap |-> 0, avg_oee |-> 60]

TwoSnapshots == <<Calm, Crisis>>
=============================================================================
