--------------------------- MODULE MCFactoryLine ---------------------------
(***************************************************************************)
(* Small instances of FactoryLine for TLC.                                  *)
(***************************************************************************)
EXTENDS FactoryLine

\* One material, of which a cycle uses one or two (volatile), or one.
Volatile == <<{1, 2}>>
Steady == <<{1}>>

\* An order one product completes, and one that takes several shipments.
TwoOrders == <<1, 2>>

\* One small order: once it is complete, finished goods pile up.
OneOrder == <<1>>
=============================================================================
