------------------------------ MODULE MCMachine ------------------------------
(***************************************************************************)
(* A small instance of Machine for TLC.  A configuration file has no        *)
(* negative numbers, so the downward drift of the weld nugget's diameter    *)
(* (machines.py, nugget_dia) is named here.                                 *)
(***************************************************************************)
EXTENDS Machine

NuggetDrift == -1
=============================================================================
