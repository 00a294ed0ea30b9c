------------------------------ MODULE MCHarvest ------------------------------
(* Instances of Harvest for TLC.                                           *)
EXTENDS Harvest

MCSize == [lessons |-> 2, facts |-> 2]
MCPerRun == [lessons |-> 1, facts |-> 1]
=============================================================================
