--------------------------- MODULE MCParticipation ---------------------------
(***************************************************************************)
(* Instances of Participation for TLC: every combination of the settings,  *)
(* two tries an attempt, and a few faults placed anywhere.                 *)
(***************************************************************************)
EXTENDS Participation

AllOptions == [enabled : BOOLEAN, reregister : BOOLEAN, overwrite : BOOLEAN]
LoopOptions == {[enabled |-> TRUE, reregister |-> TRUE, overwrite |-> TRUE]}
=============================================================================
