---------------------------- MODULE MCSimulation ----------------------------
(* Instances of Simulation for TLC. *)
EXTENDS Simulation

CONSTANTS a1, p1, c1, c2

OneTenant == {{a1}}
=============================================================================
