------------------------------ MODULE MCStartup ------------------------------
(***************************************************************************)
(* Startup with two pools of any DEX each, the same one or two different   *)
(* ones, that share their fee configuration.                               *)
(***************************************************************************)
EXTENDS Startup

CONSTANTS P1, P2

MCConfigOf == [p \in Pools |-> P1]
=============================================================================
