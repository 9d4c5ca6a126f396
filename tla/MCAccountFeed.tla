--------------------------- MODULE MCAccountFeed ---------------------------
(***************************************************************************)
(* AccountFeed with two pools of the same or of two different DEXes.       *)
(***************************************************************************)
EXTENDS AccountFeed

CONSTANTS P1, P2

Neighbour == [MeteoraDLMM |-> "RaydiumCLMM", RaydiumCLMM |-> "OrcaWhirl",
              OrcaWhirl |-> "MeteoraDLMM", RaydiumAMM |-> "RaydiumCLMM",
              RaydiumCPMM |-> "OrcaWhirl", PumpFunAMM |-> "RaydiumAMM",
              MeteoraDAMMV2 |-> "MeteoraDLMM"]

\* Each DEX beside another one, and two pools of a DEX with and without arrays.
MCDeployments == {[p \in Pools |-> IF p = P1 THEN d ELSE Neighbour[d]] : d \in Dexes}
                 \cup {[p \in Pools |-> d] : d \in {"RaydiumCLMM", "PumpFunAMM"}}

\* All a DEX keeps for an entry, or the clock alone: each account is listed in
\* some initial state and left out in another.
MCRoleLists == {Roles, {"clock"}}

\* Two vaults of one pool after a vault of the other, and after their pool.
MCKeyLists == {<<<<"vault_a", P2>>, <<"vault_b", P1>>, <<"vault_a", P1>>>>,
               <<<<"pool", P1>>, <<"vault_b", P1>>, <<"vault_a", P1>>>>}

\* Changed, changed within one grain, opened, closed, and without an amount.
MCPairs == {<<2, 4>>, <<2, 3>>, <<Absent, 2>>, <<4, Absent>>, <<Unset, 2>>}
=============================================================================
