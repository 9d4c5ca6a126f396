------------------------------- MODULE MCBundle -------------------------------
(***************************************************************************)
(* Bundle with two uuids, the first of two regions and the second of one,  *)
(* or with one url; Arbs are interchangeable.                              *)
(***************************************************************************)
EXTENDS Bundle

CONSTANTS U1, U2, U3

MCUrlGroups == << {U1, U2}, {U3} >>

MCOneUrl == << {U1} >>

Symmetry == Permutations(Arbs)
=============================================================================
