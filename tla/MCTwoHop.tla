------------------------------- MODULE MCTwoHop -------------------------------
(***************************************************************************)
(* TwoHop on three pools that trade S for T, one of them with the mints    *)
(* the other way round, and one pool of T and U that no path crosses.      *)
(* A pool's data is the price it adds in its forward direction, or 0 when  *)
(* it cannot be quoted.                                                    *)
(***************************************************************************)
EXTENDS TwoHop

CONSTANTS A, B, C, D, S, T, U

MCMintsOf == [p \in Pools |-> CASE p = A -> <<S, T>>
                                [] p = B -> <<T, S>>
                                [] p = C -> <<S, T>>
                                [] p = D -> <<T, U>>]

MCDataOf == [p \in Pools |-> CASE p = D -> {0}
                               [] p = B -> {0, 1, 3}
                               [] OTHER -> {0, 1, 4}]

\* An amount of 11 cannot be swapped for a price of 4 (not enough liquidity).
MCQuote(d, forward, x) ==
    IF d = 0 \/ x = NoQuote THEN NoQuote
    ELSE IF forward THEN x + d ELSE IF x = 11 /\ d = 4 THEN NoQuote ELSE x - d
=============================================================================
