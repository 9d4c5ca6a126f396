---------------------------- MODULE MCPoolQuote ----------------------------
EXTENDS PoolQuote, TLC

MCTransferFee(s, n) == IF s = 1 /\ n > 3 THEN 1 ELSE 0
MCTerms ==
    {[dex |-> "RaydiumAMM", numerator |-> 1, denominator |-> 4],
     [dex |-> "RaydiumCPMM", rate |-> 1],
     [dex |-> "PumpFunAMM", lp |-> 1, protocol |-> 1, creator |-> 0]}
MCLevels == {<<0, 0>>, <<1, 3>>, <<0, 7>>}
MCAmountsIn == {1, 4}

\* The two pools are interchangeable; the run checks safety only.
PoolSymmetry == Permutations(Pools)
=============================================================================
