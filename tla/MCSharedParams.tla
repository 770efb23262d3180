--------------------------- MODULE MCSharedParams ---------------------------
(***************************************************************************)
(* Small instances of SharedParams.  Session lengths 1 to 3 and offsets of *)
(* 0 to 2 blocks, so that within a dozen blocks sessions of different      *)
(* lengths follow one another.                                             *)
(***************************************************************************)
EXTENDS SharedParams

MCParams(n, grace, claimOpen, proofClose, unbonding, cuttm) ==
    [numBlocksPerSession                |-> n,
     gracePeriodEndOffsetBlocks         |-> grace,
     claimWindowOpenOffsetBlocks        |-> claimOpen,
     claimWindowCloseOffsetBlocks       |-> 1,
     proofWindowOpenOffsetBlocks        |-> 0,
     proofWindowCloseOffsetBlocks       |-> proofClose,
     supplierUnbondingPeriodSessions    |-> unbonding,
     applicationUnbondingPeriodSessions |-> unbonding,
     gatewayUnbondingPeriodSessions     |-> 1,
     computeUnitsToTokensMultiplier     |-> cuttm,
     computeUnitCostGranularity         |-> 1,
     sessionGridAnchorHeight            |-> 0,
     sessionNumberAtAnchor              |-> 0]

(* A chain from before the anchored grid, and one from after it. *)
MCGenesis ==
    {MCParams(2, 1, 1, 1, 3, 1),
     [MCParams(2, 1, 1, 1, 3, 1) EXCEPT !.sessionGridAnchorHeight = 1,
                                        !.sessionNumberAtAnchor = 1]}

(* Bulk updates that change the length and the price together; the second  *)
(* claims an anchor of its own, which must be overwritten; the third is    *)
(* invalid (a grace period as long as the session).                        *)
MCBulk ==
    {MCParams(3, 1, 1, 2, 3, 2),
     [MCParams(2, 0, 0, 1, 3, 1) EXCEPT !.sessionGridAnchorHeight = 7,
                                        !.sessionNumberAtAnchor = 7],
     MCParams(1, 1, 1, 1, 3, 1)}

MCSingle ==
    {<<"numBlocksPerSession", 1>>, <<"numBlocksPerSession", 3>>,
     <<"gracePeriodEndOffsetBlocks", 0>>,
     <<"computeUnitsToTokensMultiplier", 2>>}

MCNone == {}
=============================================================================
