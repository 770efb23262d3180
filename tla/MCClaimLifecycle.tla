-------------------------- MODULE MCClaimLifecycle --------------------------
(***************************************************************************)
(* Small instances of ClaimLifecycle.                                      *)
(***************************************************************************)
EXTENDS ClaimLifecycle

MCParams(n, proofClose, unbonding, cuttm) ==
    [numBlocksPerSession                |-> n,
     gracePeriodEndOffsetBlocks         |-> 0,
     claimWindowOpenOffsetBlocks        |-> 0,
     claimWindowCloseOffsetBlocks       |-> 1,
     proofWindowOpenOffsetBlocks        |-> 0,
     proofWindowCloseOffsetBlocks       |-> proofClose,
     supplierUnbondingPeriodSessions    |-> unbonding,
     applicationUnbondingPeriodSessions |-> unbonding,
     gatewayUnbondingPeriodSessions     |-> 1,
     computeUnitsToTokensMultiplier     |-> cuttm,
     computeUnitCostGranularity         |-> 1,
     sessionGridAnchorHeight            |-> 1,
     sessionNumberAtAnchor              |-> 1]

MCGenesis == {MCParams(2, 1, 2, 1)}

MCSingle ==
    {<<"numBlocksPerSession", 3>>, <<"proofWindowCloseOffsetBlocks", 2>>,
     <<"proofWindowCloseOffsetBlocks", 0>>,
     <<"computeUnitsToTokensMultiplier", 2>>}

MCNone == {}

(* The sample asks for a proof of a pending claim, or it does not. *)
MCSamples == {{}, Statuses}
MCNoSample == {{}}
=============================================================================
