------------------------ MODULE MCSupplierLifecycle ------------------------
(***************************************************************************)
(* Small instances of SupplierLifecycle.                                   *)
(***************************************************************************)
EXTENDS SupplierLifecycle

MCParams(n, proofClose, unbonding) ==
    [numBlocksPerSession                |-> n,
     gracePeriodEndOffsetBlocks         |-> 0,
     claimWindowOpenOffsetBlocks        |-> 0,
     claimWindowCloseOffsetBlocks       |-> 1,
     proofWindowOpenOffsetBlocks        |-> 0,
     proofWindowCloseOffsetBlocks       |-> proofClose,
     supplierUnbondingPeriodSessions    |-> unbonding,
     applicationUnbondingPeriodSessions |-> unbonding,
     gatewayUnbondingPeriodSessions     |-> 1,
     computeUnitsToTokensMultiplier     |-> 1,
     computeUnitCostGranularity         |-> 1,
     sessionGridAnchorHeight            |-> 1,
     sessionNumberAtAnchor              |-> 1]

(* An unbonding period of 4 blocks against a cumulative window of 3. *)
MCGenesis == {MCParams(2, 2, 2)}

(* An unbonding period of 4 blocks against a cumulative window of 4.       *)
MCTightGenesis == {MCParams(2, 3, 2)}

MCSingle == {<<"numBlocksPerSession", 2>>, <<"numBlocksPerSession", 3>>}

MCNone == {}
=============================================================================
