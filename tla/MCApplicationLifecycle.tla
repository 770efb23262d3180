----------------------- MODULE MCApplicationLifecycle -----------------------
(***************************************************************************)
(* Small instances of ApplicationLifecycle.                                *)
(***************************************************************************)
EXTENDS ApplicationLifecycle

MCParams(n, proofClose, appUnbonding, gatewayUnbonding) ==
    [numBlocksPerSession                |-> n,
     gracePeriodEndOffsetBlocks         |-> 0,
     claimWindowOpenOffsetBlocks        |-> 0,
     claimWindowCloseOffsetBlocks       |-> 0,
     proofWindowOpenOffsetBlocks        |-> 0,
     proofWindowCloseOffsetBlocks       |-> proofClose,
     supplierUnbondingPeriodSessions    |-> appUnbonding,
     applicationUnbondingPeriodSessions |-> appUnbonding,
     gatewayUnbondingPeriodSessions     |-> gatewayUnbonding,
     computeUnitsToTokensMultiplier     |-> 1,
     computeUnitCostGranularity         |-> 1,
     sessionGridAnchorHeight            |-> 1,
     sessionNumberAtAnchor              |-> 1]

MCGenesis == {MCParams(1, 2, 3, 2), MCParams(2, 1, 1, 1)}

(* A transfer is over before the gateway it meets is released. *)
MCQuickTransfers == {MCParams(1, 1, 2, 2)}

MCSingle == {<<"numBlocksPerSession", 3>>}

MCNone == {}

(* Bound: sessions of one block are explored with gateways, one service,   *)
(* no stuck stake and, for application 2, the larger stake only after a    *)
(* merge; the longer ones with two services, stuck stake, a params update, *)
(* and no gateways.                                                        *)
MCBound ==
    LET apps == store.apps
    IN  IF live.numBlocksPerSession = 1
        THEN /\ \A a \in DOMAIN apps : apps[a].services = {CHOOSE s \in Services : TRUE}
             /\ appPool = Total(StakesOf(apps), DOMAIN apps)
             /\ DOMAIN history = {}
             /\ 2 \in DOMAIN apps => apps[2].stake # 3
        ELSE DOMAIN gateways = {}
=============================================================================
