------------------------- MODULE GatewayLifecycle --------------------------
(***************************************************************************)
(* The gateway module (x/gateway) over the shared params: staking,         *)
(* unstaking and the EndBlocker that releases a gateway at a session end   *)
(* once its unbonding period, measured by the params of the height it      *)
(* unstaked at, is over.  Metadata cards are left out.                     *)
(***************************************************************************)
EXTENDS SharedParams, Totals, Functions

CONSTANTS
    Gateways,          \* gateway addresses
    GatewayStakes,     \* the amounts a stake message may carry
    GatewayMinStake    \* x/gateway param min_stake

ASSUME GatewayAssumption ==
    /\ GatewayStakes \subseteq Nat \ {0}
    /\ GatewayMinStake \in Nat

VARIABLES
    gateways,      \* address -> [stake, unstakeSessionEndHeight]
    gatewayPool    \* stake held by the module account

gatewayVars == <<gateways, gatewayPool>>
glVars == <<paramVars, gatewayVars>>

NotUnstaking == 0

IsUnbonding(actor) == actor.unstakeSessionEndHeight # NotUnstaking

IsActiveGateway(gw, h) == ~ IsUnbonding(gw) \/ h <= gw.unstakeSessionEndHeight

PutAll(f, new) ==
    [x \in DOMAIN f \cup DOMAIN new |-> IF x \in DOMAIN new THEN new[x] ELSE f[x]]

Put(f, k, v) == PutAll(f, [x \in {k} |-> v])

StakesOf(actors) == [x \in DOMAIN actors |-> actors[x].stake]

-----------------------------------------------------------------------------
(* A first stake, or a strictly higher one, which cancels an unbonding.    *)
StakeGateway(g, amount) ==
    LET old == IF g \in DOMAIN gateways THEN gateways[g].stake ELSE 0
    IN  /\ amount > old
        /\ amount >= GatewayMinStake
        /\ gateways' = Put(gateways, g,
                           [stake |-> amount, unstakeSessionEndHeight |-> NotUnstaking])
        /\ gatewayPool' = gatewayPool + amount - old
        /\ UNCHANGED paramVars

UnstakeGateway(g) ==
    /\ g \in DOMAIN gateways
    /\ ~ IsUnbonding(gateways[g])
    /\ gateways' = [gateways EXCEPT ![g].unstakeSessionEndHeight =
                                       GetSessionEndHeight(live, height)]
    /\ UNCHANGED <<paramVars, gatewayPool>>

GetGatewayUnbondingHeight(gw) ==
    LET p == GetParamsAtHeight(gw.unstakeSessionEndHeight)
    IN  gw.unstakeSessionEndHeight
          + p.gatewayUnbondingPeriodSessions * p.numBlocksPerSession

UnbondedGateways ==
    {g \in DOMAIN gateways :
        /\ IsSessionEndHeight(live, height)
        /\ IsUnbonding(gateways[g])
        /\ GetGatewayUnbondingHeight(gateways[g]) <= height}

(* EndBlockerUnbondGateways: what it leaves is what x/application sees     *)
(* later in the same block.                                                *)
GatewaysLeft == Restrict(gateways, DOMAIN gateways \ UnbondedGateways)

(* Mutant: the coins of a removed gateway stay.                            *)
GatewayEndBlockUnpaid == gateways' = GatewaysLeft /\ UNCHANGED gatewayPool

GatewayEndBlock ==
    /\ gateways' = GatewaysLeft
    /\ gatewayPool' = gatewayPool - Total(StakesOf(gateways), UnbondedGateways)

GatewayMessage ==
    \E g \in Gateways :
       \/ \E amount \in GatewayStakes : StakeGateway(g, amount)
       \/ UnstakeGateway(g)

GatewayInit ==
    /\ Init
    /\ gateways = [g \in {} |-> [stake |-> 0, unstakeSessionEndHeight |-> 0]]
    /\ gatewayPool = 0
=============================================================================
