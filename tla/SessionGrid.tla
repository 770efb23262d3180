---------------------------- MODULE SessionGrid ----------------------------
(***************************************************************************)
(* The session grid of x/shared/types/session.go: which session a block    *)
(* height belongs to, and when the claim and proof windows of that session *)
(* open and close, as functions of one shared-params record.               *)
(*                                                                         *)
(* Since sessions are measured from an anchor (and not from block 1), the  *)
(* same height falls in different sessions under different params records; *)
(* every operator takes the record p it measures with, as in the code.     *)
(***************************************************************************)
EXTENDS Integers

(* The governed fields, by the name MsgUpdateParam gives them. *)
TimingParams ==
    {"numBlocksPerSession", "gracePeriodEndOffsetBlocks",
     "claimWindowOpenOffsetBlocks", "claimWindowCloseOffsetBlocks",
     "proofWindowOpenOffsetBlocks", "proofWindowCloseOffsetBlocks"}

ParamNames ==
    TimingParams \cup
    {"supplierUnbondingPeriodSessions", "applicationUnbondingPeriodSessions",
     "gatewayUnbondingPeriodSessions", "computeUnitsToTokensMultiplier",
     "computeUnitCostGranularity"}

(* A shared-params record: the governed fields, and the two derived fields *)
(* that place its session grid.                                            *)
Params ==
    [numBlocksPerSession                : Nat,
     gracePeriodEndOffsetBlocks         : Nat,
     claimWindowOpenOffsetBlocks        : Nat,
     claimWindowCloseOffsetBlocks       : Nat,
     proofWindowOpenOffsetBlocks        : Nat,
     proofWindowCloseOffsetBlocks       : Nat,
     supplierUnbondingPeriodSessions    : Nat,
     applicationUnbondingPeriodSessions : Nat,
     gatewayUnbondingPeriodSessions     : Nat,
     computeUnitsToTokensMultiplier     : Nat,
     computeUnitCostGranularity         : Nat,
     sessionGridAnchorHeight            : Nat,
     sessionNumberAtAnchor              : Nat]

(* p describes an epoch that begins after h, or carries no anchor at all:  *)
(* the grid then counts from block 1.                                      *)
AnchorUnusable(p, h) ==
    \/ p.sessionGridAnchorHeight = 0
    \/ p.sessionGridAnchorHeight > h

GridAnchor(p, h) ==
    IF AnchorUnusable(p, h) THEN 1 ELSE p.sessionGridAnchorHeight

NumberAtAnchor(p, h) ==
    IF AnchorUnusable(p, h) \/ p.sessionNumberAtAnchor = 0
    THEN 1
    ELSE p.sessionNumberAtAnchor

GetSessionStartHeight(p, h) ==
    IF h <= 0
    THEN 0
    ELSE LET a == GridAnchor(p, h)
             n == p.numBlocksPerSession
         IN  a + ((h - a) \div n) * n

GetSessionEndHeight(p, h) ==
    IF h <= 0
    THEN 0
    ELSE GetSessionStartHeight(p, h) + p.numBlocksPerSession - 1

GetSessionNumber(p, h) ==
    IF h <= 0
    THEN 0
    ELSE NumberAtAnchor(p, h)
           + (h - GridAnchor(p, h)) \div p.numBlocksPerSession

GetNextSessionStartHeight(p, h) == GetSessionEndHeight(p, h) + 1

IsSessionEndHeight(p, h) == h = GetSessionEndHeight(p, h)

(* One block is added so that relays of the session's last block still     *)
(* make it into the claim.                                                 *)
GetClaimWindowOpenHeight(p, h) ==
    GetSessionEndHeight(p, h) + p.claimWindowOpenOffsetBlocks + 1

GetClaimWindowCloseHeight(p, h) ==
    GetClaimWindowOpenHeight(p, h) + p.claimWindowCloseOffsetBlocks

GetProofWindowOpenHeight(p, h) ==
    GetClaimWindowCloseHeight(p, h) + p.proofWindowOpenOffsetBlocks

GetProofWindowCloseHeight(p, h) ==
    GetProofWindowOpenHeight(p, h) + p.proofWindowCloseOffsetBlocks

GetSessionEndToProofWindowCloseBlocks(p) ==
    p.claimWindowOpenOffsetBlocks + p.claimWindowCloseOffsetBlocks
      + p.proofWindowOpenOffsetBlocks + p.proofWindowCloseOffsetBlocks

GetNumPendingSessions(p) ==
    (GetSessionEndToProofWindowCloseBlocks(p) + p.numBlocksPerSession - 1)
      \div p.numBlocksPerSession

(* Params.ValidateBasic of x/shared/types/params.go: each field on its     *)
(* own, then the fields against one another.                               *)
ValidateBasic(p) ==
    /\ p.numBlocksPerSession >= 1
    /\ p.supplierUnbondingPeriodSessions >= 1
    /\ p.applicationUnbondingPeriodSessions >= 1
    /\ p.gatewayUnbondingPeriodSessions >= 1
    /\ p.computeUnitsToTokensMultiplier >= 1
    /\ p.computeUnitCostGranularity >= 1
    /\ p.gracePeriodEndOffsetBlocks < p.numBlocksPerSession
    /\ p.claimWindowOpenOffsetBlocks >= p.gracePeriodEndOffsetBlocks
    /\ p.supplierUnbondingPeriodSessions * p.numBlocksPerSession
         >= GetSessionEndToProofWindowCloseBlocks(p)
    /\ p.applicationUnbondingPeriodSessions * p.numBlocksPerSession
         >= GetSessionEndToProofWindowCloseBlocks(p)
    /\ GetNumPendingSessions(p) >= 1
=============================================================================
