---------------------------- MODULE MCSettlement ----------------------------
(***************************************************************************)
(* Small instances of Settlement.                                          *)
(***************************************************************************)
EXTENDS Settlement

CONSTANTS
    a1, a2,      \* applications
    Amounts,     \* the amounts claims may have
    MaxClaims    \* claims in a block

MCParams(multiplier, inflation, mint) ==
    [overservicingBonusMultiplier |-> multiplier,
     globalInflationPerClaim |-> inflation,
     mintRatio |-> mint,
     mintEqualsBurnClaimDistribution |-> [supplier |-> <<7, 10>>, proposer |-> <<2, 10>>],
     mintAllocationPercentages |-> [supplier |-> <<4, 10>>, proposer |-> <<3, 10>>]]

(* Without inflation, and with; with the whole settlement minted, and not. *)
MCParamsSets ==
    {MCParams(3, <<0, 1>>, <<1, 1>>), MCParams(3, <<1, 4>>, <<1, 1>>),
     MCParams(1, <<1, 4>>, <<3, 5>>)}

MCInflation == {MCParams(1, <<1, 4>>, <<1, 1>>)}

(* Claims are settled in the order of their keys: by session. *)
MCBatches(sessionsInOrder) ==
    LET ClaimsIn(s) == [session : {s}, amount : Amounts, kind : Kinds]
        All == UNION {ClaimsIn(sessionsInOrder[j]) : j \in DOMAIN sessionsInOrder}
        Index(s) == CHOOSE j \in DOMAIN sessionsInOrder : sessionsInOrder[j] = s
    IN  {b \in UNION {[1..n -> All] : n \in 1..MaxClaims} :
            \A i \in 1..(Len(b) - 1) : Index(b[i].session) <= Index(b[i + 1].session)}

(* A session of each of two applications, under params that count one and  *)
(* two pending sessions.                                                   *)
TwoApplications ==
    <<[app |-> a1, numPendingSessions |-> 1], [app |-> a2, numPendingSessions |-> 2]>>

MCTwoSessions == {TwoApplications[j] : j \in 1..2}
MCTwoBatches == MCBatches(TwoApplications)

(* An application with two services: a session of each ends at the same    *)
(* height, under params that count one pending session.                    *)
TwoServices ==
    <<[app |-> a1, numPendingSessions |-> 1, service |-> 1],
      [app |-> a1, numPendingSessions |-> 1, service |-> 2]>>

MCServiceSessions == {TwoServices[j] : j \in 1..2}
MCServiceBatches == MCBatches(TwoServices)
=============================================================================
