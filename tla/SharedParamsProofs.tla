------------------------- MODULE SharedParamsProofs -------------------------
(***************************************************************************)
(* What SharedParams guarantees for every set of genesis records and       *)
(* updates, every chain length and every number of epochs: stored params   *)
(* are always valid, live always measures time as the epoch of the         *)
(* previous block did, sessions partition the chain, and a session that    *)
(* has begun never moves.                                                  *)
(***************************************************************************)
EXTENDS SharedParams, WellFoundedInduction, TLAPS

ValidParams == {p \in Params : ValidateBasic(p)}

-----------------------------------------------------------------------------
(* Arithmetic and the store's lookups. *)

(* A bounded, non-empty set of heights has a latest one, which the CHOOSE  *)
(* of the reverse iteration in GetParamsAtHeight then finds.               *)
LEMMA LatestIsMax ==
    ASSUME NEW S \in SUBSET Nat, NEW h \in Nat, \A e \in S : e <= h, S # {}
    PROVE  Latest(S) \in S /\ \A f \in S : f <= Latest(S)
<1> DEFINE T == {d \in Nat : h - d \in S}
           R == {ss \in Nat \X Nat : ss[1] < ss[2]}
<1>1. T \subseteq Nat /\ T # {}
  <2>1. PICK e \in S : TRUE
    OBVIOUS
  <2>2. h - e \in T
    BY <2>1
  <2> QED
    BY <2>2
<1>2. IsWellFoundedOn(R, Nat)
  BY NatLessThanWellFounded, Zenon DEF OpToRel
<1>3. PICK d \in T : \A f \in T : ~ (<<f, d>> \in R)
  <2> HIDE DEF R, T
  <2> QED
    BY <1>1, <1>2, WFMin
<1>4. ASSUME NEW f \in T
      PROVE  d <= f
  <2>1. f \in Nat /\ d \in Nat
    OBVIOUS
  <2>2. f < d => <<f, d>> \in R
    BY <2>1
  <2> QED
    BY <1>3, <2>1, <2>2
<1>5. ASSUME NEW f \in S
      PROVE  f <= h - d
  <2>1. h - f \in T
    OBVIOUS
  <2> QED
    BY <1>4, <2>1
<1>6. h - d \in S
  OBVIOUS
<1> QED
  BY <1>5, <1>6 DEF Latest

(* Integer division, as the session grid uses it. *)
LEMMA DivBounds ==
    ASSUME NEW d \in Nat, NEW n \in Nat \ {0}
    PROVE  /\ d \div n \in Nat
           /\ (d \div n) * n \in Nat
           /\ (d \div n) * n <= d
           /\ d < (d \div n) * n + n
BY Z3

(* A height lies within the session the grid of any record gives it. *)
LEMMA GridBounds ==
    ASSUME NEW p \in Params, p.numBlocksPerSession >= 1, NEW h \in Nat \ {0}
    PROVE  /\ GetSessionStartHeight(p, h) \in Nat
           /\ GetSessionEndHeight(p, h) \in Nat
           /\ GetSessionNumber(p, h) \in Nat
           /\ h <= GetSessionEndHeight(p, h)
<1> DEFINE a == GridAnchor(p, h)
           n == p.numBlocksPerSession
<1>1. n \in Nat \ {0}
  BY DEF Params
<1>2. a \in Nat /\ h - a \in Nat
  BY DEF GridAnchor, AnchorUnusable, Params
<1>3. NumberAtAnchor(p, h) \in Nat
  BY DEF NumberAtAnchor, Params
<1> HIDE DEF a, n
<1>4. /\ (h - a) \div n \in Nat
      /\ ((h - a) \div n) * n \in Nat
      /\ h - a < ((h - a) \div n) * n + n
  BY <1>1, <1>2, DivBounds
<1>5. GetSessionStartHeight(p, h) = a + ((h - a) \div n) * n
  BY DEF GetSessionStartHeight, a, n
<1>6. GetSessionEndHeight(p, h) = a + ((h - a) \div n) * n + n - 1
  BY <1>5 DEF GetSessionEndHeight, n
<1>7. GetSessionNumber(p, h) = NumberAtAnchor(p, h) + (h - a) \div n
  BY DEF GetSessionNumber, a, n
<1> QED
  BY <1>1, <1>2, <1>3, <1>4, <1>5, <1>6, <1>7

(* Looking a height up in valid epochs yields valid params. *)
LEMMA ParamsAtValid ==
    ASSUME NEW hist, NEW lv \in ValidParams, NEW h \in Nat,
           DOMAIN hist \subseteq Nat,
           \A e \in DOMAIN hist : hist[e] \in ValidParams
    PROVE  ParamsAt(hist, lv, h) \in ValidParams
<1>1. CASE EpochsUpTo(hist, h) = {}
  BY <1>1 DEF ParamsAt
<1>2. CASE EpochsUpTo(hist, h) # {}
  <2>1. Latest(EpochsUpTo(hist, h)) \in DOMAIN hist
    BY <1>2, LatestIsMax DEF EpochsUpTo
  <2> QED
    BY <1>2, <2>1 DEF ParamsAt
<1> QED
  BY <1>1, <1>2

(* Writing an epoch does not touch the lookups of earlier heights that     *)
(* history already covers.                                                 *)
LEMMA LaterEpochIsNotSeen ==
    ASSUME NEW hist, NEW lv, NEW lw, NEW e \in Nat, NEW p, NEW x \in Nat,
           DOMAIN hist \subseteq Nat, EpochsUpTo(hist, x) # {}, x < e
    PROVE  ParamsAt(SetParamsAtHeight(hist, e, p), lv, x) = ParamsAt(hist, lw, x)
<1> DEFINE new == SetParamsAtHeight(hist, e, p)
<1>1. EpochsUpTo(new, x) = EpochsUpTo(hist, x)
  BY DEF EpochsUpTo, SetParamsAtHeight
<1>2. Latest(EpochsUpTo(hist, x)) \in DOMAIN hist /\ Latest(EpochsUpTo(hist, x)) <= x
  <2>1. EpochsUpTo(hist, x) \in SUBSET Nat /\ \A f \in EpochsUpTo(hist, x) : f <= x
    BY DEF EpochsUpTo
  <2>2. Latest(EpochsUpTo(hist, x)) \in EpochsUpTo(hist, x)
    BY <2>1, LatestIsMax
  <2> QED
    BY <2>2 DEF EpochsUpTo
<1>3. new[Latest(EpochsUpTo(hist, x))] = hist[Latest(EpochsUpTo(hist, x))]
  BY <1>2 DEF SetParamsAtHeight
<1> QED
  BY <1>1, <1>3 DEF ParamsAt

-----------------------------------------------------------------------------
(* Params records. *)

(* Stamping a grid changes the two derived fields and nothing that is      *)
(* validated.                                                              *)
LEMMA StampedFields ==
    ASSUME NEW p \in Params, NEW a \in Nat, NEW n \in Nat
    PROVE  /\ Stamped(p, a, n) \in Params
           /\ \A f \in ParamNames : Stamped(p, a, n)[f] = p[f]
           /\ Stamped(p, a, n).sessionGridAnchorHeight = a
           /\ Stamped(p, a, n).sessionNumberAtAnchor = n
BY DEF Stamped, Params, ParamNames, TimingParams

(* Validity is a matter of the governed fields: the grid's place plays no   *)
(* part in it.                                                             *)
LEMMA SameFieldsSameValidity ==
    ASSUME NEW p \in Params, NEW q \in Params, ValidateBasic(p),
           \A f \in ParamNames : q[f] = p[f]
    PROVE  ValidateBasic(q)
<1>1. /\ q.numBlocksPerSession = p.numBlocksPerSession
      /\ q.gracePeriodEndOffsetBlocks = p.gracePeriodEndOffsetBlocks
      /\ q.claimWindowOpenOffsetBlocks = p.claimWindowOpenOffsetBlocks
      /\ q.claimWindowCloseOffsetBlocks = p.claimWindowCloseOffsetBlocks
      /\ q.proofWindowOpenOffsetBlocks = p.proofWindowOpenOffsetBlocks
      /\ q.proofWindowCloseOffsetBlocks = p.proofWindowCloseOffsetBlocks
      /\ q.supplierUnbondingPeriodSessions = p.supplierUnbondingPeriodSessions
      /\ q.applicationUnbondingPeriodSessions = p.applicationUnbondingPeriodSessions
      /\ q.gatewayUnbondingPeriodSessions = p.gatewayUnbondingPeriodSessions
      /\ q.computeUnitsToTokensMultiplier = p.computeUnitsToTokensMultiplier
      /\ q.computeUnitCostGranularity = p.computeUnitCostGranularity
  BY DEF ParamNames, TimingParams
<1> QED
  BY <1>1 DEF ValidateBasic, GetNumPendingSessions, GetSessionEndToProofWindowCloseBlocks

(* So placing the grid of a valid record leaves a valid record.            *)
LEMMA StampedValid ==
    ASSUME NEW p \in ValidParams, NEW a \in Nat, NEW n \in Nat
    PROVE  Stamped(p, a, n) \in ValidParams
BY StampedFields, SameFieldsSameValidity DEF ValidParams

(* Patching a governed field yields a params record. *)
LEMMA PatchedParams ==
    ASSUME NEW p \in Params, NEW name \in ParamNames, NEW v \in Nat
    PROVE  [p EXCEPT ![name] = v] \in Params
BY DEF Params, ParamNames, TimingParams

-----------------------------------------------------------------------------
(* Agreement of two records.  A record from before the anchored grid has   *)
(* anchor 0, which counts sessions from block 1 exactly as anchor 1 does.  *)
LegacyGrid(p) ==
    p.sessionGridAnchorHeight \in {0, 1} /\ p.sessionNumberAtAnchor \in {0, 1}

SameGrid(p, q) ==
    \/ LegacyGrid(p) /\ LegacyGrid(q)
    \/ /\ p.sessionGridAnchorHeight = q.sessionGridAnchorHeight
       /\ p.sessionNumberAtAnchor = q.sessionNumberAtAnchor

SameTiming(p, q) == \A f \in TimingParams : p[f] = q[f]

Agree(p, q) == SameGrid(p, q) /\ \A f \in ParamNames : p[f] = q[f]

(* Records with one grid and one session length give every height the same *)
(* session.                                                                *)
LEMMA SameSessions ==
    ASSUME NEW p \in Params, NEW q \in Params, NEW h \in Nat \ {0},
           SameGrid(p, q), p.numBlocksPerSession = q.numBlocksPerSession
    PROVE  /\ GetSessionStartHeight(p, h) = GetSessionStartHeight(q, h)
           /\ GetSessionEndHeight(p, h) = GetSessionEndHeight(q, h)
           /\ GetSessionNumber(p, h) = GetSessionNumber(q, h)
<1>1. GridAnchor(p, h) = GridAnchor(q, h) /\ NumberAtAnchor(p, h) = NumberAtAnchor(q, h)
  BY DEF SameGrid, LegacyGrid, GridAnchor, NumberAtAnchor, AnchorUnusable, Params
<1> QED
  BY <1>1 DEF GetSessionStartHeight, GetSessionEndHeight, GetSessionNumber

-----------------------------------------------------------------------------
(* The inductive invariant.  TypeOK is not inductive enough for the other  *)
(* two results: they also need that history, once there is one, covers     *)
(* every height from block 1 on, and that until then live still has the    *)
(* grid of genesis.                                                        *)
PreviousParams == GetParamsAtHeight(IF height = 1 THEN 1 ELSE height - 1)

GenesisEpoch ==
    \/ 1 \in DOMAIN history
    \/ DOMAIN history = {} /\ LegacyGrid(live)

LiveIsPrevious == SameTiming(live, PreviousParams) /\ SameGrid(live, PreviousParams)

IInv == TypeOK /\ GenesisEpoch /\ LiveIsPrevious

(* The invariant without TypeOK's spelling, for the proofs below. *)
LEMMA IInvFacts ==
    ASSUME IInv
    PROVE  /\ height \in Nat \ {0}
           /\ live \in ValidParams
           /\ DOMAIN history \subseteq Nat \ {0}
           /\ \A e \in DOMAIN history : history[e] \in ValidParams
BY BoundsAssumption DEF IInv, TypeOK, ValidParams

(* Every height has valid params. *)
LEMMA LookupValid ==
    ASSUME IInv, NEW x \in Nat
    PROVE  GetParamsAtHeight(x) \in ValidParams
BY IInvFacts, ParamsAtValid DEF GetParamsAtHeight

(* Seeding gives history an epoch at block 1 that agrees with what lookups *)
(* returned before.                                                        *)
LEMMA SeededFacts ==
    ASSUME IInv
    PROVE  /\ 1 \in DOMAIN SeededHistory
           /\ DOMAIN SeededHistory \subseteq Nat \ {0}
           /\ \A e \in DOMAIN SeededHistory : SeededHistory[e] \in ValidParams
           /\ \A x \in Nat \ {0} :
                 Agree(ParamsAt(SeededHistory, live, x), GetParamsAtHeight(x))
<1>1. CASE DOMAIN history = {}
  <2> DEFINE s == Stamped(live, 1, 1)
  <2>1. s \in ValidParams /\ Agree(s, live)
    <3>1. s \in ValidParams
      BY IInvFacts, StampedValid
    <3>2. LegacyGrid(live)
      BY <1>1 DEF IInv, GenesisEpoch
    <3>3. LegacyGrid(s) /\ \A f \in ParamNames : s[f] = live[f]
      <4>1. live \in Params
        BY IInvFacts DEF ValidParams
      <4>2. /\ s.sessionGridAnchorHeight = 1 /\ s.sessionNumberAtAnchor = 1
            /\ \A f \in ParamNames : s[f] = live[f]
        BY <4>1, StampedFields
      <4> QED
        BY <4>2 DEF LegacyGrid
    <3> QED
      BY <3>1, <3>2, <3>3 DEF Agree, SameGrid
  <2> HIDE DEF s
  <2>2. SeededHistory = SetParamsAtHeight(history, 1, s)
    BY <1>1 DEF SeededHistory, s
  <2>3. DOMAIN SeededHistory = {1} /\ SeededHistory[1] = s
    BY <1>1, <2>2 DEF SetParamsAtHeight
  <2>4. ASSUME NEW x \in Nat \ {0}
        PROVE  Agree(ParamsAt(SeededHistory, live, x), GetParamsAtHeight(x))
    <3>1. EpochsUpTo(SeededHistory, x) = {1} /\ EpochsUpTo(history, x) = {}
      BY <1>1, <2>3 DEF EpochsUpTo
    <3>2. Latest({1}) = 1
      BY DEF Latest
    <3>3. ParamsAt(SeededHistory, live, x) = s /\ GetParamsAtHeight(x) = live
      BY <2>3, <3>1, <3>2 DEF ParamsAt, GetParamsAtHeight
    <3> QED
      BY <2>1, <3>3
  <2> QED
    BY <2>1, <2>3, <2>4
<1>2. CASE DOMAIN history # {}
  <2>1. SeededHistory = history /\ 1 \in DOMAIN history
    BY <1>2 DEF SeededHistory, IInv, GenesisEpoch
  <2>2. \A x \in Nat : Agree(GetParamsAtHeight(x), GetParamsAtHeight(x))
    BY DEF Agree, SameGrid
  <2> QED
    BY <2>1, <2>2, IInvFacts DEF GetParamsAtHeight
<1> QED
  BY <1>1, <1>2

(* The governance messages: valid params in, valid params out; live keeps  *)
(* its timing and its grid; and no height up to the end of the running     *)
(* session is given other params or another session.                       *)
LEMMA RecordStep ==
    ASSUME IInv, NEW p \in ValidParams, RecordParamsHistory(p)
    PROVE  /\ live' \in ValidParams
           /\ 1 \in DOMAIN history'
           /\ DOMAIN history' \subseteq Nat \ {0}
           /\ \A e \in DOMAIN history' : history'[e] \in ValidParams
           /\ SameTiming(live', live)
           /\ live'.sessionGridAnchorHeight = live.sessionGridAnchorHeight
           /\ live'.sessionNumberAtAnchor = live.sessionNumberAtAnchor
           /\ height <= SessionAt(height).end
           /\ \A x \in Nat \ {0} : x <= SessionAt(height).end =>
                 Agree(GetParamsAtHeight(x)', GetParamsAtHeight(x))
<1> DEFINE sh   == SeededHistory
           eff  == ParamsAt(sh, live, height)
           next == GetSessionEndHeight(eff, height) + 1
           new  == StampGrid(p, eff)
<1>1. /\ history' = SetParamsAtHeight(sh, next, new)
      /\ live' = IF sessionTimingParamsChanged(live, new)
                 THEN live
                 ELSE Stamped(new, live.sessionGridAnchorHeight,
                                   live.sessionNumberAtAnchor)
  BY DEF RecordParamsHistory
<1>2. /\ 1 \in DOMAIN sh /\ DOMAIN sh \subseteq Nat \ {0}
      /\ \A e \in DOMAIN sh : sh[e] \in ValidParams
  BY SeededFacts
<1>3. \A x \in Nat \ {0} : Agree(ParamsAt(sh, live, x), GetParamsAtHeight(x))
  BY SeededFacts
<1>4. height \in Nat \ {0} /\ live \in ValidParams
  BY IInvFacts
<1> HIDE DEF sh
<1>5. eff \in ValidParams
  BY <1>2, <1>4, ParamsAtValid
<1>6. eff \in Params /\ eff.numBlocksPerSession >= 1
  BY <1>5 DEF ValidParams, ValidateBasic
<1>7. GetParamsAtHeight(height) \in Params
  BY LookupValid, <1>4 DEF ValidParams
<1>8. Agree(eff, GetParamsAtHeight(height))
  BY <1>3, <1>4
<1> HIDE DEF eff
<1>9. /\ next \in Nat \ {0} /\ height < next
      /\ GetSessionEndHeight(eff, height) \in Nat
      /\ GetSessionNumber(eff, height) \in Nat
  BY <1>4, <1>6, GridBounds
<1>10. SessionAt(height).end = next - 1
  <2>1. SameGrid(eff, GetParamsAtHeight(height))
    BY <1>8 DEF Agree
  <2>2. eff.numBlocksPerSession = GetParamsAtHeight(height).numBlocksPerSession
    BY <1>8 DEF Agree, ParamNames, TimingParams
  <2>3. GetSessionEndHeight(eff, height) = GetSessionEndHeight(GetParamsAtHeight(height), height)
    BY <1>4, <1>6, <1>7, <2>1, <2>2, SameSessions
  <2>4. SessionAt(height).end = GetSessionEndHeight(GetParamsAtHeight(height), height)
    BY DEF SessionAt
  <2> QED
    BY <1>9, <2>3, <2>4
<1>11. new \in ValidParams
  <2>1. eff.sessionGridAnchorHeight \in Nat /\ eff.sessionNumberAtAnchor \in Nat
    BY <1>6 DEF Params
  <2>2. GetSessionNumber(eff, height) + 1 \in Nat
    BY <1>9
  <2> QED
    BY <1>9, <2>1, <2>2, StampedValid DEF StampGrid
<1> HIDE DEF next, new
<1>12. DOMAIN history' = DOMAIN sh \cup {next}
  BY <1>1 DEF SetParamsAtHeight
<1>13. \A e \in DOMAIN history' : history'[e] \in ValidParams
  BY <1>1, <1>2, <1>11 DEF SetParamsAtHeight
<1>14. /\ live' \in ValidParams
       /\ SameTiming(live', live)
       /\ live'.sessionGridAnchorHeight = live.sessionGridAnchorHeight
       /\ live'.sessionNumberAtAnchor = live.sessionNumberAtAnchor
  <2>1. CASE sessionTimingParamsChanged(live, new)
    BY <1>1, <1>4, <2>1 DEF SameTiming
  <2>2. CASE ~ sessionTimingParamsChanged(live, new)
    <3> DEFINE a == live.sessionGridAnchorHeight
               n == live.sessionNumberAtAnchor
    <3>1. a \in Nat /\ n \in Nat /\ new \in Params
      BY <1>4, <1>11 DEF ValidParams, Params
    <3>2. live' = Stamped(new, a, n)
      BY <1>1, <2>2
    <3>3. live' \in ValidParams
      BY <1>11, <3>1, <3>2, StampedValid
    <3>4. \A f \in TimingParams : new[f] = live[f]
      BY <2>2 DEF sessionTimingParamsChanged
    <3> HIDE DEF a, n
    <3>5. /\ \A f \in ParamNames : live'[f] = new[f]
          /\ live'.sessionGridAnchorHeight = a
          /\ live'.sessionNumberAtAnchor = n
      BY <3>1, <3>2, StampedFields
    <3>6. SameTiming(live', live)
      BY <3>4, <3>5 DEF SameTiming, ParamNames
    <3> QED
      BY <3>3, <3>5, <3>6 DEF a, n
  <2> QED
    BY <2>1, <2>2
<1>15. ASSUME NEW x \in Nat \ {0}, x <= SessionAt(height).end
       PROVE  Agree(GetParamsAtHeight(x)', GetParamsAtHeight(x))
  <2>1. x < next
    BY <1>9, <1>10, <1>15
  <2>2. EpochsUpTo(sh, x) # {}
    BY <1>2 DEF EpochsUpTo
  <2>3. ParamsAt(SetParamsAtHeight(sh, next, new), live', x) = ParamsAt(sh, live, x)
    BY <1>2, <1>9, <2>1, <2>2, LaterEpochIsNotSeen
  <2>4. GetParamsAtHeight(x)' = ParamsAt(history', live', x)
    BY DEF GetParamsAtHeight
  <2> QED
    BY <1>1, <1>3, <2>3, <2>4
<1>16. 1 \in DOMAIN history' /\ DOMAIN history' \subseteq Nat \ {0}
  BY <1>2, <1>9, <1>12
<1>17. height <= SessionAt(height).end
  BY <1>4, <1>9, <1>10
<1> QED
  BY <1>13, <1>14, <1>15, <1>16, <1>17, Zenon

(* The EndBlocker: no lookup changes, and live becomes the epoch of the    *)
(* block that ends.                                                        *)
LEMMA PromoteStep ==
    ASSUME IInv, PromoteParams
    PROVE  /\ live' \in ValidParams
           /\ \A x \in Nat \ {0} : GetParamsAtHeight(x)' = GetParamsAtHeight(x)
           /\ SameTiming(live', GetParamsAtHeight(height))
           /\ SameGrid(live', GetParamsAtHeight(height))
           /\ DOMAIN history = {} => live' = live
<1>1. live' = PromotedParams /\ history' = history
  BY DEF PromoteParams
<1>2. /\ height \in Nat \ {0} /\ live \in ValidParams
      /\ DOMAIN history \subseteq Nat \ {0}
      /\ \A e \in DOMAIN history : history[e] \in ValidParams
  BY IInvFacts
<1>3. live' \in ValidParams
  BY <1>1, <1>2 DEF PromotedParams
<1>4. DOMAIN history = {} => live' = live
  BY <1>1 DEF PromotedParams
<1>5. ASSUME NEW x \in Nat \ {0}
      PROVE  GetParamsAtHeight(x)' = GetParamsAtHeight(x)
  <2>1. CASE DOMAIN history = {}
    BY <1>1, <1>4, <2>1 DEF GetParamsAtHeight
  <2>2. CASE DOMAIN history # {}
    <3>1. 1 \in EpochsUpTo(history, x)
      BY <1>2, <2>2 DEF IInv, GenesisEpoch, EpochsUpTo
    <3> QED
      BY <1>1, <3>1 DEF GetParamsAtHeight, ParamsAt
  <2> QED
    BY <2>1, <2>2
<1>6. SameTiming(live', GetParamsAtHeight(height)) /\ SameGrid(live', GetParamsAtHeight(height))
  <2> DEFINE E == EpochsUpTo(history, height)
  <2>1. CASE height \in DOMAIN history
    <3>1. E \in SUBSET Nat /\ height \in E /\ \A f \in E : f <= height
      BY <1>2, <2>1 DEF EpochsUpTo
    <3>2. Latest(E) \in E /\ \A f \in E : f <= Latest(E)
      <4> HIDE DEF E
      <4> QED
        BY <1>2, <3>1, LatestIsMax
    <3>3. Latest(E) = height
      <4>1. Latest(E) \in Nat /\ Latest(E) <= height /\ height <= Latest(E)
        BY <3>1, <3>2
      <4> QED
        BY <1>2, <4>1
    <3>4. GetParamsAtHeight(height) = history[height]
      BY <3>1, <3>3 DEF GetParamsAtHeight, ParamsAt
    <3>5. live' = history[height]
      <4>1. ValidateBasic(history[height])
        BY <1>2, <2>1 DEF ValidParams
      <4> QED
        BY <1>1, <2>1, <4>1 DEF PromotedParams
    <3> QED
      BY <3>4, <3>5 DEF SameTiming, SameGrid
  <2>2. CASE height \notin DOMAIN history
    <3>1. live' = live
      BY <1>1, <2>2 DEF PromotedParams
    <3>2. GetParamsAtHeight(height) = PreviousParams
      <4>1. CASE height = 1
        BY <4>1 DEF PreviousParams
      <4>2. CASE height # 1
        <5>1. E = EpochsUpTo(history, height - 1)
          BY <1>2, <2>2 DEF EpochsUpTo
        <5> QED
          BY <4>2, <5>1 DEF PreviousParams, GetParamsAtHeight, ParamsAt
      <4> QED
        BY <4>1, <4>2
    <3> QED
      BY <3>1, <3>2 DEF IInv, LiveIsPrevious
  <2> QED
    BY <2>1, <2>2
<1> QED
  BY <1>3, <1>4, <1>5, <1>6, Zenon

(* Either message records some valid params. *)
LEMMA GovernRecords ==
    ASSUME IInv, Govern
    PROVE  height' = height /\ \E p \in ValidParams : RecordParamsHistory(p)
<1>1. live \in Params
  BY IInvFacts DEF ValidParams
<1>2. CASE \E u \in SingleUpdates : UpdateParam(u[1], u[2])
  <2>1. PICK u \in SingleUpdates : UpdateParam(u[1], u[2])
    BY <1>2
  <2>2. u[1] \in ParamNames /\ u[2] \in Nat
    BY UpdatesAssumption
  <2>3. [live EXCEPT ![u[1]] = u[2]] \in Params
    BY <1>1, <2>2, PatchedParams
  <2> QED
    BY <2>1, <2>3 DEF UpdateParam, ValidParams
<1>3. CASE \E p \in BulkUpdates : UpdateParams(p)
  BY <1>3, UpdatesAssumption DEF UpdateParams, ValidParams
<1> QED
  BY <1>2, <1>3 DEF Govern

(* A chain starts within the invariant: history is empty, live validates.  *)
LEMMA InitIInv == Init => IInv
<1> SUFFICES ASSUME Init PROVE IInv
  OBVIOUS
<1>1. height = 1 /\ live \in GenesisParams /\ DOMAIN history = {}
  BY DEF Init
<1>2. live \in Params /\ ValidateBasic(live) /\ LegacyGrid(live)
  BY <1>1, GenesisAssumption DEF LegacyGrid
<1>3. TypeOK
  BY <1>1, <1>2, BoundsAssumption DEF TypeOK
<1>4. PreviousParams = live
  BY <1>1 DEF PreviousParams, GetParamsAtHeight, ParamsAt, EpochsUpTo
<1> QED
  BY <1>1, <1>2, <1>3, <1>4 DEF IInv, GenesisEpoch, LiveIsPrevious, SameTiming, SameGrid

(* Both governance messages keep the invariant.                            *)
LEMMA GovernKeepsIInv ==
    ASSUME IInv, Govern
    PROVE  IInv'
<1>1. height' = height
  BY GovernRecords
<1>2. PICK p \in ValidParams : RecordParamsHistory(p)
  BY GovernRecords
<1>3. /\ live' \in ValidParams /\ 1 \in DOMAIN history'
      /\ DOMAIN history' \subseteq Nat \ {0}
      /\ \A e \in DOMAIN history' : history'[e] \in ValidParams
  BY <1>2, RecordStep
<1>4. TypeOK'
  BY <1>1, <1>3 DEF IInv, TypeOK, ValidParams
<1>5. GenesisEpoch'
  BY <1>3 DEF GenesisEpoch
<1>6. LiveIsPrevious'
  <2>1. PICK y \in Nat \ {0} : y = (IF height = 1 THEN 1 ELSE height - 1) /\ y <= height
    BY IInvFacts
  <2>2. PreviousParams = GetParamsAtHeight(y) /\ PreviousParams' = GetParamsAtHeight(y)'
    BY <1>1, <2>1 DEF PreviousParams, GetParamsAtHeight
  <2>3. /\ SameTiming(live', live)
        /\ live'.sessionGridAnchorHeight = live.sessionGridAnchorHeight
        /\ live'.sessionNumberAtAnchor = live.sessionNumberAtAnchor
    BY <1>2, RecordStep
  <2>4. Agree(GetParamsAtHeight(y)', GetParamsAtHeight(y))
    <3>1. height <= SessionAt(height).end
      BY <1>2, RecordStep
    <3>2. SessionAt(height).end \in Nat
      <4>1. GetParamsAtHeight(height) \in ValidParams
        BY IInvFacts, LookupValid
      <4> QED
        BY <4>1, IInvFacts, GridBounds DEF SessionAt, ValidParams, ValidateBasic
    <3>3. y <= SessionAt(height).end
      BY <2>1, <3>1, <3>2, IInvFacts
    <3> QED
      BY <1>2, <2>1, <3>3, RecordStep
  <2>5. SameTiming(live, PreviousParams) /\ SameGrid(live, PreviousParams)
    BY DEF IInv, LiveIsPrevious
  <2>6. SameTiming(live', PreviousParams')
    BY <2>2, <2>3, <2>4, <2>5 DEF SameTiming, Agree, ParamNames
  <2>7. SameGrid(live', PreviousParams')
    BY <2>2, <2>3, <2>4, <2>5 DEF SameGrid, LegacyGrid, Agree
  <2> QED
    BY <2>6, <2>7 DEF LiveIsPrevious
<1> QED
  BY <1>4, <1>5, <1>6 DEF IInv

(* The promotion at the end of a block, and the next height, keep it.      *)
LEMMA EndBlockKeepsIInv ==
    ASSUME IInv, EndBlock
    PROVE  IInv'
<1>1. height < MaxHeight /\ height' = height + 1 /\ PromoteParams /\ history' = history
  BY DEF EndBlock, PromoteParams
<1>2. height \in Nat \ {0}
  BY IInvFacts
<1>3. /\ live' \in ValidParams /\ (DOMAIN history = {} => live' = live)
      /\ \A x \in Nat \ {0} : GetParamsAtHeight(x)' = GetParamsAtHeight(x)
      /\ SameTiming(live', GetParamsAtHeight(height))
      /\ SameGrid(live', GetParamsAtHeight(height))
  BY <1>1, PromoteStep, Zenon
<1>4. TypeOK'
  BY <1>1, <1>3, BoundsAssumption DEF IInv, TypeOK, ValidParams
<1>5. GenesisEpoch'
  BY <1>1, <1>3 DEF IInv, GenesisEpoch
<1>6. PreviousParams' = GetParamsAtHeight(height)
  <2>1. PreviousParams' = ParamsAt(history', live', height)
    BY <1>1, <1>2 DEF PreviousParams, GetParamsAtHeight
  <2>2. ParamsAt(history', live', height) = GetParamsAtHeight(height)
    BY <1>2, <1>3 DEF GetParamsAtHeight
  <2> QED
    BY <2>1, <2>2
<1> QED
  BY <1>3, <1>4, <1>5, <1>6 DEF IInv, LiveIsPrevious

(* A step that changes nothing keeps it.                                   *)
LEMMA StutterKeepsIInv ==
    ASSUME IInv, UNCHANGED paramVars
    PROVE  IInv'
BY DEF IInv, TypeOK, GenesisEpoch, LiveIsPrevious, PreviousParams, GetParamsAtHeight, paramVars

(* The invariant holds in every state of every behaviour of the shared     *)
(* module.                                                                 *)
THEOREM Invariance == Spec => []IInv
<1>1. IInv /\ [Next]_paramVars => IInv'
  BY GovernKeepsIInv, EndBlockKeepsIInv, StutterKeepsIInv DEF Next
<1> QED
  BY InitIInv, <1>1, PTL DEF Spec

-----------------------------------------------------------------------------
(* The session grid of a history of epochs. *)

(* Integer division is the one quotient that leaves a remainder below the  *)
(* divisor.                                                                *)
LEMMA DivIsUnique ==
    ASSUME NEW d \in Nat, NEW n \in Nat \ {0}, NEW q \in Nat,
           q * n <= d, d < q * n + n
    PROVE  d \div n = q
<1> DEFINE r == d \div n
<1>1. r \in Nat /\ r * n <= d /\ d < r * n + n /\ r * n \in Nat /\ q * n \in Nat
  BY DivBounds
<1> HIDE DEF r
<1>2. CASE r < q
  <2>1. r + 1 <= q
    BY <1>1, <1>2
  <2>2. (r + 1) * n <= q * n
    BY <2>1, <1>1, Z3
  <2>3. (r + 1) * n = r * n + n
    BY <1>1, Z3
  <2> QED
    BY <2>2, <2>3, <1>1
<1>3. CASE q < r
  <2>1. q + 1 <= r
    BY <1>1, <1>3
  <2>2. (q + 1) * n <= r * n
    BY <2>1, <1>1, Z3
  <2>3. (q + 1) * n = q * n + n
    BY <1>1, Z3
  <2> QED
    BY <2>2, <2>3, <1>1
<1> QED
  BY <1>1, <1>2, <1>3 DEF r

(* A record whose grid can be used from height e on. *)
Anchored(p, e) ==
    /\ p \in ValidParams
    /\ p.sessionGridAnchorHeight \in Nat \ {0} /\ p.sessionGridAnchorHeight <= e
    /\ p.sessionNumberAtAnchor \in Nat \ {0}

(* The grid of one record: the heights of a session share it, and the next *)
(* one begins right after it.                                              *)
LEMMA GridPartition ==
    ASSUME NEW p, NEW x \in Nat, Anchored(p, x)
    PROVE  /\ GetSessionStartHeight(p, x) \in Nat
           /\ GetSessionEndHeight(p, x) \in Nat
           /\ GetSessionNumber(p, x) \in Nat \ {0}
           /\ p.sessionGridAnchorHeight <= GetSessionStartHeight(p, x)
           /\ GetSessionStartHeight(p, x) <= x /\ x <= GetSessionEndHeight(p, x)
           /\ \A y \in Nat :
                 GetSessionStartHeight(p, x) <= y /\ y <= GetSessionEndHeight(p, x) =>
                    /\ GetSessionStartHeight(p, y) = GetSessionStartHeight(p, x)
                    /\ GetSessionEndHeight(p, y) = GetSessionEndHeight(p, x)
                    /\ GetSessionNumber(p, y) = GetSessionNumber(p, x)
           /\ LET z == GetSessionEndHeight(p, x) + 1
              IN  /\ GetSessionStartHeight(p, z) = z
                  /\ GetSessionNumber(p, z) = GetSessionNumber(p, x) + 1
<1> DEFINE a == p.sessionGridAnchorHeight
           n == p.numBlocksPerSession
           c == p.sessionNumberAtAnchor
           q == (x - a) \div n
<1>1. a \in Nat \ {0} /\ n \in Nat \ {0} /\ c \in Nat \ {0} /\ a <= x
  BY DEF Anchored, ValidParams, ValidateBasic, Params
<1>2. ASSUME NEW y \in Nat, a <= y
      PROVE  /\ GetSessionStartHeight(p, y) = a + ((y - a) \div n) * n
             /\ GetSessionEndHeight(p, y) = a + ((y - a) \div n) * n + n - 1
             /\ GetSessionNumber(p, y) = c + (y - a) \div n
  <2>1. GridAnchor(p, y) = a /\ NumberAtAnchor(p, y) = c /\ y > 0
    BY <1>1, <1>2 DEF GridAnchor, NumberAtAnchor, AnchorUnusable
  <2> QED
    BY <2>1 DEF GetSessionStartHeight, GetSessionEndHeight, GetSessionNumber
<1> HIDE DEF a, n, c
<1>3. q \in Nat /\ q * n \in Nat /\ q * n <= x - a /\ x - a < q * n + n
  BY <1>1, DivBounds
<1> HIDE DEF q
<1>4. /\ GetSessionStartHeight(p, x) = a + q * n
      /\ GetSessionEndHeight(p, x) = a + q * n + n - 1
      /\ GetSessionNumber(p, x) = c + q
  BY <1>1, <1>2 DEF q
<1>5. ASSUME NEW y \in Nat, a + q * n <= y, y <= a + q * n + n - 1
      PROVE  (y - a) \div n = q /\ a <= y
  <2>1. y - a \in Nat /\ q * n <= y - a /\ y - a < q * n + n
    BY <1>1, <1>3, <1>5
  <2> QED
    BY <1>1, <1>3, <2>1, DivIsUnique
<1>6. ASSUME NEW y \in Nat, a + q * n <= y, y <= a + q * n + n - 1
      PROVE  /\ GetSessionStartHeight(p, y) = a + q * n
             /\ GetSessionEndHeight(p, y) = a + q * n + n - 1
             /\ GetSessionNumber(p, y) = c + q
  BY <1>2, <1>5, <1>6
<1>7. LET z == a + q * n + n
      IN  GetSessionStartHeight(p, z) = z /\ GetSessionNumber(p, z) = c + q + 1
  <2> DEFINE z == a + q * n + n
  <2>1. z \in Nat /\ a <= z /\ z - a = q * n + n
    BY <1>1, <1>3
  <2>2. (q + 1) * n = q * n + n
    BY <1>1, <1>3, Z3
  <2>3. (z - a) \div n = q + 1
    <3>1. q + 1 \in Nat /\ z - a \in Nat /\ (q + 1) * n <= z - a /\ z - a < (q + 1) * n + n
      BY <1>1, <1>3, <2>1, <2>2
    <3> HIDE DEF z
    <3> QED
      BY <1>1, <3>1, DivIsUnique
  <2> HIDE DEF z
  <2>4. GetSessionStartHeight(p, z) = a + (q + 1) * n /\ GetSessionNumber(p, z) = c + (q + 1)
    BY <1>2, <2>1, <2>3
  <2> QED
    BY <1>1, <1>3, <2>2, <2>4 DEF z
<1>8. GetSessionEndHeight(p, x) + 1 = a + q * n + n
  BY <1>1, <1>3, <1>4
<1> QED
  BY <1>1, <1>3, <1>4, <1>6, <1>7, <1>8 DEF a

(* A non-empty set of heights has a first one. *)
LEMMA FirstHeight ==
    ASSUME NEW S \in SUBSET Nat, S # {}
    PROVE  \E e \in S : \A f \in S : e <= f
<1> DEFINE R == {ss \in Nat \X Nat : ss[1] < ss[2]}
<1>1. IsWellFoundedOn(R, Nat)
  BY NatLessThanWellFounded, Zenon DEF OpToRel
<1>2. PICK e \in S : \A f \in S : ~ (<<f, e>> \in R)
  <2> HIDE DEF R
  <2> QED
    BY <1>1, WFMin
<1>3. ASSUME NEW f \in S
      PROVE  e <= f
  <2>1. f < e => <<f, e>> \in R
    OBVIOUS
  <2> QED
    BY <1>2, <2>1
<1> QED
  BY <1>3

(* The epoch of a height, in a history that covers it. *)
EpochAt(hist, x) == hist[Latest(EpochsUpTo(hist, x))]

(* Every epoch is a valid record that measures from an anchor at or before *)
(* it, begins a session where one of the epoch before ends, and goes on    *)
(* counting from there.                                                    *)
GridOk(hist) ==
    /\ 1 \in DOMAIN hist /\ DOMAIN hist \subseteq Nat \ {0}
    /\ \A e \in DOMAIN hist : Anchored(hist[e], e)
    /\ \A e \in DOMAIN hist \ {1} :
          LET before == EpochAt(hist, e - 1)
          IN  /\ GetSessionEndHeight(before, e - 1) = e - 1
              /\ GetSessionStartHeight(hist[e], e) = e
              /\ GetSessionNumber(hist[e], e) = GetSessionNumber(before, e - 1) + 1

SessionIn(hist, x) ==
    LET p == EpochAt(hist, x)
    IN  [start  |-> GetSessionStartHeight(p, x),
         end    |-> GetSessionEndHeight(p, x),
         number |-> GetSessionNumber(p, x)]

(* The epoch of x is the last one recorded at or below it. *)
LEMMA EpochFacts ==
    ASSUME NEW hist, GridOk(hist), NEW x \in Nat \ {0}
    PROVE  /\ EpochsUpTo(hist, x) # {}
           /\ Latest(EpochsUpTo(hist, x)) \in DOMAIN hist
           /\ Latest(EpochsUpTo(hist, x)) <= x
           /\ \A e \in DOMAIN hist : e <= x => e <= Latest(EpochsUpTo(hist, x))
           /\ Anchored(EpochAt(hist, x), x)
<1> DEFINE E == EpochsUpTo(hist, x)
<1>1. E \in SUBSET Nat /\ 1 \in E /\ \A f \in E : f <= x
  BY DEF EpochsUpTo, GridOk
<1>2. Latest(E) \in E /\ \A f \in E : f <= Latest(E)
  <2> HIDE DEF E
  <2> QED
    BY <1>1, LatestIsMax
<1>3. Latest(E) \in DOMAIN hist /\ Latest(E) <= x /\ Latest(E) \in Nat
  BY <1>1, <1>2 DEF EpochsUpTo
<1>4. \A e \in DOMAIN hist : e <= x => e <= Latest(E)
  BY <1>2 DEF EpochsUpTo
<1>5. Anchored(EpochAt(hist, x), x)
  <2> HIDE DEF E
  <2>1. Anchored(hist[Latest(E)], Latest(E))
    BY <1>3 DEF GridOk
  <2> QED
    BY <1>3, <2>1 DEF Anchored, EpochAt, E
<1> QED
  BY <1>1, <1>3, <1>4, <1>5

(* Heights with no epoch between them have the same one. *)
LEMMA SameEpoch ==
    ASSUME NEW hist, GridOk(hist), NEW x \in Nat \ {0}, NEW y \in Nat \ {0}, x <= y,
           \A e \in DOMAIN hist : ~ (x < e /\ e <= y)
    PROVE  EpochAt(hist, y) = EpochAt(hist, x)
<1>1. \A e \in DOMAIN hist : e \in Nat
  BY DEF GridOk
<1>2. EpochsUpTo(hist, x) = EpochsUpTo(hist, y)
  BY <1>1 DEF EpochsUpTo
<1> QED
  BY <1>2 DEF EpochAt

(* No epoch begins within a session: neither before x ...                  *)
LEMMA SessionBeginsInEpoch ==
    ASSUME NEW hist, GridOk(hist), NEW x \in Nat \ {0}
    PROVE  Latest(EpochsUpTo(hist, x)) <= SessionIn(hist, x).start
<1> DEFINE e == Latest(EpochsUpTo(hist, x))
           p == EpochAt(hist, x)
           s == GetSessionStartHeight(p, x)
           z == GetSessionEndHeight(p, x)
<1>1. e \in DOMAIN hist /\ e <= x /\ Anchored(p, x) /\ p = hist[e] /\ e \in Nat \ {0}
  BY EpochFacts DEF EpochAt, GridOk
<1>2. Anchored(p, e) /\ (e # 1 => GetSessionStartHeight(p, e) = e)
  BY <1>1 DEF GridOk
<1>3. SessionIn(hist, x).start = s
  BY DEF SessionIn
<1> HIDE DEF e, p
<1>4. /\ s \in Nat /\ z \in Nat /\ s <= x /\ x <= z
      /\ p.sessionGridAnchorHeight <= s /\ p.sessionGridAnchorHeight \in Nat \ {0}
  BY <1>1, GridPartition DEF Anchored
<1>5. s <= e /\ e <= z => GetSessionStartHeight(p, e) = s
  BY <1>1, GridPartition
<1> HIDE DEF s, z
<1>6. e <= s
  BY <1>1, <1>2, <1>4, <1>5
<1> QED
  BY <1>3, <1>6 DEF e

(* ... nor after it.                                                       *)
LEMMA SessionEndsInEpoch ==
    ASSUME NEW hist, GridOk(hist), NEW x \in Nat \ {0}
    PROVE  \A f \in DOMAIN hist : ~ (x < f /\ f <= SessionIn(hist, x).end)
<1> DEFINE p == EpochAt(hist, x)
           z == GetSessionEndHeight(p, x)
           B == {f \in DOMAIN hist : x < f /\ f <= z}
<1>1. SessionIn(hist, x).end = z
  BY DEF SessionIn
<1>2. Anchored(p, x)
  BY EpochFacts
<1> SUFFICES ASSUME B # {}
             PROVE  FALSE
  BY <1>1
<1>3. B \in SUBSET Nat
  BY DEF GridOk
<1>4. PICK f \in B : \A g \in B : f <= g
  <2> HIDE DEF B
  <2> QED
    BY <1>3, FirstHeight
<1> HIDE DEF p
<1>5. z \in Nat /\ f \in Nat /\ x < f /\ f <= z /\ f \in DOMAIN hist \ {1} /\ f - 1 \in Nat \ {0}
  <2>1. z \in Nat
    BY <1>2, GridPartition
  <2> QED
    BY <1>3, <2>1
<1>6. EpochAt(hist, f - 1) = p
  <2>1. ASSUME NEW g \in DOMAIN hist, x < g, g <= f - 1
        PROVE  FALSE
    <3>1. g \in Nat
      BY DEF GridOk
    <3>2. g \in B
      BY <1>5, <2>1, <3>1
    <3>3. f <= g
      BY <1>4, <3>2
    <3> QED
      BY <1>5, <2>1, <3>1, <3>3
  <2> HIDE DEF z, B
  <2> QED
    BY <1>5, <2>1, SameEpoch DEF p
<1>7. GetSessionEndHeight(p, f - 1) = f - 1
  BY <1>5, <1>6 DEF GridOk
<1>8. GetSessionStartHeight(p, x) <= f - 1 /\ f - 1 <= z
  <2>1. GetSessionStartHeight(p, x) <= x /\ GetSessionStartHeight(p, x) \in Nat
    BY <1>2, GridPartition
  <2> HIDE DEF z, B
  <2> QED
    BY <1>5, <2>1
<1>9. GetSessionEndHeight(p, f - 1) = z
  BY <1>2, <1>5, <1>8, GridPartition
<1> HIDE DEF z, B
<1> QED
  BY <1>5, <1>7, <1>9

(* So the sessions of a history partition the heights.                     *)
LEMMA HistoryPartition ==
    ASSUME NEW hist, GridOk(hist), NEW x \in Nat \ {0}
    PROVE  LET s == SessionIn(hist, x)
           IN  /\ s.start \in Nat \ {0} /\ s.end \in Nat \ {0} /\ s.number \in Nat \ {0}
               /\ s.start <= x /\ x <= s.end
               /\ \A y \in s.start..s.end :
                     SessionIn(hist, y) = s /\ EpochAt(hist, y) = EpochAt(hist, x)
               /\ SessionIn(hist, s.end + 1).start = s.end + 1
               /\ SessionIn(hist, s.end + 1).number = s.number + 1
<1> DEFINE p == EpochAt(hist, x)
           a == GetSessionStartHeight(p, x)
           z == GetSessionEndHeight(p, x)
           n == GetSessionNumber(p, x)
           e == Latest(EpochsUpTo(hist, x))
<1>1. SessionIn(hist, x) = [start |-> a, end |-> z, number |-> n]
  BY DEF SessionIn
<1>2. Anchored(p, x) /\ e \in Nat \ {0} /\ e <= x
  BY EpochFacts DEF GridOk
<1>3. e <= a
  BY <1>1, SessionBeginsInEpoch
<1>4. \A f \in DOMAIN hist : ~ (x < f /\ f <= z)
  BY <1>1, SessionEndsInEpoch
<1>5. \A f \in DOMAIN hist : f \in Nat /\ (f <= x => f <= e)
  BY EpochFacts DEF GridOk
<1> HIDE DEF p, e
<1>6. /\ a \in Nat \ {0} /\ z \in Nat \ {0} /\ n \in Nat \ {0} /\ a <= x /\ x <= z
  BY <1>2, <1>3, GridPartition
<1>7. ASSUME NEW y \in a..z
      PROVE  EpochAt(hist, y) = p
  <2>1. y \in Nat \ {0} /\ a <= y /\ y <= z
    BY <1>6
  <2> HIDE DEF a, z
  <2>2. CASE x <= y
    <3>1. \A f \in DOMAIN hist : ~ (x < f /\ f <= y)
      BY <1>4, <1>5, <1>6, <2>1
    <3> QED
      BY <2>1, <2>2, <3>1, SameEpoch DEF p
  <2>3. CASE y < x
    <3>1. \A f \in DOMAIN hist : ~ (y < f /\ f <= x)
      BY <1>2, <1>3, <1>5, <1>6, <2>1
    <3> QED
      BY <2>1, <2>3, <3>1, SameEpoch DEF p
  <2> QED
    BY <2>1, <2>2, <2>3
<1>8. ASSUME NEW y \in a..z
      PROVE  SessionIn(hist, y) = SessionIn(hist, x)
  <2>1. y \in Nat /\ a <= y /\ y <= z
    BY <1>6
  <2>2. /\ GetSessionStartHeight(p, y) = a
        /\ GetSessionEndHeight(p, y) = z
        /\ GetSessionNumber(p, y) = n
    BY <1>2, <2>1, GridPartition
  <2> HIDE DEF a, z, n
  <2> QED
    BY <1>1, <1>7, <2>2 DEF SessionIn
<1>9. SessionIn(hist, z + 1).start = z + 1 /\ SessionIn(hist, z + 1).number = n + 1
  <2> DEFINE w == z + 1
             r == EpochAt(hist, w)
  <2>0. SessionIn(hist, w).start = GetSessionStartHeight(r, w)
        /\ SessionIn(hist, w).number = GetSessionNumber(r, w)
    BY DEF SessionIn
  <2>1. CASE w \in DOMAIN hist
    <3>1. w # 1 /\ w - 1 = z /\ w \in Nat \ {0}
      BY <1>6
    <3>2. Latest(EpochsUpTo(hist, w)) = w
      <4>1. Latest(EpochsUpTo(hist, w)) <= w /\ w <= Latest(EpochsUpTo(hist, w))
            /\ Latest(EpochsUpTo(hist, w)) \in DOMAIN hist
        BY <2>1, <3>1, EpochFacts
      <4> HIDE DEF w
      <4> QED
        BY <4>1, <3>1, <1>5
    <3>3. r = hist[w]
      BY <3>2 DEF EpochAt
    <3>4. EpochAt(hist, z) = p
      BY <1>6, <1>7
    <3>5. GetSessionNumber(p, z) = n
      BY <1>2, <1>6, GridPartition
    <3> HIDE DEF w, r, z, a, n
    <3>6. GetSessionStartHeight(hist[w], w) = w
          /\ GetSessionNumber(hist[w], w) = GetSessionNumber(p, z) + 1
      BY <2>1, <3>1, <3>4 DEF GridOk
    <3> QED
      BY <2>0, <3>3, <3>5, <3>6 DEF w
  <2>2. CASE w \notin DOMAIN hist
    <3>1. \A f \in DOMAIN hist : ~ (x < f /\ f <= w)
      <4> HIDE DEF z
      <4> QED
        BY <1>4, <1>5, <1>6, <2>2
    <3>2. w \in Nat \ {0} /\ x <= w
      <4> HIDE DEF z
      <4> QED
        BY <1>6
    <3>3. r = p
      <4> HIDE DEF w
      <4> QED
        BY <3>1, <3>2, SameEpoch DEF p
    <3>4. GetSessionStartHeight(p, w) = w /\ GetSessionNumber(p, w) = n + 1
      BY <1>2, GridPartition
    <3> HIDE DEF w, r, z, n
    <3> QED
      BY <2>0, <3>3, <3>4 DEF w
  <2> QED
    BY <2>1, <2>2
<1> HIDE DEF a, z, n
<1> QED
  BY <1>1, <1>6, <1>7, <1>8, <1>9 DEF p

-----------------------------------------------------------------------------
(* The grid of the epochs on record, step by step. *)

(* A record stamped for the session after that of h begins one there.      *)
LEMMA StampedGridBegins ==
    ASSUME NEW p \in ValidParams, NEW eff, Anchored(eff, height), height \in Nat \ {0}
    PROVE  LET next == GetSessionEndHeight(eff, height) + 1
               new  == StampGrid(p, eff)
           IN  /\ Anchored(new, next)
               /\ GetSessionStartHeight(new, next) = next
               /\ GetSessionNumber(new, next) = GetSessionNumber(eff, height) + 1
<1> DEFINE next == GetSessionEndHeight(eff, height) + 1
           new  == StampGrid(p, eff)
           m    == GetSessionNumber(eff, height) + 1
           a    == eff.sessionGridAnchorHeight
           c    == eff.sessionNumberAtAnchor
<1>1. /\ next \in Nat \ {0} /\ m \in Nat \ {0} /\ height < next
      /\ GetSessionStartHeight(eff, next) = next /\ GetSessionNumber(eff, next) = m
  BY GridPartition
<1>2. a \in Nat \ {0} /\ c \in Nat \ {0} /\ a <= height /\ eff \in Params
  BY DEF Anchored, ValidParams
<1>3. p \in Params
  BY DEF ValidParams
<1>4. CASE p.numBlocksPerSession # eff.numBlocksPerSession
  <2>1. new = Stamped(p, next, m)
    BY <1>4 DEF StampGrid
  <2> HIDE DEF new, next, m
  <2>2. /\ new \in ValidParams
        /\ new.sessionGridAnchorHeight = next
        /\ new.sessionNumberAtAnchor = m
    <3>1. next \in Nat /\ m \in Nat
      BY <1>1
    <3>2. Stamped(p, next, m) \in ValidParams
      BY <3>1, StampedValid
    <3> QED
      BY <1>3, <2>1, <3>1, <3>2, StampedFields, ZenonT(30)
  <2>3. Anchored(new, next)
    BY <1>1, <2>2 DEF Anchored
  <2>4. GridAnchor(new, next) = next /\ NumberAtAnchor(new, next) = m
    BY <1>1, <2>2 DEF GridAnchor, NumberAtAnchor, AnchorUnusable
  <2> DEFINE n == new.numBlocksPerSession
  <2>5. n \in Nat \ {0}
    BY <2>2 DEF ValidParams, ValidateBasic, Params
  <2> HIDE DEF n
  <2>6. (next - next) \div n = 0
    BY <1>1, <2>5
  <2>7. GetSessionStartHeight(new, next) = next /\ GetSessionNumber(new, next) = m
    BY <1>1, <2>4, <2>5, <2>6 DEF GetSessionStartHeight, GetSessionNumber, n
  <2> QED
    BY <2>3, <2>7 DEF new, next, m
<1>5. CASE p.numBlocksPerSession = eff.numBlocksPerSession
  <2>1. new = Stamped(p, a, c)
    BY <1>5 DEF StampGrid
  <2> HIDE DEF new, next, m, a, c
  <2>2. /\ new \in ValidParams
        /\ new.sessionGridAnchorHeight = a
        /\ new.sessionNumberAtAnchor = c
        /\ \A f \in ParamNames : new[f] = p[f]
    <3>1. a \in Nat /\ c \in Nat
      BY <1>2
    <3>2. Stamped(p, a, c) \in ValidParams
      BY <3>1, StampedValid
    <3>3. /\ Stamped(p, a, c).sessionGridAnchorHeight = a
          /\ Stamped(p, a, c).sessionNumberAtAnchor = c
          /\ \A f \in ParamNames : Stamped(p, a, c)[f] = p[f]
      BY <1>3, <3>1, StampedFields
    <3> QED
      BY <2>1, <3>2, <3>3
  <2>3. new.numBlocksPerSession = eff.numBlocksPerSession
    BY <1>5, <2>2 DEF ParamNames, TimingParams
  <2>4. Anchored(new, next)
    BY <1>1, <1>2, <2>2 DEF Anchored
  <2>5. SameGrid(new, eff) /\ new \in Params
    BY <2>2 DEF SameGrid, ValidParams, a, c
  <2>6. /\ GetSessionStartHeight(new, next) = GetSessionStartHeight(eff, next)
        /\ GetSessionNumber(new, next) = GetSessionNumber(eff, next)
    BY <1>1, <1>2, <2>3, <2>5, SameSessions
  <2> QED
    BY <1>1, <2>4, <2>6 DEF new, next, m
<1> QED
  BY <1>4, <1>5

(* An epoch recorded at the end of a session, none being after it, extends *)
(* the grid and changes no epoch before it.                                *)
LEMMA EpochExtendsGrid ==
    ASSUME NEW hist, GridOk(hist), NEW h \in Nat \ {0}, NEW next, NEW new,
           next = SessionIn(hist, h).end + 1,
           \A e \in DOMAIN hist : e <= next,
           Anchored(new, next),
           GetSessionStartHeight(new, next) = next,
           GetSessionNumber(new, next) = SessionIn(hist, h).number + 1
    PROVE  /\ GridOk(SetParamsAtHeight(hist, next, new))
           /\ \A x \in Nat \ {0} :
                 x < next => EpochAt(SetParamsAtHeight(hist, next, new), x) = EpochAt(hist, x)
<1> DEFINE set == SetParamsAtHeight(hist, next, new)
           s == SessionIn(hist, h)
<1>1. /\ s.start \in Nat \ {0} /\ s.end \in Nat \ {0} /\ s.start <= h /\ h <= s.end
      /\ SessionIn(hist, s.end) = s
      /\ EpochAt(hist, s.end) = EpochAt(hist, h)
  BY HistoryPartition
<1> HIDE DEF s
<1>2. next \in Nat \ {0} /\ next # 1 /\ next - 1 = s.end /\ h < next
  BY <1>1 DEF s
<1>3. DOMAIN set = DOMAIN hist \cup {next} /\ set[next] = new
      /\ \A e \in DOMAIN hist \ {next} : set[e] = hist[e]
  BY DEF SetParamsAtHeight
<1>4. 1 \in DOMAIN hist /\ DOMAIN hist \subseteq Nat \ {0}
  BY DEF GridOk
<1>5. ASSUME NEW x \in Nat \ {0}, x < next
      PROVE  EpochAt(set, x) = EpochAt(hist, x)
  <2>1. EpochsUpTo(hist, x) # {} /\ EpochsUpTo(set, x) # {}
    BY <1>3, <1>4 DEF EpochsUpTo
  <2>2. ParamsAt(set, new, x) = ParamsAt(hist, new, x)
    BY <1>2, <1>4, <1>5, <2>1, LaterEpochIsNotSeen
  <2> QED
    BY <2>1, <2>2 DEF ParamsAt, EpochAt
<1> HIDE DEF set
<1>6. ASSUME NEW e \in DOMAIN set
      PROVE  Anchored(set[e], e)
  BY <1>3 DEF GridOk
<1>7. ASSUME NEW e \in DOMAIN set \ {1}
      PROVE  /\ GetSessionEndHeight(EpochAt(set, e - 1), e - 1) = e - 1
             /\ GetSessionStartHeight(set[e], e) = e
             /\ GetSessionNumber(set[e], e) = GetSessionNumber(EpochAt(set, e - 1), e - 1) + 1
  <2>0. e \in Nat \ {0} /\ e - 1 \in Nat \ {0} /\ e - 1 < next
    BY <1>2, <1>3, <1>4
  <2>1. EpochAt(set, e - 1) = EpochAt(hist, e - 1)
    BY <1>5, <2>0
  <2>2. CASE e = next
    <3>1. EpochAt(set, e - 1) = EpochAt(hist, s.end)
      BY <1>2, <2>1, <2>2
    <3>2. /\ GetSessionEndHeight(EpochAt(hist, s.end), s.end) = s.end
          /\ GetSessionNumber(EpochAt(hist, s.end), s.end) = s.number
      BY <1>1 DEF SessionIn
    <3> QED
      BY <1>2, <1>3, <2>2, <3>1, <3>2 DEF s
  <2>3. CASE e # next
    BY <1>3, <2>1, <2>3 DEF GridOk
  <2> QED
    BY <2>2, <2>3
<1>8. GridOk(set)
  BY <1>2, <1>3, <1>4, <1>6, <1>7 DEF GridOk
<1> QED
  BY <1>5, <1>8 DEF set

(* The epochs on record, once the genesis one is seeded, form one grid, and *)
(* none is later than the start of the next session.                       *)
GridInv ==
    /\ GridOk(SeededHistory)
    /\ \A e \in DOMAIN SeededHistory : e <= SessionIn(SeededHistory, height).end + 1

(* So it is while history is empty.                                        *)
LEMMA EmptyHistoryGrid == IInv /\ DOMAIN history = {} => GridInv
<1> SUFFICES ASSUME IInv, DOMAIN history = {}
             PROVE  GridInv
  OBVIOUS
<1> DEFINE s == Stamped(live, 1, 1)
<1>1. height \in Nat \ {0} /\ live \in ValidParams
  BY IInvFacts
<1>2. DOMAIN SeededHistory = {1} /\ SeededHistory[1] = s
  BY DEF SeededHistory, SetParamsAtHeight
<1>3. s \in ValidParams /\ s.sessionGridAnchorHeight = 1 /\ s.sessionNumberAtAnchor = 1
  BY <1>1, StampedValid, StampedFields DEF ValidParams
<1> HIDE DEF s
<1>4. Anchored(s, 1)
  BY <1>3 DEF Anchored
<1>5. GridOk(SeededHistory)
  BY <1>2, <1>4 DEF GridOk
<1>6. SessionIn(SeededHistory, height).end \in Nat \ {0}
  BY <1>1, <1>5, HistoryPartition
<1> QED
  BY <1>2, <1>5, <1>6 DEF GridInv

(* A history left empty by a step is no grid to keep.                      *)
LEMMA EmptyGridAfter == IInv' /\ (DOMAIN history = {})' => GridInv'
BY EmptyHistoryGrid, PTL

(* Either message records its epoch where the running session ends.        *)
LEMMA RecordKeepsGrid ==
    ASSUME IInv, GridInv, NEW p \in ValidParams, RecordParamsHistory(p), height' = height
    PROVE  GridInv'
<1> DEFINE sh   == SeededHistory
           eff  == EpochAt(sh, height)
           next == GetSessionEndHeight(eff, height) + 1
           new  == StampGrid(p, eff)
<1>1. height \in Nat \ {0}
  BY IInvFacts
<1>2. GridOk(sh) /\ \A e \in DOMAIN sh : e <= SessionIn(sh, height).end + 1
  BY DEF GridInv
<1> HIDE DEF sh
<1>3. EpochsUpTo(sh, height) # {} /\ Anchored(eff, height)
  BY <1>1, <1>2, EpochFacts
<1>4. ParamsAt(sh, live, height) = eff
  BY <1>3 DEF ParamsAt, EpochAt
<1>5. history' = SetParamsAtHeight(sh, next, new)
  BY <1>4 DEF RecordParamsHistory, sh
<1>6. SessionIn(sh, height).end = GetSessionEndHeight(eff, height)
      /\ SessionIn(sh, height).number = GetSessionNumber(eff, height)
  BY DEF SessionIn
<1> HIDE DEF eff
<1>7. /\ Anchored(new, next)
      /\ GetSessionStartHeight(new, next) = next
      /\ GetSessionNumber(new, next) = GetSessionNumber(eff, height) + 1
  BY <1>1, <1>3, StampedGridBegins
<1>8. next \in Nat \ {0} /\ height < next
  BY <1>1, <1>3, GridPartition
<1> HIDE DEF new
<1>9. next = SessionIn(sh, height).end + 1
  BY <1>6
<1> HIDE DEF next
<1>10. GridOk(history') /\ EpochAt(history', height) = EpochAt(sh, height)
  BY <1>1, <1>2, <1>5, <1>6, <1>7, <1>8, <1>9, EpochExtendsGrid
<1>11. DOMAIN history' = DOMAIN sh \cup {next} /\ SeededHistory' = history'
  BY <1>5 DEF SetParamsAtHeight, SeededHistory
<1>12. SessionIn(history', height) = SessionIn(sh, height)
  BY <1>10 DEF SessionIn
<1>13. \A e \in DOMAIN history' : e <= SessionIn(history', height').end + 1
  BY <1>2, <1>8, <1>9, <1>11, <1>12
<1> QED
  BY <1>10, <1>11, <1>13 DEF GridInv

(* The end of a block records nothing, and its height moves on within the  *)
(* session or to the next one.                                             *)
LEMMA EndBlockKeepsGrid ==
    ASSUME IInv, GridInv, EndBlock, IInv'
    PROVE  GridInv'
<1>1. height' = height + 1 /\ history' = history /\ height \in Nat \ {0}
  BY IInvFacts DEF EndBlock, PromoteParams
<1>2. CASE DOMAIN history = {}
  <2>1. DOMAIN history' = {}
    BY <1>1, <1>2
  <2> QED
    BY <2>1, EmptyGridAfter
<1>3. CASE DOMAIN history # {}
  <2>1. SeededHistory = history /\ SeededHistory' = history
    BY <1>1, <1>3 DEF SeededHistory
  <2> DEFINE s == SessionIn(history, height)
             t == SessionIn(history, height + 1)
  <2>2. GridOk(history) /\ \A e \in DOMAIN history : e \in Nat /\ e <= s.end + 1
    BY <2>1 DEF GridInv, GridOk
  <2>3. /\ s.start <= height /\ height <= s.end /\ s.end \in Nat /\ s.start \in Nat
        /\ \A y \in s.start..s.end : SessionIn(history, y) = s
    BY <1>1, <2>2, HistoryPartition
  <2>4. height + 1 <= t.end /\ t.end \in Nat
    <3>1. height + 1 \in Nat \ {0}
      BY <1>1
    <3> QED
      BY <3>1, <2>2, HistoryPartition
  <2>5. height + 1 <= s.end => t = s
    BY <1>1, <2>3
  <2> HIDE DEF s, t
  <2>6. \A e \in DOMAIN history : e <= t.end + 1
    BY <1>1, <2>2, <2>3, <2>4, <2>5
  <2> QED
    BY <1>1, <2>1, <2>2, <2>6 DEF GridInv, t
<1> QED
  BY <1>2, <1>3

(* The grid of the epochs on record is an invariant.                       *)
THEOREM GridInvariance == Spec => [](IInv /\ GridInv)
<1>1. Init => IInv /\ GridInv
  BY InitIInv, EmptyHistoryGrid DEF Init
<1>2. IInv /\ GridInv /\ [Next]_paramVars => (IInv /\ GridInv)'
  <2> SUFFICES ASSUME IInv, GridInv, [Next]_paramVars
               PROVE  IInv' /\ GridInv'
    OBVIOUS
  <2>1. CASE Govern
    <3>1. height' = height /\ \E p \in ValidParams : RecordParamsHistory(p)
      BY <2>1, GovernRecords
    <3> QED
      BY <2>1, <3>1, GovernKeepsIInv, RecordKeepsGrid
  <2>2. CASE EndBlock
    BY <2>2, EndBlockKeepsIInv, EndBlockKeepsGrid
  <2>3. CASE UNCHANGED paramVars
    BY <2>3, StutterKeepsIInv DEF GridInv, SeededHistory, paramVars
  <2> QED
    BY <2>1, <2>2, <2>3 DEF Next
<1> QED
  BY <1>1, <1>2, PTL DEF Spec

(* A lookup of the store resolves the session the grid gives.              *)
LEMMA SessionsOnGrid ==
    ASSUME IInv, GridInv, NEW x \in Nat \ {0}
    PROVE  SessionAt(x) = SessionIn(SeededHistory, x)
<1> DEFINE sh == SeededHistory
           q  == GetParamsAtHeight(x)
           r  == EpochAt(sh, x)
<1>1. Agree(ParamsAt(sh, live, x), q)
  BY SeededFacts
<1>2. GridOk(sh)
  BY DEF GridInv
<1> HIDE DEF sh
<1>3. EpochsUpTo(sh, x) # {} /\ Anchored(r, x)
  BY <1>2, EpochFacts
<1>4. ParamsAt(sh, live, x) = r
  BY <1>3 DEF ParamsAt, EpochAt
<1>5. q \in Params /\ r \in Params
  BY <1>3, LookupValid DEF ValidParams, Anchored
<1>6. SessionAt(x) = [start  |-> GetSessionStartHeight(q, x),
                      end    |-> GetSessionEndHeight(q, x),
                      number |-> GetSessionNumber(q, x)]
  BY DEF SessionAt
<1> HIDE DEF q, r
<1>7. SameGrid(r, q) /\ r.numBlocksPerSession = q.numBlocksPerSession
  BY <1>1, <1>4 DEF Agree, ParamNames, TimingParams
<1> QED
  BY <1>5, <1>6, <1>7, SameSessions DEF SessionIn, sh, r

-----------------------------------------------------------------------------
(* What the modules that read the params rely on. *)

(* Records that agree give a height the same session, windows and price.   *)
LEMMA SameWindows ==
    ASSUME NEW p \in ValidParams, NEW q \in ValidParams, Agree(p, q), NEW h \in Nat \ {0}
    PROVE  /\ GetSessionStartHeight(p, h) = GetSessionStartHeight(q, h)
           /\ GetSessionEndHeight(p, h) = GetSessionEndHeight(q, h)
           /\ GetSessionNumber(p, h) = GetSessionNumber(q, h)
           /\ GetClaimWindowOpenHeight(p, h) = GetClaimWindowOpenHeight(q, h)
           /\ GetClaimWindowCloseHeight(p, h) = GetClaimWindowCloseHeight(q, h)
           /\ GetProofWindowOpenHeight(p, h) = GetProofWindowOpenHeight(q, h)
           /\ GetProofWindowCloseHeight(p, h) = GetProofWindowCloseHeight(q, h)
           /\ p.computeUnitsToTokensMultiplier = q.computeUnitsToTokensMultiplier
           /\ p.computeUnitCostGranularity = q.computeUnitCostGranularity
           /\ p.supplierUnbondingPeriodSessions = q.supplierUnbondingPeriodSessions
           /\ p.numBlocksPerSession = q.numBlocksPerSession
<1>1. p \in Params /\ q \in Params
  BY DEF ValidParams
<1>2. /\ p.numBlocksPerSession = q.numBlocksPerSession
      /\ p.claimWindowOpenOffsetBlocks = q.claimWindowOpenOffsetBlocks
      /\ p.claimWindowCloseOffsetBlocks = q.claimWindowCloseOffsetBlocks
      /\ p.proofWindowOpenOffsetBlocks = q.proofWindowOpenOffsetBlocks
      /\ p.proofWindowCloseOffsetBlocks = q.proofWindowCloseOffsetBlocks
      /\ p.computeUnitsToTokensMultiplier = q.computeUnitsToTokensMultiplier
      /\ p.computeUnitCostGranularity = q.computeUnitCostGranularity
      /\ p.supplierUnbondingPeriodSessions = q.supplierUnbondingPeriodSessions
  BY DEF Agree, ParamNames, TimingParams
<1>3. /\ GetSessionStartHeight(p, h) = GetSessionStartHeight(q, h)
      /\ GetSessionEndHeight(p, h) = GetSessionEndHeight(q, h)
      /\ GetSessionNumber(p, h) = GetSessionNumber(q, h)
  BY <1>1, <1>2, SameSessions DEF Agree
<1> QED
  BY <1>2, <1>3 DEF GetClaimWindowOpenHeight, GetClaimWindowCloseHeight,
                    GetProofWindowOpenHeight, GetProofWindowCloseHeight

(* The windows of a session follow its end in their order, and the last    *)
(* one closes when the settlement scan expects it to.                      *)
LEMMA WindowsInOrder ==
    ASSUME NEW p \in ValidParams, NEW h \in Nat \ {0}
    PROVE  LET end == GetSessionEndHeight(p, h)
           IN  /\ end \in Nat
               /\ GetClaimWindowOpenHeight(p, h) \in Nat
               /\ GetClaimWindowCloseHeight(p, h) \in Nat
               /\ GetProofWindowOpenHeight(p, h) \in Nat
               /\ GetProofWindowCloseHeight(p, h) \in Nat
               /\ end < GetClaimWindowOpenHeight(p, h)
               /\ GetClaimWindowOpenHeight(p, h) <= GetClaimWindowCloseHeight(p, h)
               /\ GetClaimWindowCloseHeight(p, h) <= GetProofWindowOpenHeight(p, h)
               /\ GetProofWindowOpenHeight(p, h) <= GetProofWindowCloseHeight(p, h)
               /\ GetSessionEndToProofWindowCloseBlocks(p) \in Nat
               /\ GetProofWindowCloseHeight(p, h)
                    = end + GetSessionEndToProofWindowCloseBlocks(p) + 1
<1>1. /\ p \in Params /\ p.numBlocksPerSession >= 1
      /\ p.claimWindowOpenOffsetBlocks \in Nat /\ p.claimWindowCloseOffsetBlocks \in Nat
      /\ p.proofWindowOpenOffsetBlocks \in Nat /\ p.proofWindowCloseOffsetBlocks \in Nat
  BY DEF ValidParams, ValidateBasic, Params
<1>2. GetSessionEndHeight(p, h) \in Nat
  BY <1>1, GridBounds
<1> QED
  BY <1>1, <1>2 DEF GetClaimWindowOpenHeight, GetClaimWindowCloseHeight,
                    GetProofWindowOpenHeight, GetProofWindowCloseHeight,
                    GetSessionEndToProofWindowCloseBlocks

(* What a step of the shared module leaves as it is: the params of every   *)
(* height up to this block's, so the session, windows and price they give. *)
LEMMA ParamsStep ==
    ASSUME IInv, [Next]_paramVars, NEW x \in Nat \ {0}, x <= height
    PROVE  /\ GetParamsAtHeight(x) \in ValidParams
           /\ GetParamsAtHeight(x)' \in ValidParams
           /\ Agree(GetParamsAtHeight(x)', GetParamsAtHeight(x))
           /\ SessionAt(x)' = SessionAt(x)
           /\ height' \in Nat \ {0} /\ height <= height' /\ height' <= height + 1
<1> DEFINE q == GetParamsAtHeight(x)'
           r == GetParamsAtHeight(x)
<1>0. height \in Nat \ {0}
  BY IInvFacts
<1>1. r \in ValidParams
  BY LookupValid
<1>2. r \in Params
  BY <1>1 DEF ValidParams
<1>3. q \in ValidParams /\ Agree(q, r)
      /\ height' \in Nat \ {0} /\ height <= height' /\ height' <= height + 1
  <2>1. CASE Govern
    <3>1. height' = height
      BY <2>1, GovernRecords
    <3>2. PICK p \in ValidParams : RecordParamsHistory(p)
      BY <2>1, GovernRecords
    <3>3. x <= SessionAt(height).end
      <4>1. SessionAt(height).end \in Nat
        <5>1. GetParamsAtHeight(height) \in ValidParams
          BY <1>0, LookupValid
        <5> QED
          BY <5>1, <1>0, GridBounds DEF SessionAt, ValidParams, ValidateBasic
      <4>2. height <= SessionAt(height).end
        BY <3>2, RecordStep
      <4> QED
        BY <4>1, <4>2, <1>0
    <3>4. Agree(q, r)
      BY <3>2, <3>3, RecordStep
    <3>5. /\ live' \in ValidParams /\ DOMAIN history' \subseteq Nat
          /\ \A e \in DOMAIN history' : history'[e] \in ValidParams
      BY <3>2, RecordStep
    <3>6. ParamsAt(history', live', x) \in ValidParams
      BY <3>5, ParamsAtValid
    <3> QED
      BY <1>0, <3>1, <3>4, <3>6 DEF GetParamsAtHeight
  <2>2. CASE EndBlock
    <3>1. height' = height + 1 /\ q = r
      BY <2>2, PromoteStep DEF EndBlock
    <3> QED
      BY <1>0, <1>1, <3>1 DEF Agree, SameGrid
  <2>3. CASE UNCHANGED paramVars
    <3>1. height' = height /\ q = r
      BY <2>3 DEF paramVars, GetParamsAtHeight
    <3> QED
      BY <1>0, <1>1, <3>1 DEF Agree, SameGrid
  <2> QED
    BY <2>1, <2>2, <2>3 DEF Next
<1>4. SessionAt(x)' = SessionAt(x)
  <2>1. SessionAt(x)' = [start  |-> GetSessionStartHeight(q, x),
                         end    |-> GetSessionEndHeight(q, x),
                         number |-> GetSessionNumber(q, x)]
    BY DEF SessionAt
  <2>2. SessionAt(x) = [start  |-> GetSessionStartHeight(r, x),
                        end    |-> GetSessionEndHeight(r, x),
                        number |-> GetSessionNumber(r, x)]
    BY DEF SessionAt
  <2> HIDE DEF q, r
  <2> QED
    BY <1>1, <1>3, <2>1, <2>2, SameWindows
<1> QED
  BY <1>0, <1>1, <1>3, <1>4

(* The session of a height, as the store's lookups give it.                *)
LEMMA SessionFacts ==
    ASSUME IInv, GridInv, NEW x \in Nat \ {0}
    PROVE  LET s == SessionAt(x)
           IN  /\ s.start \in Nat \ {0} /\ s.end \in Nat \ {0} /\ s.number \in Nat \ {0}
               /\ s.start <= x /\ x <= s.end
               /\ \A y \in s.start..s.end : SessionAt(y) = s
               /\ SessionAt(s.end + 1).start = s.end + 1
               /\ SessionAt(s.end + 1).number = s.number + 1
<1> DEFINE s == SessionIn(SeededHistory, x)
<1>1. GridOk(SeededHistory)
  BY DEF GridInv
<1>2. /\ s.start \in Nat \ {0} /\ s.end \in Nat \ {0} /\ s.number \in Nat \ {0}
      /\ s.start <= x /\ x <= s.end
      /\ \A y \in s.start..s.end : SessionIn(SeededHistory, y) = s
      /\ SessionIn(SeededHistory, s.end + 1).start = s.end + 1
      /\ SessionIn(SeededHistory, s.end + 1).number = s.number + 1
  BY <1>1, HistoryPartition
<1>3. SessionAt(x) = s
  BY SessionsOnGrid
<1> HIDE DEF s
<1>4. \A y \in s.start..s.end : SessionAt(y) = SessionIn(SeededHistory, y)
  BY <1>2, SessionsOnGrid
<1>5. SessionAt(s.end + 1) = SessionIn(SeededHistory, s.end + 1)
  <2>1. s.end + 1 \in Nat \ {0}
    BY <1>2
  <2> QED
    BY <2>1, SessionsOnGrid
<1> QED
  BY <1>2, <1>3, <1>4, <1>5

-----------------------------------------------------------------------------
(* Results. *)

(* Live and every epoch on record are params that validate, whatever is    *)
(* patched or replaced, and in whatever order: no promotion is refused.    *)
THEOREM TypeCorrectness == Spec => []TypeOK
<1>1. IInv => TypeOK
  BY DEF IInv
<1> QED
  BY Invariance, <1>1, PTL

(* While block h runs, live has the timing and the grid of the epoch of    *)
(* block h - 1: the EndBlocker promotes every epoch in the block that      *)
(* begins it, and no message reaches the timing of live otherwise.         *)
THEOREM LiveTiming == Spec => []LiveTimingIsPreviousBlocks
<1>1. ASSUME IInv
      PROVE  LiveTimingIsPreviousBlocks
  <2>1. height \in Nat \ {0} /\ live \in Params
    BY <1>1, IInvFacts DEF ValidParams
  <2>2. PreviousParams \in Params
    BY <1>1, <2>1, LookupValid DEF PreviousParams, ValidParams
  <2>3. SameTiming(live, PreviousParams) /\ SameGrid(live, PreviousParams)
    BY <1>1 DEF IInv, LiveIsPrevious
  <2>4. ~ sessionTimingParamsChanged(live, PreviousParams)
    BY <2>3 DEF SameTiming, sessionTimingParamsChanged
  <2>5. live.numBlocksPerSession = PreviousParams.numBlocksPerSession
    BY <2>3 DEF SameTiming, TimingParams
  <2>6. /\ GetSessionStartHeight(live, height) = GetSessionStartHeight(PreviousParams, height)
        /\ GetSessionNumber(live, height) = GetSessionNumber(PreviousParams, height)
    BY <2>1, <2>2, <2>3, <2>5, SameSessions
  <2> QED
    BY <2>4, <2>6 DEF LiveTimingIsPreviousBlocks, PreviousParams
<1> QED
  BY Invariance, <1>1, PTL

(* A session that has begun never moves, and neither do the params claims  *)
(* of it are windowed and priced by: a message writes an epoch after the   *)
(* end of the running session only, the seed of the first one agrees with  *)
(* what it replaces, and a promotion changes no lookup.                    *)
THEOREM SessionsNeverMove == Spec => StartedSessionsNeverMove
<1>1. ASSUME IInv, Govern
      PROVE  SessionsStay
  <2>1. PICK p \in ValidParams : RecordParamsHistory(p)
    BY <1>1, GovernRecords
  <2> SUFFICES ASSUME NEW x \in 1..MaxHeight, x <= SessionAt(height).end
               PROVE  /\ SessionAt(x)' = SessionAt(x)
                      /\ \A f \in ParamNames :
                            GetParamsAtHeight(x)'[f] = GetParamsAtHeight(x)[f]
    BY DEF SessionsStay
  <2>2. x \in Nat \ {0}
    BY BoundsAssumption
  <2>3. Agree(GetParamsAtHeight(x)', GetParamsAtHeight(x))
    BY <1>1, <2>1, <2>2, RecordStep
  <2>4. GetParamsAtHeight(x) \in Params /\ GetParamsAtHeight(x)' \in Params
    <3>1. GetParamsAtHeight(x) \in Params
      BY <1>1, <2>2, LookupValid DEF ValidParams
    <3>2. /\ live' \in ValidParams /\ DOMAIN history' \subseteq Nat
          /\ \A e \in DOMAIN history' : history'[e] \in ValidParams
      BY <1>1, <2>1, RecordStep
    <3>3. ParamsAt(history', live', x) \in ValidParams
      BY <2>2, <3>2, ParamsAtValid
    <3> QED
      BY <3>1, <3>3 DEF GetParamsAtHeight, ValidParams
  <2>5. SameGrid(GetParamsAtHeight(x)', GetParamsAtHeight(x))
    BY <2>3 DEF Agree
  <2>6. GetParamsAtHeight(x)'.numBlocksPerSession = GetParamsAtHeight(x).numBlocksPerSession
    BY <2>3 DEF Agree, ParamNames, TimingParams
  <2> DEFINE q == GetParamsAtHeight(x)'
             r == GetParamsAtHeight(x)
  <2>7. /\ GetSessionStartHeight(q, x) = GetSessionStartHeight(r, x)
        /\ GetSessionEndHeight(q, x) = GetSessionEndHeight(r, x)
        /\ GetSessionNumber(q, x) = GetSessionNumber(r, x)
    <3> HIDE DEF q, r
    <3>1. q \in Params /\ r \in Params /\ SameGrid(q, r)
          /\ q.numBlocksPerSession = r.numBlocksPerSession
      BY <2>4, <2>5, <2>6 DEF q, r
    <3> QED
      BY <2>2, <3>1, SameSessions
  <2>8. SessionAt(x)' = SessionAt(x)
    BY <2>7 DEF SessionAt
  <2> QED
    BY <2>3, <2>8 DEF Agree
<1>2. ASSUME IInv, EndBlock
      PROVE  SessionsStay
  <2>1. \A x \in Nat \ {0} : GetParamsAtHeight(x)' = GetParamsAtHeight(x)
    BY <1>2, PromoteStep, Zenon DEF EndBlock
  <2> SUFFICES ASSUME NEW x \in 1..MaxHeight
               PROVE  /\ SessionAt(x)' = SessionAt(x)
                      /\ \A f \in ParamNames :
                            GetParamsAtHeight(x)'[f] = GetParamsAtHeight(x)[f]
    BY DEF SessionsStay
  <2>2. GetParamsAtHeight(x)' = GetParamsAtHeight(x)
    BY <2>1, BoundsAssumption
  <2>3. SessionAt(x)' = SessionAt(x)
    BY <2>2 DEF SessionAt
  <2> QED
    BY <2>2, <2>3
<1>3. IInv /\ [Next]_paramVars => [SessionsStay]_paramVars
  BY <1>1, <1>2 DEF Next
<1> QED
  BY Invariance, <1>3, PTL DEF Spec, StartedSessionsNeverMove

(* Sessions partition the chain: the heights of a session resolve to it,   *)
(* and the next one follows with the next number, whatever the session     *)
(* lengths and the blocks governance changes them at.                      *)
THEOREM SessionsPartition == Spec => []SessionsPartitionHeights
<1>1. ASSUME IInv, GridInv
      PROVE  SessionsPartitionHeights
  <2> SUFFICES ASSUME NEW x \in 1..MaxHeight
               PROVE  LET s == SessionAt(x)
                      IN  /\ \A y \in s.start..s.end : SessionAt(y) = s
                          /\ SessionAt(s.end + 1).start = s.end + 1
                          /\ SessionAt(s.end + 1).number = s.number + 1
    BY DEF SessionsPartitionHeights
  <2>1. x \in Nat \ {0}
    BY BoundsAssumption
  <2> QED
    BY <1>1, <2>1, SessionFacts
<1> QED
  BY GridInvariance, <1>1, PTL
=============================================================================
