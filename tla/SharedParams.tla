---------------------------- MODULE SharedParams ----------------------------
(***************************************************************************)
(* The shared module (x/shared): the live params record, the history of    *)
(* params epochs keyed by effective height, the two governance messages    *)
(* that change them and the EndBlocker that promotes an epoch to live.     *)
(*                                                                         *)
(* A change is recorded in history at the start of the next session.  A    *)
(* change to a session-timing param reaches live only when the EndBlocker  *)
(* of that block promotes the entry; any other change is written to live   *)
(* at once.  Everything else on chain resolves sessions and windows either *)
(* from live or from history at some height, so what matters here is that  *)
(* the two agree and that the grid of a session never moves once blocks of *)
(* it have been produced.                                                  *)
(***************************************************************************)
EXTENDS SessionGrid, FiniteSets

CONSTANTS
    GenesisParams,   \* the params records a chain may be started with
    BulkUpdates,     \* the records MsgUpdateParams may carry
    SingleUpdates,   \* the <<name, value>> pairs MsgUpdateParam may carry
    MaxHeight,       \* bound: the last block of a behaviour
    MaxEpochs        \* bound: no update once history has so many entries

ASSUME GenesisAssumption ==
    GenesisParams \subseteq
        {p \in Params : /\ ValidateBasic(p)
                        /\ p.sessionGridAnchorHeight \in {0, 1}
                        /\ p.sessionNumberAtAnchor \in {0, 1}}

ASSUME UpdatesAssumption ==
    /\ BulkUpdates \subseteq Params
    /\ SingleUpdates \subseteq ParamNames \X Nat

ASSUME BoundsAssumption == MaxHeight \in Nat \ {0} /\ MaxEpochs \in Nat

VARIABLES
    height,    \* the block being executed
    live,      \* ParamsKey: the params record GetParams returns
    history    \* ParamsHistoryKeyPrefix: effective height -> params record

paramVars == <<height, live, history>>

-----------------------------------------------------------------------------
(* The store's accessors. *)

(* The effective heights at or below h. *)
EpochsUpTo(hist, h) == {e \in DOMAIN hist : e <= h}

Latest(S) == CHOOSE e \in S : \A f \in S : f <= e

(* The most recent entry at or below h; live when history has none. *)
ParamsAt(hist, lv, h) ==
    IF EpochsUpTo(hist, h) = {} THEN lv ELSE hist[Latest(EpochsUpTo(hist, h))]

GetParamsAtHeight(h) == ParamsAt(history, live, h)

SetParamsAtHeight(hist, e, p) ==
    [x \in DOMAIN hist \cup {e} |-> IF x = e THEN p ELSE hist[x]]

-----------------------------------------------------------------------------
(* Governance. *)

sessionTimingParamsChanged(p, q) == \E f \in TimingParams : p[f] # q[f]

Stamped(p, anchor, number) ==
    [p EXCEPT !.sessionGridAnchorHeight = anchor,
              !.sessionNumberAtAnchor = number]

(* Mutant: the genesis epoch recorded at the block of the first update.    *)
SeededHistoryNow ==
    IF DOMAIN history = {}
    THEN SetParamsAtHeight(history, height, Stamped(live, 1, 1))
    ELSE history

(* History once its genesis epoch is there: the first update ever records  *)
(* the live params of that moment at block 1.                              *)
SeededHistory ==
    IF DOMAIN history = {}
    THEN SetParamsAtHeight(history, 1, Stamped(live, 1, 1))
    ELSE history

(* Mutant: a new session length on the old anchor.                         *)
StampGridUnmoved(p, effective) ==
    Stamped(p, effective.sessionGridAnchorHeight, effective.sessionNumberAtAnchor)

(* The new epoch p, with the grid it will have.  Only a change of the      *)
(* session length moves the anchor.                                        *)
StampGrid(p, effective) ==
    IF p.numBlocksPerSession # effective.numBlocksPerSession
    THEN Stamped(p, GetSessionEndHeight(effective, height) + 1,
                    GetSessionNumber(effective, height) + 1)
    ELSE Stamped(p, effective.sessionGridAnchorHeight,
                    effective.sessionNumberAtAnchor)

RecordParamsHistory(p) ==
    LET effective == ParamsAt(SeededHistory, live, height)
        next      == GetSessionEndHeight(effective, height) + 1
        new       == StampGrid(p, effective)
    IN  /\ history' = SetParamsAtHeight(SeededHistory, next, new)
        /\ live' = IF sessionTimingParamsChanged(live, new)
                   THEN live
                   ELSE Stamped(new, live.sessionGridAnchorHeight,
                                     live.sessionNumberAtAnchor)

(* Mutant: the patched record is not validated as a whole.                 *)
UpdateParamUnvalidated(name, value) ==
    /\ RecordParamsHistory([live EXCEPT ![name] = value])
    /\ UNCHANGED height

(* MsgUpdateParam patches one field of the LIVE params. *)
UpdateParam(name, value) ==
    LET patched == [live EXCEPT ![name] = value]
    IN  /\ ValidateBasic(patched)
        /\ RecordParamsHistory(patched)
        /\ UNCHANGED height

(* MsgUpdateParams replaces the record. *)
UpdateParams(p) ==
    /\ ValidateBasic(p)
    /\ RecordParamsHistory(p)
    /\ UNCHANGED height

-----------------------------------------------------------------------------
(* Mutant: promotion at the end of the block before the epoch.             *)
PromotedParamsEarly ==
    IF height + 1 \in DOMAIN history /\ ValidateBasic(history[height + 1])
    THEN history[height + 1]
    ELSE live

(* The EndBlocker, last of all modules': an entry effective at exactly     *)
(* this height becomes live, unless it does not validate.                  *)
PromotedParams ==
    IF height \in DOMAIN history /\ ValidateBasic(history[height])
    THEN history[height]
    ELSE live

PromoteParams ==
    /\ live' = PromotedParams
    /\ UNCHANGED history

EndBlock ==
    /\ height < MaxHeight
    /\ PromoteParams
    /\ height' = height + 1

-----------------------------------------------------------------------------
Init ==
    /\ height = 1
    /\ live \in GenesisParams
    /\ history = [e \in {} |-> live]

Govern ==
    /\ Cardinality(DOMAIN history) < MaxEpochs
    /\ \/ \E u \in SingleUpdates : UpdateParam(u[1], u[2])
       \/ \E p \in BulkUpdates : UpdateParams(p)

Next == Govern \/ EndBlock

Spec == Init /\ [][Next]_paramVars

-----------------------------------------------------------------------------
(* Properties. *)

(* Live and every epoch of history are params records that validate, so    *)
(* that no promotion is ever refused and no divisor derived from a stored  *)
(* epoch (session length, number of pending sessions) is zero.             *)
TypeOK ==
    /\ height \in 1..MaxHeight
    /\ live \in Params /\ ValidateBasic(live)
    /\ DOMAIN history \subseteq Nat \ {0}
    /\ \A e \in DOMAIN history : history[e] \in Params /\ ValidateBasic(history[e])

(* The session of height x, as the params effective at x give it. *)
SessionAt(x) ==
    LET p == GetParamsAtHeight(x)
    IN  [start  |-> GetSessionStartHeight(p, x),
         end    |-> GetSessionEndHeight(p, x),
         number |-> GetSessionNumber(p, x)]

(* Sessions partition the chain: every height of a session resolves, with  *)
(* the params effective at that height, to the same start, end and number; *)
(* and the next session begins right after with the next number.  It is    *)
(* what the anchor stamped by recordParamsHistory is for: a new session    *)
(* length, from any block, twice in a session or at a boundary block, must *)
(* neither overlap nor skip a height nor reuse a number.                   *)
SessionsPartitionHeights ==
    \A x \in 1..MaxHeight :
        LET s == SessionAt(x)
        IN  /\ \A y \in s.start..s.end : SessionAt(y) = s
            /\ SessionAt(s.end + 1).start = s.end + 1
            /\ SessionAt(s.end + 1).number = s.number + 1

(* While block h runs, live measures time as the epoch of block h - 1 did: *)
(* the modules that read live in their EndBlockers and those that read     *)
(* history agree on window lengths and on the grid, except during the very *)
(* block at which a new epoch begins, when live is still the old one.      *)
LiveTimingIsPreviousBlocks ==
    LET prev == GetParamsAtHeight(IF height = 1 THEN 1 ELSE height - 1)
    IN  /\ ~ sessionTimingParamsChanged(live, prev)
        /\ GetSessionStartHeight(live, height) = GetSessionStartHeight(prev, height)
        /\ GetSessionNumber(live, height) = GetSessionNumber(prev, height)

(* Once a session has begun, no governance message and no promotion        *)
(* changes which session any of its heights, or of the earlier ones,       *)
(* belong to, nor any governed param that history gives for them: claims   *)
(* are windowed and priced by those.                                       *)
SessionsStay ==
    \A x \in 1..MaxHeight :
        x <= SessionAt(height).end =>
           /\ SessionAt(x)' = SessionAt(x)
           /\ \A f \in ParamNames : GetParamsAtHeight(x)'[f] = GetParamsAtHeight(x)[f]

(* See SessionsStay: it is so for every step of the shared module.         *)
StartedSessionsNeverMove == [][SessionsStay]_paramVars

(* x/shared/keeper/msg_server_update_param.go:14-17 and the comment of the *)
(* EndBlocker: a change to a param that is not a session-timing one takes  *)
(* effect on live immediately, and live carries it until the boundary its  *)
(* history entry becomes effective at.                                     *)
LiveCarriesPendingUpdate ==
    \A e \in DOMAIN history :
        e > height /\ ~ sessionTimingParamsChanged(history[e], live) =>
            \A f \in ParamNames : live[f] = history[e][f]
=============================================================================
