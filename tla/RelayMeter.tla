----------------------------- MODULE RelayMeter -----------------------------
(***************************************************************************)
(* The relay meter of a RelayMiner (pkg/relayer/proxy/relay_meter.go) and  *)
(* the requests that consult it: HTTP requests (proxy/sync.go), each in a  *)
(* goroutine of its own, and websocket messages (proxy/websockets).        *)
(*                                                                         *)
(* There is one session, whose last block is SessionEnd, of one application *)
(* and one supplier.  All its relays cost the same, so a meter counts      *)
(* relays, and MaxRelays is how many of them the application can pay.      *)
(* Meters are numbered as they are created; the session's entry of         *)
(* sessionToRelayMeterMap is the number of one of them, and a goroutine    *)
(* may hold another.  What is done under one hold of a lock is one step.   *)
(***************************************************************************)
EXTENDS Naturals, Sequences, FiniteSets

CONSTANTS
    HttpRelays,      \* the HTTP relay requests
    WsRelays,        \* the websocket messages
    MaxRelays,       \* maxCoin, in relays
    Modes,           \* the configurations of the RelayMiner
    SessionEnd,      \* last block of the session
    GraceEnd,        \* last block its relays are accepted in
    ClaimOpen,       \* first block of its claim window
    MaxHeight        \* bound: the last block

Relays == HttpRelays \cup WsRelays

ASSUME RelayMeterAssumption ==
    /\ HttpRelays \cap WsRelays = {}
    /\ MaxRelays \in Nat
    /\ Modes \subseteq [eager : BOOLEAN, overServicing : BOOLEAN]
    /\ SessionEnd \in Nat /\ GraceEnd \in Nat /\ ClaimOpen \in Nat /\ MaxHeight \in Nat
    /\ SessionEnd <= GraceEnd /\ GraceEnd < ClaimOpen

VARIABLES
    mode,         \* eager validation, over-servicing allowed
    height,       \* the last block
    meterHeight,  \* the last block forEachNewBlockFn has handled
    knownHeight,  \* the last block pruneOutdatedKnownSessions has handled
    known,        \* the session is in knownSessions
    registered,   \* number of the meter in the map, 0 without one
    consumed,     \* consumedCoin of each meter ever created, in relays
    relays        \* the progress of each relay

rmVars == <<mode, height, meterHeight, knownHeight, known, registered, consumed, relays>>
blockVars == <<height, meterHeight, knownHeight>>

Stages ==
    {"none", "lookup", "create", "meter", "verify", "backend", "emit", "refund", "done"}

(* served: the response has been sent.  meter: the one its goroutine       *)
(* holds.  metered: some meter has consumed its cost.  rewarded: it went   *)
(* to the miner.  refunded: its cost has been given back.                  *)
NewRelay ==
    [stage |-> "none", served |-> FALSE, verified |-> FALSE, meter |-> 0, over |-> FALSE,
     metered |-> FALSE, rewarded |-> FALSE, refunded |-> FALSE]

At(r, stage) == relays[r].stage = stage

(* What a goroutine that is about to end no longer reads is forgotten.     *)
Become(r, rec) ==
    relays' = [relays EXCEPT ![r] =
        IF rec.stage \in {"refund", "done"}
        THEN [rec EXCEPT !.served = FALSE, !.verified = FALSE, !.meter = 0, !.over = FALSE]
        ELSE rec]

Goto(r, stage) == Become(r, [relays[r] EXCEPT !.stage = stage])

-----------------------------------------------------------------------------
(* IsOverServicing, called before or after the relay is served, and what   *)
(* the caller does with its answer.                                        *)

(* The caller's next stage: a websocket message has been emitted already.  *)
(* A relay over the limit is refused unless over-servicing is allowed; one *)
(* that has been served by then takes the path of a failed relay.          *)
AfterMetering(r, over) ==
    IF r \in WsRelays THEN "done"
    ELSE IF ~ over \/ mode.overServicing THEN "verify"
    ELSE IF relays[r].served THEN "refund"
    ELSE "done"

(* Under the read lock: the meter in the map, if there is one.             *)
LookUp(r) ==
    /\ At(r, "lookup")
    /\ Become(r, [relays[r] EXCEPT !.stage = IF registered = 0 THEN "create" ELSE "meter",
                                   !.meter = registered])
    /\ UNCHANGED <<mode, blockVars, known, registered, consumed>>

(* Without one: the application and the params are queried and a new meter *)
(* is stored, over whatever is in the map by then.                         *)
CreateMeter(r) ==
    /\ At(r, "create")
    /\ consumed' = Append(consumed, 0)
    /\ registered' = Len(consumed')
    /\ Become(r, [relays[r] EXCEPT !.stage = "meter", !.meter = Len(consumed')])
    /\ UNCHANGED <<mode, blockVars, known>>

(* A query for the meter or for the price fails: not over-serviced.        *)
MeteringFails(r) ==
    /\ At(r, "create") \/ At(r, "meter")
    /\ Goto(r, AfterMetering(r, FALSE))
    /\ UNCHANGED <<mode, blockVars, known, registered, consumed>>

(* Under the write lock: the meter found or made consumes the relay's cost *)
(* if it stays within its maximum.                                         *)
Meter(r) ==
    LET m    == relays[r].meter
        over == consumed[m] + 1 > MaxRelays
    IN  /\ At(r, "meter")
        /\ consumed' = IF over THEN consumed ELSE [consumed EXCEPT ![m] = @ + 1]
        /\ Become(r, [relays[r] EXCEPT !.stage = AfterMetering(r, over),
                                       !.over = over, !.metered = ~ over])
        /\ UNCHANGED <<mode, blockVars, known, registered>>

-----------------------------------------------------------------------------
(* serveSyncRequest. *)

(* A relay of a known session is metered and verified before it is served, *)
(* any other one is served first, unless validation is eager.              *)
Arrive(r) ==
    /\ r \in HttpRelays
    /\ At(r, "none")
    /\ Goto(r, IF known \/ mode.eager THEN "lookup" ELSE "backend")
    /\ UNCHANGED <<mode, blockVars, known, registered, consumed>>

(* The session is marked as known before the request is verified when that *)
(* happens before serving it, after it otherwise.  VerifyRelayRequest may  *)
(* refuse any request, and refuses all after the grace period.             *)
Verified(r) ==
    /\ At(r, "verify")
    /\ height <= GraceEnd
    /\ known' = TRUE
    /\ Become(r, [relays[r] EXCEPT !.verified = TRUE,
                                   !.stage = IF relays[r].served THEN "emit" ELSE "backend"])
    /\ UNCHANGED <<mode, blockVars, registered, consumed>>

Refused(r) ==
    /\ At(r, "verify")
    /\ known' = (known \/ ~ relays[r].served)
    /\ Goto(r, "refund")
    /\ UNCHANGED <<mode, blockVars, registered, consumed>>

(* The service answers in time and its answer reaches the client; or it    *)
(* fails, or the request does on its way there.                            *)
Respond(r) ==
    /\ At(r, "backend")
    /\ Become(r, [relays[r] EXCEPT !.served = TRUE,
                                   !.stage = IF relays[r].verified
                                             THEN "emit" ELSE "lookup"])
    /\ UNCHANGED <<mode, blockVars, known, registered, consumed>>

BackendFails(r) ==
    /\ At(r, "backend")
    /\ Goto(r, "refund")
    /\ UNCHANGED <<mode, blockVars, known, registered, consumed>>

(* Mutant: shouldRewardRelay is not set.                                   *)
EmitUnmarked(r) ==
    /\ At(r, "emit")
    /\ ~ relays[r].over
    /\ height < ClaimOpen
    /\ Become(r, [relays[r] EXCEPT !.stage = "refund", !.rewarded = TRUE])
    /\ UNCHANGED <<mode, blockVars, known, registered, consumed>>

(* A relay within the limit goes to the miner before the claim window      *)
(* opens.                                                                  *)
Emit(r) ==
    /\ At(r, "emit")
    /\ ~ relays[r].over
    /\ height < ClaimOpen
    /\ Become(r, [relays[r] EXCEPT !.stage = "done", !.rewarded = TRUE])
    /\ UNCHANGED <<mode, blockVars, known, registered, consumed>>

(* It does not if it is over the limit, too late, a server error, or the   *)
(* miner's channel is full.                                                *)
Drop(r) ==
    /\ At(r, "emit")
    /\ Goto(r, "refund")
    /\ UNCHANGED <<mode, blockVars, known, registered, consumed>>

(* SetNonApplicableRelayReward, for every relay that is not rewarded       *)
(* although isRelayRewardAccumulated, which says nothing of its being      *)
(* metered: the meter in the map gives back the cost of a relay if it has  *)
(* consumed that much.                                                     *)
GivesBack == registered # 0 /\ consumed[registered] > 0

Refund(r) ==
    /\ At(r, "refund")
    /\ GivesBack
    /\ consumed' = [consumed EXCEPT ![registered] = @ - 1]
    /\ Become(r, [relays[r] EXCEPT !.stage = "done", !.refunded = TRUE])
    /\ UNCHANGED <<mode, blockVars, known, registered>>

(* The session has no meter, it has consumed nothing, or a query fails.    *)
NoRefund(r) ==
    /\ At(r, "refund")
    /\ Goto(r, "done")
    /\ UNCHANGED <<mode, blockVars, known, registered, consumed>>

-----------------------------------------------------------------------------
(* A websocket message, from either side, goes to the miner as soon as     *)
(* there is one from the other side, and is metered then; its connection   *)
(* is closed before the claim window opens.                                *)
WsMessage(r) ==
    /\ r \in WsRelays
    /\ At(r, "none")
    /\ height < ClaimOpen
    /\ Become(r, [relays[r] EXCEPT !.stage = "lookup", !.rewarded = TRUE])
    /\ UNCHANGED <<mode, blockVars, known, registered, consumed>>

-----------------------------------------------------------------------------
(* Blocks, and the observers that handle each of them in turn, in their    *)
(* own goroutines.                                                         *)

NewBlock ==
    /\ height < MaxHeight
    /\ height' = height + 1
    /\ UNCHANGED <<mode, meterHeight, knownHeight, known, registered, consumed, relays>>

(* forEachNewBlockFn: the meter of a session that may be claimed goes.     *)
PruneMeters ==
    /\ meterHeight < height
    /\ meterHeight' = meterHeight + 1
    /\ registered' = IF meterHeight' >= ClaimOpen THEN 0 ELSE registered
    /\ UNCHANGED <<mode, height, knownHeight, known, consumed, relays>>

(* pruneOutdatedKnownSessions. *)
PruneKnownSessions ==
    /\ knownHeight < height
    /\ knownHeight' = knownHeight + 1
    /\ known' = (known /\ ~ SessionEnd + 1 < knownHeight')
    /\ UNCHANGED <<mode, height, meterHeight, registered, consumed, relays>>

-----------------------------------------------------------------------------
RmInit ==
    /\ mode \in Modes
    /\ height = 1 /\ meterHeight = 1 /\ knownHeight = 1
    /\ known = FALSE
    /\ registered = 0
    /\ consumed = <<>>
    /\ relays = [r \in Relays |-> NewRelay]

Metering(r) == LookUp(r) \/ CreateMeter(r) \/ MeteringFails(r) \/ Meter(r)

Serving(r) ==
    \/ Arrive(r) \/ Verified(r) \/ Refused(r) \/ Respond(r) \/ BackendFails(r)
    \/ Emit(r) \/ Drop(r) \/ Refund(r) \/ NoRefund(r)

RmNext ==
    \/ \E r \in Relays : Metering(r) \/ Serving(r) \/ WsMessage(r)
    \/ NewBlock \/ PruneMeters \/ PruneKnownSessions

RmSpec == RmInit /\ [][RmNext]_rmVars

-----------------------------------------------------------------------------
(* Properties. *)

(* Relays that consumed their cost go to the miner no more often than the  *)
(* meters allow, whatever is looked up, created, charged, given back and   *)
(* pruned at the same time; but for one relay each time a relay that no    *)
(* meter had charged is given its cost back, be it over the limit or       *)
(* failed before it was metered.                                           *)
RewardedRelaysFitTheirMeters ==
    Cardinality({r \in Relays : relays[r].rewarded /\ relays[r].metered})
      <= MaxRelays * Len(consumed)
         + Cardinality({r \in Relays : relays[r].refunded /\ ~ relays[r].metered})
=============================================================================
