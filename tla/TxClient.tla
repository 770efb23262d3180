------------------------------ MODULE TxClient ------------------------------
(***************************************************************************)
(* The transactions of a supplier (pkg/client/supplier, pkg/client/tx):    *)
(* sent one at a time, watched until they are in a block or have timed     *)
(* out, and sent again while they are in neither.                          *)
(*                                                                         *)
(* The supplier client holds pendingTxMu from before a transaction is      *)
(* signed until its error channel answers.  In the tx client a transaction *)
(* is in three maps, under txsMutex:                                       *)
(*   timeoutPool   txTimeoutPool, at the height after its timeout height;  *)
(*   errorChans    txErrorChans, the channel the caller reads;             *)
(*   resends       rebroadcastPool, with how often it was sent again.      *)
(* Two goroutines work on them, each on a subscription of its own: one per *)
(* committed transaction, one per committed block.  A subscription that is *)
(* interrupted starts again at the latest block: what it missed is lost.   *)
(* The goroutine per block takes the lock twice, for the transactions that *)
(* are due to be sent again and for those that time out, and the first are *)
(* sent by other goroutines, one wave at a time.                           *)
(*                                                                         *)
(* The node is modelled by how the client uses it: CheckTx refuses what    *)
(* is past its timeout height or in its cache, a block takes transactions  *)
(* of the mempool, the mempool drops them at will, and a transaction in a  *)
(* block is indexed by the time the next block is committed.               *)
(*                                                                         *)
(* Bounds: MaxHeight blocks, and MaxFaults lost responses, lost events and *)
(* interruptions of the block subscription together.  The cap of 128 sends *)
(* per block is left out: one client never has two transactions pending.   *)
(***************************************************************************)
EXTENDS Integers, FiniteSets, FiniteSetsExt

CONSTANTS
    Txs,             \* the transactions, one per call
    TimeoutHeights,  \* the timeout heights a call may be given
    MaxHeight, MaxFaults

ASSUME TxClientAssumption ==
    /\ IsFiniteSet(Txs)
    /\ TimeoutHeights \subseteq Nat
    /\ MaxHeight \in Nat /\ MaxFaults \in Nat

maxTxRebroadcasts == 2
txRebroadcastSafetyBlocks == 1

VARIABLES
    height,       \* the last committed block
    mempool,      \* transactions in the node's mempool
    committed,    \* committed[t]: the block t is in, with its code
    faults,       \* how many faults there were
    events,       \* committed transactions whose event was not handled yet
    seen,         \* the last block the goroutine per block received
    timingOut,    \* it is between its two critical sections
    calls,        \* calls[t]: where the call is, with its result
    timeoutPool, errorChans, resends,
    channels,     \* channels[t]: what is in the error channel of t
    wave          \* transactions collected and not yet sent again

nodeVars == <<height, mempool, committed>>
poolVars == <<timeoutPool, errorChans, resends, channels>>
txcVars == <<nodeVars, faults, events, seen, timingOut, calls, poolVars, wave>>

-----------------------------------------------------------------------------
(* The node.                                                               *)

InBlock(t) == committed[t].height > 0

Cached(t) == t \in mempool \/ InBlock(t)

TimeoutHeight(t) == calls[t].timeout

(* CheckTx takes t.                                                        *)
Accepts(t) == ~Cached(t) /\ height <= TimeoutHeight(t)

CommitBlock ==
    /\ height < MaxHeight
    /\ height' = height + 1
    /\ \E included \in SUBSET {t \in mempool : height < TimeoutHeight(t)} :
          \E failed \in SUBSET included :
             /\ committed' = [t \in Txs |->
                   IF t \in included THEN [height |-> height + 1, failed |-> t \in failed]
                   ELSE committed[t]]
             /\ mempool' = {t \in mempool \ included : height + 1 <= TimeoutHeight(t)}
             /\ events' = events \cup included
    /\ UNCHANGED <<faults, seen, timingOut, calls, poolVars, wave>>

Evict(t) ==
    /\ t \in mempool
    /\ mempool' = mempool \ {t}
    /\ UNCHANGED <<height, committed, faults, events, seen, timingOut, calls, poolVars, wave>>

-----------------------------------------------------------------------------
(* A call: CreateClaims or SubmitProofs of the supplier client.            *)

Stages == {"idle", "broadcast", "register", "wait", "done"}

Results == {"none", "ok", "refused", "timed out"}

pendingTxMuIsFree == \A t \in Txs : calls[t].stage \in {"idle", "done"}

Returned(t, result) ==
    calls' = [calls EXCEPT ![t].stage = "done", ![t].result = result]

(* The transaction is signed, and the height it is sent at is read from    *)
(* the block client, which may be ahead of the goroutine per block.        *)
Call(t) ==
    /\ calls[t].stage = "idle" /\ pendingTxMuIsFree
    /\ \E timeout \in TimeoutHeights, submit \in seen..height :
          calls' = [calls EXCEPT ![t].stage = "broadcast",
                                 ![t].timeout = timeout, ![t].submit = submit]
    /\ UNCHANGED <<nodeVars, faults, events, seen, timingOut, poolVars, wave>>

(* The node takes it, and the call learns so.                              *)
Broadcast(t) ==
    /\ calls[t].stage = "broadcast" /\ Accepts(t)
    /\ mempool' = mempool \cup {t}
    /\ calls' = [calls EXCEPT ![t].stage = "register"]
    /\ UNCHANGED <<height, committed, faults, events, seen, timingOut, poolVars, wave>>

(* The node takes it, and the response is lost: the call will try again.   *)
BroadcastUnanswered(t) ==
    /\ calls[t].stage = "broadcast" /\ Accepts(t)
    /\ faults < MaxFaults /\ faults' = faults + 1
    /\ mempool' = mempool \cup {t}
    /\ UNCHANGED <<height, committed, events, seen, timingOut, calls, poolVars, wave>>

(* The node refuses it: past its timeout height, or in the cache.          *)
BroadcastRefused(t) ==
    /\ calls[t].stage = "broadcast" /\ ~Accepts(t)
    /\ Returned(t, "refused")
    /\ UNCHANGED <<nodeVars, faults, events, seen, timingOut, poolVars, wave>>

ExpirationAtTimeout(t) == TimeoutHeight(t)

(* A transaction is valid in the block of its timeout height.              *)
ExpirationHeight(t) == TimeoutHeight(t) + 1

addPendingTransactions(t) ==
    /\ calls[t].stage = "register"
    /\ calls' = [calls EXCEPT ![t].stage = "wait"]
    /\ timeoutPool' = timeoutPool \cup {[tx |-> t, at |-> ExpirationHeight(t)]}
    /\ errorChans' = errorChans \cup {t}
    /\ resends' = [resends EXCEPT ![t] = 0]
    /\ channels' = [channels EXCEPT ![t] = "open"]
    /\ UNCHANGED <<nodeVars, faults, events, seen, timingOut, wave>>

(* The error channel is closed, after an error was sent or with nothing.   *)
Return(t) ==
    /\ calls[t].stage = "wait" /\ channels[t] \in {"closed", "error"}
    /\ Returned(t, IF channels[t] = "error" THEN "timed out" ELSE "ok")
    /\ UNCHANGED <<nodeVars, faults, events, seen, timingOut, poolVars, wave>>

-----------------------------------------------------------------------------
(* goSubscribeToOwnTxs.                                                    *)

NotTracked == -1

Tracked(t) == \E entry \in timeoutPool : entry.tx = t

Forgotten(txs) == [t \in Txs |-> IF t \in txs THEN NotTracked ELSE resends[t]]

PoolWith(t) == timeoutPool

PoolWithout(t) == {entry \in timeoutPool : entry.tx # t}

(* The event of a transaction, failed or not, closes its channel with      *)
(* nothing in it.  One that is not in the timeout pool is ignored.         *)
TxEvent(t) ==
    /\ t \in events
    /\ events' = events \ {t}
    /\ IF Tracked(t)
       THEN /\ timeoutPool' = PoolWithout(t)
            /\ errorChans' = errorChans \ {t}
            /\ channels' = [channels EXCEPT ![t] = "closed"]
            /\ resends' = Forgotten({t})
       ELSE UNCHANGED poolVars
    /\ UNCHANGED <<nodeVars, faults, seen, timingOut, calls, wave>>

EventIsLost(t) ==
    /\ t \in events
    /\ faults < MaxFaults /\ faults' = faults + 1
    /\ events' = events \ {t}
    /\ UNCHANGED <<nodeVars, seen, timingOut, calls, poolVars, wave>>

-----------------------------------------------------------------------------
(* goTimeoutPendingTransactions.                                           *)

Window(t) == TimeoutHeight(t) - calls[t].submit

(* The height t is next sent again at, with the offset its hash gives it.  *)
DueHeight(t, jitter) ==
    LET slots == maxTxRebroadcasts + 1
        due == calls[t].submit + (Window(t) * (resends[t] + 1)) \div slots + jitter
    IN  Min({due, TimeoutHeight(t) - txRebroadcastSafetyBlocks - 1})

Slot(t) == Window(t) \div (maxTxRebroadcasts + 1)

Jitters(t) == {0} \cup 0..(Slot(t) - 1)

Expired(t, h) == h >= TimeoutHeight(t)

IsDue(t, h, jitter) ==
    /\ resends[t] \in 0..(maxTxRebroadcasts - 1)
    /\ ~Expired(t, h)
    /\ Window(t) >= maxTxRebroadcasts + 2
    /\ h >= DueHeight(t, jitter)
    /\ h < TimeoutHeight(t) - txRebroadcastSafetyBlocks

(* A block is received.  collectDueRebroadcasts drops what has expired and *)
(* counts what is due, unless the wave before is still being sent.         *)
Receive(h) ==
    /\ seen' = h /\ timingOut' = TRUE
    /\ IF wave # {}
       THEN UNCHANGED <<resends, wave>>
       ELSE \E jitter \in [Txs -> UNION {Jitters(t) : t \in Txs}] :
               /\ \A t \in Txs : jitter[t] \in Jitters(t)
               /\ wave' = {t \in Txs : IsDue(t, h, jitter[t])}
               /\ resends' = [t \in Txs |->
                     CASE t \in wave' -> resends[t] + 1
                       [] Expired(t, h) -> NotTracked
                       [] OTHER -> resends[t]]
    /\ UNCHANGED <<nodeVars, events, calls, timeoutPool, errorChans, channels>>

ObserveBlockEarly ==
    /\ ~timingOut /\ seen < MaxHeight
    /\ Receive(seen + 1)
    /\ UNCHANGED faults

ObserveBlock ==
    /\ ~timingOut /\ seen < height
    /\ Receive(seen + 1)
    /\ UNCHANGED faults

(* The subscription was interrupted: the next block it gets is the latest. *)
MissBlocks ==
    /\ ~timingOut /\ seen + 1 < height
    /\ faults < MaxFaults /\ faults' = faults + 1
    /\ Receive(height)

(* A wave sends its transactions, in any order.                            *)
Resend(t) ==
    /\ t \in wave
    /\ wave' = wave \ {t}
    /\ mempool' = IF Accepts(t) THEN mempool \cup {t} ELSE mempool
    /\ UNCHANGED <<height, committed, faults, events, seen, timingOut, calls, poolVars>>

(* getTxTimeoutError: the transaction is found by its hash, and succeeded. *)
FoundInBlock(t) ==
    InBlock(t) /\ committed[t].height < height /\ ~committed[t].failed

AnsweredNot(txs) == channels

Answered(txs) ==
    [t \in Txs |-> IF t \notin txs THEN channels[t]
                   ELSE IF FoundInBlock(t) THEN "closed" ELSE "error"]

(* The transactions whose expiration height is the block's time out.       *)
(* (Their entries of txErrorChans stay.)                                   *)
TimeoutTxs ==
    /\ timingOut /\ timingOut' = FALSE
    /\ LET entries == {entry \in timeoutPool : entry.at = seen}
           expired == {entry.tx : entry \in entries}
       IN  /\ timeoutPool' = timeoutPool \ entries
           /\ channels' = Answered(expired)
           /\ resends' = Forgotten(expired)
    /\ UNCHANGED <<nodeVars, faults, events, seen, calls, errorChans, wave>>

-----------------------------------------------------------------------------
TxcInit ==
    /\ height = 0 /\ seen = 0 /\ timingOut = FALSE
    /\ mempool = {} /\ events = {} /\ wave = {} /\ faults = 0
    /\ committed = [t \in Txs |-> [height |-> 0, failed |-> FALSE]]
    /\ calls = [t \in Txs |-> [stage |-> "idle", submit |-> 0, timeout |-> 0, result |-> "none"]]
    /\ timeoutPool = {} /\ errorChans = {}
    /\ resends = [t \in Txs |-> NotTracked]
    /\ channels = [t \in Txs |-> "none"]

TxcNext ==
    \/ CommitBlock \/ ObserveBlock \/ MissBlocks \/ TimeoutTxs
    \/ \E t \in Txs :
          \/ Evict(t) \/ Call(t) \/ Broadcast(t) \/ BroadcastUnanswered(t)
          \/ BroadcastRefused(t) \/ addPendingTransactions(t) \/ Return(t)
          \/ TxEvent(t) \/ EventIsLost(t) \/ Resend(t)

(* The chain goes on, the goroutines are scheduled and the node answers.   *)
TxcFairness ==
    /\ WF_txcVars(CommitBlock) /\ WF_txcVars(ObserveBlock \/ MissBlocks)
    /\ WF_txcVars(TimeoutTxs)
    /\ \A t \in Txs :
          /\ WF_txcVars(Broadcast(t) \/ BroadcastRefused(t))
          /\ WF_txcVars(addPendingTransactions(t)) /\ WF_txcVars(Return(t))

TxcSpec == TxcInit /\ [][TxcNext]_txcVars /\ TxcFairness

-----------------------------------------------------------------------------
(* Every variable has the values the client gives it.                      *)
TxcTypeOK ==
    /\ height \in 0..MaxHeight /\ seen \in 0..height /\ timingOut \in BOOLEAN
    /\ faults \in 0..MaxFaults
    /\ mempool \subseteq Txs /\ events \subseteq Txs /\ wave \subseteq Txs
    /\ committed \in [Txs -> [height : 0..MaxHeight, failed : BOOLEAN]]
    /\ calls \in [Txs -> [stage : Stages, submit : 0..MaxHeight,
                          timeout : TimeoutHeights \cup {0}, result : Results]]
    /\ timeoutPool \subseteq [tx : Txs, at : Nat] /\ errorChans \subseteq Txs
    /\ resends \in [Txs -> NotTracked..maxTxRebroadcasts]
    /\ channels \in [Txs -> {"none", "open", "closed", "error"}]

(* The three maps agree: what is in the timeout pool has its error channel *)
(* registered and open, so no event panics and no channel is closed twice, *)
(* and nothing is sent again that is not waited for any more.              *)
(* (goSubscribeToOwnTxs panics on an event without a channel; Go does on a *)
(* second close.)                                                          *)
PendingTxsHaveOpenChannels ==
    /\ \A entry \in timeoutPool : entry.tx \in errorChans /\ channels[entry.tx] = "open"
    /\ \A t \in Txs : resends[t] # NotTracked => Tracked(t)

(* What a call reports of a transaction it waited for is final: one that   *)
(* timed out is not, and will not be, in a block as a success, and one     *)
(* reported as done is in a block.  The session manager drops or proves    *)
(* its sessions by this answer.                                            *)
AnswersAreFinal ==
    \A t \in Txs :
        /\ calls[t].result = "timed out" =>
              ~(InBlock(t) /\ ~committed[t].failed) /\ t \notin mempool /\ ~Accepts(t)
        /\ calls[t].result = "ok" => InBlock(t)

(* The height t expires at went by while t waited, unseen or before it was *)
(* registered.                                                             *)
Overlooked(t) ==
    Tracked(t) /\ (ExpirationHeight(t) < seen \/ (ExpirationHeight(t) = seen /\ ~timingOut))

(* A call returns, and with it the lock that every other transaction of    *)
(* the supplier waits for, unless its expiration was overlooked.  (The     *)
(* event of a transaction may be late or lost: the timeout must make up    *)
(* for it.)                                                                *)
CallsReturnOrAreOverlooked ==
    \A t \in Txs : calls[t].stage = "wait" ~> (calls[t].stage = "done" \/ Overlooked(t))

(* A call blocks "until the transaction is included in a block or times    *)
(* out": it returns.  The code: the timeout of a transaction is looked up  *)
(* by the exact height of its expiration.                                  *)
EveryCallReturns ==
    \A t \in Txs : calls[t].stage = "wait" ~> calls[t].stage = "done"
=============================================================================
