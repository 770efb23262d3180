--------------------------- MODULE TxClientProofs ---------------------------
(***************************************************************************)
(* What the tx client promises its callers, for every set of transactions, *)
(* every choice of timeout heights and any number of blocks and faults:    *)
(* its three maps agree, and what a call was told of a transaction it      *)
(* waited for is never overturned by a later block.                        *)
(*                                                                         *)
(* The argument: a transaction leaves the mempool at its timeout height    *)
(* and is in no block after it, and the entry of the timeout pool comes up *)
(* one block later, so that by then its fate is sealed, and indexed.       *)
(***************************************************************************)
EXTENDS TxClient, TLAPS

(* A transaction that will not succeed any more. *)
Failed(t) == ~ (InBlock(t) /\ ~ committed[t].failed) /\ height > TimeoutHeight(t)

(* The node: a transaction is in a block or in the mempool only up to its  *)
(* timeout height, and only once it has been sent.                         *)
NodeOk(t) ==
    /\ InBlock(t) => committed[t].height <= height /\ committed[t].height <= TimeoutHeight(t)
    /\ t \in mempool => height <= TimeoutHeight(t)
    /\ t \in events => InBlock(t)
    /\ calls[t].stage = "idle" => t \notin mempool /\ ~ InBlock(t)

(* The client: nothing is kept of a transaction before it is registered.   *)
ClientOk(t) ==
    /\ calls[t].stage \in {"idle", "broadcast", "register"} =>
          /\ ~ Tracked(t) /\ resends[t] = NotTracked /\ t \notin wave
          /\ channels[t] = "none"
    /\ calls[t].stage # "done" => calls[t].result = "none"
    /\ calls[t].result = "ok" \/ channels[t] = "closed" => InBlock(t)
    /\ calls[t].result = "timed out" \/ channels[t] = "error" => Failed(t)

(* An entry of the timeout pool is at the one height its transaction       *)
(* expires at.                                                             *)
EntriesOk == \A entry \in timeoutPool : entry.at = ExpirationHeight(entry.tx)

TxInv ==
    /\ TxcTypeOK /\ PendingTxsHaveOpenChannels /\ EntriesOk
    /\ \A t \in Txs : NodeOk(t) /\ ClientOk(t)

-----------------------------------------------------------------------------
(* A tracked transaction is one whose call waits on an open channel.       *)
LEMMA TrackedWaits ==
    ASSUME TxInv, NEW t \in Txs, Tracked(t)
    PROVE  /\ channels[t] = "open" /\ t \in errorChans
           /\ calls[t].stage \in {"wait", "done"}
<1>1. calls[t].stage \in Stages
  BY DEF TxInv, TxcTypeOK
<1>2. calls[t].stage \notin {"idle", "broadcast", "register"}
  BY DEF TxInv, ClientOk
<1>3. channels[t] = "open" /\ t \in errorChans
  BY DEF TxInv, PendingTxsHaveOpenChannels, Tracked
<1> QED
  BY <1>1, <1>2, <1>3 DEF Stages

(* The types of one transaction's state.                                   *)
LEMMA TxTypes ==
    ASSUME TxInv, NEW t \in Txs
    PROVE  /\ height \in Nat /\ committed[t].height \in Nat
           /\ TimeoutHeight(t) \in Nat /\ committed[t].failed \in BOOLEAN
           /\ calls[t] \in [stage : Stages, submit : 0..MaxHeight,
                            timeout : TimeoutHeights \cup {0}, result : Results]
<1>1. height \in Nat
  BY TxClientAssumption DEF TxInv, TxcTypeOK
<1>2. committed[t] \in [height : 0..MaxHeight, failed : BOOLEAN]
  BY DEF TxInv, TxcTypeOK
<1>3. calls[t] \in [stage : Stages, submit : 0..MaxHeight,
                  timeout : TimeoutHeights \cup {0}, result : Results]
  BY DEF TxInv, TxcTypeOK
<1>4. TimeoutHeight(t) \in Nat
  <2>1. calls[t].timeout \in TimeoutHeights \cup {0}
    BY <1>3
  <2>2. \A x \in TimeoutHeights \cup {0} : x \in Nat
    BY TxClientAssumption
  <2>3. calls[t].timeout \in Nat
    BY <2>1, <2>2
  <2> QED
    BY <2>3 DEF TimeoutHeight
<1>5. committed[t].height \in Nat /\ committed[t].failed \in BOOLEAN
  BY <1>2, TxClientAssumption
<1> QED
  BY <1>1, <1>3, <1>4, <1>5

(* Nothing has been sent.                                                  *)
LEMMA TxInitInv == TxcInit => TxInv
<1> SUFFICES ASSUME TxcInit
             PROVE  TxInv
  OBVIOUS
<1>1. TxcTypeOK
  <2>1. /\ 0 \in 0..MaxHeight /\ 0 \in 0..MaxFaults /\ NotTracked \in NotTracked..maxTxRebroadcasts
    BY TxClientAssumption DEF NotTracked, maxTxRebroadcasts
  <2>2. calls \in [Txs -> [stage : Stages, submit : 0..MaxHeight,
                          timeout : TimeoutHeights \cup {0}, result : Results]]
    BY <2>1 DEF TxcInit, Stages, Results
  <2>3. committed \in [Txs -> [height : 0..MaxHeight, failed : BOOLEAN]]
    BY <2>1 DEF TxcInit
  <2>4. resends \in [Txs -> NotTracked..maxTxRebroadcasts]
    BY <2>1 DEF TxcInit
  <2>5. channels \in [Txs -> {"none", "open", "closed", "error"}]
    BY DEF TxcInit
  <2>6. /\ height \in 0..MaxHeight /\ seen \in 0..height /\ timingOut \in BOOLEAN
        /\ faults \in 0..MaxFaults
    <3>1. height = 0 /\ seen = 0 /\ timingOut = FALSE /\ faults = 0
      BY DEF TxcInit
    <3>2. 0 \in 0..0
      OBVIOUS
    <3> QED
      BY <2>1, <3>1, <3>2
  <2>7. /\ mempool \subseteq Txs /\ events \subseteq Txs /\ wave \subseteq Txs
        /\ timeoutPool \subseteq [tx : Txs, at : Nat] /\ errorChans \subseteq Txs
    BY DEF TxcInit
  <2> QED
    BY <2>2, <2>3, <2>4, <2>5, <2>6, <2>7 DEF TxcTypeOK
<1>2. PendingTxsHaveOpenChannels /\ EntriesOk
  BY DEF TxcInit, PendingTxsHaveOpenChannels, EntriesOk
<1>3. ASSUME NEW t \in Txs
      PROVE  NodeOk(t) /\ ClientOk(t)
  <2>1. /\ committed[t].height = 0 /\ calls[t].stage = "idle" /\ calls[t].result = "none"
        /\ resends[t] = NotTracked /\ channels[t] = "none" /\ timeoutPool = {}
        /\ mempool = {} /\ events = {} /\ wave = {}
    BY DEF TxcInit
  <2> QED
    BY <2>1 DEF NodeOk, ClientOk, InBlock, Tracked
<1> QED
  BY <1>1, <1>2, <1>3 DEF TxInv

-----------------------------------------------------------------------------
(* The steps of the node.                                                  *)

(* A block answers what it takes from the mempool, and evicts what is past *)
(* its timeout height.                                                     *)
LEMMA CommitBlockKeeps == ASSUME TxInv, CommitBlock PROVE TxInv'
<1>0. PICK included \in SUBSET {t \in mempool : height < TimeoutHeight(t)} :
        \E failed \in SUBSET included :
        /\ committed' = [t \in Txs |->
              IF t \in included THEN [height |-> height + 1, failed |-> t \in failed]
              ELSE committed[t]]
        /\ mempool' = {t \in mempool \ included : height + 1 <= TimeoutHeight(t)}
        /\ events' = events \cup included
  BY DEF CommitBlock
<1>1. PICK failed \in SUBSET included :
        /\ committed' = [t \in Txs |->
              IF t \in included THEN [height |-> height + 1, failed |-> t \in failed]
              ELSE committed[t]]
        /\ mempool' = {t \in mempool \ included : height + 1 <= TimeoutHeight(t)}
        /\ events' = events \cup included
  BY <1>0
<1>2. /\ height' = height + 1 /\ height < MaxHeight
      /\ UNCHANGED <<faults, seen, timingOut, calls, timeoutPool, errorChans, resends,
                     channels, wave>>
  BY DEF CommitBlock, poolVars
<1>3. /\ height \in Nat /\ height + 1 \in 0..MaxHeight /\ seen \in 0..(height + 1)
      /\ included \subseteq mempool /\ mempool \subseteq Txs
  BY <1>2, TxClientAssumption DEF TxInv, TxcTypeOK
<1>4. \A t \in Txs :
         committed'[t] = IF t \in included THEN [height |-> height + 1, failed |-> t \in failed]
                         ELSE committed[t]
  BY <1>1
<1>5. committed' \in [Txs -> [height : 0..MaxHeight, failed : BOOLEAN]]
  BY <1>1, <1>3 DEF TxInv, TxcTypeOK
<1>6. TxcTypeOK'
  BY <1>1, <1>2, <1>3, <1>5 DEF TxInv, TxcTypeOK
<1>7. PendingTxsHaveOpenChannels' /\ EntriesOk'
  BY <1>2 DEF TxInv, PendingTxsHaveOpenChannels, EntriesOk, Tracked, ExpirationHeight,
              TimeoutHeight
<1>8. ASSUME NEW t \in Txs
      PROVE  NodeOk(t)' /\ ClientOk(t)'
  <2>1. /\ NodeOk(t) /\ ClientOk(t) /\ committed[t].height \in Nat /\ TimeoutHeight(t) \in Nat
        /\ TimeoutHeight(t)' = TimeoutHeight(t)
    BY <1>2, TxTypes DEF TxInv, TimeoutHeight
  <2>0. /\ t \in included => committed'[t] = [height |-> height + 1, failed |-> t \in failed]
        /\ t \notin included => committed'[t] = committed[t]
    BY <1>4
  <2>2. InBlock(t)' <=> InBlock(t) \/ t \in included
    <3>1. CASE t \in included
      <4>1. committed'[t].height = height + 1
        BY <2>0, <3>1
      <4> QED
        BY <1>3, <3>1, <4>1 DEF InBlock
    <3>2. CASE t \notin included
      BY <2>0, <3>2 DEF InBlock
    <3> QED
      BY <3>1, <3>2
  <2>3. t \in included => t \in mempool /\ height + 1 <= TimeoutHeight(t)
    BY <1>1, <1>3, <2>1
  <2>4. NodeOk(t)'
    BY <1>1, <1>2, <1>3, <1>4, <2>1, <2>2, <2>3 DEF NodeOk
  <2>5. Failed(t) => Failed(t)'
    <3>1. ASSUME Failed(t) PROVE t \notin included
      BY <1>3, <2>1, <2>3, <3>1 DEF Failed, NodeOk
    <3> QED
      BY <1>2, <1>3, <2>0, <2>1, <2>2, <3>1 DEF Failed
  <2>6. ClientOk(t)'
    BY <1>2, <2>1, <2>2, <2>5 DEF ClientOk, Tracked
  <2> QED
    BY <2>4, <2>6
<1> QED
  BY <1>6, <1>7, <1>8 DEF TxInv

(* What changes nothing but the mempool, to what the node may hold of      *)
(* transactions that have been sent, and the faults.                       *)
LEMMA MempoolStepKeeps ==
    ASSUME TxInv, mempool' \subseteq Txs, faults' \in 0..MaxFaults,
           \A t \in mempool' \ mempool :
              Accepts(t) /\ calls[t].stage # "idle",
           wave' \subseteq wave, events' \subseteq events,
           UNCHANGED <<height, committed, seen, timingOut, calls, timeoutPool, errorChans,
                       resends, channels>>
    PROVE  TxInv'
<1>1. TxcTypeOK'
  BY DEF TxInv, TxcTypeOK
<1>2. PendingTxsHaveOpenChannels' /\ EntriesOk'
  BY DEF TxInv, PendingTxsHaveOpenChannels, EntriesOk, Tracked, ExpirationHeight, TimeoutHeight
<1>3. ASSUME NEW t \in Txs
      PROVE  NodeOk(t)' /\ ClientOk(t)'
  <2>1. NodeOk(t) /\ ClientOk(t)
    BY DEF TxInv
  <2>2. NodeOk(t)'
    BY <2>1 DEF NodeOk, InBlock, TimeoutHeight, Accepts
  <2>3. ClientOk(t)'
    BY <2>1 DEF ClientOk, InBlock, Failed, Tracked, TimeoutHeight
  <2> QED
    BY <2>2, <2>3
<1> QED
  BY <1>1, <1>2, <1>3 DEF TxInv

(* What the node and the network do leaves the client's books alone.       *)
LEMMA NodeStepKeeps ==
    ASSUME TxInv, NEW t \in Txs,
           Evict(t) \/ BroadcastUnanswered(t) \/ EventIsLost(t) \/ Resend(t)
    PROVE  TxInv'
<1>1. faults \in 0..MaxFaults /\ mempool \subseteq Txs
  BY DEF TxInv, TxcTypeOK
<1>2. CASE Evict(t)
  BY <1>1, <1>2, MempoolStepKeeps DEF Evict, poolVars
<1>3. CASE BroadcastUnanswered(t)
  <2>1. faults' \in 0..MaxFaults
    BY <1>1, <1>3, TxClientAssumption DEF BroadcastUnanswered
  <2> QED
    BY <1>1, <1>3, <2>1, MempoolStepKeeps DEF BroadcastUnanswered, poolVars
<1>4. CASE EventIsLost(t)
  <2>1. faults' \in 0..MaxFaults
    BY <1>1, <1>4, TxClientAssumption DEF EventIsLost
  <2> QED
    BY <1>1, <1>4, <2>1, MempoolStepKeeps DEF EventIsLost, poolVars, nodeVars
<1>5. CASE Resend(t)
  <2>1. calls[t].stage # "idle"
    BY <1>5 DEF Resend, TxInv, ClientOk
  <2> QED
    BY <1>1, <1>5, <2>1, MempoolStepKeeps DEF Resend, poolVars
<1> QED
  BY <1>2, <1>3, <1>4, <1>5

-----------------------------------------------------------------------------
(* The steps of a call.                                                    *)

(* A call that only moves on, with what a result may say.                  *)
LEMMA CallStepKeeps ==
    ASSUME TxInv, NEW t \in Txs, NEW c,
           c \in [stage : Stages, submit : 0..MaxHeight,
                  timeout : TimeoutHeights \cup {0}, result : Results],
           calls' = [calls EXCEPT ![t] = c],
           c.stage # "idle", calls[t].stage = "idle" \/ c.timeout = calls[t].timeout,
           c.stage \in {"broadcast", "register"}
              => calls[t].stage \in {"idle", "broadcast", "register"},
           c.stage # "done" => c.result = "none",
           c.result = "ok" => channels[t] = "closed" \/ calls[t].result = "ok",
           c.result = "timed out" => channels[t] = "error" \/ calls[t].result = "timed out",
           mempool' \subseteq mempool \cup {t}, t \in mempool' => t \in mempool \/ Accepts(t),
           calls[t].stage = "idle" => mempool' = mempool,
           UNCHANGED <<height, committed, faults, events, seen, timingOut, poolVars, wave>>
    PROVE  TxInv'
<1>1. /\ UNCHANGED <<height, committed, faults, events, seen, timingOut, timeoutPool,
                     errorChans, resends, channels, wave>>
      /\ calls'[t] = c /\ \A u \in Txs \ {t} : calls'[u] = calls[u]
      /\ calls' \in [Txs -> [stage : Stages, submit : 0..MaxHeight,
                             timeout : TimeoutHeights \cup {0}, result : Results]]
  BY DEF poolVars, TxInv, TxcTypeOK
<1>2. TxcTypeOK'
  BY <1>1 DEF TxInv, TxcTypeOK
<1>3. calls[t].stage = "idle" => ~ Tracked(t)
  BY DEF TxInv, ClientOk
<1>4. PendingTxsHaveOpenChannels'
  BY <1>1 DEF TxInv, PendingTxsHaveOpenChannels, Tracked
<1>5. EntriesOk'
  <2> SUFFICES ASSUME NEW entry \in timeoutPool
               PROVE  entry.at = ExpirationHeight(entry.tx)'
    BY <1>1 DEF EntriesOk
  <2>1. entry.at = ExpirationHeight(entry.tx) /\ entry.tx \in Txs
    BY DEF TxInv, EntriesOk, TxcTypeOK
  <2>2. TimeoutHeight(entry.tx)' = TimeoutHeight(entry.tx)
    BY <1>1, <1>3, <2>1 DEF Tracked, TimeoutHeight
  <2> QED
    BY <2>1, <2>2 DEF ExpirationHeight
<1>6. ASSUME NEW u \in Txs
      PROVE  NodeOk(u)' /\ ClientOk(u)'
  <2>1. NodeOk(u) /\ ClientOk(u)
    BY DEF TxInv
  <2>2. CASE u # t
    <3>1. calls'[u] = calls[u] /\ (u \in mempool' => u \in mempool)
      BY <1>1, <2>2
    <3>2. NodeOk(u)'
      BY <1>1, <2>1, <3>1 DEF NodeOk, InBlock, TimeoutHeight
    <3>3. ClientOk(u)'
      BY <1>1, <2>1, <3>1 DEF ClientOk, InBlock, Failed, Tracked, TimeoutHeight
    <3> QED
      BY <3>2, <3>3
  <2>3. CASE u = t
    <3>1. NodeOk(t)'
      BY <1>1, <2>1, <2>3 DEF NodeOk, InBlock, TimeoutHeight, Accepts
    <3>2. ClientOk(t)'
      <4>1. CASE calls[t].stage = "idle"
        BY <1>1, <2>1, <2>3, <4>1 DEF ClientOk, InBlock, Failed, Tracked, TimeoutHeight
      <4>2. CASE calls[t].stage # "idle"
        BY <1>1, <2>1, <2>3, <4>2 DEF ClientOk, InBlock, Failed, Tracked, TimeoutHeight
      <4> QED
        BY <4>1, <4>2
    <3> QED
      BY <2>3, <3>1, <3>2
  <2> QED
    BY <2>2, <2>3
<1> QED
  BY <1>2, <1>4, <1>5, <1>6 DEF TxInv

(* SignAndBroadcast picks its timeout from what the client has seen.       *)
LEMMA CallKeeps == ASSUME TxInv, NEW t \in Txs, Call(t) PROVE TxInv'
<1>1. PICK timeout \in TimeoutHeights, submit \in seen..height :
         calls' = [calls EXCEPT ![t].stage = "broadcast",
                                ![t].timeout = timeout, ![t].submit = submit]
  BY DEF Call
<1> DEFINE c == [calls[t] EXCEPT !.stage = "broadcast", !.timeout = timeout,
                                 !.submit = submit]
<1>2. submit \in 0..MaxHeight
  BY TxClientAssumption DEF TxInv, TxcTypeOK
<1>3. c \in [stage : Stages, submit : 0..MaxHeight,
             timeout : TimeoutHeights \cup {0}, result : Results]
  BY <1>2, TxTypes DEF Stages
<1>4. calls' = [calls EXCEPT ![t] = c]
  BY <1>1 DEF TxInv, TxcTypeOK
<1>5. /\ calls[t].stage = "idle" /\ calls[t].result = "none"
      /\ c.stage = "broadcast" /\ c.result = calls[t].result
  BY <1>3, TxTypes DEF Call, TxInv, ClientOk
<1> HIDE DEF c
<1> QED
  BY <1>3, <1>4, <1>5, CallStepKeeps DEF Call, nodeVars

(* The node accepts the transaction.                                       *)
LEMMA BroadcastKeeps == ASSUME TxInv, NEW t \in Txs, Broadcast(t) PROVE TxInv'
<1> DEFINE c == [calls[t] EXCEPT !.stage = "register"]
<1>1. c \in [stage : Stages, submit : 0..MaxHeight,
             timeout : TimeoutHeights \cup {0}, result : Results]
  BY TxTypes DEF Stages
<1>2. calls' = [calls EXCEPT ![t] = c]
  BY DEF Broadcast, TxInv, TxcTypeOK
<1>3. /\ calls[t].stage = "broadcast" /\ calls[t].result = "none" /\ c.stage = "register"
      /\ c.result = calls[t].result /\ c.timeout = calls[t].timeout
  BY <1>1, TxTypes DEF Broadcast, TxInv, ClientOk
<1> HIDE DEF c
<1> QED
  BY <1>1, <1>2, <1>3, CallStepKeeps DEF Broadcast

(* The node refuses the transaction, and the call fails at once.           *)
LEMMA RefusedKeeps == ASSUME TxInv, NEW t \in Txs, BroadcastRefused(t) PROVE TxInv'
<1> DEFINE c == [calls[t] EXCEPT !.stage = "done", !.result = "refused"]
<1>1. c \in [stage : Stages, submit : 0..MaxHeight,
             timeout : TimeoutHeights \cup {0}, result : Results]
  BY TxTypes DEF Stages, Results
<1>2. calls' = [calls EXCEPT ![t] = c]
  BY DEF BroadcastRefused, Returned, TxInv, TxcTypeOK
<1>3. /\ calls[t].stage = "broadcast" /\ c.stage = "done" /\ c.result = "refused"
      /\ c.timeout = calls[t].timeout
  BY <1>1, TxTypes DEF BroadcastRefused
<1> HIDE DEF c
<1> QED
  BY <1>1, <1>2, <1>3, CallStepKeeps DEF BroadcastRefused, nodeVars

(* The caller takes the answer from the transaction's channel.             *)
LEMMA ReturnKeeps == ASSUME TxInv, NEW t \in Txs, Return(t) PROVE TxInv'
<1> DEFINE r == IF channels[t] = "error" THEN "timed out" ELSE "ok"
           c == [calls[t] EXCEPT !.stage = "done", !.result = r]
<1>1. c \in [stage : Stages, submit : 0..MaxHeight,
             timeout : TimeoutHeights \cup {0}, result : Results]
  BY TxTypes DEF Stages, Results
<1>2. calls' = [calls EXCEPT ![t] = c]
  BY DEF Return, Returned, TxInv, TxcTypeOK
<1>3. /\ calls[t].stage = "wait" /\ c.stage = "done" /\ c.result = r
      /\ c.timeout = calls[t].timeout
  BY <1>1, TxTypes DEF Return
<1>4. channels[t] = "closed" => r = "ok"
  OBVIOUS
<1>5. channels[t] = "error" => r = "timed out"
  OBVIOUS
<1>6. channels[t] \in {"closed", "error"}
  BY DEF Return
<1> HIDE DEF c, r
<1> QED
  BY <1>1, <1>2, <1>3, <1>4, <1>5, <1>6, CallStepKeeps DEF Return, nodeVars

(* The call opens its channel and enters the pool of its height.           *)
LEMMA RegisterKeeps == ASSUME TxInv, NEW t \in Txs, addPendingTransactions(t) PROVE TxInv'
<1> DEFINE e == [tx |-> t, at |-> ExpirationHeight(t)]
           c == [calls[t] EXCEPT !.stage = "wait"]
<1>1. /\ calls[t].stage = "register" /\ calls' = [calls EXCEPT ![t] = c]
      /\ timeoutPool' = timeoutPool \cup {e} /\ errorChans' = errorChans \cup {t}
      /\ resends' = [resends EXCEPT ![t] = 0] /\ channels' = [channels EXCEPT ![t] = "open"]
      /\ UNCHANGED <<height, mempool, committed, faults, events, seen, timingOut, wave>>
  BY DEF addPendingTransactions, nodeVars, TxInv, TxcTypeOK
<1>2. c \in [stage : Stages, submit : 0..MaxHeight,
             timeout : TimeoutHeights \cup {0}, result : Results]
  BY TxTypes DEF Stages
<1>3. e \in [tx : Txs, at : Nat]
  BY TxTypes DEF ExpirationHeight
<1>4. /\ calls'[t] = c /\ c.stage = "wait" /\ c.timeout = calls[t].timeout
      /\ c.result = calls[t].result /\ \A u \in Txs \ {t} : calls'[u] = calls[u]
      /\ channels'[t] = "open" /\ \A u \in Txs \ {t} : channels'[u] = channels[u]
      /\ resends'[t] = 0 /\ \A u \in Txs \ {t} : resends'[u] = resends[u]
  BY <1>1, TxTypes DEF TxInv, TxcTypeOK
<1>5. /\ calls' \in [Txs -> [stage : Stages, submit : 0..MaxHeight,
                             timeout : TimeoutHeights \cup {0}, result : Results]]
      /\ resends' \in [Txs -> NotTracked..maxTxRebroadcasts]
      /\ channels' \in [Txs -> {"none", "open", "closed", "error"}]
  <2> HIDE DEF c
  <2> QED
    BY <1>1, <1>2 DEF TxInv, TxcTypeOK, NotTracked, maxTxRebroadcasts
<1>6. TxcTypeOK'
  <2> HIDE DEF e
  <2> QED
    BY <1>1, <1>3, <1>5 DEF TxInv, TxcTypeOK
<1>7. \A u \in Txs : TimeoutHeight(u)' = TimeoutHeight(u)
  BY <1>4 DEF TimeoutHeight
<1>8. e.tx = t /\ e.at = ExpirationHeight(t) /\ ~ Tracked(t)
  BY <1>1 DEF TxInv, ClientOk
<1> HIDE DEF c, e
<1>9. PendingTxsHaveOpenChannels'
  BY <1>1, <1>4, <1>8 DEF TxInv, PendingTxsHaveOpenChannels, Tracked, TxcTypeOK
<1>10. EntriesOk'
  BY <1>1, <1>7, <1>8 DEF TxInv, EntriesOk, ExpirationHeight, TxcTypeOK
<1>11. ASSUME NEW u \in Txs
       PROVE  NodeOk(u)' /\ ClientOk(u)'
  <2>1. NodeOk(u) /\ ClientOk(u)
    BY DEF TxInv
  <2>2. InBlock(u)' = InBlock(u) /\ Failed(u)' = Failed(u)
    BY <1>1, <1>7 DEF InBlock, Failed
  <2>3. NodeOk(u)'
    BY <1>1, <1>4, <1>7, <2>1, <2>2 DEF NodeOk
  <2>4. CASE u # t
    <3>1. Tracked(u)' = Tracked(u)
      BY <1>1, <1>8, <2>4 DEF Tracked
    <3>2. calls'[u] = calls[u] /\ channels'[u] = channels[u] /\ resends'[u] = resends[u]
      BY <1>4, <2>4
    <3> QED
      BY <1>1, <2>1, <2>2, <2>3, <3>1, <3>2 DEF ClientOk
  <2>5. CASE u = t
    <3>1. /\ calls'[u].stage = "wait" /\ calls'[u].result = "none" /\ channels'[u] = "open"
      BY <1>1, <1>4, <2>1, <2>5 DEF ClientOk
    <3> QED
      BY <2>3, <3>1 DEF ClientOk
  <2> QED
    BY <2>3, <2>4, <2>5
<1> QED
  BY <1>6, <1>9, <1>10, <1>11 DEF TxInv

-----------------------------------------------------------------------------
(* The goroutine per transaction and the goroutine per block.              *)

(* The maps after the transactions of a set have been answered: each is    *)
(* out of the timeout pool and of the rebroadcast pool, and its channel    *)
(* says the truth.                                                         *)
LEMMA AnswerKeeps ==
    ASSUME TxInv, NEW txs \in SUBSET Txs, \A t \in txs : Tracked(t),
           timeoutPool' = {entry \in timeoutPool : entry.tx \notin txs},
           errorChans' \subseteq errorChans, \A t \in errorChans \ errorChans' : t \in txs,
           channels' \in [Txs -> {"none", "open", "closed", "error"}],
           \A t \in Txs \ txs : channels'[t] = channels[t],
           \A t \in txs : \/ channels'[t] = "closed" /\ InBlock(t)
                          \/ channels'[t] = "error" /\ Failed(t),
           resends' = Forgotten(txs),
           events' \subseteq events, timingOut' \in BOOLEAN,
           UNCHANGED <<height, mempool, committed, faults, seen, calls, wave>>
    PROVE  TxInv'
<1>1. \A t \in Txs : resends'[t] = IF t \in txs THEN NotTracked ELSE resends[t]
  BY DEF Forgotten
<1>2. resends' \in [Txs -> NotTracked..maxTxRebroadcasts]
  BY <1>1 DEF Forgotten, TxInv, TxcTypeOK, NotTracked, maxTxRebroadcasts
<1>3. TxcTypeOK'
  BY <1>2 DEF TxInv, TxcTypeOK
<1>4. \A t \in Txs : Tracked(t)' <=> Tracked(t) /\ t \notin txs
  BY DEF Tracked
<1>5. PendingTxsHaveOpenChannels'
  <2>1. ASSUME NEW entry \in timeoutPool'
        PROVE  entry.tx \in errorChans' /\ channels'[entry.tx] = "open"
    <3>1. entry \in timeoutPool /\ entry.tx \notin txs /\ entry.tx \in Txs
      BY DEF TxInv, TxcTypeOK
    <3> QED
      BY <3>1 DEF TxInv, PendingTxsHaveOpenChannels
  <2>2. \A t \in Txs : resends'[t] # NotTracked => Tracked(t)'
    BY <1>1, <1>4 DEF TxInv, PendingTxsHaveOpenChannels
  <2> QED
    BY <2>1, <2>2 DEF PendingTxsHaveOpenChannels
<1>6. EntriesOk'
  BY DEF TxInv, EntriesOk, ExpirationHeight, TimeoutHeight
<1>7. ASSUME NEW t \in Txs
      PROVE  NodeOk(t)' /\ ClientOk(t)'
  <2>1. NodeOk(t) /\ ClientOk(t)
    BY DEF TxInv
  <2>2. InBlock(t)' = InBlock(t) /\ Failed(t)' = Failed(t)
    BY DEF InBlock, Failed, TimeoutHeight
  <2>3. NodeOk(t)'
    BY <2>1, <2>2 DEF NodeOk, TimeoutHeight
  <2>4. CASE t \in txs
    <3>1. calls[t].stage \notin {"idle", "broadcast", "register"}
      BY <2>1, <2>4 DEF ClientOk
    <3> QED
      BY <2>1, <2>2, <2>3, <2>4, <3>1 DEF ClientOk
  <2>5. CASE t \notin txs
    BY <1>1, <1>4, <2>1, <2>2, <2>3, <2>5 DEF ClientOk
  <2> QED
    BY <2>4, <2>5
<1> QED
  BY <1>3, <1>5, <1>6, <1>7 DEF TxInv

(* The event of a transaction answers the call it finds pending.           *)
LEMMA TxEventKeeps == ASSUME TxInv, NEW t \in Txs, TxEvent(t) PROVE TxInv'
<1>1. InBlock(t) /\ timingOut \in BOOLEAN
  BY DEF TxEvent, TxInv, NodeOk, TxcTypeOK
<1>2. CASE Tracked(t)
  <2>1. /\ timeoutPool' = {entry \in timeoutPool : entry.tx \notin {t}}
        /\ errorChans' = errorChans \ {t} /\ resends' = Forgotten({t})
        /\ channels' = [channels EXCEPT ![t] = "closed"] /\ events' = events \ {t}
        /\ UNCHANGED <<height, mempool, committed, faults, seen, calls, wave, timingOut>>
    BY <1>2 DEF TxEvent, PoolWithout, nodeVars
  <2>2. /\ channels' \in [Txs -> {"none", "open", "closed", "error"}]
        /\ channels'[t] = "closed" /\ \A u \in Txs \ {t} : channels'[u] = channels[u]
    BY <2>1 DEF TxInv, TxcTypeOK
  <2> QED
    BY <1>1, <1>2, <2>1, <2>2, AnswerKeeps
<1>3. CASE ~ Tracked(t)
  <2>1. /\ events' \subseteq events
        /\ UNCHANGED <<height, mempool, committed, faults, seen, calls, wave, timingOut,
                       timeoutPool, errorChans, resends, channels>>
    BY <1>3 DEF TxEvent, nodeVars, poolVars
  <2>2. faults' \in 0..MaxFaults /\ mempool' \subseteq Txs /\ mempool' \ mempool = {}
    BY <2>1 DEF TxInv, TxcTypeOK
  <2> QED
    BY <2>1, <2>2, MempoolStepKeeps
<1> QED
  BY <1>2, <1>3

(* By the time an entry of the timeout pool comes up, what becomes of its  *)
(* transaction is settled and can be looked up.                            *)
LEMMA TimeoutTxsKeeps == ASSUME TxInv, TimeoutTxs PROVE TxInv'
<1> DEFINE entries == {entry \in timeoutPool : entry.at = seen}
           txs == {entry.tx : entry \in entries}
<1>1. /\ timingOut' = FALSE /\ timeoutPool' = timeoutPool \ entries
      /\ channels' = Answered(txs) /\ resends' = Forgotten(txs)
      /\ UNCHANGED <<height, mempool, committed, faults, events, seen, calls, errorChans, wave>>
  BY DEF TimeoutTxs, nodeVars
<1>2. txs \in SUBSET Txs /\ \A t \in txs : Tracked(t) /\ ExpirationHeight(t) = seen
  BY DEF TxInv, TxcTypeOK, EntriesOk, Tracked
<1>3. timeoutPool' = {entry \in timeoutPool : entry.tx \notin txs}
  <2>1. \A entry \in timeoutPool : entry \in entries <=> entry.tx \in txs
    BY DEF TxInv, EntriesOk
  <2> HIDE DEF entries, txs
  <2> QED
    BY <1>1, <2>1
<1> HIDE DEF txs, entries
<1>4. \A t \in Txs :
         channels'[t] = IF t \notin txs THEN channels[t]
                        ELSE IF FoundInBlock(t) THEN "closed" ELSE "error"
  BY <1>1 DEF Answered
<1>5. channels' \in [Txs -> {"none", "open", "closed", "error"}]
  BY <1>1, <1>4 DEF Answered, TxInv, TxcTypeOK
<1>6. ASSUME NEW t \in txs
      PROVE  FoundInBlock(t) \/ Failed(t)
  <2>1. t \in Txs /\ TimeoutHeight(t) + 1 = seen
    BY <1>2 DEF ExpirationHeight
  <2>2. seen \in Int /\ seen <= height
    BY DEF TxInv, TxcTypeOK
  <2>3. height > TimeoutHeight(t)
    BY <2>1, <2>2, TxTypes
  <2>4. InBlock(t) => committed[t].height < height
    BY <2>1, <2>3, TxTypes DEF TxInv, NodeOk
  <2> QED
    BY <2>3, <2>4 DEF FoundInBlock, Failed
<1>7. \A t \in txs : \/ channels'[t] = "closed" /\ InBlock(t)
                     \/ channels'[t] = "error" /\ Failed(t)
  BY <1>2, <1>4, <1>6 DEF FoundInBlock
<1> QED
  BY <1>1, <1>2, <1>3, <1>4, <1>5, <1>7, AnswerKeeps

(* A block event, late or repeated, starts the round of time-outs.         *)
LEMMA ReceiveKeeps ==
    ASSUME TxInv, NEW h, h \in 0..height, faults' \in 0..MaxFaults, Receive(h)
    PROVE  TxInv'
<1>1. /\ seen' = h /\ timingOut' = TRUE
      /\ UNCHANGED <<height, mempool, committed, events, calls, timeoutPool, errorChans,
                     channels>>
  BY DEF Receive, nodeVars
<1>2. /\ wave' \subseteq Txs /\ resends' \in [Txs -> NotTracked..maxTxRebroadcasts]
      /\ \A t \in Txs : resends'[t] # NotTracked => resends[t] # NotTracked
      /\ \A t \in wave' : t \in wave \/ resends[t] # NotTracked
  <2>1. CASE wave # {}
    BY <2>1 DEF Receive, TxInv, TxcTypeOK
  <2>2. CASE wave = {}
    <3>1. PICK jitter \in [Txs -> UNION {Jitters(t) : t \in Txs}] :
             /\ wave' = {t \in Txs : IsDue(t, h, jitter[t])}
             /\ resends' = [t \in Txs |->
                   CASE t \in wave' -> resends[t] + 1
                     [] Expired(t, h) -> NotTracked
                     [] OTHER -> resends[t]]
      BY <2>2 DEF Receive
    <3>2. \A t \in wave' : t \in Txs /\ resends[t] \in 0..1
      BY <3>1 DEF IsDue, maxTxRebroadcasts
    <3>3. ASSUME NEW t \in Txs
          PROVE  /\ resends'[t] \in NotTracked..maxTxRebroadcasts
                 /\ resends'[t] # NotTracked => resends[t] # NotTracked
      <4>1. resends[t] \in -1..2
        BY DEF TxInv, TxcTypeOK, NotTracked, maxTxRebroadcasts
      <4>2. CASE t \in wave'
        BY <3>1, <3>2, <4>1, <4>2 DEF NotTracked, maxTxRebroadcasts
      <4>3. CASE t \notin wave' /\ Expired(t, h)
        BY <3>1, <4>3 DEF NotTracked, maxTxRebroadcasts
      <4>4. CASE t \notin wave' /\ ~ Expired(t, h)
        BY <3>1, <4>1, <4>4 DEF NotTracked, maxTxRebroadcasts
      <4> QED
        BY <4>2, <4>3, <4>4
    <3> QED
      BY <3>1, <3>2, <3>3 DEF NotTracked
  <2> QED
    BY <2>1, <2>2
<1>3. TxcTypeOK'
  BY <1>1, <1>2 DEF TxInv, TxcTypeOK
<1>4. PendingTxsHaveOpenChannels' /\ EntriesOk'
  BY <1>1, <1>2 DEF TxInv, PendingTxsHaveOpenChannels, EntriesOk, Tracked, ExpirationHeight,
                    TimeoutHeight
<1>5. ASSUME NEW t \in Txs
      PROVE  NodeOk(t)' /\ ClientOk(t)'
  <2>1. NodeOk(t) /\ ClientOk(t)
    BY DEF TxInv
  <2>2. NodeOk(t)'
    BY <1>1, <2>1 DEF NodeOk, InBlock, TimeoutHeight
  <2>3. ClientOk(t)'
    BY <1>1, <1>2, <2>1 DEF ClientOk, InBlock, Failed, Tracked, TimeoutHeight
  <2> QED
    BY <2>2, <2>3
<1> QED
  BY <1>3, <1>4, <1>5 DEF TxInv

-----------------------------------------------------------------------------
(* Results. *)

(* Every step keeps the invariant.                                         *)
LEMMA TxStepKeeps == TxInv /\ [TxcNext]_txcVars => TxInv'
<1> SUFFICES ASSUME TxInv, [TxcNext]_txcVars
             PROVE  TxInv'
  OBVIOUS
<1>1. /\ height \in Nat /\ seen \in 0..height /\ faults \in 0..MaxFaults
  BY TxClientAssumption DEF TxInv, TxcTypeOK
<1>2. CASE ObserveBlock
  <2>1. seen + 1 \in 0..height /\ faults' \in 0..MaxFaults /\ Receive(seen + 1)
    BY <1>1, <1>2 DEF ObserveBlock
  <2> QED
    BY <2>1, ReceiveKeeps
<1>3. CASE MissBlocks
  <2>1. height \in 0..height /\ faults' \in 0..MaxFaults /\ Receive(height)
    BY <1>1, <1>3, TxClientAssumption DEF MissBlocks
  <2> QED
    BY <2>1, ReceiveKeeps
<1>4. CASE UNCHANGED txcVars
  <2>1. UNCHANGED <<height, mempool, committed, faults, events, seen, timingOut, calls,
                    timeoutPool, errorChans, resends, channels, wave>>
    BY <1>4 DEF txcVars, nodeVars, poolVars
  <2>2. mempool' \subseteq Txs /\ mempool' \ mempool = {}
    BY <2>1 DEF TxInv, TxcTypeOK
  <2> QED
    BY <1>1, <2>1, <2>2, MempoolStepKeeps
<1>5. ASSUME NEW t \in Txs,
             \/ Evict(t) \/ Call(t) \/ Broadcast(t) \/ BroadcastUnanswered(t)
             \/ BroadcastRefused(t) \/ addPendingTransactions(t) \/ Return(t)
             \/ TxEvent(t) \/ EventIsLost(t) \/ Resend(t)
      PROVE  TxInv'
  BY <1>5, NodeStepKeeps, CallKeeps, BroadcastKeeps, RefusedKeeps, RegisterKeeps,
     ReturnKeeps, TxEventKeeps
<1> QED
  BY <1>2, <1>3, <1>4, <1>5, CommitBlockKeeps, TimeoutTxsKeeps DEF TxcNext

(* The node, the call and the two goroutines keep TxInv in every           *)
(* interleaving, with responses, events and blocks lost at any point.      *)
THEOREM TxClientInvariance == TxcSpec => []TxInv
BY TxInitInv, TxStepKeeps, PTL DEF TxcSpec

(* The client's maps and the node keep their types.                        *)
THEOREM TxClientTypes == TxcSpec => []TxcTypeOK
<1>1. TxInv => TxcTypeOK
  BY DEF TxInv
<1> QED
  BY <1>1, TxClientInvariance, PTL

(* No event finds a transaction without its channel, no channel is closed  *)
(* twice, and nothing is sent again that is not waited for: the two panics *)
(* of goSubscribeToOwnTxs cannot happen, however late an event is.         *)
THEOREM PendingTxsAreOpen == TxcSpec => []PendingTxsHaveOpenChannels
<1>1. TxInv => PendingTxsHaveOpenChannels
  BY DEF TxInv
<1> QED
  BY <1>1, TxClientInvariance, PTL

(* A call that reports a timeout is right for good: the transaction is in  *)
(* no block as a success, not in the mempool, and the node will not take   *)
(* it again; one that reports success is in a block.                       *)
THEOREM FinalAnswers == TxcSpec => []AnswersAreFinal
<1>1. ASSUME TxInv, NEW t \in Txs
      PROVE  /\ calls[t].result = "timed out" =>
                   ~ (InBlock(t) /\ ~ committed[t].failed) /\ t \notin mempool /\ ~ Accepts(t)
             /\ calls[t].result = "ok" => InBlock(t)
  <2>1. NodeOk(t) /\ ClientOk(t)
    BY <1>1 DEF TxInv
  <2>2. height \in Nat /\ TimeoutHeight(t) \in Nat
    BY <1>1, TxTypes
  <2>3. calls[t].result = "ok" => InBlock(t)
    BY <2>1 DEF ClientOk
  <2>4. ASSUME calls[t].result = "timed out"
        PROVE  ~ (InBlock(t) /\ ~ committed[t].failed) /\ t \notin mempool /\ ~ Accepts(t)
    <3>1. Failed(t)
      BY <2>1, <2>4 DEF ClientOk
    <3> QED
      BY <2>1, <2>2, <3>1 DEF NodeOk, Failed, Accepts
  <2> QED
    BY <2>3, <2>4
<1>2. TxInv => AnswersAreFinal
  BY <1>1 DEF AnswersAreFinal
<1> QED
  BY <1>2, TxClientInvariance, PTL
=============================================================================
