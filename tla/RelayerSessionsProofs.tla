----------------------- MODULE RelayerSessionsProofs -----------------------
(***************************************************************************)
(* What the relay miner keeps of its sessions, for any sessions, windows   *)
(* and relays, and any number of stops and crashes: a claim can be proven  *)
(* until its proof is sent, and a proof is of what was claimed, unless one *)
(* of the mishaps came between.                                            *)
(***************************************************************************)
EXTENDS RelayerSessions, TLAPS

Tree == [relays : SUBSET Relays, root : Roots, claiming : BOOLEAN, live : BOOLEAN]
Log == [exists : BOOLEAN, relays : SUBSET Relays, torn : BOOLEAN]

RsTypes ==
    /\ height \in 0..MaxHeight /\ running \in BOOLEAN /\ faults \in 0..MaxFaults
    /\ tree \in [Sessions -> Tree] /\ log \in [Sessions -> Log]
    /\ stage \in [Sessions -> Stages] /\ metadata \in SUBSET Sessions
    /\ mined \in [Sessions -> SUBSET Relays]
    /\ buffered \in [Sessions -> SUBSET Relays] /\ queued \in [Sessions -> SUBSET Relays]
    /\ claim \in [Sessions -> Roots] /\ proof \in [Sessions -> Roots]
    /\ claimTxs \in [Sessions -> SUBSET Roots] /\ proofTxs \in [Sessions -> SUBSET Roots]
    /\ mishaps \in [Sessions -> SUBSET Mishaps]

(* Nothing but giving up happened to s.                                    *)
Clean(s) == mishaps[s] \subseteq {"gaveUp"}

(* How far a session is, in memory and on chain.                           *)
StagesOk(s) ==
    /\ ~ tree[s].live => tree[s] = NoTree
    /\ stage[s] \in InPipeline \cup {"claiming"} => tree[s].live /\ tree[s].claiming
    /\ stage[s] \in InPipeline => tree[s].root # NoRoot
    /\ ~ running => tree[s] = NoTree /\ stage[s] = "idle" /\ Unwritten(s) = {}
    /\ claim[s] # NoRoot => Window[s].claimOpen < height
    /\ proof[s] # NoRoot => claim[s] # NoRoot
    /\ NoRoot \notin claimTxs[s] /\ NoRoot \notin proofTxs[s]
    /\ proofTxs[s] # {} =>
          /\ Window[s].proofOpen <= height
          /\ height <= Window[s].claimClose => stage[s] \notin {"claiming", "flushed", "claimTx"}
    /\ stage[s] = "proofTx" => Root(tree[s].relays) \in proofTxs[s] \/ proof[s] # NoRoot

(* The tree is in the log, or on its way there.                            *)
LogOk(s) ==
    Clean(s) =>
    /\ running /\ tree[s].live =>
          s \in metadata /\ Importable(s) /\ log[s].relays \cup Unwritten(s) = tree[s].relays
    /\ running /\ ~ tree[s].live => log[s] = NoLog /\ Unwritten(s) = {}
    /\ ~ running /\ s \notin metadata => log[s] = NoLog

(* The claim and the proofs are of the tree, or of what its log has.       *)
ClaimOk(s) ==
    Clean(s) =>
    /\ tree[s].root # NoRoot => tree[s].root = Root(tree[s].relays)
    /\ claimTxs[s] # {} =>
          /\ claim[s] = NoRoot
          /\ height <= Window[s].claimClose =>
                stage[s] = "claimTx" /\ claimTxs[s] = {tree[s].root}
    /\ claim[s] # NoRoot =>
          /\ tree[s].live =>
                tree[s].root = claim[s] /\ stage[s] \in {"claimTx", "claimed", "proofTx"}
          /\ ~ running /\ s \in metadata /\ Importable(s) => Root(log[s].relays) = claim[s]
          /\ \A root \in proofTxs[s] : root = claim[s]
    /\ proof[s] # NoRoot => proof[s] = claim[s]

(* A claim that is yet to be proven has its tree, or its log.              *)
KeptOk(s) ==
    mishaps[s] = {} /\ claim[s] # NoRoot /\ proof[s] = NoRoot /\ proofTxs[s] = {}
      /\ height <= Window[s].proofClose =>
    IF running THEN stage[s] \in {"claimTx", "claimed"} ELSE s \in metadata /\ Importable(s)

SessionOk(s) == StagesOk(s) /\ LogOk(s) /\ ClaimOk(s) /\ KeptOk(s)

(* The inductive invariant.                                                *)
RsInv == RsTypes /\ \A s \in Sessions : SessionOk(s)

-----------------------------------------------------------------------------
(* No tree has the root a session has before it is flushed or claimed.     *)
LEMMA RootIsSomething ==
    /\ \A relays : Root(relays) # NoRoot
    /\ \A relays \in SUBSET Relays : Root(relays) \in Roots
    /\ NoRoot \in Roots
<1>1. ASSUME NEW relays
      PROVE  Root(relays) # NoRoot
  <2>1. DOMAIN Root(relays) = {"relays"} /\ DOMAIN NoRoot = {"none"}
    BY DEF Root, NoRoot
  <2> QED
    BY <2>1
<1> QED
  BY <1>1 DEF Roots

(* What the windows and the invariant say of one session.                  *)
Known(s) ==
    /\ tree[s] \in Tree /\ log[s] \in Log /\ stage[s] \in Stages
    /\ buffered[s] \in SUBSET Relays /\ queued[s] \in SUBSET Relays
    /\ claim[s] \in Roots /\ proof[s] \in Roots
    /\ claimTxs[s] \in SUBSET Roots /\ proofTxs[s] \in SUBSET Roots
    /\ mishaps[s] \in SUBSET Mishaps
    /\ running \in BOOLEAN /\ height \in Nat
    /\ Window[s].claimOpen \in Nat /\ Window[s].claimClose \in Nat
    /\ Window[s].proofOpen \in Nat /\ Window[s].proofClose \in Nat
    /\ Window[s].claimOpen < Window[s].claimClose
    /\ Window[s].claimClose <= Window[s].proofOpen
    /\ Window[s].proofOpen < Window[s].proofClose

(* The invariant holds of every session, and its window is in order.       *)
LEMMA OneSession ==
    ASSUME RsInv, NEW s \in Sessions
    PROVE  Known(s) /\ SessionOk(s)
BY RelayerSessionsAssumption DEF RsInv, RsTypes, Known

(* What a step makes of one session.                                       *)
Becomes(s, t, b, q, st, l, c, p, ct, pt, m) ==
    /\ tree'[s] = t /\ buffered'[s] = b /\ queued'[s] = q /\ stage'[s] = st /\ log'[s] = l
    /\ claim'[s] = c /\ proof'[s] = p /\ claimTxs'[s] = ct /\ proofTxs'[s] = pt
    /\ mishaps'[s] = m /\ height' = height /\ running' = running

(* What a step of one session leaves alone.                                *)
Elsewhere(s) ==
    /\ height' = height /\ running' = running
    /\ \A q \in Sessions \ {s} :
          /\ tree'[q] = tree[q] /\ buffered'[q] = buffered[q] /\ queued'[q] = queued[q]
          /\ stage'[q] = stage[q] /\ log'[q] = log[q] /\ (q \in metadata' <=> q \in metadata)
          /\ claim'[q] = claim[q] /\ proof'[q] = proof[q]
          /\ claimTxs'[q] = claimTxs[q] /\ proofTxs'[q] = proofTxs[q]
          /\ mishaps'[q] = mishaps[q]

(* A step of one session keeps the others.                                 *)
LEMMA SessionStepKeeps ==
    ASSUME RsInv, NEW s \in Sessions, Elsewhere(s), RsTypes', SessionOk(s)'
    PROVE  RsInv'
<1>1. ASSUME NEW q \in Sessions \ {s}
      PROVE  SessionOk(q)'
  <2>1. SessionOk(q)
    BY DEF RsInv
  <2>2. StagesOk(q)'
    BY <2>1 DEF SessionOk, StagesOk, Elsewhere, Unwritten
  <2>3. LogOk(q)'
    BY <2>1 DEF SessionOk, LogOk, Elsewhere, Unwritten, Importable, Clean
  <2>4. ClaimOk(q)'
    BY <2>1 DEF SessionOk, ClaimOk, Elsewhere, Importable, Clean
  <2>5. KeptOk(q)'
    BY <2>1 DEF SessionOk, KeptOk, Elsewhere, Importable
  <2> QED
    BY <2>2, <2>3, <2>4, <2>5 DEF SessionOk
<1> QED
  BY <1>1 DEF RsInv

-----------------------------------------------------------------------------
(* Relays.                                                                 *)

(* mapAddMinedRelayToSessionTree.                                          *)
LEMMA MineKeeps ==
    ASSUME RsInv, NEW s \in Sessions, NEW r \in Relays, MineRelay(s, r)
    PROVE  RsInv'
<1>1. Known(s) /\ SessionOk(s)
  BY OneSession
<1>2. /\ running /\ height <= Window[s].claimOpen /\ r \in Relays
      /\ (s \in metadata' <=> s \in metadata \/ ~ tree[s].live)
      /\ Becomes(s, Updated(s, r),
                 (IF tree[s].root # NoRoot THEN buffered[s] ELSE buffered[s] \cup {r}),
                 queued[s], stage[s],
                 (IF tree[s].live THEN log[s] ELSE [log[s] EXCEPT !.exists = TRUE]),
                 claim[s], proof[s], claimTxs[s], proofTxs[s], mishaps[s])
  BY DEF RsInv, RsTypes, Becomes, MineRelay, Updated, memory, disk, chain
<1>3. RsTypes'
  <2>1. /\ Updated(s, r) \in Tree
        /\ [log[s] EXCEPT !.exists = TRUE] \in Log
    BY <1>1 DEF Known, Updated, Tree, Log
  <2> QED
    BY <1>1, <1>2, <2>1, ZenonT(30)
      DEF RsInv, RsTypes, Known, Log, MineRelay, memory, disk, chain
<1>4. Elsewhere(s)
  BY DEF RsInv, RsTypes, Elsewhere, MineRelay, memory, disk, chain
<1>5. CASE tree[s].root # NoRoot
  <2>1. /\ Becomes(s, tree[s], buffered[s], queued[s], stage[s], log[s],
                  claim[s], proof[s], claimTxs[s], proofTxs[s], mishaps[s])
        /\ tree[s].live /\ (s \in metadata' <=> s \in metadata)
    BY <1>1, <1>2, <1>5 DEF Becomes, Updated, SessionOk, StagesOk, NoTree
  <2>2. SessionOk(s)'
    BY <1>1, <2>1
      DEF Becomes, SessionOk, StagesOk, LogOk, ClaimOk, KeptOk, Importable, Unwritten, Clean
  <2> QED
    BY <1>3, <1>4, <2>2, SessionStepKeeps
<1>6. CASE tree[s].root = NoRoot
  <2> DEFINE t == [tree[s] EXCEPT !.relays = @ \cup {r}, !.live = TRUE]
             l == [log[s] EXCEPT !.exists = TRUE]
  <2>1. /\ t.relays = tree[s].relays \cup {r} /\ t.live /\ t.root = NoRoot
        /\ t.claiming = tree[s].claiming
        /\ l.exists /\ l.relays = log[s].relays /\ l.torn = log[s].torn
    BY <1>1, <1>6 DEF Known, Tree, Log
  <2>2. /\ tree'[s] = t /\ buffered'[s] = buffered[s] \cup {r} /\ queued'[s] = queued[s]
        /\ log'[s] = IF tree[s].live THEN log[s] ELSE l
        /\ stage'[s] = stage[s] /\ claim'[s] = claim[s] /\ proof'[s] = proof[s]
        /\ claimTxs'[s] = claimTxs[s] /\ proofTxs'[s] = proofTxs[s]
        /\ mishaps'[s] = mishaps[s] /\ height' = height /\ running' = running
        /\ running /\ height <= Window[s].claimOpen
        /\ (s \in metadata' <=> s \in metadata \/ ~ tree[s].live)
    BY <1>2, <1>6 DEF Becomes, Updated
  <2> HIDE DEF t, l
  <2>3. claim[s] = NoRoot
    BY <1>1, <2>2 DEF Known, SessionOk, StagesOk
  <2>4. StagesOk(s)'
    BY <1>1, <1>6, <2>1, <2>2, <2>3 DEF Known, SessionOk, StagesOk, InPipeline, Unwritten
  <2>5. LogOk(s)'
    <3> SUFFICES ASSUME Clean(s)
                 PROVE  /\ s \in metadata' /\ Importable(s)'
                        /\ (log[s].relays \cup Unwritten(s) = tree[s].relays)'
      BY <2>1, <2>2 DEF LogOk, Clean
    <3>1. CASE tree[s].live
      BY <1>1, <2>1, <2>2, <3>1 DEF SessionOk, LogOk, Importable, Unwritten
    <3>2. CASE ~ tree[s].live
      <4>1. log[s] = NoLog /\ Unwritten(s) = {} /\ tree[s] = NoTree
        BY <1>1, <2>2, <3>2 DEF SessionOk, StagesOk, LogOk
      <4>2. /\ log[s].relays = {} /\ ~ log[s].torn /\ tree[s].relays = {}
            /\ buffered[s] = {} /\ queued[s] = {}
        BY <4>1 DEF Unwritten, NoLog, NoTree
      <4>3. log'[s].relays = {} /\ Unwritten(s)' = {r} /\ tree'[s].relays = {r}
        BY <2>1, <2>2, <3>2, <4>2 DEF Unwritten
      <4>4. s \in metadata' /\ Importable(s)'
        BY <2>1, <2>2, <3>2, <4>2 DEF Importable
      <4> QED
        BY <4>3, <4>4
    <3> QED
      BY <3>1, <3>2
  <2>6. ClaimOk(s)'
    BY <1>1, <1>6, <2>1, <2>2, <2>3 DEF SessionOk, ClaimOk, Clean, Known, StagesOk
  <2>7. KeptOk(s)'
    BY <2>2, <2>3 DEF KeptOk
  <2> QED
    BY <1>3, <1>4, <2>4, <2>5, <2>6, <2>7, SessionStepKeeps DEF SessionOk
<1> QED
  BY <1>5, <1>6

(* flushBufferToDisk.                                                      *)
LEMMA FlushBufferKeeps ==
    ASSUME RsInv, NEW s \in Sessions, FlushBuffer(s)
    PROVE  RsInv'
<1>1. Known(s) /\ SessionOk(s)
  BY OneSession
<1>2. /\ (s \in metadata' <=> s \in metadata)
      /\ Becomes(s, tree[s], {}, queued[s] \cup buffered[s], stage[s], log[s],
                 claim[s], proof[s], claimTxs[s], proofTxs[s], mishaps[s])
  BY DEF RsInv, RsTypes, Becomes, FlushBuffer, memory, disk, chain
<1>3. RsTypes'
  BY <1>1, RootIsSomething
    DEF RsInv, RsTypes, Known, Tree, Log, FlushBuffer, memory, disk, chain
<1>4. Elsewhere(s)
  BY DEF RsInv, RsTypes, Elsewhere, FlushBuffer, memory, disk, chain
<1>5. StagesOk(s)'
  BY <1>1, <1>2, RootIsSomething
    DEF Becomes, Known, SessionOk, StagesOk, InPipeline, Unwritten, Tree, NoTree
<1>6. LogOk(s)'
  BY <1>1, <1>2, RootIsSomething
    DEF Becomes, Known, SessionOk, LogOk, StagesOk, Unwritten, Importable, Clean, Tree, Log,
        NoTree, NoLog
<1>7. ClaimOk(s)'
  BY <1>1, <1>2, RootIsSomething
    DEF Becomes, Known, SessionOk, ClaimOk, StagesOk, LogOk, Importable, Clean, Tree,
        NoTree, InPipeline
<1>8. KeptOk(s)'
  BY <1>1, <1>2, RootIsSomething
    DEF Becomes, Known, SessionOk, KeptOk, StagesOk, ClaimOk, LogOk, Importable, Clean
<1> QED
  BY <1>3, <1>4, <1>5, <1>6, <1>7, <1>8, SessionStepKeeps DEF SessionOk

(* flushBufferToDisk, with the writer's queue full.                        *)
LEMMA DropBufferKeeps ==
    ASSUME RsInv, NEW s \in Sessions, DropBuffer(s)
    PROVE  RsInv'
<1>1. Known(s) /\ SessionOk(s)
  BY OneSession
<1>2. /\ (s \in metadata' <=> s \in metadata)
      /\ Becomes(s, tree[s], {}, queued[s], stage[s], log[s],
                 claim[s], proof[s], claimTxs[s], proofTxs[s], mishaps[s] \cup {"lost"})
  BY DEF RsInv, RsTypes, Becomes, DropBuffer, Fault, Happened, Mishaps, memory, disk, chain
<1>3. RsTypes'
  BY <1>1, RootIsSomething, RelayerSessionsAssumption
    DEF RsInv, RsTypes, Known, Tree, Log, DropBuffer, Fault, Happened, Mishaps, memory,
        disk, chain
<1>4. Elsewhere(s)
  BY DEF RsInv, RsTypes, Elsewhere, DropBuffer, Fault, Happened, Mishaps, memory, disk,
         chain
<1>5. StagesOk(s)'
  BY <1>1, <1>2, RootIsSomething
    DEF Becomes, Known, SessionOk, StagesOk, InPipeline, Unwritten, Tree, NoTree
<1>6. LogOk(s)'
  BY <1>1, <1>2, RootIsSomething, SMTT(30)
    DEF Becomes, Known, SessionOk, LogOk, StagesOk, Unwritten, Importable, Clean, Tree, Log,
        NoTree, NoLog
<1>7. ClaimOk(s)'
  BY <1>1, <1>2, RootIsSomething
    DEF Becomes, Known, SessionOk, ClaimOk, StagesOk, LogOk, Importable, Clean, Tree,
        NoTree, InPipeline
<1>8. KeptOk(s)'
  BY <1>1, <1>2, RootIsSomething
    DEF Becomes, Known, SessionOk, KeptOk, StagesOk, ClaimOk, LogOk, Importable, Clean
<1> QED
  BY <1>3, <1>4, <1>5, <1>6, <1>7, <1>8, SessionStepKeeps DEF SessionOk

(* writeToDisk.                                                            *)
LEMMA WriteKeeps ==
    ASSUME RsInv, NEW s \in Sessions, WriteToDisk(s)
    PROVE  RsInv'
<1>1. Known(s) /\ SessionOk(s)
  BY OneSession
<1>2. Clean(s) => ~ log[s].torn
  BY <1>1 DEF Known, SessionOk, StagesOk, LogOk, WriteToDisk, Unwritten, Importable, NoLog
<1>3. Becomes(s, tree[s], buffered[s], {}, stage[s], log'[s],
              claim[s], proof[s], claimTxs[s], proofTxs[s], mishaps[s])
  BY DEF RsInv, RsTypes, Becomes, WriteToDisk, memory, disk, chain
<1>4. /\ log'[s].torn = log[s].torn /\ log'[s].exists = log[s].exists
      /\ ~ log[s].torn => log'[s].relays = log[s].relays \cup queued[s]
      /\ (s \in metadata' <=> s \in metadata) /\ queued[s] # {}
  BY <1>1 DEF RsInv, RsTypes, Known, Log, WriteToDisk, Written
<1>5. RsTypes'
  BY <1>1 DEF RsInv, RsTypes, Known, Tree, Log, WriteToDisk, Written, memory, disk, chain
<1>6. Elsewhere(s)
  BY DEF RsInv, RsTypes, Elsewhere, WriteToDisk, Written, memory, disk, chain
<1>7. StagesOk(s)'
  BY <1>1, <1>3 DEF Becomes, SessionOk, StagesOk, Unwritten
<1>8. LogOk(s)'
  BY <1>1, <1>2, <1>3, <1>4
    DEF Becomes, Known, SessionOk, LogOk, StagesOk, Unwritten, Importable, Clean
<1>9. ClaimOk(s)'
  <2>1. running
    BY <1>1, <1>4 DEF Known, SessionOk, StagesOk, Unwritten
  <2> QED
    BY <1>1, <1>3, <2>1 DEF Becomes, SessionOk, ClaimOk, Clean
<1>10. KeptOk(s)'
  BY <1>1, <1>3, <1>4 DEF Becomes, SessionOk, KeptOk, Importable
<1> QED
  BY <1>5, <1>6, <1>7, <1>8, <1>9, <1>10, SessionStepKeeps DEF SessionOk

-----------------------------------------------------------------------------
(* Claims and proofs.                                                      *)

(* createClaimRoots.                                                       *)
LEMMA FlushKeeps ==
    ASSUME RsInv, NEW s \in Sessions, Flush(s)
    PROVE  RsInv'
<1>1. Known(s) /\ SessionOk(s)
  BY OneSession
<1>2. running /\ stage[s] = "claiming"
      /\ (s \in metadata' <=> s \in metadata)
      /\ Becomes(s, [tree[s] EXCEPT !.root = IF @ = NoRoot THEN Root(tree[s].relays) ELSE @],
                 buffered[s], queued[s], "flushed", log[s],
                 claim[s], proof[s], claimTxs[s], proofTxs[s], mishaps[s])
  BY DEF RsInv, RsTypes, Becomes, Flush, MoveTo, Stages, memory, disk, chain
<1>3. RsTypes'
  BY <1>1, RootIsSomething
    DEF RsInv, RsTypes, Known, Tree, Log, Flush, MoveTo, Stages, memory, disk, chain
<1>4. Elsewhere(s)
  BY DEF RsInv, RsTypes, Elsewhere, Flush, MoveTo, Stages, memory, disk, chain
<1>5. StagesOk(s)'
  BY <1>1, <1>2, RootIsSomething
    DEF Becomes, Known, SessionOk, StagesOk, InPipeline, Unwritten, Tree, NoTree
<1>6. LogOk(s)'
  BY <1>1, <1>2, RootIsSomething
    DEF Becomes, Known, SessionOk, LogOk, StagesOk, Unwritten, Importable, Clean, Tree, Log,
        NoTree, NoLog
<1>7. ClaimOk(s)'
  BY <1>1, <1>2, RootIsSomething
    DEF Becomes, Known, SessionOk, ClaimOk, StagesOk, LogOk, Importable, Clean, Tree,
        NoTree, InPipeline
<1>8. KeptOk(s)'
  BY <1>1, <1>2, RootIsSomething
    DEF Becomes, Known, SessionOk, KeptOk, StagesOk, ClaimOk, LogOk, Importable, Clean
<1> QED
  BY <1>3, <1>4, <1>5, <1>6, <1>7, <1>8, SessionStepKeeps DEF SessionOk

(* A claim is sent.                                                        *)
LEMMA SendClaimKeeps ==
    ASSUME RsInv, NEW s \in Sessions, SendClaim(s)
    PROVE  RsInv'
<1>1. Known(s) /\ SessionOk(s)
  BY OneSession
<1>2. /\ running /\ stage[s] = "flushed" /\ height <= Window[s].claimClose
      /\ (s \in metadata' <=> s \in metadata)
      /\ Becomes(s, tree[s], buffered[s], queued[s], "claimTx", log[s],
                 claim[s], proof[s], claimTxs[s] \cup {tree[s].root}, proofTxs[s], mishaps[s])
  BY DEF RsInv, RsTypes, Becomes, SendClaim, MoveTo, Stages, memory, disk, chain
<1>3. RsTypes'
  BY <1>1, RootIsSomething
    DEF RsInv, RsTypes, Known, Tree, Log, SendClaim, MoveTo, Stages, memory, disk, chain
<1>4. Elsewhere(s)
  BY DEF RsInv, RsTypes, Elsewhere, SendClaim, MoveTo, Stages, memory, disk, chain
<1>5. StagesOk(s)'
  BY <1>1, <1>2, RootIsSomething
    DEF Becomes, Known, SessionOk, StagesOk, InPipeline, Unwritten, Tree, NoTree
<1>6. LogOk(s)'
  BY <1>1, <1>2, RootIsSomething
    DEF Becomes, Known, SessionOk, LogOk, StagesOk, Unwritten, Importable, Clean, Tree, Log,
        NoTree, NoLog
<1>7. ClaimOk(s)'
  BY <1>1, <1>2, RootIsSomething
    DEF Becomes, Known, SessionOk, ClaimOk, StagesOk, LogOk, Importable, Clean, Tree,
        NoTree, InPipeline
<1>8. KeptOk(s)'
  BY <1>1, <1>2, RootIsSomething
    DEF Becomes, Known, SessionOk, KeptOk, StagesOk, ClaimOk, LogOk, Importable, Clean
<1> QED
  BY <1>3, <1>4, <1>5, <1>6, <1>7, <1>8, SessionStepKeeps DEF SessionOk

(* A claim is taken.                                                       *)
LEMMA ClaimLandsKeeps ==
    ASSUME RsInv, NEW s \in Sessions, NEW root \in Roots, ClaimLands(s, root)
    PROVE  RsInv'
<1>1. Known(s) /\ SessionOk(s)
  BY OneSession
<1>2. /\ root \in claimTxs[s] /\ root \in Roots
      /\ Window[s].claimOpen < height /\ height <= Window[s].claimClose
      /\ (s \in metadata' <=> s \in metadata)
      /\ Becomes(s, tree[s], buffered[s], queued[s], stage[s], log[s],
                   root, proof[s], claimTxs[s] \ {root}, proofTxs[s], mishaps[s])
  BY DEF RsInv, RsTypes, Becomes, ClaimLands, memory, disk, chain
<1>3. RsTypes'
  BY <1>1, RootIsSomething
    DEF RsInv, RsTypes, Known, Tree, Log, ClaimLands, memory, disk, chain
<1>4. Elsewhere(s)
  BY DEF RsInv, RsTypes, Elsewhere, ClaimLands, memory, disk, chain
<1>5. StagesOk(s)'
  BY <1>1, <1>2, RootIsSomething
    DEF Becomes, Known, SessionOk, StagesOk, InPipeline, Unwritten, Tree, NoTree
<1>6. LogOk(s)'
  BY <1>1, <1>2, RootIsSomething
    DEF Becomes, Known, SessionOk, LogOk, StagesOk, Unwritten, Importable, Clean, Tree, Log,
        NoTree, NoLog
<1>7. ClaimOk(s)'
  BY <1>1, <1>2, RootIsSomething
    DEF Becomes, Known, SessionOk, ClaimOk, StagesOk, LogOk, Importable, Clean, Tree,
        NoTree, InPipeline
<1>8. KeptOk(s)'
  BY <1>1, <1>2, RootIsSomething
    DEF Becomes, Known, SessionOk, KeptOk, StagesOk, ClaimOk, LogOk, Importable, Clean
<1> QED
  BY <1>3, <1>4, <1>5, <1>6, <1>7, <1>8, SessionStepKeeps DEF SessionOk

(* A claim fails.                                                          *)
LEMMA ClaimIsRejectedKeeps ==
    ASSUME RsInv, NEW s \in Sessions, NEW root \in Roots, ClaimIsRejected(s, root)
    PROVE  RsInv'
<1>1. Known(s) /\ SessionOk(s)
  BY OneSession
<1>2. /\ root \in claimTxs[s]
      /\ (s \in metadata' <=> s \in metadata)
      /\ Becomes(s, tree[s], buffered[s], queued[s], stage[s], log[s],
                 claim[s], proof[s], claimTxs[s] \ {root}, proofTxs[s], mishaps[s])
  BY DEF RsInv, RsTypes, Becomes, ClaimIsRejected, Fault, memory, disk, chain
<1>3. RsTypes'
  BY <1>1, RootIsSomething, RelayerSessionsAssumption
    DEF RsInv, RsTypes, Known, Tree, Log, ClaimIsRejected, Fault, memory, disk, chain
<1>4. Elsewhere(s)
  BY DEF RsInv, RsTypes, Elsewhere, ClaimIsRejected, Fault, memory, disk, chain
<1>5. StagesOk(s)'
  BY <1>1, <1>2, RootIsSomething
    DEF Becomes, Known, SessionOk, StagesOk, InPipeline, Unwritten, Tree, NoTree
<1>6. LogOk(s)'
  BY <1>1, <1>2, RootIsSomething
    DEF Becomes, Known, SessionOk, LogOk, StagesOk, Unwritten, Importable, Clean, Tree, Log,
        NoTree, NoLog
<1>7. ClaimOk(s)'
  BY <1>1, <1>2, RootIsSomething
    DEF Becomes, Known, SessionOk, ClaimOk, StagesOk, LogOk, Importable, Clean, Tree,
        NoTree, InPipeline
<1>8. KeptOk(s)'
  BY <1>1, <1>2, RootIsSomething
    DEF Becomes, Known, SessionOk, KeptOk, StagesOk, ClaimOk, LogOk, Importable, Clean
<1> QED
  BY <1>3, <1>4, <1>5, <1>6, <1>7, <1>8, SessionStepKeeps DEF SessionOk

(* CreateClaims returns.                                                   *)
LEMMA ClaimAnsweredKeeps ==
    ASSUME RsInv, NEW s \in Sessions, ClaimAnswered(s)
    PROVE  RsInv'
<1>1. Known(s) /\ SessionOk(s)
  BY OneSession
<1>2. /\ running /\ stage[s] = "claimTx" /\ tree[s].root \notin claimTxs[s]
      /\ (s \in metadata' <=> s \in metadata)
      /\ Becomes(s, tree[s], buffered[s], queued[s], "claimed", log[s],
                 claim[s], proof[s], claimTxs[s], proofTxs[s], mishaps[s])
  BY DEF RsInv, RsTypes, Becomes, ClaimAnswered, MoveTo, Stages, memory, disk, chain
<1>3. RsTypes'
  BY <1>1, RootIsSomething
    DEF RsInv, RsTypes, Known, Tree, Log, ClaimAnswered, MoveTo, Stages, memory, disk, chain
<1>4. Elsewhere(s)
  BY DEF RsInv, RsTypes, Elsewhere, ClaimAnswered, MoveTo, Stages, memory, disk, chain
<1>5. StagesOk(s)'
  BY <1>1, <1>2, RootIsSomething
    DEF Becomes, Known, SessionOk, StagesOk, InPipeline, Unwritten, Tree, NoTree
<1>6. LogOk(s)'
  BY <1>1, <1>2, RootIsSomething
    DEF Becomes, Known, SessionOk, LogOk, StagesOk, Unwritten, Importable, Clean, Tree, Log,
        NoTree, NoLog
<1>7. ClaimOk(s)'
  BY <1>1, <1>2, RootIsSomething
    DEF Becomes, Known, SessionOk, ClaimOk, StagesOk, LogOk, Importable, Clean, Tree,
        NoTree, InPipeline
<1>8. KeptOk(s)'
  BY <1>1, <1>2, RootIsSomething
    DEF Becomes, Known, SessionOk, KeptOk, StagesOk, ClaimOk, LogOk, Importable, Clean
<1> QED
  BY <1>3, <1>4, <1>5, <1>6, <1>7, <1>8, SessionStepKeeps DEF SessionOk

(* A proof is sent.                                                        *)
LEMMA SendProofKeeps ==
    ASSUME RsInv, NEW s \in Sessions, SendProof(s)
    PROVE  RsInv'
<1>1. Known(s) /\ SessionOk(s)
  BY OneSession
<1>2. /\ running /\ stage[s] = "claimed" /\ Window[s].proofOpen <= height
      /\ (s \in metadata' <=> s \in metadata)
      /\ Becomes(s, tree[s], buffered[s], queued[s], "proofTx", log[s],
                 claim[s], proof[s], claimTxs[s],
                 proofTxs[s] \cup {Root(tree[s].relays)}, mishaps[s])
  BY DEF RsInv, RsTypes, Becomes, SendProof, MoveTo, Stages, memory, disk, chain
<1>3. RsTypes'
  BY <1>1, RootIsSomething
    DEF RsInv, RsTypes, Known, Tree, Log, SendProof, MoveTo, Stages, memory, disk, chain
<1>4. Elsewhere(s)
  BY DEF RsInv, RsTypes, Elsewhere, SendProof, MoveTo, Stages, memory, disk, chain
<1>5. StagesOk(s)'
  BY <1>1, <1>2, RootIsSomething
    DEF Becomes, Known, SessionOk, StagesOk, InPipeline, Unwritten, Tree, NoTree
<1>6. LogOk(s)'
  BY <1>1, <1>2, RootIsSomething
    DEF Becomes, Known, SessionOk, LogOk, StagesOk, Unwritten, Importable, Clean, Tree, Log,
        NoTree, NoLog
<1>7. ClaimOk(s)'
  BY <1>1, <1>2, RootIsSomething
    DEF Becomes, Known, SessionOk, ClaimOk, StagesOk, LogOk, Importable, Clean, Tree,
        NoTree, InPipeline
<1>8. KeptOk(s)'
  BY <1>1, <1>2, RootIsSomething
    DEF Becomes, Known, SessionOk, KeptOk, StagesOk, ClaimOk, LogOk, Importable, Clean
<1> QED
  BY <1>3, <1>4, <1>5, <1>6, <1>7, <1>8, SessionStepKeeps DEF SessionOk

(* A proof is taken.                                                       *)
LEMMA ProofLandsKeeps ==
    ASSUME RsInv, NEW s \in Sessions, NEW root \in Roots, ProofLands(s, root)
    PROVE  RsInv'
<1>1. Known(s) /\ SessionOk(s)
  BY OneSession
<1>2. /\ root \in proofTxs[s] /\ claim[s] # NoRoot
      /\ (s \in metadata' <=> s \in metadata)
      /\ Becomes(s, tree[s], buffered[s], queued[s], stage[s], log[s],
                   claim[s], root, claimTxs[s], proofTxs[s] \ {root}, mishaps[s])
  BY DEF RsInv, RsTypes, Becomes, ProofLands, memory, disk, chain
<1>3. RsTypes'
  BY <1>1, RootIsSomething
    DEF RsInv, RsTypes, Known, Tree, Log, ProofLands, memory, disk, chain
<1>4. Elsewhere(s)
  BY DEF RsInv, RsTypes, Elsewhere, ProofLands, memory, disk, chain
<1>5. StagesOk(s)'
  BY <1>1, <1>2, RootIsSomething
    DEF Becomes, Known, SessionOk, StagesOk, InPipeline, Unwritten, Tree, NoTree
<1>6. LogOk(s)'
  BY <1>1, <1>2, RootIsSomething
    DEF Becomes, Known, SessionOk, LogOk, StagesOk, Unwritten, Importable, Clean, Tree, Log,
        NoTree, NoLog
<1>7. ClaimOk(s)'
  BY <1>1, <1>2, RootIsSomething
    DEF Becomes, Known, SessionOk, ClaimOk, StagesOk, LogOk, Importable, Clean, Tree,
        NoTree, InPipeline
<1>8. KeptOk(s)'
  BY <1>1, <1>2, RootIsSomething
    DEF Becomes, Known, SessionOk, KeptOk, StagesOk, ClaimOk, LogOk, Importable, Clean
<1> QED
  BY <1>3, <1>4, <1>5, <1>6, <1>7, <1>8, SessionStepKeeps DEF SessionOk

-----------------------------------------------------------------------------
(* Deletions.                                                              *)

(* deletePersistedSessionTree.                                             *)
LEMMA DeleteMetadataKeeps ==
    ASSUME RsInv, NEW s \in Sessions, DeleteMetadata(s)
    PROVE  RsInv'
<1>1. Known(s) /\ SessionOk(s)
  BY OneSession
<1>2. /\ running /\ stage[s] = "deleting"
      /\ s \notin metadata'
      /\ Becomes(s, NoTree, buffered[s], queued[s], "idle", log[s],
                 claim[s], proof[s], claimTxs[s], proofTxs[s],
                   (IF tree[s].live THEN mishaps[s] \cup {"recreated"} ELSE mishaps[s]))
  BY DEF RsInv, RsTypes, Becomes, DeleteMetadata, MoveTo, Stages, Happened, Mishaps, NoTree,
         memory, disk, chain
<1>3. RsTypes'
  BY <1>1, RootIsSomething
    DEF RsInv, RsTypes, Known, Tree, Log, DeleteMetadata, MoveTo, Stages, Happened, Mishaps,
        NoTree, memory, disk, chain
<1>4. Elsewhere(s)
  BY DEF RsInv, RsTypes, Elsewhere, DeleteMetadata, MoveTo, Stages, Happened, Mishaps,
         NoTree, memory, disk, chain
<1>5. StagesOk(s)'
  BY <1>1, <1>2, RootIsSomething
    DEF Becomes, Known, SessionOk, StagesOk, InPipeline, Unwritten, Tree, NoTree
<1>6. LogOk(s)'
  <2>1. CASE tree[s].live
    BY <1>2, <2>1 DEF Becomes, LogOk, Clean
  <2>2. CASE ~ tree[s].live
    BY <1>1, <1>2, <2>2 DEF Becomes, SessionOk, LogOk, Unwritten, Clean, NoTree
  <2> QED
    BY <2>1, <2>2
<1>7. ClaimOk(s)'
  BY <1>1, <1>2, RootIsSomething
    DEF Becomes, Known, SessionOk, ClaimOk, StagesOk, LogOk, Importable, Clean, Tree,
        NoTree, InPipeline
<1>8. KeptOk(s)'
  BY <1>1, <1>2, RootIsSomething
    DEF Becomes, Known, SessionOk, KeptOk, StagesOk, ClaimOk, LogOk, Importable, Clean
<1> QED
  BY <1>3, <1>4, <1>5, <1>6, <1>7, <1>8, SessionStepKeeps DEF SessionOk

(* SubmitProofs returns.                                                   *)
LEMMA ProofAnsweredKeeps ==
    ASSUME RsInv, NEW s \in Sessions, ProofAnswered(s)
    PROVE  RsInv'
<1>1. Known(s) /\ SessionOk(s)
  BY OneSession
<1>2. /\ running /\ stage[s] = "proofTx" /\ Root(tree[s].relays) \notin proofTxs[s]
      /\ (s \in metadata' <=> s \in metadata)
      /\ Becomes(s, NoTree, {}, {}, "deleting", NoLog,
                 claim[s], proof[s], claimTxs[s], proofTxs[s], mishaps[s])
  BY DEF RsInv, RsTypes, Becomes, ProofAnswered, Deleted, MoveTo, Stages, Happened, Mishaps,
         NoTree, NoLog, memory, disk, chain
<1>3. RsTypes'
  BY <1>1, RootIsSomething
    DEF RsInv, RsTypes, Known, Tree, Log, ProofAnswered, Deleted, MoveTo, Stages, Happened,
        Mishaps, NoTree, NoLog, memory, disk, chain
<1>4. Elsewhere(s)
  BY DEF RsInv, RsTypes, Elsewhere, ProofAnswered, Deleted, MoveTo, Stages, Happened,
         Mishaps, NoTree, NoLog, memory, disk, chain
<1>5. StagesOk(s)'
  BY <1>1, <1>2, RootIsSomething
    DEF Becomes, Known, SessionOk, StagesOk, InPipeline, Unwritten, Tree, NoTree
<1>6. LogOk(s)'
  BY <1>1, <1>2, RootIsSomething
    DEF Becomes, Known, SessionOk, LogOk, StagesOk, Unwritten, Importable, Clean, Tree, Log,
        NoTree, NoLog
<1>7. ClaimOk(s)'
  BY <1>1, <1>2, RootIsSomething
    DEF Becomes, Known, SessionOk, ClaimOk, StagesOk, LogOk, Importable, Clean, Tree,
        NoTree, InPipeline
<1>8. KeptOk(s)'
  BY <1>1, <1>2, RootIsSomething
    DEF Becomes, Known, SessionOk, KeptOk, StagesOk, ClaimOk, LogOk, Importable, Clean
<1> QED
  BY <1>3, <1>4, <1>5, <1>6, <1>7, <1>8, SessionStepKeeps DEF SessionOk

(* The session is not claimed.                                             *)
LEMMA GiveUpClaimKeeps ==
    ASSUME RsInv, NEW s \in Sessions, GiveUpClaim(s)
    PROVE  RsInv'
<1>1. Known(s) /\ SessionOk(s)
  BY OneSession
<1>2. /\ running /\ stage[s] \in {"claiming", "flushed"}
      /\ (s \in metadata' <=> s \in metadata)
      /\ Becomes(s, NoTree, {}, {}, "deleting", NoLog,
                 claim[s], proof[s], claimTxs[s], proofTxs[s],
                   (IF claimTxs[s] = {} /\ claim[s] = NoRoot THEN mishaps[s]
                       ELSE mishaps[s] \cup {"gaveUp"}))
  BY DEF RsInv, RsTypes, Becomes, GiveUpClaim, Deleted, MoveTo, Stages, Happened, Mishaps,
         NoTree, NoLog, memory, disk, chain
<1>3. RsTypes'
  <2>1. mishaps' \in [Sessions -> SUBSET Mishaps]
    BY DEF RsInv, RsTypes, GiveUpClaim, Happened, Mishaps
  <2> QED
    BY <1>1, <2>1, RootIsSomething
      DEF RsInv, RsTypes, Tree, Log, GiveUpClaim, Deleted, MoveTo, Stages, NoTree, NoLog, chain
<1>4. Elsewhere(s)
  BY DEF RsInv, RsTypes, Elsewhere, GiveUpClaim, Deleted, MoveTo, Stages, Happened, Mishaps,
         NoTree, NoLog, memory, disk, chain
<1>5. StagesOk(s)'
  BY <1>1, <1>2, RootIsSomething
    DEF Becomes, Known, SessionOk, StagesOk, InPipeline, Unwritten, Tree, NoTree
<1>6. LogOk(s)'
  BY <1>1, <1>2, RootIsSomething
    DEF Becomes, Known, SessionOk, LogOk, StagesOk, Unwritten, Importable, Clean, Tree, Log,
        NoTree, NoLog
<1>7. ClaimOk(s)'
  BY <1>1, <1>2, RootIsSomething
    DEF Becomes, Known, SessionOk, ClaimOk, StagesOk, LogOk, Importable, Clean, Tree,
        NoTree, InPipeline
<1>8. KeptOk(s)'
  BY <1>1, <1>2, RootIsSomething
    DEF Becomes, Known, SessionOk, KeptOk, StagesOk, ClaimOk, LogOk, Importable, Clean
<1> QED
  BY <1>3, <1>4, <1>5, <1>6, <1>7, <1>8, SessionStepKeeps DEF SessionOk

(* CreateClaims fails.                                                     *)
LEMMA ClaimTxFailsKeeps ==
    ASSUME RsInv, NEW s \in Sessions, ClaimTxFails(s)
    PROVE  RsInv'
<1>1. Known(s) /\ SessionOk(s)
  BY OneSession
<1>2. /\ running /\ stage[s] = "claimTx"
      /\ mishaps'[s] = mishaps[s] =>
            \/ height > Window[s].claimClose /\ tree[s].root \in claimTxs[s]
            \/ "inFlight" \in mishaps[s]
      /\ mishaps'[s] \in {mishaps[s], mishaps[s] \cup {"inFlight"}}
      /\ (s \in metadata' <=> s \in metadata)
      /\ Becomes(s, NoTree, {}, {}, "deleting", NoLog,
                 claim[s], proof[s], claimTxs[s], proofTxs[s], mishaps'[s])
  BY DEF RsInv, RsTypes, Becomes, ClaimTxFails, Fault, Deleted, MoveTo, Stages, Happened,
         Mishaps, NoTree, NoLog, memory, disk, chain
<1>3. RsTypes'
  <2>1. mishaps' \in [Sessions -> SUBSET Mishaps]
    BY DEF RsInv, RsTypes, ClaimTxFails, Happened, Mishaps
  <2>2. faults' \in 0..MaxFaults
    BY RelayerSessionsAssumption DEF RsInv, RsTypes, ClaimTxFails, Fault
  <2> QED
    BY <1>1, <2>1, <2>2, RootIsSomething
      DEF RsInv, RsTypes, Tree, Log, ClaimTxFails, Deleted, MoveTo, Stages, NoTree, NoLog, chain
<1>4. Elsewhere(s)
  BY DEF RsInv, RsTypes, Elsewhere, ClaimTxFails, Fault, Deleted, MoveTo, Stages, Happened,
         Mishaps, NoTree, NoLog, memory, disk, chain
<1>5. StagesOk(s)'
  BY <1>1, <1>2, RootIsSomething
    DEF Becomes, Known, SessionOk, StagesOk, InPipeline, Unwritten, Tree, NoTree
<1>6. LogOk(s)'
  BY <1>1, <1>2, RootIsSomething
    DEF Becomes, Known, SessionOk, LogOk, StagesOk, Unwritten, Importable, Clean, Tree, Log,
        NoTree, NoLog
<1>7. ClaimOk(s)'
  BY <1>1, <1>2, RootIsSomething, SMTT(30)
    DEF Becomes, Known, SessionOk, ClaimOk, StagesOk, LogOk, Importable, Clean, Tree,
        NoTree, InPipeline
<1>8. KeptOk(s)'
  BY <1>1, <1>2, RootIsSomething
    DEF Becomes, Known, SessionOk, KeptOk, StagesOk, ClaimOk, LogOk, Importable, Clean
<1> QED
  BY <1>3, <1>4, <1>5, <1>6, <1>7, <1>8, SessionStepKeeps DEF SessionOk

(* The session is not proven.                                              *)
LEMMA GiveUpProofKeeps ==
    ASSUME RsInv, NEW s \in Sessions, GiveUpProof(s)
    PROVE  RsInv'
<1>1. Known(s) /\ SessionOk(s)
  BY OneSession
<1>2. /\ running /\ stage[s] \in {"claimed", "proofTx"}
      /\ (s \in metadata' <=> s \in metadata)
      /\ Becomes(s, NoTree, {}, {}, "deleting", NoLog,
                 claim[s], proof[s], claimTxs[s], proofTxs[s], mishaps[s] \cup {"gaveUp"})
  BY DEF RsInv, RsTypes, Becomes, GiveUpProof, Deleted, MoveTo, Stages, Happened, Mishaps,
         NoTree, NoLog, memory, disk, chain
<1>3. RsTypes'
  BY <1>1, RootIsSomething
    DEF RsInv, RsTypes, Known, Tree, Log, GiveUpProof, Deleted, MoveTo, Stages, Happened,
        Mishaps, NoTree, NoLog, memory, disk, chain
<1>4. Elsewhere(s)
  BY DEF RsInv, RsTypes, Elsewhere, GiveUpProof, Deleted, MoveTo, Stages, Happened, Mishaps,
         NoTree, NoLog, memory, disk, chain
<1>5. StagesOk(s)'
  BY <1>1, <1>2, RootIsSomething
    DEF Becomes, Known, SessionOk, StagesOk, InPipeline, Unwritten, Tree, NoTree
<1>6. LogOk(s)'
  BY <1>1, <1>2, RootIsSomething
    DEF Becomes, Known, SessionOk, LogOk, StagesOk, Unwritten, Importable, Clean, Tree, Log,
        NoTree, NoLog
<1>7. ClaimOk(s)'
  BY <1>1, <1>2, RootIsSomething
    DEF Becomes, Known, SessionOk, ClaimOk, StagesOk, LogOk, Importable, Clean, Tree,
        NoTree, InPipeline
<1>8. KeptOk(s)'
  BY <1>1, <1>2, RootIsSomething
    DEF Becomes, Known, SessionOk, KeptOk, StagesOk, ClaimOk, LogOk, Importable, Clean
<1> QED
  BY <1>3, <1>4, <1>5, <1>6, <1>7, <1>8, SessionStepKeeps DEF SessionOk

-----------------------------------------------------------------------------
(* Blocks, stops, crashes and starts: every session takes a step.          *)

(* A step of all sessions keeps each.                                      *)
LEMMA AllSessionsKeep ==
    ASSUME RsTypes', \A q \in Sessions : (StagesOk(q) /\ LogOk(q) /\ ClaimOk(q) /\ KeptOk(q))'
    PROVE  RsInv'
BY DEF RsInv, SessionOk

(* A new block, with the claims it starts and the trees it deletes.        *)
LEMMA BlockKeeps ==
    ASSUME RsInv, Block
    PROVE  RsInv'
<1> DEFINE gone == Expired(height + 1)
           claimed == ToClaim(height + 1) \ gone
<1>1. /\ height' = height + 1 /\ running' = running
      /\ UNCHANGED <<mined, metadata, chain, mishaps, faults>>
      /\ height \in Nat /\ height' \in 0..MaxHeight
  BY RelayerSessionsAssumption DEF Block, RsInv, RsTypes
<1>2. ASSUME NEW q \in Sessions
      PROVE  /\ claim'[q] = claim[q] /\ proof'[q] = proof[q] /\ claimTxs'[q] = claimTxs[q]
             /\ proofTxs'[q] = proofTxs[q] /\ mishaps'[q] = mishaps[q]
             /\ (q \in metadata' <=> q \in metadata)
  BY <1>1 DEF chain
<1>3. ASSUME NEW q \in Sessions, ~ running \/ q \notin gone \cup claimed
      PROVE  /\ tree'[q] = tree[q] /\ stage'[q] = stage[q] /\ log'[q] = log[q]
             /\ buffered'[q] = buffered[q] /\ queued'[q] = queued[q]
  BY <1>3 DEF Block, memory
<1>4. ASSUME NEW q \in gone, running
      PROVE  /\ tree'[q] = NoTree /\ stage'[q] = "deleting" /\ log'[q] = NoLog
             /\ buffered'[q] = {} /\ queued'[q] = {} /\ q \in Sessions
             /\ Window[q].proofClose < height'
  <2>1. q \in Sessions /\ height + 1 > Window[q].proofClose
    BY DEF Expired
  <2>2. Window[q].proofClose \in Nat
    BY <2>1, RelayerSessionsAssumption
  <2> QED
    BY <1>1, <1>4, <2>1, <2>2 DEF Block
<1>5. ASSUME NEW q \in claimed, running
      PROVE  /\ tree'[q] = [tree[q] EXCEPT !.claiming = TRUE] /\ stage'[q] = "claiming"
             /\ log'[q] = log[q] /\ buffered'[q] = buffered[q] /\ queued'[q] = queued[q]
             /\ q \in Sessions /\ tree[q].live /\ ~ tree[q].claiming
  <2>1. q \in Sessions /\ tree[q].live /\ ~ tree[q].claiming /\ q \notin gone
    BY DEF ToClaim
  <2> HIDE DEF gone
  <2> QED
    BY <1>5, <2>1 DEF Block, gone
<1>6. RsTypes'
  <2>1. /\ tree' \in [Sessions -> Tree] /\ stage' \in [Sessions -> Stages]
        /\ log' \in [Sessions -> Log] /\ buffered' \in [Sessions -> SUBSET Relays]
        /\ queued' \in [Sessions -> SUBSET Relays]
    <3>1. CASE running
      <4>1. NoTree \in Tree /\ NoLog \in Log /\ "claiming" \in Stages /\ "deleting" \in Stages
        BY RootIsSomething DEF NoTree, NoLog, Tree, Log, Stages
      <4>2. \A q \in Sessions : [tree[q] EXCEPT !.claiming = TRUE] \in Tree
        BY ZenonT(30) DEF RsInv, RsTypes, Tree
      <4> HIDE DEF gone, claimed
      <4> QED
        BY <3>1, <4>1, <4>2 DEF Block, RsInv, RsTypes, gone, claimed
    <3>2. CASE ~ running
      BY <3>2 DEF Block, RsInv, RsTypes, memory
    <3> QED
      BY <3>1, <3>2
  <2> QED
    BY <1>1, <2>1 DEF RsInv, RsTypes, chain
<1> HIDE DEF gone, claimed
<1>7. ASSUME NEW q \in Sessions
      PROVE  (StagesOk(q) /\ LogOk(q) /\ ClaimOk(q) /\ KeptOk(q))'
  <2>1. Known(q) /\ SessionOk(q)
    BY OneSession
  <2>2. CASE ~ running \/ q \notin gone \cup claimed
    <3>1. StagesOk(q)'
      BY <1>1, <1>2, <1>3, <2>1, <2>2 DEF Known, SessionOk, StagesOk, Unwritten
    <3>2. LogOk(q)'
      BY <1>1, <1>2, <1>3, <2>1, <2>2 DEF SessionOk, LogOk, Importable, Unwritten, Clean
    <3>3. ClaimOk(q)'
      BY <1>1, <1>2, <1>3, <2>1, <2>2 DEF Known, SessionOk, ClaimOk, Importable, Clean
    <3>4. KeptOk(q)'
      BY <1>1, <1>2, <1>3, <2>1, <2>2 DEF Known, SessionOk, KeptOk, Importable
    <3> QED
      BY <3>1, <3>2, <3>3, <3>4
  <2>3. CASE running /\ q \in gone
    <3>1. StagesOk(q)'
      <4>1. running' /\ stage'[q] = "deleting" /\ tree'[q] = NoTree
        BY <1>1, <1>4, <2>3
      <4>2. /\ claim[q] # NoRoot => Window[q].claimOpen < height'
            /\ proofTxs[q] # {} => Window[q].proofOpen <= height'
        BY <1>1, <2>1 DEF Known, SessionOk, StagesOk
      <4> QED
        BY <1>2, <2>1, <4>1, <4>2 DEF SessionOk, StagesOk, InPipeline
    <3>2. LogOk(q)'
      BY <1>1, <1>2, <1>4, <2>1, <2>3 DEF LogOk, Unwritten, NoTree
    <3>3. ClaimOk(q)'
      BY <1>1, <1>2, <1>4, <2>1, <2>3 DEF Known, SessionOk, ClaimOk, Clean, NoTree
    <3>4. KeptOk(q)'
      BY <1>1, <1>4, <2>1, <2>3 DEF Known, KeptOk
    <3> QED
      BY <3>1, <3>2, <3>3, <3>4
  <2>4. CASE running /\ q \in claimed
    <3>1. /\ tree'[q].live /\ tree'[q].claiming /\ tree'[q].root = tree[q].root
          /\ tree'[q].relays = tree[q].relays
      BY <1>5, <2>1, <2>4 DEF Known, Tree
    <3>2. stage[q] \notin InPipeline \cup {"claiming"}
      BY <1>5, <2>1, <2>4 DEF SessionOk, StagesOk
    <3>3. StagesOk(q)'
      <4>1. running' /\ stage'[q] = "claiming"
        BY <1>1, <1>5, <2>4
      <4>2. /\ claim[q] # NoRoot => Window[q].claimOpen < height'
            /\ proofTxs[q] # {} =>
                  Window[q].proofOpen <= height' /\ ~ height' <= Window[q].claimClose
        BY <1>1, <2>1 DEF Known, SessionOk, StagesOk
      <4> QED
        BY <1>2, <2>1, <3>1, <4>1, <4>2 DEF SessionOk, StagesOk, InPipeline
    <3>4. LogOk(q)'
      BY <1>1, <1>2, <1>5, <2>1, <2>4, <3>1
        DEF SessionOk, LogOk, Importable, Unwritten, Clean
    <3>5. ClaimOk(q)'
      <4>1. Clean(q) => claim[q] = NoRoot /\ proof[q] = NoRoot
        BY <1>5, <2>1, <2>4, <3>2 DEF SessionOk, StagesOk, ClaimOk, InPipeline
      <4>2. Clean(q) /\ claimTxs[q] # {} => ~ height' <= Window[q].claimClose
        BY <1>1, <2>1, <3>2 DEF Known, SessionOk, ClaimOk, InPipeline
      <4> QED
        BY <1>2, <2>1, <3>1, <4>1, <4>2 DEF SessionOk, ClaimOk, Clean
    <3>6. KeptOk(q)'
      BY <1>1, <1>2, <2>1, <2>4, <3>2 DEF Known, SessionOk, KeptOk, InPipeline
    <3> QED
      BY <3>3, <3>4, <3>5, <3>6
  <2> QED
    BY <2>2, <2>3, <2>4
<1> QED
  BY <1>6, <1>7, AllSessionsKeep

(* The process ends.  What is not lost is in the log.                      *)
LEMMA EndedKeeps ==
    ASSUME RsInv, NEW q \in Sessions, NEW left, Ended(left),
           metadata \subseteq metadata', q \in metadata' => q \in metadata \/ tree[q].live,
           Clean(q) /\ left[q] = {} /\ ~ log[q].torn =>
              /\ log'[q].exists = log[q].exists /\ ~ log'[q].torn
              /\ log'[q].relays = log[q].relays \cup Unwritten(q),
           log[q] = NoLog /\ left[q] = {} /\ Unwritten(q) = {} => log'[q] = NoLog
    PROVE  (StagesOk(q) /\ LogOk(q) /\ ClaimOk(q) /\ KeptOk(q))'
<1>1. Known(q) /\ SessionOk(q)
  BY OneSession
<1>2. /\ tree'[q] = NoTree /\ buffered'[q] = {} /\ queued'[q] = {} /\ stage'[q] = "idle"
      /\ claim'[q] = claim[q] /\ proof'[q] = proof[q] /\ claimTxs'[q] = claimTxs[q]
      /\ proofTxs'[q] = proofTxs[q] /\ height' = height /\ running /\ ~ running'
      /\ mishaps'[q] = mishaps[q] \cup (IF left[q] # {} THEN {"lost"} ELSE {})
                                  \cup (IF claimTxs[q] # {} THEN {"inFlight"} ELSE {})
  BY DEF Ended, chain
<1>3. Clean(q)' => Clean(q) /\ left[q] = {} /\ claimTxs[q] = {}
  BY <1>2 DEF Clean
<1>4. (mishaps[q] = {})' => mishaps[q] = {} /\ Clean(q)'
  BY <1>2 DEF Clean
<1>5. StagesOk(q)'
  BY <1>1, <1>2 DEF SessionOk, StagesOk, Unwritten, InPipeline, NoTree
<1>6. LogOk(q)'
  <2> SUFFICES ASSUME Clean(q)', q \notin metadata'
               PROVE  log'[q] = NoLog
    BY <1>2 DEF LogOk
  <2>1. ~ tree[q].live
    BY <1>1, <1>2, <1>3 DEF SessionOk, LogOk
  <2>2. log[q] = NoLog /\ Unwritten(q) = {}
    BY <1>1, <1>2, <1>3, <2>1 DEF SessionOk, LogOk
  <2> QED
    BY <1>3, <2>2
<1>7. Clean(q)' /\ tree[q].live => Importable(q)' /\ log'[q].relays = tree[q].relays
  BY <1>1, <1>2, <1>3 DEF SessionOk, LogOk, Importable
<1>8. Clean(q)' /\ ~ tree[q].live => ~ Importable(q)'
  <2> SUFFICES ASSUME Clean(q)', ~ tree[q].live
               PROVE  ~ Importable(q)'
    OBVIOUS
  <2>1. log[q] = NoLog /\ Unwritten(q) = {}
    BY <1>1, <1>2, <1>3 DEF SessionOk, LogOk
  <2>2. log'[q] = NoLog
    BY <1>3, <2>1
  <2> QED
    BY <2>2 DEF Importable, NoLog
<1>9. ClaimOk(q)'
  <2> SUFFICES ASSUME Clean(q)'
               PROVE  ClaimOk(q)'
    BY DEF ClaimOk
  <2>1. claim[q] # NoRoot /\ tree[q].live => claim[q] = Root(tree[q].relays)
    BY <1>1, <1>3 DEF SessionOk, ClaimOk
  <2>2. claim[q] # NoRoot /\ Importable(q)' => Root(log'[q].relays) = claim[q]
    BY <1>7, <1>8, <2>1
  <2> QED
    BY <1>1, <1>2, <1>3, <2>2 DEF SessionOk, ClaimOk, NoTree
<1>10. KeptOk(q)'
  <2> SUFFICES ASSUME mishaps'[q] = {}, claim[q] # NoRoot, proof[q] = NoRoot,
                      proofTxs[q] = {}, height <= Window[q].proofClose
               PROVE  q \in metadata' /\ Importable(q)'
    BY <1>2 DEF KeptOk
  <2>1. stage[q] \in {"claimTx", "claimed"}
    BY <1>1, <1>2, <1>4 DEF SessionOk, KeptOk
  <2>2. tree[q].live
    BY <1>1, <2>1 DEF SessionOk, StagesOk, InPipeline
  <2>3. q \in metadata
    BY <1>1, <1>2, <1>3, <1>4, <2>2 DEF SessionOk, LogOk
  <2> QED
    BY <1>4, <1>7, <2>2, <2>3
<1> QED
  BY <1>5, <1>6, <1>9, <1>10

(* What the end of the process leaves of the types.                        *)
LEMMA EndedTypes ==
    ASSUME RsInv, NEW left, Ended(left), Fault,
           log' \in [Sessions -> Log], metadata' \in SUBSET Sessions
    PROVE  RsTypes'
<1>1. NoTree \in Tree /\ "idle" \in Stages
  BY RootIsSomething DEF NoTree, Tree, Stages
<1>2. faults' \in 0..MaxFaults
  BY RelayerSessionsAssumption DEF RsInv, RsTypes, Fault
<1>3. mishaps' \in [Sessions -> SUBSET Mishaps]
  BY DEF RsInv, RsTypes, Ended, Mishaps
<1> QED
  BY <1>1, <1>2, <1>3 DEF RsInv, RsTypes, Ended, chain

(* Stop, with a buffer the ticker was about to queue or not.               *)
LEMMA StopKeeps ==
    ASSUME RsInv, Stop
    PROVE  RsInv'
<1>1. PICK late \in SUBSET {s \in Sessions : buffered[s] # {}} :
          /\ Ended([s \in Sessions |-> IF s \in late THEN buffered[s] ELSE {}])
          /\ log' = [s \in Sessions |->
                IF log[s].torn THEN log[s]
                ELSE [log[s] EXCEPT !.relays =
                        @ \cup IF s \in late THEN queued[s] ELSE Unwritten(s)]]
  BY DEF Stop
<1> DEFINE left == [s \in Sessions |-> IF s \in late THEN buffered[s] ELSE {}]
<1>2. /\ Ended(left) /\ Fault
      /\ metadata' = metadata \cup {s \in Sessions : tree[s].live}
  BY <1>1 DEF Stop
<1>3. ASSUME NEW q \in Sessions
      PROVE  /\ left[q] = {} => q \notin late
             /\ log[q].torn => log'[q] = log[q]
             /\ ~ log[q].torn =>
                  /\ log'[q].exists = log[q].exists /\ log'[q].torn = log[q].torn
                  /\ log'[q].relays
                       = log[q].relays \cup IF q \in late THEN queued[q] ELSE Unwritten(q)
             /\ log'[q] \in Log
  BY <1>1 DEF RsInv, RsTypes, Log, Unwritten
<1>4. log' \in [Sessions -> Log] /\ metadata' \in SUBSET Sessions
  BY <1>1, <1>2, <1>3 DEF RsInv, RsTypes
<1> HIDE DEF left
<1>5. ASSUME NEW q \in Sessions
      PROVE  (StagesOk(q) /\ LogOk(q) /\ ClaimOk(q) /\ KeptOk(q))'
  <2>1. metadata \subseteq metadata' /\ (q \in metadata' => q \in metadata \/ tree[q].live)
    BY <1>2
  <2>2. Clean(q) /\ left[q] = {} /\ ~ log[q].torn =>
              /\ log'[q].exists = log[q].exists /\ ~ log'[q].torn
              /\ log'[q].relays = log[q].relays \cup Unwritten(q)
    BY <1>3
  <2>3. log[q] = NoLog /\ left[q] = {} /\ Unwritten(q) = {} => log'[q] = NoLog
    BY <1>3 DEF NoLog, Log
  <2> QED
    BY <1>2, <2>1, <2>2, <2>3, EndedKeeps
<1> QED
  BY <1>2, <1>4, <1>5, EndedTypes, AllSessionsKeep

(* A crash, which may tear the logs that are written.                      *)
LEMMA CrashKeeps ==
    ASSUME RsInv, Crash
    PROVE  RsInv'
<1>1. PICK torn \in SUBSET {s \in Sessions : queued[s] # {}} :
          log' = [s \in Sessions |-> [log[s] EXCEPT !.torn = @ \/ s \in torn]]
  BY DEF Crash
<1> DEFINE left == [s \in Sessions |-> Unwritten(s)]
<1>2. Ended(left) /\ Fault /\ metadata' = metadata
  BY DEF Crash
<1>3. ASSUME NEW q \in Sessions
      PROVE  /\ left[q] = Unwritten(q) /\ (left[q] = {} => q \notin torn)
             /\ log'[q].exists = log[q].exists /\ log'[q].relays = log[q].relays
             /\ (q \notin torn => log'[q].torn = log[q].torn)
             /\ log'[q] \in Log /\ log[q] \in Log
  BY <1>1 DEF RsInv, RsTypes, Log, Unwritten
<1>4. log' \in [Sessions -> Log] /\ metadata' \in SUBSET Sessions
  BY <1>1, <1>2, <1>3 DEF RsInv, RsTypes
<1> HIDE DEF left
<1>5. ASSUME NEW q \in Sessions
      PROVE  (StagesOk(q) /\ LogOk(q) /\ ClaimOk(q) /\ KeptOk(q))'
  <2>1. metadata \subseteq metadata' /\ (q \in metadata' => q \in metadata \/ tree[q].live)
    BY <1>2
  <2>2. Clean(q) /\ left[q] = {} /\ ~ log[q].torn =>
              /\ log'[q].exists = log[q].exists /\ ~ log'[q].torn
              /\ log'[q].relays = log[q].relays \cup Unwritten(q)
    BY <1>3
  <2>3. log[q] = NoLog /\ left[q] = {} /\ Unwritten(q) = {} => log'[q] = NoLog
    BY <1>3 DEF NoLog, Log
  <2> QED
    BY <1>2, <2>1, <2>2, <2>3, EndedKeeps
<1> QED
  BY <1>2, <1>4, <1>5, EndedTypes, AllSessionsKeep

(* A start, which loads what is not outdated and a query was answered for. *)
LEMMA StartKeeps ==
    ASSUME RsInv, Start
    PROVE  RsInv'
<1>1. PICK unanswered \in SUBSET metadata :
          LET kept == metadata \ unanswered
              loaded == {s \in kept : ~Outdated(s) /\ Importable(s)}
          IN  /\ IF unanswered = {} THEN UNCHANGED faults ELSE Fault
              /\ metadata' = metadata \ {s \in kept : Outdated(s)}
              /\ tree' = [s \in Sessions |-> IF s \in loaded THEN Imported(s) ELSE NoTree]
              /\ stage' = [s \in Sessions |->
                    IF s \in loaded /\ claim[s] # NoRoot THEN "claimed" ELSE "idle"]
              /\ mishaps' = [s \in Sessions |->
                    IF s \in metadata \ loaded THEN mishaps[s] \cup {"skipped"} ELSE mishaps[s]]
  BY DEF Start
<1> DEFINE loaded == {s \in metadata \ unanswered : ~Outdated(s) /\ Importable(s)}
<1>2. /\ ~ running /\ running' = TRUE /\ UNCHANGED <<height, mined, buffered, queued, log, chain>>
      /\ (UNCHANGED faults \/ Fault)
  BY <1>1 DEF Start
<1>3. /\ metadata' \in SUBSET metadata
      /\ \A q \in loaded : q \in metadata' /\ q \in metadata /\ Importable(q)
      /\ tree' = [s \in Sessions |-> IF s \in loaded THEN Imported(s) ELSE NoTree]
      /\ stage' = [s \in Sessions |->
            IF s \in loaded /\ claim[s] # NoRoot THEN "claimed" ELSE "idle"]
      /\ mishaps' = [s \in Sessions |->
            IF s \in metadata \ loaded THEN mishaps[s] \cup {"skipped"} ELSE mishaps[s]]
  BY <1>1
<1> HIDE DEF loaded
<1>4. \A q \in Sessions : Imported(q) \in Tree
  BY DEF RsInv, RsTypes, Imported, Tree, Log
<1>5. RsTypes'
  <2>1. NoTree \in Tree /\ {"claimed", "idle"} \subseteq Stages
    BY RootIsSomething DEF NoTree, Tree, Stages
  <2>2. faults' \in 0..MaxFaults
    BY <1>2, RelayerSessionsAssumption DEF RsInv, RsTypes, Fault
  <2>3. tree' \in [Sessions -> Tree] /\ stage' \in [Sessions -> Stages]
    BY <1>3, <1>4, <2>1
  <2>4. mishaps' \in [Sessions -> SUBSET Mishaps] /\ metadata' \in SUBSET Sessions
    BY <1>3 DEF RsInv, RsTypes, Mishaps
  <2> QED
    BY <1>2, <2>2, <2>3, <2>4 DEF RsInv, RsTypes, chain
<1>6. ASSUME NEW q \in Sessions
      PROVE  (StagesOk(q) /\ LogOk(q) /\ ClaimOk(q) /\ KeptOk(q))'
  <2>1. Known(q) /\ SessionOk(q) /\ Unwritten(q) = {}
    BY <1>2, OneSession DEF SessionOk, StagesOk
  <2>2. /\ claim'[q] = claim[q] /\ proof'[q] = proof[q] /\ claimTxs'[q] = claimTxs[q]
        /\ proofTxs'[q] = proofTxs[q] /\ height' = height /\ log'[q] = log[q]
        /\ Unwritten(q)' = {} /\ (Importable(q)' <=> Importable(q))
    BY <1>2, <2>1 DEF chain, Unwritten, Importable
  <2>3. CASE q \in loaded
    <3>1. /\ tree'[q].live /\ tree'[q].relays = log[q].relays /\ tree'[q].root = claim[q]
          /\ (claim[q] # NoRoot => tree'[q].claiming /\ stage'[q] = "claimed")
          /\ (claim[q] = NoRoot => stage'[q] = "idle")
          /\ mishaps'[q] = mishaps[q] /\ q \in metadata /\ q \in metadata' /\ Importable(q)
      BY <1>3, <2>3 DEF Imported
    <3>2. StagesOk(q)'
      BY <1>2, <2>1, <2>2, <3>1 DEF SessionOk, StagesOk, InPipeline
    <3>3. LogOk(q)'
      BY <1>2, <2>2, <3>1 DEF LogOk
    <3>4. ClaimOk(q)'
      <4>1. Clean(q) /\ claim[q] # NoRoot => Root(log[q].relays) = claim[q]
        BY <1>2, <2>1, <3>1 DEF SessionOk, ClaimOk
      <4>2. Clean(q) /\ claimTxs[q] # {} => ~ height <= Window[q].claimClose
        BY <1>2, <2>1 DEF SessionOk, ClaimOk, StagesOk
      <4> QED
        BY <1>2, <2>1, <2>2, <3>1, <4>1, <4>2 DEF SessionOk, ClaimOk, Clean
    <3>5. KeptOk(q)'
      BY <1>2, <2>2, <3>1 DEF KeptOk
    <3> QED
      BY <3>2, <3>3, <3>4, <3>5
  <2>4. CASE q \notin loaded
    <3>1. /\ tree'[q] = NoTree /\ stage'[q] = "idle"
          /\ mishaps'[q] = IF q \in metadata THEN mishaps[q] \cup {"skipped"} ELSE mishaps[q]
      BY <1>3, <2>4
    <3>2. Clean(q)' => q \notin metadata /\ Clean(q)
      BY <3>1 DEF Clean
    <3>3. StagesOk(q)'
      BY <1>2, <2>1, <2>2, <3>1 DEF SessionOk, StagesOk, InPipeline, NoTree
    <3>4. LogOk(q)'
      BY <1>2, <2>1, <2>2, <3>1, <3>2 DEF SessionOk, LogOk, NoTree
    <3>5. ClaimOk(q)'
      <4>1. Clean(q) /\ claimTxs[q] # {} => ~ height <= Window[q].claimClose
        BY <1>2, <2>1 DEF SessionOk, ClaimOk, StagesOk
      <4> QED
        BY <1>2, <2>1, <2>2, <3>1, <3>2, <4>1 DEF SessionOk, ClaimOk, NoTree
    <3>6. KeptOk(q)'
      <4> SUFFICES ASSUME mishaps'[q] = {}, claim[q] # NoRoot, proof[q] = NoRoot,
                          proofTxs[q] = {}, height <= Window[q].proofClose
                   PROVE  FALSE
        BY <2>2 DEF KeptOk
      <4>1. q \notin metadata /\ mishaps[q] = {}
        BY <3>1
      <4> QED
        BY <1>2, <2>1, <4>1 DEF SessionOk, KeptOk
    <3> QED
      BY <3>3, <3>4, <3>5, <3>6
  <2> QED
    BY <2>3, <2>4
<1> QED
  BY <1>5, <1>6, AllSessionsKeep

-----------------------------------------------------------------------------
(* Results. *)

(* The invariant holds of a miner that has served nothing.                 *)
LEMMA RsInitInv == RsInit => RsInv
<1> SUFFICES ASSUME RsInit
             PROVE  RsInv
  OBVIOUS
<1>1. NoTree \in Tree /\ NoLog \in Log
  BY RootIsSomething DEF NoTree, NoLog, Tree, Log
<1>2. RsTypes
  BY <1>1, RootIsSomething, RelayerSessionsAssumption DEF RsInit, RsTypes, Stages
<1>3. ASSUME NEW s \in Sessions
      PROVE  SessionOk(s)
  BY DEF RsInit, SessionOk, StagesOk, LogOk, ClaimOk, KeptOk, Unwritten, InPipeline, NoTree
<1> QED
  BY <1>2, <1>3 DEF RsInv

(* Every step keeps the invariant.                                         *)
LEMMA RsStepKeeps == RsInv /\ [RsNext]_rsVars => RsInv'
<1> SUFFICES ASSUME RsInv, [RsNext]_rsVars
             PROVE  RsInv'
  OBVIOUS
<1>1. CASE UNCHANGED rsVars
  BY <1>1 DEF RsInv, RsTypes, SessionOk, StagesOk, LogOk, ClaimOk, KeptOk, Unwritten,
              Importable, Clean, rsVars, memory, disk, chain
<1>2. CASE Block \/ Stop \/ Crash \/ Start
  BY <1>2, BlockKeeps, StopKeeps, CrashKeeps, StartKeeps
<1>3. ASSUME NEW s \in Sessions,
             \/ \E r \in Relays : MineRelay(s, r)
             \/ FlushBuffer(s) \/ DropBuffer(s) \/ WriteToDisk(s)
             \/ Flush(s) \/ SendClaim(s) \/ ClaimAnswered(s)
             \/ SendProof(s) \/ ProofAnswered(s) \/ DeleteMetadata(s)
             \/ GiveUpClaim(s) \/ ClaimTxFails(s) \/ GiveUpProof(s)
             \/ \E root \in Roots :
                   ClaimLands(s, root) \/ ClaimIsRejected(s, root) \/ ProofLands(s, root)
      PROVE  RsInv'
  BY <1>3, MineKeeps, FlushBufferKeeps, DropBufferKeeps, WriteKeeps, FlushKeeps,
     SendClaimKeeps, ClaimLandsKeeps, ClaimIsRejectedKeeps, ClaimAnsweredKeeps,
     SendProofKeeps, ProofLandsKeeps, DeleteMetadataKeeps, ProofAnsweredKeeps,
     GiveUpClaimKeeps, ClaimTxFailsKeeps, GiveUpProofKeeps
<1> QED
  BY <1>1, <1>2, <1>3 DEF RsNext

(* The miner's bookkeeping of its sessions, through stops and crashes.     *)
THEOREM SessionsInvariance == RsSpec => []RsInv
BY RsInitInv, RsStepKeeps, PTL DEF RsSpec

(* Every variable has the values the miner gives it.                       *)
THEOREM SessionTypes == RsSpec => []RsTypeOK
<1>1. RsInv => RsTypeOK
  BY DEF RsInv, RsTypes, RsTypeOK, SessionOk, StagesOk, Tree, Log
<1> QED
  BY <1>1, SessionsInvariance, PTL

(* Until its proof is sent a claim has its tree, or a log to replay it     *)
(* from.                                                                   *)
THEOREM ClaimsAreProvable == RsSpec => []ClaimsStayProvable
<1>1. ASSUME RsInv
      PROVE  ClaimsStayProvable
  <2> SUFFICES ASSUME NEW s \in Sessions, claim[s] # NoRoot, proof[s] = NoRoot,
                      proofTxs[s] = {}, mishaps[s] = {}, height <= Window[s].proofClose
               PROVE  HasEvidence(s)
    BY DEF ClaimsStayProvable
  <2>1. Known(s) /\ SessionOk(s) /\ Clean(s)
    BY <1>1, OneSession DEF Clean
  <2>2. CASE running
    <3>1. stage[s] \in {"claimTx", "claimed"}
      BY <2>1, <2>2 DEF SessionOk, KeptOk
    <3>2. tree[s].live /\ tree[s].root # NoRoot
      BY <2>1, <3>1 DEF SessionOk, StagesOk, InPipeline
    <3> QED
      BY <2>1, <2>2, <3>2 DEF HasEvidence, SessionOk, ClaimOk
  <2>3. CASE ~ running
    <3>1. s \in metadata /\ Importable(s)
      BY <2>1, <2>3 DEF SessionOk, KeptOk
    <3> QED
      BY <2>1, <2>3, <3>1 DEF HasEvidence, SessionOk, ClaimOk
  <2> QED
    BY <2>1, <2>2, <2>3 DEF Known
<1> QED
  BY <1>1, SessionsInvariance, PTL

(* A proof on chain is of the root that is claimed there.                  *)
THEOREM ProofsAreOfClaims == RsSpec => []ProofsMatchTheirClaims
<1>1. RsInv => ProofsMatchTheirClaims
  BY DEF RsInv, SessionOk, ClaimOk, Clean, ProofsMatchTheirClaims
<1> QED
  BY <1>1, SessionsInvariance, PTL
=============================================================================
