-------------------------- MODULE RelayerSessions --------------------------
(***************************************************************************)
(* The sessions of a supplier in the relay miner (pkg/relayer/session):    *)
(* relays are put in a session's tree and in its write-ahead log, the      *)
(* tree is claimed and proven in the session's windows, and all of it      *)
(* survives what it can of a stop or a crash.                              *)
(*                                                                         *)
(* A tree is the set of relays in it, and so is its root: different sets   *)
(* have different roots.  Of a session there is                            *)
(*   in memory  the tree, the relays of its log not yet written (buffered, *)
(*              or queued for the writer), and where its claim is;         *)
(*   on disk    its metadata and its log, which a crash may tear;          *)
(*   on chain   its claim, its proof, and the transactions on their way.   *)
(*                                                                         *)
(* The pipeline of a session is a chain of goroutines and observables:     *)
(*   claiming   StartClaiming, marked by the block that opens the window;  *)
(*   flushed    the root is fixed, its commit height is awaited;           *)
(*   claimTx    CreateClaims has not returned;                             *)
(*   claimed    the proof's height is awaited;                             *)
(*   proofTx    SubmitProofs has not returned;                             *)
(*   deleting   the tree and its log are gone, its metadata is not yet.    *)
(* An error on the way, of a query, a transaction or a check, ends it by   *)
(* deletion.                                                               *)
(*                                                                         *)
(* Assumed: a deletion ends within a block.  Bounds: MaxHeight blocks, and *)
(* MaxFaults crashes, stops and failures together.                         *)
(***************************************************************************)
EXTENDS Integers, FiniteSets

CONSTANTS
    Sessions, Relays,
    Window,       \* Window[s]: record [claimOpen, claimClose, proofOpen, proofClose]
    MaxHeight, MaxFaults

ASSUME RelayerSessionsAssumption ==
    /\ IsFiniteSet(Sessions) /\ IsFiniteSet(Relays)
    /\ MaxHeight \in Nat /\ MaxFaults \in Nat
    /\ Window \in [Sessions -> [claimOpen : Nat, claimClose : Nat,
                                proofOpen : Nat, proofClose : Nat]]
    /\ \A s \in Sessions :
          0 < Window[s].claimOpen /\ Window[s].claimOpen < Window[s].claimClose
          /\ Window[s].claimClose <= Window[s].proofOpen
          /\ Window[s].proofOpen < Window[s].proofClose

NoRoot == [none |-> TRUE]
NoTree == [relays |-> {}, root |-> NoRoot, claiming |-> FALSE, live |-> FALSE]
NoLog == [exists |-> FALSE, relays |-> {}, torn |-> FALSE]

Root(relays) == [relays |-> relays]

Roots == {NoRoot} \cup {Root(rs) : rs \in SUBSET Relays}

Stages == {"idle", "claiming", "flushed", "claimTx", "claimed", "proofTx", "deleting"}

VARIABLES
    height, running,
    mined,           \* mined[s]: the relays served and mined so far
    tree,            \* sessionsTrees: [relays, root, claiming, live]
    buffered, queued, \* relays of the log not yet written
    stage,
    metadata,        \* sessionSMTStore
    log,             \* the write-ahead log: [exists, relays, torn]
    claim, proof,    \* on chain: a root, or NoRoot
    claimTxs,        \* roots of the claims in flight
    proofTxs,        \* roots of the trees proofs in flight are of
    mishaps,         \* mishaps[s]: what went wrong, see Mishaps
    faults

memory == <<tree, buffered, queued, stage>>
disk == <<metadata, log>>
chain == <<claim, proof, claimTxs, proofTxs>>
rsVars == <<height, running, mined, memory, disk, chain, mishaps, faults>>

(* What breaks the tie between a claim and the tree it is of:              *)
(*   lost      relays of the log never reached the disk;                   *)
(*   skipped   a start did not load the session;                           *)
(*   inFlight  the process ended, or gave up, with a claim in flight;      *)
(*   gaveUp    the pipeline ended after the claim was sent, in an error or *)
(*             because no proof is required;                               *)
(*   recreated a late relay made a new tree while the old one was being    *)
(*             deleted: the deletion takes it too, but not its log, which  *)
(*             the next tree of the session appends to.                    *)
Mishaps == {"lost", "skipped", "inFlight", "gaveUp", "recreated"}

Happened(s, m) == mishaps' = [mishaps EXCEPT ![s] = @ \cup m]

Fault == faults < MaxFaults /\ faults' = faults + 1

-----------------------------------------------------------------------------
(* Relays.                                                                 *)

UpdatedRegardless(s, r) == [tree[s] EXCEPT !.relays = @ \cup {r}, !.live = TRUE]

(* Update: a tree whose root is fixed takes no more relays.                *)
Updated(s, r) ==
    IF tree[s].root # NoRoot THEN tree[s]
    ELSE [tree[s] EXCEPT !.relays = @ \cup {r}, !.live = TRUE]

(* mapAddMinedRelayToSessionTree, for a relay served before the claim      *)
(* window opened.  A session without a tree gets one, with its metadata,   *)
(* and a log that is opened for appending if there is one.                 *)
MineRelay(s, r) ==
    /\ running /\ r \notin mined[s]
    /\ height <= Window[s].claimOpen
    /\ mined' = [mined EXCEPT ![s] = @ \cup {r}]
    /\ tree' = [tree EXCEPT ![s] = Updated(s, r)]
    /\ IF tree[s].live
       THEN UNCHANGED disk
       ELSE /\ metadata' = metadata \cup {s}
            /\ log' = [log EXCEPT ![s].exists = TRUE]
    /\ buffered' = IF tree[s].root # NoRoot THEN buffered
                   ELSE [buffered EXCEPT ![s] = @ \cup {r}]
    /\ UNCHANGED <<height, running, queued, stage, chain, mishaps, faults>>

(* flushBufferToDisk, by the ticker or a full buffer.                      *)
FlushBuffer(s) ==
    /\ buffered[s] # {}
    /\ queued' = [queued EXCEPT ![s] = @ \cup buffered[s]]
    /\ buffered' = [buffered EXCEPT ![s] = {}]
    /\ UNCHANGED <<height, running, mined, tree, stage, disk, chain, mishaps, faults>>

(* The queue of the writer is full: what was in the buffer is dropped.     *)
DropBuffer(s) ==
    /\ buffered[s] # {} /\ Fault
    /\ buffered' = [buffered EXCEPT ![s] = {}]
    /\ Happened(s, {"lost"})
    /\ UNCHANGED <<height, running, mined, tree, queued, stage, disk, chain>>

Written(s, relays) ==
    log' = [log EXCEPT ![s] = IF log[s].torn THEN log[s]
                              ELSE [log[s] EXCEPT !.relays = @ \cup relays]]

WriteToDisk(s) ==
    /\ queued[s] # {}
    /\ Written(s, queued[s])
    /\ queued' = [queued EXCEPT ![s] = {}]
    /\ UNCHANGED <<height, running, mined, tree, buffered, stage, metadata, chain, mishaps, faults>>

-----------------------------------------------------------------------------
(* Claims and proofs.                                                      *)

MoveTo(s, next) == stage' = [stage EXCEPT ![s] = next]

(* createClaimRoots fixes the root.                                        *)
Flush(s) ==
    /\ running /\ stage[s] = "claiming"
    /\ tree' = [tree EXCEPT ![s].root = IF @ = NoRoot THEN Root(tree[s].relays) ELSE @]
    /\ MoveTo(s, "flushed")
    /\ UNCHANGED <<height, running, mined, buffered, queued, disk, chain, mishaps, faults>>

SendClaim(s) ==
    /\ running /\ stage[s] = "flushed" /\ height <= Window[s].claimClose
    /\ claimTxs' = [claimTxs EXCEPT ![s] = @ \cup {tree[s].root}]
    /\ MoveTo(s, "claimTx")
    /\ UNCHANGED <<height, running, mined, tree, buffered, queued, disk, claim, proof,
                   proofTxs, mishaps, faults>>

(* A block takes a claim: it replaces one the session has.                 *)
ClaimLands(s, root) ==
    /\ root \in claimTxs[s]
    /\ Window[s].claimOpen < height /\ height <= Window[s].claimClose
    /\ claim' = [claim EXCEPT ![s] = root]
    /\ claimTxs' = [claimTxs EXCEPT ![s] = @ \ {root}]
    /\ UNCHANGED <<height, running, mined, memory, disk, proof, proofTxs, mishaps, faults>>

(* A block takes the transaction, and it fails.                            *)
ClaimIsRejected(s, root) ==
    /\ root \in claimTxs[s] /\ height <= Window[s].claimClose /\ Fault
    /\ claimTxs' = [claimTxs EXCEPT ![s] = @ \ {root}]
    /\ UNCHANGED <<height, running, mined, memory, disk, claim, proof, proofTxs, mishaps>>

(* The transaction is in a block, whether it failed or not.                *)
ClaimAnswered(s) ==
    /\ running /\ stage[s] = "claimTx"
    /\ tree[s].root \notin claimTxs[s]
    /\ MoveTo(s, "claimed")
    /\ UNCHANGED <<height, running, mined, tree, buffered, queued, disk, chain, mishaps, faults>>

SendProof(s) ==
    /\ running /\ stage[s] = "claimed"
    /\ Window[s].proofOpen <= height /\ height <= Window[s].proofClose
    /\ proofTxs' = [proofTxs EXCEPT ![s] = @ \cup {Root(tree[s].relays)}]
    /\ MoveTo(s, "proofTx")
    /\ UNCHANGED <<height, running, mined, tree, buffered, queued, disk, claim, proof,
                   claimTxs, mishaps, faults>>

ProofLands(s, root) ==
    /\ root \in proofTxs[s] /\ claim[s] # NoRoot
    /\ Window[s].proofOpen < height /\ height <= Window[s].proofClose
    /\ proof' = [proof EXCEPT ![s] = root]
    /\ proofTxs' = [proofTxs EXCEPT ![s] = @ \ {root}]
    /\ UNCHANGED <<height, running, mined, memory, disk, claim, claimTxs, mishaps, faults>>

-----------------------------------------------------------------------------
(* Deletion: deleteSessionTree.                                            *)

(* The tree goes, and its log; its metadata after it.                      *)
Deleted(s) ==
    /\ tree' = [tree EXCEPT ![s] = NoTree]
    /\ buffered' = [buffered EXCEPT ![s] = {}] /\ queued' = [queued EXCEPT ![s] = {}]
    /\ log' = [log EXCEPT ![s] = NoLog]
    /\ MoveTo(s, "deleting")
    /\ UNCHANGED <<height, running, mined, metadata, chain>>

(* deletePersistedSessionTree, which takes the session from the map of     *)
(* trees once more, whatever is there by now.                              *)
DeleteMetadata(s) ==
    /\ running /\ stage[s] = "deleting"
    /\ metadata' = metadata \ {s}
    /\ tree' = [tree EXCEPT ![s] = NoTree]
    /\ IF tree[s].live THEN Happened(s, {"recreated"}) ELSE UNCHANGED mishaps
    /\ MoveTo(s, "idle")
    /\ UNCHANGED <<height, running, mined, buffered, queued, log, chain, faults>>

(* The proof is in a block.                                                *)
ProofAnswered(s) ==
    /\ running /\ stage[s] = "proofTx"
    /\ Root(tree[s].relays) \notin proofTxs[s]
    /\ Deleted(s)
    /\ UNCHANGED <<mishaps, faults>>

(* Not worth a claim, or an error, before the claim is sent.               *)
GiveUpClaim(s) ==
    /\ running /\ stage[s] \in {"claiming", "flushed"}
    /\ Deleted(s)
    /\ IF claimTxs[s] = {} /\ claim[s] = NoRoot
       THEN UNCHANGED mishaps
       ELSE Happened(s, {"gaveUp"})
    /\ UNCHANGED faults

(* CreateClaims fails: the transaction timed out, or is refused although   *)
(* the node has it (its first response was lost).                          *)
ClaimTxFails(s) ==
    /\ running /\ stage[s] = "claimTx"
    /\ \/ /\ height > Window[s].claimClose /\ tree[s].root \in claimTxs[s]
          /\ UNCHANGED <<mishaps, faults>>
       \/ height <= Window[s].claimClose /\ Fault /\ Happened(s, {"inFlight"})
    /\ Deleted(s)

(* No proof is required, a query fails, the proof cannot be made, or       *)
(* SubmitProofs fails.                                                     *)
GiveUpProof(s) ==
    /\ running /\ stage[s] \in {"claimed", "proofTx"}
    /\ Deleted(s)
    /\ Happened(s, {"gaveUp"})
    /\ UNCHANGED faults

-----------------------------------------------------------------------------
(* Blocks.                                                                 *)

(* forEachBlockClaimSessionsFn starts the claims of the sessions whose     *)
(* window is open, late ones too.                                          *)
ToClaim(h) ==
    {s \in Sessions : tree[s].live /\ ~tree[s].claiming /\ Window[s].claimOpen <= h}

(* deleteExpiredSessionTreesFn.                                            *)
ExpiredAtClaimClose(h) == {s \in Sessions : tree[s].live /\ h > Window[s].claimClose}

ExpiredNever(h) == {}

Expired(h) == {s \in Sessions : tree[s].live /\ h > Window[s].proofClose}

Block ==
    /\ height < MaxHeight
    /\ \A s \in Sessions : stage[s] # "deleting"
    /\ height' = height + 1
    /\ IF running
       THEN LET gone == Expired(height + 1)
                claimed == ToClaim(height + 1) \ gone
            IN  /\ tree' = [s \in Sessions |->
                      IF s \in gone THEN NoTree
                      ELSE IF s \in claimed THEN [tree[s] EXCEPT !.claiming = TRUE]
                      ELSE tree[s]]
                /\ stage' = [s \in Sessions |->
                      IF s \in gone THEN "deleting"
                      ELSE IF s \in claimed THEN "claiming" ELSE stage[s]]
                /\ log' = [s \in Sessions |-> IF s \in gone THEN NoLog ELSE log[s]]
                /\ buffered' = [s \in Sessions |-> IF s \in gone THEN {} ELSE buffered[s]]
                /\ queued' = [s \in Sessions |-> IF s \in gone THEN {} ELSE queued[s]]
       ELSE UNCHANGED <<memory, log>>
    /\ UNCHANGED <<running, mined, metadata, chain, mishaps, faults>>

-----------------------------------------------------------------------------
(* Stops, crashes and starts.                                              *)

Unwritten(s) == buffered[s] \cup queued[s]

(* What is lost in memory when the process ends with `left' unwritten.     *)
Ended(left) ==
    /\ running /\ running' = FALSE
    /\ tree' = [s \in Sessions |-> NoTree]
    /\ buffered' = [s \in Sessions |-> {}] /\ queued' = [s \in Sessions |-> {}]
    /\ stage' = [s \in Sessions |-> "idle"]
    /\ mishaps' = [s \in Sessions |->
          mishaps[s] \cup (IF left[s] # {} THEN {"lost"} ELSE {})
                     \cup (IF claimTxs[s] # {} THEN {"inFlight"} ELSE {})]
    /\ UNCHANGED <<height, mined, chain>>

(* Stop stores the metadata of every tree and closes its log, which writes *)
(* what is buffered and queued.  A buffer the ticker was about to queue is *)
(* `late': the log is closed before it comes.                              *)
Stop ==
    /\ Fault
    /\ \E late \in SUBSET {s \in Sessions : buffered[s] # {}} :
          /\ Ended([s \in Sessions |-> IF s \in late THEN buffered[s] ELSE {}])
          /\ log' = [s \in Sessions |->
                IF log[s].torn THEN log[s]
                ELSE [log[s] EXCEPT !.relays =
                        @ \cup IF s \in late THEN queued[s] ELSE Unwritten(s)]]
    /\ metadata' = metadata \cup {s \in Sessions : tree[s].live}

(* A crash loses what is not written, and may tear what is being written.  *)
Crash ==
    /\ Fault
    /\ Ended([s \in Sessions |-> Unwritten(s)])
    /\ \E torn \in SUBSET {s \in Sessions : queued[s] # {}} :
          log' = [s \in Sessions |-> [log[s] EXCEPT !.torn = @ \/ s \in torn]]
    /\ UNCHANGED metadata

(* importSessionTree: replayed from the log, with the root of its claim.   *)
ImportedAsNew(s) == [relays |-> log[s].relays, root |-> NoRoot, claiming |-> FALSE, live |-> TRUE]

Imported(s) ==
    [relays |-> log[s].relays, root |-> claim[s], claiming |-> claim[s] # NoRoot, live |-> TRUE]

Importable(s) == log[s].exists /\ ~log[s].torn

(* The metadata loadSessionTreeMap deletes: past the proof window, or past *)
(* the claim window without a claim.  (The log stays: it is looked for     *)
(* under another name.)                                                    *)
Outdated(s) ==
    \/ height > Window[s].proofClose
    \/ height > Window[s].claimClose /\ claim[s] = NoRoot

(* The claim is asked for only from the block that opens the window.       *)
(* Sessions with a claim go on to their proofs (proveClaimedSessions).     *)
(* `unanswered' are those a query failed for.                              *)
Start ==
    /\ ~running /\ running' = TRUE
    /\ \E unanswered \in SUBSET metadata :
          LET kept == metadata \ unanswered
              loaded == {s \in kept : ~Outdated(s) /\ Importable(s)}
          IN  /\ IF unanswered = {} THEN UNCHANGED faults ELSE Fault
              /\ metadata' = metadata \ {s \in kept : Outdated(s)}
              /\ tree' = [s \in Sessions |-> IF s \in loaded THEN Imported(s) ELSE NoTree]
              /\ stage' = [s \in Sessions |->
                    IF s \in loaded /\ claim[s] # NoRoot THEN "claimed" ELSE "idle"]
              /\ mishaps' = [s \in Sessions |->
                    IF s \in metadata \ loaded THEN mishaps[s] \cup {"skipped"} ELSE mishaps[s]]
    /\ UNCHANGED <<height, mined, buffered, queued, log, chain>>

-----------------------------------------------------------------------------
RsInit ==
    /\ height = 0 /\ running = TRUE /\ faults = 0
    /\ mined = [s \in Sessions |-> {}]
    /\ tree = [s \in Sessions |-> NoTree]
    /\ buffered = [s \in Sessions |-> {}] /\ queued = [s \in Sessions |-> {}]
    /\ stage = [s \in Sessions |-> "idle"]
    /\ metadata = {} /\ log = [s \in Sessions |-> NoLog]
    /\ claim = [s \in Sessions |-> NoRoot] /\ proof = [s \in Sessions |-> NoRoot]
    /\ claimTxs = [s \in Sessions |-> {}] /\ proofTxs = [s \in Sessions |-> {}]
    /\ mishaps = [s \in Sessions |-> {}]

RsNext ==
    \/ Block \/ Stop \/ Crash \/ Start
    \/ \E s \in Sessions :
          \/ \E r \in Relays : MineRelay(s, r)
          \/ FlushBuffer(s) \/ DropBuffer(s) \/ WriteToDisk(s)
          \/ Flush(s) \/ SendClaim(s) \/ ClaimAnswered(s)
          \/ SendProof(s) \/ ProofAnswered(s) \/ DeleteMetadata(s)
          \/ GiveUpClaim(s) \/ ClaimTxFails(s) \/ GiveUpProof(s)
          \/ \E root \in Roots :
                ClaimLands(s, root) \/ ClaimIsRejected(s, root) \/ ProofLands(s, root)

(* Blocks come, a process that ended is started, a deletion is finished.   *)
RsFairness ==
    /\ WF_rsVars(Block) /\ WF_rsVars(Start)
    /\ \A s \in Sessions : WF_rsVars(DeleteMetadata(s))

RsSpec == RsInit /\ [][RsNext]_rsVars /\ RsFairness

-----------------------------------------------------------------------------
InPipeline == {"flushed", "claimTx", "claimed", "proofTx"}

(* Every variable has the values the miner gives it, and a session past    *)
(* Flush has its root.                                                     *)
RsTypeOK ==
    /\ height \in 0..MaxHeight /\ running \in BOOLEAN /\ faults \in 0..MaxFaults
    /\ tree \in [Sessions -> [relays : SUBSET Relays, root : Roots,
                               claiming : BOOLEAN, live : BOOLEAN]]
    /\ log \in [Sessions -> [exists : BOOLEAN, relays : SUBSET Relays, torn : BOOLEAN]]
    /\ stage \in [Sessions -> Stages] /\ metadata \subseteq Sessions
    /\ claim \in [Sessions -> Roots] /\ proof \in [Sessions -> Roots]
    /\ \A s \in Sessions :
          /\ UNION {mined[s], buffered[s], queued[s]} \subseteq Relays
          /\ claimTxs[s] \cup proofTxs[s] \subseteq Roots
          /\ mishaps[s] \subseteq Mishaps
          /\ stage[s] \in InPipeline => tree[s].live /\ tree[s].claiming /\ tree[s].root # NoRoot

(* The tree, or the log it is replayed from, is the one s was claimed for. *)
HasEvidence(s) ==
    IF running
    THEN tree[s].live /\ Root(tree[s].relays) = claim[s]
    ELSE s \in metadata /\ Importable(s) /\ Root(log[s].relays) = claim[s]

(* Until its proof is sent a claim can be proven: the miner has the very   *)
(* tree it claimed, or can replay it when it is started.  (A claim without *)
(* a valid proof is slashed, so the tree must outlive restarts at any      *)
(* point and late relays, unless one of the mishaps came between.)         *)
ClaimsStayProvable ==
    \A s \in Sessions :
        claim[s] # NoRoot /\ proof[s] = NoRoot /\ proofTxs[s] = {} /\ mishaps[s] = {}
            /\ height <= Window[s].proofClose
        => HasEvidence(s)

(* A proof on chain is of the root that is claimed there.  (The tree of a  *)
(* proof is read long after the root was fixed, across a restart or not.)  *)
ProofsMatchTheirClaims ==
    \A s \in Sessions :
        proof[s] # NoRoot /\ proof[s] # claim[s] => mishaps[s] \ {"gaveUp"} # {}

(* Every session's tree and metadata are deleted in the end, whatever the  *)
(* pipeline came to, except a session a start skipped, whose metadata wait *)
(* for another start.                                                      *)
SessionsAreReleased ==
    \A s \in Sessions :
        tree[s].live ~> \/ ~tree[s].live /\ s \notin metadata
                        \/ "skipped" \in mishaps[s]

(* "The resulting trie represents the exact pre-crash state": a tree that  *)
(* was restored for its claim has the claimed root.                        *)
RestoredTreesHaveTheirRoot ==
    \A s \in Sessions : stage[s] = "claimed" => Root(tree[s].relays) = tree[s].root
=============================================================================
