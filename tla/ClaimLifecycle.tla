--------------------------- MODULE ClaimLifecycle ---------------------------
(***************************************************************************)
(* Claims and proofs (x/proof) and their settlement (x/tokenomics), over   *)
(* the supplier and the shared modules.                                    *)
(*                                                                         *)
(* After a session ends a supplier claims the root of the relays it        *)
(* served, then, if asked to, proves it.  The EndBlockers run in the order *)
(* of app/app_config.go: proofs are validated, the claims whose proof      *)
(* window has closed are settled, expired (and the supplier slashed) or    *)
(* discarded, suppliers are unbonded and pruned, and last of all the       *)
(* shared params are promoted.                                             *)
(*                                                                         *)
(* There is one application, staked throughout; a session is given by its  *)
(* service and its first and last heights.  A root is the number of        *)
(* compute units it sums to, at relay mining difficulty one; a proof is    *)
(* the root of the tree it was taken from, and valid if that is the root   *)
(* of the claim.  The random sample that asks for a proof is drawn from a  *)
(* hash of the whole claim, its validation status included, so it is one   *)
(* draw per root and status.  How much of a settled claim is paid          *)
(* (application budgets, token logic modules) is left out, except for the  *)
(* condition under which the distribution fails.                           *)
(***************************************************************************)
EXTENDS SupplierLifecycle

CONSTANTS
    Roots,            \* the roots a claim may carry, in compute units
    SampleOutcomes,   \* the sets of statuses for which a claim may be sampled
    ProofThreshold,   \* x/proof param proof_requirement_threshold
    Penalty           \* x/proof param proof_missing_penalty

Statuses == {"pending", "validated", "invalid"}

ASSUME ClaimAssumption ==
    /\ Roots \subseteq Nat
    /\ SampleOutcomes \subseteq SUBSET Statuses
    /\ ProofThreshold \in Nat
    /\ Penalty \in Nat

VARIABLES
    claims,      \* claim key -> the claim on record
    proofs,      \* claim key -> the root of the proof awaiting validation
    outcomes,    \* history variable: claim key -> how settlement left it
    lastProof    \* history variable: claim key -> root of the last proof accepted

claimVars == <<claims, proofs, outcomes, lastProof>>
clVars == <<slVars, claimVars>>

Key == [operator : Operators, service : Services, start : Nat, end : Nat]

Put(f, k, v) == [x \in DOMAIN f \cup {k} |-> IF x = k THEN v ELSE f[x]]

-----------------------------------------------------------------------------
(* x/proof. *)

(* Mutant: priced by the live params.                                      *)
ClaimedAmountNow(k, root) ==
    (root * live.computeUnitsToTokensMultiplier) \div live.computeUnitCostGranularity

(* GetClaimeduPOKT, priced by the params of the session's start. *)
ClaimedAmount(k, root) ==
    LET p == GetParamsAtHeight(k.start)
    IN  (root * p.computeUnitsToTokensMultiplier) \div p.computeUnitCostGranularity

(* Mutant: the threshold is not looked at.                                 *)
ProofIsRequiredBySample(k, c) == c.status \in c.sampled

(* ProofRequirementForClaim: by amount, or by the sample. *)
ProofIsRequired(k, c) ==
    \/ ClaimedAmount(k, c.root) >= ProofThreshold
    \/ c.status \in c.sampled

(* queryAndValidateSessionHeader: the session hydrated now for its start   *)
(* height is the one named, and lists the supplier.                        *)
SessionListsSupplier(k) ==
    /\ k.start <= height
    /\ SessionAt(k.start).start = k.start
    /\ SessionAt(k.start).end = k.end
    /\ k.operator \in SessionSuppliers(k.service, k.start)

(* Mutants: the window without its first bound, and without its last.      *)
InClaimWindowFromStart(k) ==
    height <= GetClaimWindowCloseHeight(GetParamsAtHeight(k.end), k.end)

InClaimWindowForever(k) ==
    height >= GetClaimWindowOpenHeight(GetParamsAtHeight(k.end), k.end)

InClaimWindow(k) ==
    LET p == GetParamsAtHeight(k.end)
    IN  /\ height >= GetClaimWindowOpenHeight(p, k.end)
        /\ height <= GetClaimWindowCloseHeight(p, k.end)

InProofWindow(k) ==
    LET p == GetParamsAtHeight(k.end)
    IN  /\ height >= GetProofWindowOpenHeight(p, k.end)
        /\ height <= GetProofWindowCloseHeight(p, k.end)

(* A later claim replaces an earlier one and its validation status.  The   *)
(* same root hashes to the same sample.                                    *)
CreateClaim(k, root, sampled) ==
    /\ SessionListsSupplier(k)
    /\ InClaimWindow(k)
    /\ k \in DOMAIN claims /\ claims[k].root = root => sampled = claims[k].sampled
    /\ claims' = Put(claims, k,
                     [root |-> root, status |-> "pending", sampled |-> sampled,
                      amount |-> ClaimedAmount(k, root)])
    /\ UNCHANGED <<slVars, proofs, outcomes, lastProof>>

SubmitProof(k, root) ==
    /\ SessionListsSupplier(k)
    /\ InProofWindow(k)
    /\ k \in DOMAIN claims
    /\ ProofIsRequired(k, claims[k])
    /\ proofs' = Put(proofs, k, root)
    /\ lastProof' = Put(lastProof, k, root)
    /\ UNCHANGED <<slVars, claims, outcomes>>

(* Mutant: the status is set on a copy of the claim that is not saved.     *)
ValidatedClaimsUnsaved == claims

(* ValidateSubmittedProofs: every claim with a proof gets its status; the  *)
(* proofs used are removed, one without a claim is left where it is.       *)
ValidatedClaims ==
    [k \in DOMAIN claims |->
        IF k \in DOMAIN proofs
        THEN [claims[k] EXCEPT !.status = IF proofs[k] = claims[k].root
                                          THEN "validated"
                                          ELSE "invalid"]
        ELSE claims[k]]

(* Mutant: proofs are validated but not removed.                           *)
ProofsKept == proofs

ProofsLeft == Restrict(proofs, DOMAIN proofs \ DOMAIN claims)

-----------------------------------------------------------------------------
(* x/tokenomics: settlement at the end of block height. *)

(* The last height of the epoch recorded at e, as far as this block knows. *)
LastHeightOfEpoch(e) ==
    LET later == {f \in EpochsUpTo(history, height) : f > e}
    IN  IF later = {} THEN height ELSE Min(later) - 1

(* Mutant: only live sessions are looked for.                              *)
SettlementEpochsLive == {live}

(* The params records under which a session end may be due: live, and      *)
(* every epoch that can still have claims in flight.                       *)
SettlementEpochs ==
    {live} \cup
    {history[e] : e \in {f \in EpochsUpTo(history, height) :
        LastHeightOfEpoch(f) + GetSessionEndToProofWindowCloseBlocks(history[f]) + 1
          >= height}}

CandidateSessionEndHeights ==
    {height - (GetSessionEndToProofWindowCloseBlocks(p) + 1) : p \in SettlementEpochs}
      \cap Nat

(* Mutant: whatever a candidate session end holds is taken to be due.      *)
DueClaimsUnripe(cs) == {k \in DOMAIN cs : k.end \in CandidateSessionEndHeights}

(* The claims collected: found under a candidate session end, and past     *)
(* the window of the epoch their session ended in.                         *)
DueClaims(cs) ==
    {k \in DOMAIN cs :
        /\ k.end \in CandidateSessionEndHeights
        /\ height > k.end
             + GetSessionEndToProofWindowCloseBlocks(GetParamsAtHeight(k.end))}

(* settleClaim.  Rewards go to the shareholders named by the config that   *)
(* is active for the service NOW; without one the distribution fails.      *)
Settlement(k, c) ==
    IF k.operator \notin DOMAIN suppliers
    THEN "discarded"
    ELSE IF ProofIsRequired(k, c) /\ c.status # "validated"
    THEN "expired"
    ELSE IF k.operator \in SessionSuppliers(k.service, height)
    THEN "settled"
    ELSE "discarded"

(* slashSupplierStake, once per expired claim: what n penalties take from  *)
(* a supplier, capped at its stake, and burn from the pool ...             *)
SlashingCoin(op, n) == Min({n * Penalty, suppliers[op].stake})

(* Mutant: coins are burned but the supplier keeps its stake.              *)
SlashedUnsaved(op, n) == suppliers[op]

(* ... and the record they leave.  A supplier that falls below the minimum *)
(* stake begins unbonding; only its record is written.                     *)
Slashed(op, n) ==
    LET s    == suppliers[op]
        left == s.stake - SlashingCoin(op, n)
    IN  [stake |-> left,
         unstakeSessionEndHeight |->
            IF n > 0 /\ left < MinStake /\ ~ IsUnbonding(s)
            THEN GetSessionEndHeight(live, height)
            ELSE s.unstakeSessionEndHeight]

-----------------------------------------------------------------------------
(* The EndBlockers of one block, in their order: proof, tokenomics,        *)
(* supplier, shared.                                                       *)
SettledKeys == DueClaims(ValidatedClaims)

ExpiredOf(cs, op) ==
    Cardinality({k \in SettledKeys : k.operator = op /\ Settlement(k, cs[k]) = "expired"})

CLEndBlock ==
    LET cs   == ValidatedClaims
        sups == [op \in DOMAIN suppliers |-> Slashed(op, ExpiredOf(cs, op))]
        cut  == [op \in DOMAIN suppliers |-> SlashingCoin(op, ExpiredOf(cs, op))]
    IN  /\ EndBlock
        /\ proofs' = ProofsLeft
        /\ claims' = Restrict(cs, DOMAIN cs \ SettledKeys)
        /\ outcomes' = [k \in DOMAIN outcomes \cup SettledKeys |->
                          IF k \in SettledKeys
                          THEN [result |-> Settlement(k, cs[k]), at |-> height,
                                status |-> cs[k].status, root |-> cs[k].root,
                                claimed |-> cs[k].amount,
                                priced |-> ClaimedAmount(k, cs[k].root)]
                          ELSE outcomes[k]]
        /\ \E stuck \in SUBSET UnbondedSuppliers(sups) :
              SupplierEndBlock(sups, supplierPool - Total(cut, DOMAIN suppliers), stuck)
        /\ UNCHANGED lastProof

-----------------------------------------------------------------------------
CLInit ==
    /\ SLInit
    /\ claims = [k \in {} |-> 0]
    /\ proofs = [k \in {} |-> 0]
    /\ outcomes = [k \in {} |-> 0]
    /\ lastProof = [k \in {} |-> 0]

(* The sessions that have begun, and their suppliers: the headers a claim  *)
(* or a proof may carry.                                                   *)
SessionKeys ==
    {[operator |-> op, service |-> s, start |-> SessionAt(x).start, end |-> SessionAt(x).end] :
        op \in Operators, s \in Services, x \in 1..height}

ProofMessage ==
    \E k \in SessionKeys, root \in Roots :
       \/ \E sampled \in SampleOutcomes : CreateClaim(k, root, sampled)
       \/ SubmitProof(k, root)

CLGovern == SLGovern /\ UNCHANGED claimVars

CLSupplierMessage == SupplierMessage /\ UNCHANGED claimVars

CLNext == CLGovern \/ CLSupplierMessage \/ ProofMessage \/ CLEndBlock

CLSpec == CLInit /\ [][CLNext]_clVars

-----------------------------------------------------------------------------
(* Properties. *)

(* Claims, proofs and outcomes are within their types, and a claim is of a *)
(* session that has ended: later relays could not be in its root.          *)
CLTypeOK ==
    /\ DOMAIN claims \subseteq {k \in Key : k.start <= k.end /\ k.end < height}
    /\ \A k \in DOMAIN claims :
          claims[k] \in [root : Roots, status : Statuses, sampled : SUBSET Statuses,
                         amount : Nat]
    /\ DOMAIN proofs \subseteq Key
    /\ \A k \in DOMAIN proofs : proofs[k] \in Roots

(* No claim is orphaned: none is still on record after the block in which  *)
(* the proof window of its session closes, whatever epochs were recorded   *)
(* and promoted meanwhile.  The candidate scan must find the session end   *)
(* of every claim exactly then, or the claim is never settled.             *)
NoClaimIsOrphaned ==
    \A k \in DOMAIN claims :
        height <= GetProofWindowCloseHeight(GetParamsAtHeight(k.end), k.end)

(* A claim is settled in the block its proof window closes, never sooner:  *)
(* a proof submitted in any block of the window still counts.              *)
SettledAsProofWindowCloses ==
    \A k \in DOMAIN outcomes :
        outcomes[k].at = GetProofWindowCloseHeight(GetParamsAtHeight(k.end), k.end)

(* A session is settled once per supplier: once it has been, no claim for  *)
(* it is accepted or found again.                                          *)
SettledOnlyOnce == DOMAIN claims \cap DOMAIN outcomes = {}

(* A proof waiting for validation always has its claim, so validation      *)
(* removes every proof it reads and none outlives its claim.               *)
EveryProofHasItsClaim == DOMAIN proofs \subseteq DOMAIN claims

(* No supplier is slashed whose last accepted proof is a proof of the      *)
(* claim on record, be it submitted in the last block of the window, in    *)
(* the block in which claim and proof windows meet, or more than once.     *)
ProvenClaimIsNeverSlashed ==
    \A k \in DOMAIN outcomes :
        outcomes[k].result = "expired" =>
            ~ (k \in DOMAIN lastProof /\ lastProof[k] = outcomes[k].root)

(* A claim is priced at settlement as it was when it was created (and when *)
(* it was decided whether it needs a proof), through every change of the   *)
(* compute-unit economics in between.                                      *)
PriceIsPinned ==
    \A k \in DOMAIN outcomes : outcomes[k].priced = outcomes[k].claimed

(* x/tokenomics/token_logic_module/distribution_supplier.go:148-157: that  *)
(* the service of a claim has no active config when its rewards are        *)
(* distributed "SHOULD NEVER HAPPEN"; such a claim is discarded.           *)
ServedClaimsAreNotDiscarded ==
    \A k \in DOMAIN outcomes : outcomes[k].result # "discarded"

-----------------------------------------------------------------------------
(* Refinement: to the contract, an open claim is its root, what that root  *)
(* is worth and the block its proof window closes in by the params as      *)
(* recorded NOW, so a governance update that changed either would be seen. *)
OpenClaims ==
    [k \in DOMAIN claims |->
        [root     |-> claims[k].root,
         price    |-> ClaimedAmount(k, claims[k].root),
         deadline |-> GetProofWindowCloseHeight(GetParamsAtHeight(k.end), k.end),
         proven   |-> {lastProof[j] : j \in {k} \cap DOMAIN lastProof}]]

ClosedClaims ==
    [k \in DOMAIN outcomes |->
        [result |-> outcomes[k].result,
         root   |-> outcomes[k].root,
         price  |-> outcomes[k].priced]]

Contract == INSTANCE ClaimContract
    WITH now <- height, open <- OpenClaims, closed <- ClosedClaims

(* Claims, proofs, validation, the candidate scan, settlement and the      *)
(* params history together implement ClaimContract: whatever governance    *)
(* and suppliers do in between, a claim keeps its price and its deadline   *)
(* and is closed at it, once, expired only if unproven, and paid unproven  *)
(* only below the threshold.                                               *)
ClaimContractIsKept == Contract!CCSpec
=============================================================================
