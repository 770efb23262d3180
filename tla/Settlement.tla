----------------------------- MODULE Settlement -----------------------------
(***************************************************************************)
(* One block's settlement of the claims that are due (x/tokenomics): the   *)
(* budget each application grants a session, what every claim is paid out  *)
(* of it, and the coins that are minted, moved and burnt for it.           *)
(*                                                                         *)
(* ClaimLifecycle says which claims are due and what becomes of each; here *)
(* the claims of one block are given, and the amounts are computed.  The   *)
(* code works in phases, over the claims in the order of their keys:       *)
(*   count    Phase 1, the suppliers that claim in each session;           *)
(*   budget   Phase 1.5, what the claims leave or exceed of their floors;  *)
(*   settle   Phase 2, the token logic modules, claim by claim;            *)
(*   flush    applications written, validator rewards drawn up, and the    *)
(*            bank operations of all claims executed, sums by kind.        *)
(* An error in Phase 2 discards the claim.  One in the flush is returned   *)
(* by the EndBlocker: the block fails ("halted").                          *)
(*                                                                         *)
(* A session is an application and the number of pending sessions of the   *)
(* params it ended under.  A claim has its amount and its kind:            *)
(*   settles    it needs no proof, or its proof was validated;             *)
(*   expires    it needs a proof and has none that is valid;               *)
(*   unserved   as settles, but its supplier has no config for the service *)
(*              any more, so its rewards cannot be distributed;            *)
(*   faulty     it cannot be priced (its supplier is gone).                *)
(* Left out: the split of a supplier's share over shareholders and of the  *)
(* validators' over validators and delegators (each adds up to what is     *)
(* split, a remainder going to the first or the largest), and slashing.    *)
(***************************************************************************)
EXTENDS Totals, Sequences

CONSTANTS
    Applications,        \* the applications with claims in the block
    Sessions,            \* the sessions: records [app, numPendingSessions]
    Stakes,              \* the stakes an application may have
    SpendLimits,         \* per-session spend limits, 0 for none
    Batches,             \* the claims of a block: sequences of claims
    TokenomicsParamsSets \* x/tokenomics params: see TokenomicsParams

Kinds == {"settles", "expires", "unserved", "faulty"}

Claim == [session : Sessions, amount : Nat, kind : Kinds]

(* A ratio is a pair <<numerator, denominator>>; an allocation gives the   *)
(* ratios of the supplier and the proposer, and of the source owner and    *)
(* the application together, the DAO receiving the rest.                   *)
IsRatio(q) == q[1] \in Nat /\ q[2] \in Nat \ {0}

IsAllocation(a) ==
    /\ IsRatio(a.supplier) /\ IsRatio(a.proposer)
    /\ a.supplier[1] * a.proposer[2] + a.proposer[1] * a.supplier[2]
         <= a.supplier[2] * a.proposer[2]

TokenomicsParams(p) ==
    /\ p.overservicingBonusMultiplier \in Nat
    /\ IsRatio(p.globalInflationPerClaim)
    /\ IsRatio(p.mintRatio) /\ p.mintRatio[1] <= p.mintRatio[2]
    /\ IsAllocation(p.mintEqualsBurnClaimDistribution)
    /\ IsAllocation(p.mintAllocationPercentages)

ASSUME SettlementAssumption ==
    /\ IsFiniteSet(Applications)
    /\ \A s \in Sessions : s.app \in Applications /\ s.numPendingSessions \in Nat \ {0}
    /\ Stakes \subseteq Nat
    /\ SpendLimits \subseteq Nat
    /\ \A b \in Batches : b \in Seq(Claim)
    /\ \A p \in TokenomicsParamsSets : TokenomicsParams(p)

VARIABLES
    params,        \* the x/tokenomics params of the block
    spendLimit,    \* application -> its per-session spend limit
    stakes,        \* application -> its stake in the store
    bank,          \* balances of the module accounts
    phase, batch, at,  \* the phase, the claims, and the next claim to work on
    numSuppliers,  \* session -> claims counted in Phase 1
    budgets,       \* session -> what Phase 1.5 accumulates
    cached,        \* application -> its stake in the settlement context
    rewards,       \* the ValidatorRewardAccumulator, over all reasons
    results,       \* the pending bank operations of the settled claims
    outcomes       \* history variable: what became of each claim, and its charge

stVars == <<params, spendLimit, stakes, bank, phase, batch, at, numSuppliers,
            budgets, cached, rewards, results, outcomes>>

-----------------------------------------------------------------------------
(* Amounts. *)

FloorOf(amount, q) == (amount * q[1]) \div q[2]
CeilOf(amount, q) == (amount * q[1] + q[2] - 1) \div q[2]

(* CalculateGlobalPerClaimMintInflationFromSettlementAmount, and the claim *)
(* with it: what settling an amount takes from the application's stake.    *)
GlobalInflation(amount) == CeilOf(amount, params.globalInflationPerClaim)
StakeTerms(amount) == amount + GlobalInflation(amount)

(* supplierAppStakeToMaxSettlementAmount: the most that can be settled out *)
(* of a part of the stake.                                                 *)
MaxSettlement(stakeAmount) ==
    LET q == params.globalInflationPerClaim
    IN  (stakeAmount * q[2]) \div (q[1] + q[2])

(* Mutant: the DAO gets its own part, not what the roundings leave.        *)
DistributionOfParts(amount, allocation) ==
    LET s == allocation.supplier
        p == allocation.proposer
    IN  [supplier |-> FloorOf(amount, s), proposer |-> FloorOf(amount, p),
         accounts |-> FloorOf(amount, <<s[2] * p[2] - s[1] * p[2] - p[1] * s[2],
                                        s[2] * p[2]>>)]

(* A distribution of newly minted coins: what the supplier module passes   *)
(* on to shareholders, what validators are due, and what goes straight to  *)
(* accounts, the DAO taking what the roundings leave.                      *)
Distribution(amount, allocation) ==
    LET supplier == FloorOf(amount, allocation.supplier)
        proposer == FloorOf(amount, allocation.proposer)
    IN  [supplier |-> supplier, proposer |-> proposer,
         accounts |-> amount - supplier - proposer]

-----------------------------------------------------------------------------
(* Phases 1 and 1.5: the budget of a session. *)

CountSuppliers ==
    /\ phase = "count"
    /\ numSuppliers' = [s \in Sessions |->
                          Cardinality({i \in DOMAIN batch : batch[i].session = s})]
    /\ phase' = "budget"
    /\ UNCHANGED <<params, spendLimit, stakes, bank, batch, at, budgets, cached,
                   rewards, results, outcomes>>

(* getOrInitSessionBudget: the part of its stake the application grants a  *)
(* session, and the part of that every claiming supplier is sure of.       *)
SessionBudget(s) ==
    LET perSession == stakes[s.app] \div s.numPendingSessions
        limit      == spendLimit[s.app]
    IN  IF limit > 0 /\ limit < perSession THEN limit ELSE perSession

SupplierFloor(s) == SessionBudget(s) \div numSuppliers[s]

WillSettle(c) == c.kind # "expires"

(* Mutant: a claim that will expire shapes the budget as well.             *)
AccumulatedWithExpired(c) ==
    LET b     == budgets[c.session]
        floor == SupplierFloor(c.session)
        terms == StakeTerms(c.amount)
    IN  IF c.kind = "faulty"
        THEN b
        ELSE IF terms < floor
        THEN [b EXCEPT !.unused = @ + (floor - terms)]
        ELSE [b EXCEPT !.totalExcess = @ + (terms - floor)]

(* Mutant: what a claim leaves of its floor is not told from what it       *)
(* exceeds it by.                                                          *)
AccumulatedSigned(c) ==
    IF c.kind = "faulty" \/ ~ WillSettle(c)
    THEN budgets[c.session]
    ELSE [budgets[c.session] EXCEPT
            !.unused = @ + (SupplierFloor(c.session) - StakeTerms(c.amount))]

(* AccumulateClaimBudget. *)
Accumulated(c) ==
    LET b     == budgets[c.session]
        floor == SupplierFloor(c.session)
        terms == StakeTerms(c.amount)
    IN  IF c.kind = "faulty" \/ ~ WillSettle(c)
        THEN b
        ELSE IF terms < floor
        THEN [b EXCEPT !.unused = @ + (floor - terms)]
        ELSE [b EXCEPT !.totalExcess = @ + (terms - floor)]

AccumulateClaimBudget ==
    /\ phase = "budget"
    /\ at <= Len(batch)
    /\ budgets' = [budgets EXCEPT ![batch[at].session] = Accumulated(batch[at])]
    /\ at' = at + 1
    /\ UNCHANGED <<params, spendLimit, stakes, bank, phase, batch, numSuppliers,
                   cached, rewards, results, outcomes>>

BudgetsComplete ==
    /\ phase = "budget"
    /\ at > Len(batch)
    /\ phase' = "settle"
    /\ at' = 1
    /\ UNCHANGED <<params, spendLimit, stakes, bank, batch, numSuppliers, budgets,
                   cached, rewards, results, outcomes>>

-----------------------------------------------------------------------------
(* Phase 2: the token logic modules. *)

Multiplier == Max({1, params.overservicingBonusMultiplier})

(* Mutant: every claim above its floor gets all that others left unused.   *)
MaxClaimableUndivided(c) ==
    LET b     == budgets[c.session]
        floor == SupplierFloor(c.session)
        bonus == IF Multiplier > 1 /\ StakeTerms(c.amount) > floor THEN b.unused ELSE 0
    IN  Min({floor + bonus, floor * Multiplier})

(* The most of the application's stake a claim may take: its floor, and    *)
(* with a multiplier above one a part of what others left unused, in       *)
(* proportion to its excess.                                               *)
MaxClaimable(c) ==
    LET b      == budgets[c.session]
        floor  == SupplierFloor(c.session)
        excess == StakeTerms(c.amount) - floor
        bonus  == IF Multiplier > 1 /\ b.totalExcess > 0 /\ excess > 0
                  THEN (b.unused * excess) \div b.totalExcess
                  ELSE 0
    IN  Min({floor + bonus, floor * Multiplier})

(* ensureClaimAmountLimits: the settlement of a claim. *)
ActualSettlement(c) == Min({c.amount, MaxSettlement(MaxClaimable(c))})

NoOps == [mint |-> 0, toSupplier |-> 0, toTokenomics |-> 0, fromSupplier |-> 0,
          fromTokenomics |-> 0, burn |-> 0]

AddOps(o, p) == [f \in DOMAIN o |-> o[f] + p[f]]

(* The token logic modules pass on a record of the claim under way: the    *)
(* application's cached stake and the accumulated validator rewards, which *)
(* outlive an error, and the claim's operations, which do not.             *)
MintedOps(amount, d) ==
    [NoOps EXCEPT !.mint = amount, !.toSupplier = d.supplier,
                  !.fromSupplier = d.supplier, !.fromTokenomics = d.accounts]

(* Mutant: the proposer's share is accumulated before the supplier's is    *)
(* distributed.                                                            *)
DistributedProposerFirst(w, c, amount, allocation) ==
    LET d == Distribution(amount, allocation)
    IN  IF d.supplier > 0 /\ c.kind = "unserved"
        THEN [w EXCEPT !.ok = FALSE, !.rewards = @ + d.proposer]
        ELSE [w EXCEPT !.rewards = @ + d.proposer,
                       !.ops = AddOps(@, MintedOps(amount, d))]

(* Paying coins that were minted, in the order of processRewardDistribution *)
(* and processMintDistribution: an unserved claim fails at the supplier's  *)
(* share, before the proposer's.                                           *)
Distributed(w, c, amount, allocation) ==
    LET d == Distribution(amount, allocation)
    IN  IF d.supplier > 0 /\ c.kind = "unserved"
        THEN [w EXCEPT !.ok = FALSE]
        ELSE [w EXCEPT !.rewards = @ + d.proposer,
                       !.ops = AddOps(@, MintedOps(amount, d))]

RelayBurnEqualsMint(w, c, settlement) ==
    LET mint  == FloorOf(settlement, params.mintRatio)
        burnt == [w EXCEPT !.stake = @ - settlement, !.ops.burn = @ + settlement]
    IN  IF w.stake < settlement
        THEN [w EXCEPT !.ok = FALSE]
        ELSE IF mint = 0
        THEN [burnt EXCEPT !.ok = FALSE]
        ELSE Distributed(burnt, c, mint, params.mintEqualsBurnClaimDistribution)

GlobalMint(w, c, settlement) ==
    IF ~ w.ok \/ params.globalInflationPerClaim[1] = 0
    THEN w
    ELSE Distributed(w, c, GlobalInflation(settlement), params.mintAllocationPercentages)

(* Mutant: the reimbursement is moved but not taken from the stake.        *)
ReimbursementUncharged(w, settlement) ==
    IF ~ w.ok \/ params.globalInflationPerClaim[1] = 0
    THEN w
    ELSE [w EXCEPT !.ops.toTokenomics = @ + GlobalInflation(settlement),
                   !.ops.fromTokenomics = @ + GlobalInflation(settlement)]

GlobalMintReimbursementRequest(w, settlement) ==
    LET inflation == GlobalInflation(settlement)
    IN  IF ~ w.ok \/ params.globalInflationPerClaim[1] = 0
        THEN w
        ELSE IF w.stake < inflation
        THEN [w EXCEPT !.ok = FALSE]
        ELSE [w EXCEPT !.stake = @ - inflation,
                       !.ops.toTokenomics = @ + inflation,
                       !.ops.fromTokenomics = @ + inflation]

(* ProcessTokenLogicModules. *)
Processed(c) ==
    LET start      == [stake |-> cached[c.session.app], rewards |-> rewards,
                       ops |-> NoOps, ok |-> TRUE]
        settlement == ActualSettlement(c)
        burnt      == RelayBurnEqualsMint(start, c, settlement)
        minted     == GlobalMint(burnt, c, settlement)
    IN  IF settlement = 0
        THEN start
        ELSE GlobalMintReimbursementRequest(minted, settlement)

Outcome(result, settlement, charge) ==
    [result |-> result, settlement |-> settlement, charge |-> charge]

(* settleClaim; an error discards the claim and its operations. *)
SettleClaim ==
    /\ phase = "settle"
    /\ at <= Len(batch)
    /\ LET c == batch[at]
           w == Processed(c)
       IN  IF c.kind \in {"expires", "faulty"}
           THEN /\ outcomes' = Append(outcomes,
                      Outcome(IF c.kind = "expires" THEN "expired" ELSE "discarded", 0, 0))
                /\ UNCHANGED <<cached, rewards, results>>
           ELSE /\ cached' = [cached EXCEPT ![c.session.app] = w.stake]
                /\ rewards' = w.rewards
                /\ results' = IF w.ok THEN AddOps(results, w.ops) ELSE results
                /\ outcomes' = Append(outcomes,
                      Outcome(IF w.ok THEN "settled" ELSE "discarded",
                              IF w.ok THEN ActualSettlement(c) ELSE 0,
                              cached[c.session.app] - w.stake))
    /\ at' = at + 1
    /\ UNCHANGED <<params, spendLimit, stakes, bank, phase, batch, numSuppliers,
                   budgets>>

-----------------------------------------------------------------------------
(* The flush. *)

(* FlushAllActorsToStore, FlushBatchedValidatorRewards, and                *)
(* ExecutePendingSettledResults: mints, transfers between modules,         *)
(* transfers to accounts, burns.  A transfer or a burn beyond the balance  *)
(* is an error.                                                            *)
AfterMints == [bank EXCEPT !.tokenomics = @ + results.mint]

AfterModToMod ==
    [AfterMints EXCEPT !.tokenomics = @ - results.toSupplier + results.toTokenomics,
                       !.supplier = @ + results.toSupplier,
                       !.application = @ - results.toTokenomics]

AfterModToAcct ==
    [AfterModToMod EXCEPT !.tokenomics = @ - results.fromTokenomics - rewards,
                          !.supplier = @ - results.fromSupplier]

AfterBurns == [AfterModToAcct EXCEPT !.application = @ - results.burn]

Covered(b) == \A m \in DOMAIN b : b[m] >= 0

SettlementExecutes ==
    \A b \in {AfterModToMod, AfterModToAcct, AfterBurns} : Covered(b)

ExecuteSettlement ==
    /\ phase = "settle"
    /\ at > Len(batch)
    /\ IF SettlementExecutes
       THEN /\ stakes' = cached
            /\ bank' = AfterBurns
            /\ phase' = "done"
       ELSE /\ phase' = "halted"
            /\ UNCHANGED <<stakes, bank>>
    /\ UNCHANGED <<params, spendLimit, batch, at, numSuppliers, budgets, cached,
                   rewards, results, outcomes>>

-----------------------------------------------------------------------------
StInit ==
    /\ params \in TokenomicsParamsSets
    /\ spendLimit \in [Applications -> SpendLimits]
    /\ stakes \in [Applications -> Stakes]
    /\ bank = [application |-> Total(stakes, Applications),
               tokenomics |-> 0, supplier |-> 0]
    /\ batch \in Batches
    /\ phase = "count"
    /\ at = 1
    /\ numSuppliers = [s \in Sessions |-> 0]
    /\ budgets = [s \in Sessions |-> [unused |-> 0, totalExcess |-> 0]]
    /\ cached = stakes
    /\ rewards = 0
    /\ results = NoOps
    /\ outcomes = <<>>

StNext ==
    CountSuppliers \/ AccumulateClaimBudget \/ BudgetsComplete \/ SettleClaim
    \/ ExecuteSettlement

StSpec == StInit /\ [][StNext]_stVars

-----------------------------------------------------------------------------
(* Properties. *)

(* All amounts are within their types; math.Int is signed, but no stake,   *)
(* balance, budget or coin may be negative.                                *)
StTypeOK ==
    /\ \A a \in Applications : stakes[a] \in Nat /\ cached[a] \in Nat
    /\ \A m \in DOMAIN bank : bank[m] \in Nat
    /\ \A s \in Sessions : budgets[s].unused \in Nat /\ budgets[s].totalExcess \in Nat
    /\ rewards \in Nat
    /\ \A f \in DOMAIN results : results[f] \in Nat
    /\ \A i \in DOMAIN outcomes : outcomes[i].charge \in Nat

(* What the claims of a session took from the application's stake. *)
ClaimsOf(s) == {i \in DOMAIN outcomes : batch[i].session = s}

Charges == [i \in DOMAIN outcomes |-> outcomes[i].charge]

Charged(s) == Total(Charges, ClaimsOf(s))

(* The claims of a session, discarded ones included, never take more of    *)
(* the stake together than the budget it was granted: redistributing what  *)
(* some leave unused, rounding, and inflation charged per claim add up.    *)
SessionBudgetIsNeverExceeded ==
    phase # "done" => \A s \in Sessions : Charged(s) <= SessionBudget(s)

(* The claims of a session that left some of their floor, and those that   *)
(* served more than it.                                                    *)
Under(s) == {i \in ClaimsOf(s) : /\ batch[i].kind = "settles"
                                 /\ StakeTerms(batch[i].amount) < SupplierFloor(s)}

Over(s) == {i \in ClaimsOf(s) : /\ batch[i].kind = "settles"
                                /\ StakeTerms(batch[i].amount) > SupplierFloor(s)}

(* What rounding takes of a claim's part: less than one in dividing what   *)
(* is left, and no more than the inflation of one unit where the part is   *)
(* no whole number of units with their inflation.                          *)
RoundingLoss == StakeTerms(1)

(* A claim that will expire costs the other claims of its session no more  *)
(* than its own floor: what the others left unused still goes, up to       *)
(* rounding, to those that served more than their floor.                   *)
UnusedBudgetIsPaidOut ==
    \A s \in Sessions :
        LET floor == SupplierFloor(s)
            left  == Total([i \in Under(s) |-> floor - StakeTerms(batch[i].amount)], Under(s))
            want  == Total([i \in Over(s) |-> StakeTerms(batch[i].amount) - floor], Over(s))
            got   == Total([i \in Over(s) |-> Charges[i] - floor], Over(s))
        IN  /\ phase = "settle" /\ at > Len(batch)
            /\ \A i \in ClaimsOf(s) : batch[i].kind # "unserved"
            /\ \A i \in Over(s) : outcomes[i].result = "settled"
            /\ Multiplier > 1
            /\ \A i \in Over(s) : StakeTerms(batch[i].amount) <= floor * Multiplier
            => got + RoundingLoss * Cardinality(Over(s)) >= Min({left, want})

(* Every coin minted or taken from the application module for a settlement *)
(* leaves the modules it passes through: nothing stays behind in the       *)
(* tokenomics and supplier accounts, whichever claims were discarded.      *)
NothingStaysInTransit ==
    phase = "done" => bank.tokenomics = 0 /\ bank.supplier = 0

(* The application module holds the stakes on record and, besides them,    *)
(* exactly what discarded claims took from a stake without spending it.    *)
AppPoolIsExact ==
    phase = "done" =>
        bank.application
          = Total(stakes, Applications)
            + Total(Charges, {i \in DOMAIN outcomes : outcomes[i].result = "discarded"})

(* x/tokenomics/keeper/settle_pending_claims.go:159: a claim that fails is *)
(* "discarded to prevent chain halt".  Settlement never returns an error:  *)
(* the operations of the claims that remain can always be executed.        *)
SettlementNeverHalts == phase # "halted"
=============================================================================
