# Poktroll: a TLA+ development of sessions, claims, settlement and the RelayMiner

Poktroll (the Shannon upgrade of Pocket Network) is a Cosmos SDK chain and the
off-chain RelayMiner that serves relays for it.  Suppliers serve relays to
applications in *sessions* of a few blocks, then *claim* the work, *prove* it if
asked to, and are paid, or slashed, when the claim is *settled*.  What makes this
hard is time: almost every rule is a comparison of block heights, the heights
are computed from governed params, and the params change while sessions are
running and claims are in flight.  Off chain it is concurrency and failure: the
RelayMiner's goroutines, its log and its transactions race blocks, crashes and
each other.  Both are modelled here.

## 1. The system

### On chain (`src/x`)

A block executes messages one by one, then every module's EndBlocker in the
order of `app/app_config.go`.  There is no concurrency between messages; the
difficulty is in the order of messages, in what happens across blocks, and in
values stored in one block and used in a later one.

| Component | State | Operations | Interactions |
|---|---|---|---|
| `x/shared` | live params; history of params epochs by effective height | `UpdateParam`, `UpdateParams`, EndBlocker promotion | every other module reads live or history at some height |
| `x/session` | (block hashes) | hydrates a session on demand from applications, suppliers and params | `x/proof` re-hydrates the session of each claim and proof |
| `x/supplier` | supplier records, service-config history, indexes, module account | stake, update, unstake; EndBlocker: unbond, prune | settlement reads and slashes suppliers |
| `x/proof` | claims, proofs | `CreateClaim`, `SubmitProof`; EndBlocker: validate | settlement reads and removes claims |
| `x/tokenomics` | (none of its own but params) | EndBlocker: find the claims due, settle, expire, slash, mint, burn, distribute | everything |
| `x/application` | applications, delegations, pending undelegations and transfers | stake, unstake, delegate, undelegate, transfer; EndBlocker: unbond, transfer, prune | pays for relays at settlement |
| `x/gateway` | gateways | stake, unstake; EndBlocker: unbond | applications delegate to it; unbonding undelegates them |
| `x/service` | services, relay mining difficulty and its history | add, update; difficulty update at settlement | prices claims |
| `x/migration` | Morse accounts to be claimed | import, claim, recover | stakes applications and suppliers |

### Off chain (`src/pkg`)

| Component | State | Hard behaviour |
|---|---|---|
| `relayer/session` | session trees, a write-ahead log per tree, a metadata store | restart between claim and proof; buffered log entries; relays that arrive while a tree is flushed; a missed block |
| `relayer/proxy` | relay meter per session | look-up and creation under different locks; eviction |
| `client/tx` | transactions waiting for a commit event, a timeout or a rebroadcast | event before registration; timeout racing the commit; locks released inside a loop |
| `observable` | observers of a channel | notify against unsubscribe, slow observers |
| `client/query`, `cache` | cached chain state | staleness across a params change |

### What makes each part correct

* shared: sessions partition the heights whatever the session length was and
  becomes; a session that has begun never moves; live agrees with history; no
  stored epoch is invalid.
* supplier: the indexes agree with the records; the module account covers the
  stakes; the suppliers of a session do not change while it can be claimed or
  proven.
* proof and tokenomics: every claim is settled exactly once, exactly when its
  own proof window closes, at its own price; a supplier that proved its claim is
  not slashed; none that served is left unpaid.
* application, gateway: budgets of concurrent sessions never exceed the stake;
  an application is there as long as claims against it are.
* RelayMiner: the tree proven is the tree claimed, also after a crash; every
  claim is proven in time; the tx client reports each transaction once.

## 2. Modules

| Module | Models | State |
|---|---|---|
| `SessionGrid` | `x/shared/types/session.go`, `Params.ValidateBasic` | none: operators on a params record |
| `SharedParams` | `x/shared/keeper`: governance and promotion | `height`, `live`, `history` |
| `SupplierLifecycle` | `x/supplier` and the candidates of `x/session`, on top of `SharedParams` | `suppliers`, `configs`, `unstakingIndex`, `supplierPool` |
| `ClaimLifecycle` | `x/proof` and the control of settlement, on top of `SupplierLifecycle` | `claims`, `proofs`; history variables `outcomes`, `lastProof` |
| `ClaimContract` | what claims, proofs and settlement promise: abstract, implemented by `ClaimLifecycle` | `now`, `open`, `closed` |
| `GatewayLifecycle` | `x/gateway`, on top of `SharedParams` | `gateways`, `gatewayPool` |
| `ApplicationLifecycle` | `x/application` and the rings of `pkg/crypto/rings`, on top of `GatewayLifecycle` | `store` (applications and their four indexes), `appPool` |
| `Settlement` | the amounts of one block's settlement: budgets, token logic modules, bank operations | `phase`, `budgets`, `cached`, `rewards`, `results`, `bank`... |
| `TxClient` | `pkg/client/tx`, `pkg/client/supplier` and the node they talk to | the three maps of the client, the calls, the chain and its mempool |
| `RelayerSessions` | `pkg/relayer/session`: trees, logs, metadata, the claim and proof pipeline | memory, disk and chain side of each session |
| `RelayMeter` | `pkg/relayer/proxy`: the relay meter and the requests that consult it | the meters, and where each request is |
| `Totals` | the sum of a function over a finite set, for the accounts | |
| `MC*` | small instances | |
| `SharedParamsProofs`, `ClaimLifecycleProofs` (of `SupplierLifecycle` too), `ApplicationLifecycleProofs` (of `GatewayLifecycle` too), `SettlementProofs`, `TxClientProofs`, `RelayMeterProofs`, `RelayerSessionsProofs` | theorems about the module of the name, see section 4 | |
| `TotalsProofs` | the lemmas about `Total` that the accounts' proofs share | |

### On chain

Each module extends the one below it and composes its actions: a message of one
module leaves the variables of the others alone, and the end of a block is one
action (`EndBlock`, `SLEndBlock`, `CLEndBlock`, `ALEndBlock`) in which the
EndBlockers of all modules take effect in the order of `app/app_config.go`:
proof, tokenomics, supplier, then gateway and application, and shared last.
Operators that an earlier EndBlocker of the block feeds take their input as a
parameter (`SupplierEndBlock(sups, pool, stuck)` gets the suppliers as settlement
left them); all read `live` unprimed, because promotion comes last.

`SharedParams` carries two stacks: suppliers and claims, and gateways and
applications.  What one needs of the other is a choice: in `ClaimLifecycle` the
application is always staked, and in `ApplicationLifecycle` settlement is an
amount in `Charges` taken from an application in a block in which the proof
window of some session closes.  `Settlement` takes the claims of one block as
given and computes what `ClaimLifecycle` and `ApplicationLifecycle` leave open.

### Off chain

`TxClient`, `RelayerSessions` and `RelayMeter` are the three places of the
RelayMiner where goroutines share state.  One hold of a lock is one step.  They
meet through choices as well: in `RelayerSessions` a transaction is accepted,
fails, times out, or is in flight when the process ends, which is what `TxClient`
can answer; which relays are mined, `RelayMeter` decides.

### Correspondences that are not by name

Definitions keep the names of the code (`GetSessionStartHeight`,
`GetNumPendingSessions`, `UpdateParam`, `CreateClaim`...).  `PROJECT.json` maps
each to its lines.

* `RecordParamsHistory`, with `SeededHistory` and `StampGrid`, is
  `recordParamsHistory`: seed the genesis epoch, resolve the epoch effective
  now, place the grid of the new one, record it at the next session start, and
  write live unless a session-timing param changed.
* `PromotedParams` is the shared EndBlocker, its refusal included.
* `configs[op]` is the set of `ServiceConfigUpdate`s; `SessionSuppliers(s, h)` is
  the list a hydration of a session at height `h` would start from, computed from
  the store of *now*, as in the code.  `IsPrunable` is the condition of
  `EndBlockerPruneSupplierServiceConfigHistory`.
* `StakeNewSupplier` and `UpdateSupplier` are the two branches of
  `Keeper.StakeSupplier`; `Signers` stands for the owner, the operator, or one
  account that is both.
* `CandidateSessionEndHeights`, `DueClaims`, `Settlement`, `Slashed` are the
  phases of `SettlePendingClaims` and `ExecutePendingExpiredResults`.
* `SetApplications` writes the records a loop over applications writes, or just one
  (`SetApplication`), and what its four index functions make of them;
  `TransfersEnded` is the loop over pending transfers, in the order of their keys;
  `Settled`, `AutoUndelegated`, `Pruned`, `Transferred`, `Unbonded` are what each
  EndBlocker step makes of the store, chained by `ALEndBlock`.
* `RingGateways(a, x)` is `GetRingAddressesAtBlock`: the delegatees of now and
  the undelegations of later sessions, by the live params; `Ring` adds the
  placeholder key of an application without gateways.
* In `Settlement`, a claim passes `RelayBurnEqualsMint`, `GlobalMint` and
  `GlobalMintReimbursementRequest` as a record of what outlives an error (the
  cached stake, the accumulated validator rewards) and what does not (its
  operations).  `AfterMints` to `AfterBurns` are the aggregated bank operations in
  the order of `ExecutePendingSettledResults`.
* In `TxClient`, `timeoutPool`, `errorChans`, `resends` are `txTimeoutPool`,
  `txErrorChans`, `rebroadcastPool`.
* In `RelayerSessions`, `stage` is how far the chain of goroutines and
  observables has brought a session (see the module's heading).
* In `RelayMeter`, `registered` is the session's entry of
  `sessionToRelayMeterMap`; a request that looked a meter up may hold another.

Definitions introduced by the comment "Mutant:" are faulty variants of the
definition below them; no specification uses them.  They document which slip of
the code each property would notice.

### What is abstracted

Suppliers and claims: one application that is always staked; a session is its
service, first and last height.  A root is the compute units it sums to, at
difficulty one.  A proof is the root of the tree it was made from and valid if it
is the claim's; signatures and closest paths are that.  The pseudo-random sample
that requires a proof is a set of statuses chosen with the claim, because the code
hashes the whole claim, status included; the same root gives the same sample.
Fees, revenue shares, endpoints, events, logging and telemetry are left out, and
so is the choice among more candidate suppliers than a session takes.  The params
of `x/proof` and `x/supplier` are constants.

Heights and amounts are unbounded integers: amounts are big integers in the code
too, and its 64-bit heights do not overflow; that products and sums of governed
params wrap for values near the top of the range is not modelled.

Settlement: a ratio is a pair of naturals, as the code's `big.Rat` is.  The split
of the supplier's share over shareholders, and of the validators' over validators
and delegators, adds up to what is split (a remainder goes to the first or the
largest), and is left out.  So are the DAO's and the source owner's accounts, one
sum with the application's.

Off chain: the hash of a tree is injective; a deletion ends within a block; all
relays of a session cost the same.  The node of `TxClient` is external: CheckTx
refuses what is past its timeout height or in the cache, a block takes what it
likes from the mempool, the mempool drops what it likes, events and block
notifications may be lost when a subscription is interrupted.

## 3. Runs

| Run | Configuration | Distinct states | Shows |
|---|---|---|---|
| `shared_params` | lengths 1 to 3, grace and window offsets, single and bulk updates (one with an anchor of its own, one invalid), 7 blocks, 5 epochs | 4,400 | `TypeOK`, `SessionsPartitionHeights`, `LiveTimingIsPreviousBlocks`, `StartedSessionsNeverMove` |
| `supplier_lifecycle` | one operator, two services, two stakes, three configs, 9 blocks, one change of the session length | 70,879 | `SLTypeOK`, `UnstakingIndexIsExact`, `PoolCoversStakes`, `OpenSessionsNeverLoseASupplier` |
| `claim_lifecycle` | one supplier, two roots (one at the proof threshold), sampled or not, right and wrong proofs, 8 blocks, one update of length, window or price | 117,687 | `CLTypeOK`, `SettledOnlyOnce`, `EveryProofHasItsClaim`, `ProvenClaimIsNeverSlashed`, `PoolCoversStakes`, the refinement `ClaimContractIsKept` |
| `claim_epochs` | as above with one root, 9 blocks, three epochs | about 316,000 | `NoClaimIsOrphaned`, `SettledAsProofWindowCloses`, `PriceIsPinned` |
| `applications` | two applications, one gateway, 5 blocks, two chains of params, `MCBound` | 112,177 | `ALTypeOK`, `ApplicationIndexesAreExact`, `AppPoolCoversStakes`, `UnderfundedApplicationsAreUnbonding`, `InactiveGatewaysAreUndelegated`, `OpenRingsKeepTheirGateways`, `ServicesOfBegunSessionsStay`, `OpenSessionsKeepTheirApplication` |
| `settlement` | every batch of up to three claims of two applications, four kinds, one and two pending sessions, three sets of params | 872,640 | `StTypeOK`, `SessionBudgetIsNeverExceeded`, `UnusedBudgetIsPaidOut`, `NothingStaysInTransit`, `AppPoolIsExact`, `SettlementNeverHalts` |
| `tx_client` | two transactions, timeouts up to block 4, 5 blocks, one fault | 689,321 | `TxcTypeOK`, `PendingTxsHaveOpenChannels`, `AnswersAreFinal`, liveness `CallsReturnOrAreOverlooked` |
| `relayer_sessions` | one session, three relays, 6 blocks, three faults | 777,932 | `RsTypeOK`, `ClaimsStayProvable`, `ProofsMatchTheirClaims`, liveness `SessionsAreReleased` |
| `relay_meter` | three HTTP relays and a websocket message, a stake for one, four configurations of the RelayMiner | 3,447,969 | `RewardedRelaysFitTheirMeters` |

Bounds, on chain.  `MaxHeight` ends a behaviour and `MaxEpochs` ends governance;
deadlock checking is off since a behaviour ends at the last block.  A session of
two blocks and a window of two or three mean that within 8 or 9 blocks a session
is served, claimed, proven and settled while the next ones are running, and that
an update can fall on every block of that: the first, the last and the boundary
block, twice in one session, and before the seed exists.  Shrinking and growing
the window both happen while a claim is in flight.  One supplier is enough for
the properties of claims: settlement treats claims of different suppliers
independently but for the budget, which `settlement` takes up.  `MaxConfigs` is
three so that a config that has ended, one that is running and one that is to
start coexist.

The params leave the windows no more time than the theorems ask for.  In
`supplier_lifecycle` the unbonding period is a block longer than the windows while
sessions have two blocks, and by just a session once they have three
(`UnbondingOutlastsWindows` holds in every state of the run).  In `applications` an
undelegation is pruned, in sessions of one block, and an application removed, in either
chain, in the first block in which the last proof window is over.

`MCBound` (a CONSTRAINT of `applications`) keeps apart two things that do not
touch: sessions of one block are explored with the gateway, one service, no
stuck stake, and the larger stake for one of the two applications only (the other
exceeds the smaller one by a merge); sessions of two or three blocks with two services, stake that was
left behind, and an update of the session length, but no gateway.  Two
applications are enough for a transfer, onto a fresh address or onto a staked
application; a gateway more would add its own copy of the same steps.

In `settlement` the three sets of params are the ones that differ in control: a
bonus multiplier without inflation, one with it, and a mint ratio below one.  The
amounts lie below and above the floor, so that claims both leave and take budget,
and round.

Bounds, off chain.  `MaxFaults` bounds what may go wrong, so that one behaviour
combines two or three faults (a crash after a dropped buffer, a stop while a
claim is in flight) and not every number of them.  In
`relayer_sessions` two relays let one be lost and one kept, and the third tells a
tree from the log of an earlier tree of its session (below).  In `relay_meter` three HTTP relays are interchangeable (symmetry; the
run checks an invariant only), and there is stake for one, so that with two there
is already one too many and the third sees what a refund does.

Fairness.  The modules on chain state none: that a claim is settled is stated as
the invariant that none is on record past its window, which is stronger than
eventual settlement on a chain that makes blocks.  `TxcFairness` is weak fairness
of the chain (a block is made), of the two goroutines of the client (a block is
observed, or missed in an interruption and not observed again; what times out is
timed out), and of each call's own steps (it is broadcast or refused, registered,
and returns once answered): goroutines that are runnable run.  There is none for
the mempool, the events or the re-broadcasts: a transaction may never be taken,
its event never arrive.  `RsFairness` is weak fairness of blocks, of the process
being started again, and of the deletion of a session's metadata; there is none
for relays, transactions, or the stages of the pipeline: what releases a session
that is stuck at any of them is the check at every block for sessions whose
window is over.

The refinement.  `ClaimContract` knows no windows, epochs, scans, statuses or
samples: a claim has a deadline and a price from the block it is made in, can be
replaced and proven until then, and is closed in exactly that block, expired only
if its last proven root is not its root, paid without a proof only below the
threshold.  `ClaimLifecycle` maps an open claim to its root, its price and its
deadline by the params as recorded *now*, so a governance update that moved
either would be a step the contract does not allow.

### Where the code and its comments disagree

Three runs state what a comment, or a message, of the repository says and TLC
refutes it with a short behaviour of the model.

* `settlement_halts`: "Claim will be discarded to prevent chain halt".  An
  application with two services (which a single stake message does not allow,
  but merging two applications does) has two sessions end at once, each with the whole budget.  A
  claim whose relay burn and global mint succeed but whose reimbursement exceeds
  what is left of the stake is discarded, but the proposer's share stays in the
  block's accumulated validator rewards, which the tokenomics account then cannot
  pay: the EndBlocker returns the error.  `SettlementNeverHalts` holds in
  `settlement`, where the sessions are of different applications.
* `delegations_end`: the delegations of an unbonding gateway are "taken care of by
  the application module's EndBlockerAutoUndelegateFromUnbondingGateways".  A
  merge may leave an application both delegating to and undelegating from a
  gateway; the index has one entry for both, which is removed, so the application
  goes on delegating to a gateway that is gone.
  The run starts from `MCQuickTransfers`, where a transfer is over before the gateway
  is released.  `InactiveGatewaysAreUndelegated` excludes just that and holds.
* `restored_trees`: "The resulting trie represents the exact pre-crash state" and
  "This ensures no data is lost during shutdown".  A flush that finds the log
  closed or its queue full drops the buffer it has already taken, so what a
  restart rebuilds may lack relays the claim was made with.

Seven more are kept as definitions and can be had by adding one line to a
configuration, each refuted within a minute:

| Definition | Add to | What it refutes |
|---|---|---|
| `LiveCarriesPendingUpdate` | `SharedParams.cfg`, INVARIANT | "for all other params the change takes effect on live immediately": a price change made in a block in which an epoch becomes effective is overwritten on live at the end of that block, and returns at its own boundary |
| `SuppliersListIsFixedMidSession` | `SupplierLifecycle.cfg`, PROPERTY | "onchain sessions' suppliers list MUST NOT change mid-session": unstaking sets the end of *every* config on record to the next session start, so one that had ended is active again for the running session |
| `OpenSessionsNeverLoseASupplier` | `SupplierLifecycle.cfg` with `GenesisParams <- MCTightGenesis` | "a supplier cannot unbond before the pending claims are settled": with an unbonding period equal to the cumulative window, which the check accepts, it is removed one block too soon |
| `ServedClaimsAreNotDiscarded` | `ClaimLifecycle.cfg`, INVARIANT | "SHOULD NEVER HAPPEN: service not found for supplier": rewards are shared by the config active at settlement; a supplier that left the service after serving it has none |
| `UnstakingIndexIsExact` | `ClaimLifecycle.cfg`, INVARIANT | "If the supplier is unbonding ..., it's added to the index": a slashed supplier begins unbonding in its record only |
| `RingOfASessionStays` | `ApplicationLifecycle.cfg`, PROPERTY | the ring of a past session is rebuilt from the present: an application without gateways that delegates later loses the placeholder key its session's ring had |
| `EveryCallReturns` | `TxClient.cfg`, PROPERTY | a call "blocks until the transaction is included in a block or times out" (`pkg/client/supplier/client.go:71-73`): a transaction registered after its expiration was observed, or whose expiration block was missed, is answered by nobody, and the supplier's mutex stays locked |

### What else was met while modelling and proving

None of these is refuted by a statement of the repository, but a reader of the
code may want to know.

* `IsActive` lets unbonding take precedence over a pending transfer, although "an
  application that has a pending transfer is active until the end of the session"
  of its transfer (`x/application/types/application.go:29-30`): one that
  settlement pushes below the minimum begins unbonding while its transfer is
  pending, is active again until the end of the session of *that*, and the
  transfer is then refused, which "SHOULD NOT be possible".
* `ApplicationLifecycle`: what a released gateway leaves behind (`delegations_end`)
  has two more ways.  While an application both delegates to and undelegates from a
  gateway, pruning the undelegation writes the record, which puts the delegation back
  into the index, by when the gateway may be gone.  And with sessions of one block and
  `gatewayUnbondingPeriodSessions` of 1 the gateway is removed by its EndBlocker
  before that of the application module ever sees it inactive.  That no application
  delegates to a gateway that has been *released* is therefore false, and what is
  stated and proved is `InactiveGatewaysAreUndelegated`.
* `ApplicationLifecycle`: undelegations are pruned two sessions after the end of the
  grace period (`x/application/keeper/prune_undelegations.go:16-17`, with a
  `TODO_MAINNET(#516)`), whatever the length of the windows: if the claim and proof
  windows together exceed `gracePeriodEndOffsetBlocks` and two sessions, the ring of a
  session that can still be proven loses the gateway that signed in it.
* `ApplicationLifecycle`: as for suppliers (the table above), `ValidateBasic` accepts
  an unbonding period of applications equal to the cumulative window, though it says
  "must be greater"; the application is then removed in the block before the last one
  in which its session can be proven.  `ParamsLeaveTime` rules out both this and the
  one before, and further epochs with another timing, under which the height an
  application unbonds at, a session end by the live params, may be none of the grid.
* `Settlement`: how much of a claim's share is lost to rounding grows with
  `globalInflationPerClaim`, which `ValidateBasic` of the tokenomics params does not
  bound: an amount must be a whole number of units *with* their inflation.
  `UnusedBudgetIsPaidOut` therefore allows what one unit takes (`RoundingLoss`).
* Unbonding of an application or a gateway ends at a session end by live params,
  and each settlement of an application below the minimum sets its unbonding
  anew.
* `TxClient`: a transaction that failed in a block closes its channel without an
  error and is reported as done; a lost response is retried, refused as already in
  the cache, and reported as a failure while the transaction is pending; the
  branch at `pkg/client/tx/client.go:723-732`, which goes on with the mutex
  released, is never reached (`PendingTxsHaveOpenChannels`).
* `RelayerSessions`: a session that a start skips because of a query error stays
  on disk and is appended to by the next run; deleting the metadata of a session
  that is not in memory uses another path than its log has, which is left behind.
* `RelayerSessions`: `NewSessionTree` says "Make sure storePath does not exist when
  creating a new SessionTree" (`pkg/relayer/session/sessiontree.go:107`), but only an
  error of `Stat` other than "does not exist" refuses it: a log that exists is
  appended to.  A session given up on as its claim window opens may get a late relay
  while its tree is being deleted; that makes a second tree, whose metadata the
  deletion then removes while its log stays; a third tree appends to that log, and
  after a claim of it and a restart the tree replayed has more relays than were
  claimed.  It takes three relays, and was met when the proof of
  `ClaimsStayProvable` failed; the model names it as the mishap `recreated`.
* `SupplierLifecycle`: pruning says "We must keep the config until the proof window
  closes for those sessions" (`x/supplier/keeper/prune_supplier_service_config_history.go:52`)
  but counts the window by the params of the config's *last* session.  When an epoch
  with a shorter window begins in between, an earlier session's window is still open:
  in an instance with the genesis record `MCParams(2, 5, 4)` of
  `MCSupplierLifecycle`, an update that sets `proofWindowCloseOffsetBlocks` to 0 and
  11 blocks, the config is gone in block 9 although the session of blocks 3 and 4 can
  be proven up to block 11.
* `SupplierLifecycle`: unstaking takes the session end by live params, which in the first
  block of a new epoch are still those of the old one, so a supplier may unbond from
  the middle of a session.  Its last proof window then closes up to a session later
  than the unbonding period, counted from there, allows for.
* `Settlement`: there is a second way to halt than the one of `settlement_halts`.  If
  the proposer's ratio of the burn's distribution is larger than the supplier's, a
  claim may be so small that the supplier's part truncates to nothing, so the relay
  burn does not fail for want of a config, and accumulates the proposer's part; the
  global mint, whose supplier part is not nothing, then fails.  It was met in the
  proof of `NeverHalts`, which therefore excludes it.
* `RelayMeter`: two first relays of a session may create two meters, and what the
  first consumed is forgotten; a relay that fails before it is metered is given
  its cost back all the same; a websocket message goes to the miner before it is
  metered.

## 4. Proofs

What the runs check on small instances the theorems state for every value of the
constants that meets the modules' `ASSUME`s.  Eight modules prove them; each
begins with its inductive invariant, then has the lemmas, one per action, and
ends with the theorems.

| Module | Theorem | States |
|---|---|---|
| `SharedParamsProofs` | `Invariance`, `GridInvariance` | `IInv`, `GridInv` |
| | `TypeCorrectness` | `TypeOK` |
| | `LiveTiming` | `LiveTimingIsPreviousBlocks` |
| | `SessionsNeverMove` | `StartedSessionsNeverMove`, an action property |
| | `SessionsPartition` | `SessionsPartitionHeights` |
| `ClaimLifecycleProofs` | `SuppliersInvariance` | `SupInv` |
| | `SupplierTypes` | `SLTypeOK` |
| | `StakesAreCovered` | `PoolCoversStakes` |
| | `IndexIsExact` | `UnstakingIndexIsExact` |
| | `SuppliersStay` | `OpenSessionsNeverLoseASupplier`, an action property, under a hypothesis |
| | `ClaimsInvariance` | `CInv` |
| | `ClaimTypes` | `CLTypeOK` |
| | `NoOrphans` | `NoClaimIsOrphaned` |
| | `SettlementIsOnTime` | `SettledAsProofWindowCloses` |
| | `SettlementIsOnce` | `SettledOnlyOnce` |
| | `ProofsHaveClaims` | `EveryProofHasItsClaim` |
| | `ProvenClaimsAreSafe` | `ProvenClaimIsNeverSlashed` |
| | `PricesArePinned` | `PriceIsPinned` |
| | `ContractRefinement` | `ClaimContractIsKept`, the refinement |
| | `SlashingKeepsStakesCovered` | `PoolCoversStakes`, with slashing |
| `ApplicationLifecycleProofs` | `ALInvariance` | `ALInv` |
| | `ApplicationTypeOK` | `ALTypeOK` |
| | `ApplicationIndexesExactness` | `ApplicationIndexesAreExact` |
| | `AppPoolCoverage` | `AppPoolCoversStakes` |
| | `UnderfundedUnbond` | `UnderfundedApplicationsAreUnbonding` |
| | `InactiveGatewaysUndelegated` | `InactiveGatewaysAreUndelegated`, an action property |
| | `OpenRings` | `OpenRingsKeepTheirGateways`, an action property |
| | `ServicesStay` | `ServicesOfBegunSessionsStay`, an action property |
| | `ApplicationsOutlast` | `OpenSessionsKeepTheirApplication`, an action property |
| `SettlementProofs` | `SettlementInvariance` | `StInv` |
| | `SettlementTypes` | `StTypeOK` |
| | `BudgetsAreKept` | `SessionBudgetIsNeverExceeded` |
| | `UnusedBudgetGoesToOthers` | `UnusedBudgetIsPaidOut` |
| | `TransitIsEmptied` | `NothingStaysInTransit` |
| | `PoolIsExact` | `AppPoolIsExact` |
| | `NeverHalts` | `SettlementNeverHalts`, under two hypotheses |
| `TxClientProofs` | `TxClientInvariance` | `TxInv` |
| | `TxClientTypes` | `TxcTypeOK` |
| | `PendingTxsAreOpen` | `PendingTxsHaveOpenChannels` |
| | `FinalAnswers` | `AnswersAreFinal` |
| `RelayMeterProofs` | `MetersBalance` | `RmInv` |
| | `RewardsFitMeters` | `RewardedRelaysFitTheirMeters` |
| `RelayerSessionsProofs` | `SessionsInvariance` | `RsInv` |
| | `SessionTypes` | `RsTypeOK` |
| | `ClaimsAreProvable` | `ClaimsStayProvable` |
| | `ProofsAreOfClaims` | `ProofsMatchTheirClaims` |

### Params and sessions

Assumptions: genesis params validate and their grid starts at block 1 (anchor 0
or 1, number 0 or 1), which is what the code writes into a new chain; updates are
params records; the bounds are naturals.

`IInv` is `TypeOK`, `GenesisEpoch` and `LiveIsPrevious`.  `TypeOK` is not enough
for the others: that live agrees with the previous block's epoch is preserved by
an update only if looking up the previous block is not affected by it, and that
needs history either to be empty, with live still on the genesis grid, or to
begin at block 1 (`GenesisEpoch`); and `LiveIsPrevious` says the same of the
grid as of the offsets, up to the equivalence of an anchor that was never set and
one at block 1 (`SameGrid`).

The argument for a governance message (`RecordStep`) is that the entry it writes
lies after the end of the session of the current height (`GridBounds`), so no
lookup at or before it changes (`LaterEpochIsNotSeen`); the seed, on an empty
history, changes the answer of no lookup but for the spelling of the anchor
(`SeededFacts`, `SameSessions`); and live is written only if its timing stays.
For the end of a block (`PromoteStep`) it is that the entry promoted is the one
the next block's "previous" lookup finds.  `LatestIsMax` is what makes the
`CHOOSE` of the lookup the latest epoch.

Sessions partition the chain because every epoch begins a session where one of
the epoch before it ends, and goes on counting from there: `GridOk`, of the
history with its seed.  `GridInv` adds that no epoch lies beyond the next session
start, so that an update either replaces the last epoch or comes right after the
current session; without it a new epoch could cut a session of a later one short.
That the sessions of *one* record partition the heights is `GridPartition`.

### Suppliers

Assumptions: amounts are positive, the minimum and the bounds naturals.
`PoolCoversStakes` sums over the suppliers on record, so the invariant `SupInv`
adds that they are finitely many: each message writes one record.
A message changes the sum by the difference that it moves in or out of the
module; at the end of a block the suppliers unbonded are taken out of the sum
(`TotalSplits`), and those whose transfer failed are put back with their stake
unpaid.  `UnstakingIndexIsExact` is inductive by itself, because every write of a
record goes through the index.

`SuppliersStay` is `OpenSessionsNeverLoseASupplier` for any number of session lengths,
under `UnbondingOutlastsWindows`: of the heights up to now, a later one has no shorter
windows than an earlier one, and the unbonding period is longer than the windows; once
the session length has changed, by a session more.  The default params meet it
(windows of 9 blocks in an unbonding period of 10) until the session length is changed;
the run `supplier_lifecycle` meets it in all its states, with a change.  Without it the
property is false (see "What else was met").

Next to the types the argument needs `UnbondingInv`: every config of an unbonding
supplier ends right after the height it unbonds from; and `UnbondingStarts`: that
height ends a session by the params on record too, unless the session length has
changed by then (`LiveSessionEnd`: with one length, live and the record it differs from
have the same session ends).  A message ends no
config before the next session starts (`MessageLeavesSuppliers`).  At the end of a
block, a config pruned or a supplier removed served up to some height `y` whose own
proof window is over (`IsPrunable`, `UnbondedAfterProofs`), and windows close in the
order of heights (`ProofWindowsCloseInOrder`, from `SessionsEndInOrder`), so the window
of every earlier height is over as well.

### Claims

Assumptions: roots, penalty and threshold are naturals, samples sets of statuses.
`CInv` says of a claim on record that it is of a session that has ended, was priced
by the params of its start, has not passed its deadline, and has a status that tells
whether its last proof was of its root.  That last part is why a claim cannot be
replaced after its proof was validated: once there has been a proof the claim
window is in its last block, and once it has been validated the window has closed.

The scan for claims that are due reads live params and reaches back over epochs.
It finds a claim in exactly the block its window closes because the session and
the params of a past height do not move (`ParamsStep`, from the invariants of
`SharedParams`), because live has the grid of the previous block's epoch, and
because the session ends of an older epoch are those before the next one's start
(`SessionFacts`, from `GridInv`).

The refinement is proved step by step.  Governance, supplier messages and rejected
messages stutter; `CreateClaim` and `SubmitProof` are `ClaimOrProve`, with the
deadline unmoved; the end of a block closes in one step of the contract all the
claims whose deadline it is.

`SlashingKeepsStakesCovered` composes the two end-of-block steps: what slashing
takes from a stake is no more than that stake, so the suppliers it hands to the
supplier module's EndBlocker are covered before that one pays stakes out.

### Applications and gateways

Assumptions: addresses are naturals, which stand for the order of the store's keys;
amounts are positive, the minimum stakes and the bounds naturals.

`ALInv` says that the gateways are typed and their account is exactly their stakes
(`GatewaysOk`), that the records and the indexes are right (`StoreOk`), and that the
account of the application module covers the stakes.  What is said of each record
(`RecordOk`) includes that an application below the minimum is unbonding, and that a
pending transfer is to *another* address (`TransferOk`): without the latter the loop
over transfers would remove the record it has just written.

A message writes one record and its index entries (`SetApplicationsIsExact`): the
delegation index is exact only because no write drops a delegatee without leaving an
undelegation.  The end of a block is five stages, each taking the store the one before
left: `SettlementStage`, `UndelegationStage`, `PruningStage`, `RemovalKeepsStore` and
`TransferStage`, chained in `BlockStages`.  The last is a loop, a fold over the pending
transfers in key order in which a transfer may merge into an application that is itself
transferred later.  `TransfersFollow` relates the store before the loop with the one
after some of its steps, `TransferStepFollows` takes one more, and `TransfersFollowOn`
goes through all of them by induction on the number of transfers; that the fold *is*
such a loop is `LoopExists`.  The sum of the stakes follows each stage
(`StakesAfterPut`, `StakesAfterRemoval`, `StakesAfterLoss`).

The three action properties about sessions that are still open hold under
`ParamsLeaveTime`, part of their statement: no epoch with another timing is on record,
the application unbonding period is longer than the windows, and these are no longer
than the retention of undelegations.  All three parts are needed, see "What else was
met".  Under it every record measures sessions from block 1 (`EpochsOnGrid`, `OneGrid`,
`UniformSessions`), so "the session of x" means the same to live and to history.  What
remains is a relation between the record of an application before and after a step,
`Carries(old, new, h)`: whatever session up to height `h` the old one has, with its
services and with its ring, the new one has.  Messages carry sessions up to the
current one's end (`MessageCarries`), the stages of a block those whose proof window is
not over (`BlockCarries`), and governance changes nothing that is looked up
(`GovernKeepsSessions`).

### Settlement

Assumptions: the applications of the chain are finitely many; the claims and
stakes are of their types; ratios are pairs with a positive denominator, and the
ratios of an allocation add up to no more than one, which `ValidateBasic` of the
tokenomics params ensures.

`StInv` has six parts next to the types.  `BudgetsOk`: what a session's budget has
accumulated is the sum of what the claims seen so far leave of, or exceed, their
floor.  `ChargesOk`: no charge is above the claim's cap, floor less what it leaves
plus its share of what others leave.  `PoolOk`: until the flush nothing has moved
in the bank, and cached stakes and charges make up the stakes on record.  `OpsOk`:
the pending operations pay suppliers what they mint or take for them, bring in no
more than they pay out and owe validators, and spend what settled claims were charged.
`PaidOk`: a claim that was settled was charged exactly what its amount, as capped,
takes of the stake.  `PhaseOk`: which claims have an outcome.

The budget is kept because the caps of a session are within it (`CapsFit`): the
floors, truncated, add up to at most the budget (`FloorsFit`), and the shares of
what is left, truncated too, to at most what is left (`SharesFit`); and because what
a claim takes, its inflation rounded up, is within its cap (`TakenFits`).  The
accounts are exact because each token logic module's operations are `Balanced`, a
claim that fails after one of them drops its operations but not its charge and
its rewards, and the bank's operations, all executed in one step, then move just
what `OpsOk` says.

That nothing is kept back for no reason, `UnusedBudgetIsPaidOut`, is the other
direction of the same arithmetic: the amount a claim is settled for takes its cap
but for the rounding of one unit (`SettlesClose`); its share of what others leave is
what it wants or its part of the whole, truncated (`ShareReached`); and the parts of
all of them add up to what is left but for one each (`SharesReach`).

`NeverHalts` needs two hypotheses, and TLC halts the chain without either.
`OneSessionEach`: applications have one session in the block, which one stake message
guarantees and a merge does not (run `settlement_halts`).  `ProposersFollow`: where
there is inflation, the proposer's ratio of the burn's distribution is no larger
than the supplier's, as it is in the defaults; `ValidateBasic` does not ask for it.
Both hold in the run `settlement`.  Under them `Unhalted` is inductive: the stake of
the context is the stake on record less what the session was charged, so, by
`BudgetsAreKept`, every claim can be paid in full, and no claim fails after it
added to the rewards.

### Tx client

Assumptions: finitely many transactions; heights and bounds are naturals.
`TxInv` adds to the types and to `PendingTxsHaveOpenChannels` what the node can
still do with a transaction (`NodeOk`: it is in the mempool or in a block only up to
its timeout height), what its call has been told (`ClientOk`), and that an entry of
the timeout pool is at the one height its transaction expires at (`EntriesOk`).  A
timeout is final because that height is a block later than the last one that may
take the transaction; a success because only a transaction in a block has an event
or is found by the query.

### Relay meter

Assumptions: the heights of the session are in order.  There may be infinitely
many requests.  `RmInv` is a balance: what all the meters ever created have consumed is
the number of relays charged less the number given their cost back
(`ConsumedAfter`).  `ProgressOk` says that no relay is charged twice and none is both
rewarded and given its cost back, so the relays that are both charged and rewarded
are at most the charged ones that were not refunded, and those are at most what
meters consumed plus the refunds of relays that were never charged.

### Session manager

Assumptions: finitely many sessions and relays, and windows in order.
`RsInv` is, of every session, `StagesOk` (how far memory and chain are),
`LogOk` (a live tree is in the log or on its way there), `ClaimOk` (claim and
proofs, on chain and in flight, are of the tree, or of what its log has), and
`KeptOk` (a claim yet to be proven has its tree or its log).  `LogOk` and
`ClaimOk` hold of sessions that met no mishap but `gaveUp`.  The argument for a
stop and for a crash is that memory is empty afterwards and the log is what a start
replays; the other actions are shown to leave sessions other than their own alone
(`Elsewhere`) and to change their own as `Becomes` lists it.

### Sums

`Totals` defines the sum over a finite set by the community modules' fold, and
`TotalsProofs` proves what accounts need of it: the empty sum, one more term, one
changed term, a set split in two, and bounds.  The fold takes its terms in the order
of a `CHOOSE`, so all of it rests on `TotalTakes`, that any term may be taken first.
The library's induction theorems take an operator, which the provers cannot
instantiate; `NatSetInduction` and `SubsetInduction` state induction of a *set*
instead, of numbers or of subsets, from the well-foundedness of the naturals, which
is enough here.

### Only model-checked

Every invariant and every action property of the passing runs is the statement of a
theorem above, and so is the refinement.  What stays with TLC is liveness under
fairness, which the prover does not reach: `CallsReturnOrAreOverlooked` of `TxClient`
and `SessionsAreReleased` of `RelayerSessions`; and that the properties of the runs
that expect a violation are false.  What a fold computes is proved for all inputs only
where induction over sets is enough (`Totals`, the loop over transfers); it is not for
what recursive definitions over other data would need, of which the models have none.

## 5. What is not modelled, and the plan

Not modelled because a model would say nothing: generated code (three quarters of
the lines of the repository's Go), command line, documentation, test support,
telemetry, HTTP and websocket transport, cryptography, upgrade handlers.

* `x/migration`: one-off import and claiming of Morse accounts; each message is a
  sequential check and transfer.
* `x/service`: a registry, and the relay mining difficulty, an exponential moving
  average in floating point that TLC cannot evaluate faithfully.
* Query clients and caches: a query answers or fails, by choice, where the models
  need one.  That a cached answer is stale across a params change is not modelled.
* Observables: channel plumbing.  Block and event clients: their failures are
  part of `TxClient`'s environment.
* The relay miner's filter by hash difficulty, which has no state.
* In `x/proof`, the params as variables and the worker pool of validation (see
  the hazards in `PROJECT.json`).

What would be worth adding next, in this order:

1. `SuppliersStay` over `ClaimLifecycle`, where slashing makes suppliers unbond outside
   of the index: `UnbondingInv` does not hold there, since a slashed supplier's configs
   stay open.
2. The three properties of open sessions of applications across epochs of different
   timing, where the height an application unbonds at may lie within a session.
3. A module for the params of `x/proof` and the proof requirement, decided at
   submission and again at settlement (listed among the hazards).

`PROJECT.json` lists every component, and every hazard with the properties that
cover it or the reason why none does.
