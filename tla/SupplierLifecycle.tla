------------------------- MODULE SupplierLifecycle -------------------------
(***************************************************************************)
(* The supplier module (x/supplier) over the shared params: staking,       *)
(* re-staking, unstaking, unbonding and the service-config history from    *)
(* which x/session draws the suppliers of a session.                       *)
(*                                                                         *)
(* A service config is active from its activation to its deactivation      *)
(* height; both are meant to be session starts, so that the suppliers of a *)
(* running session do not change.  The history is kept until the proof     *)
(* window of the last session it served has closed, because a session is   *)
(* re-hydrated from the current store whenever a claim or a proof for it   *)
(* arrives.                                                                *)
(*                                                                         *)
(* Left out: staking fees (they only add to the module's account), who the *)
(* owner is, endpoints and revenue shares of a config, and the choice among *)
(* more candidates than NumSuppliersPerSession (the chosen ones are a      *)
(* function of the candidates and the session id).                         *)
(***************************************************************************)
EXTENDS SharedParams, Totals, Functions

CONSTANTS
    Operators,    \* supplier operator addresses
    Services,     \* service ids
    Stakes,       \* the amounts a stake message may carry
    MinStake,     \* x/supplier param min_stake
    MaxConfigs    \* bound: config updates a supplier may have on record

ASSUME SupplierAssumption ==
    /\ Stakes \subseteq Nat \ {0}
    /\ MinStake \in Nat
    /\ MaxConfigs \in Nat

VARIABLES
    suppliers,       \* operator -> [stake, unstakeSessionEndHeight]
    configs,         \* operator -> its service config updates
    unstakingIndex,  \* the operators of supplierUnstakingHeightStore
    supplierPool     \* stake held by the module account

supplierVars == <<suppliers, configs, unstakingIndex, supplierPool>>
slVars == <<paramVars, supplierVars>>

NotUnstaking == 0
NoDeactivation == 0
UnchangedStake == 0    \* a stake message without an amount

Config == [service : Services, activation : Nat, deactivation : Nat]

StakesOf(sups) == [op \in DOMAIN sups |-> sups[op].stake]

IsUnbonding(s) == s.unstakeSessionEndHeight # NotUnstaking

IsActive(c, h) ==
    /\ c.activation <= h
    /\ c.deactivation = NoDeactivation \/ h < c.deactivation

-----------------------------------------------------------------------------
(* x/session: the candidates for the sessions of service s, as a session   *)
(* hydrated now for block height h finds them.                             *)
SessionSuppliers(s, h) ==
    {op \in DOMAIN suppliers :
        \E c \in configs[op] : c.service = s /\ IsActive(c, h)}

-----------------------------------------------------------------------------
(* Messages.  A signer is the owner of the supplier, its operator, or, in  *)
(* custodial staking, both; a message of anyone else is rejected.          *)
Signers == {{"owner"}, {"operator"}, {"owner", "operator"}}

NextStart == GetNextSessionStartHeight(live, height)

NewConfigs(services) ==
    [service : services, activation : {NextStart}, deactivation : {NoDeactivation}]

(* Mutant: a config that was to start next session is kept beside the one  *)
(* that replaces it.                                                       *)
KeptConfigsAll(op, services) ==
    {[c EXCEPT !.deactivation = IF @ = NoDeactivation THEN NextStart ELSE @] :
        c \in configs[op]}

(* What updateSupplier makes of the history: a config of an updated        *)
(* service that was to start next session is replaced, every other one     *)
(* that is open-ended ends where the new ones start.                       *)
KeptConfigs(op, services) ==
    {[c EXCEPT !.deactivation = IF @ = NoDeactivation THEN NextStart ELSE @] :
        c \in {d \in configs[op] :
                 ~ (d.activation = NextStart /\ d.service \in services)}}

UpdatedConfigs(op, services) ==
    IF services = {}
    THEN configs[op]
    ELSE NewConfigs(services) \cup KeptConfigs(op, services)

(* Mutant: the index entry of a cancelled unbonding is left behind.        *)
SetAndIndexAddOnly(op, s, cs) ==
    /\ suppliers' = [o \in DOMAIN suppliers \cup {op} |->
                       IF o = op THEN s ELSE suppliers[o]]
    /\ configs' = [configs EXCEPT ![op] = cs]
    /\ unstakingIndex' = IF IsUnbonding(s)
                         THEN unstakingIndex \cup {op}
                         ELSE unstakingIndex

(* SetAndIndexDehydratedSupplier: the record, its configs and its entry of *)
(* the unstaking index.                                                    *)
SetAndIndex(op, s, cs) ==
    /\ suppliers' = [o \in DOMAIN suppliers \cup {op} |->
                       IF o = op THEN s ELSE suppliers[o]]
    /\ configs' = [configs EXCEPT ![op] = cs]
    /\ unstakingIndex' = IF IsUnbonding(s)
                         THEN unstakingIndex \cup {op}
                         ELSE unstakingIndex \ {op}

(* A new supplier; the owner alone may stake it, but without services.     *)
StakeNewSupplier(op, signer, amount, services) ==
    /\ op \notin DOMAIN suppliers
    /\ amount # UnchangedStake /\ amount >= MinStake
    /\ services = {} \/ "operator" \in signer
    /\ Cardinality(services) <= MaxConfigs
    /\ SetAndIndex(op, [stake |-> amount, unstakeSessionEndHeight |-> NotUnstaking],
                   NewConfigs(services))
    /\ supplierPool' = supplierPool + amount
    /\ UNCHANGED paramVars

(* Mutant: a message without an amount refunds the whole stake.            *)
UpdateSupplierRefunding(op, signer, amount, services) ==
    LET old == suppliers[op]
        new == IF amount = UnchangedStake THEN old.stake ELSE amount
    IN  /\ op \in DOMAIN suppliers
        /\ services = {} \/ "operator" \in signer
        /\ IsUnbonding(old) => "owner" \in signer
        /\ new >= MinStake
        /\ Cardinality(UpdatedConfigs(op, services)) <= MaxConfigs
        /\ SetAndIndex(op, [stake |-> new, unstakeSessionEndHeight |-> NotUnstaking],
                       UpdatedConfigs(op, services))
        /\ supplierPool' = supplierPool + amount - old.stake
        /\ UNCHANGED paramVars

(* An update; on an unbonding supplier it cancels the unbonding, which is  *)
(* the owner's to do.                                                      *)
UpdateSupplier(op, signer, amount, services) ==
    LET old == suppliers[op]
        new == IF amount = UnchangedStake THEN old.stake ELSE amount
    IN  /\ op \in DOMAIN suppliers
        /\ services = {} \/ "operator" \in signer
        /\ IsUnbonding(old) => "owner" \in signer
        /\ new >= MinStake
        /\ Cardinality(UpdatedConfigs(op, services)) <= MaxConfigs
        /\ SetAndIndex(op, [stake |-> new, unstakeSessionEndHeight |-> NotUnstaking],
                       UpdatedConfigs(op, services))
        /\ supplierPool' = supplierPool + new - old.stake
        /\ UNCHANGED paramVars

UnstakeSupplier(op) ==
    /\ op \in DOMAIN suppliers
    /\ ~ IsUnbonding(suppliers[op])
    /\ SetAndIndex(op,
          [suppliers[op] EXCEPT !.unstakeSessionEndHeight =
                                     GetSessionEndHeight(live, height)],
          {[c EXCEPT !.deactivation = NextStart] : c \in configs[op]})
    /\ UNCHANGED <<paramVars, supplierPool>>

-----------------------------------------------------------------------------
(* EndBlocker.  Operators take the supplier records they act on, which     *)
(* settlement may have changed earlier in the same block.                  *)
UnbondingEndHeight(s) ==
    LET p == GetParamsAtHeight(s.unstakeSessionEndHeight)
    IN  s.unstakeSessionEndHeight
          + p.supplierUnbondingPeriodSessions * p.numBlocksPerSession

UnbondedSuppliers(sups) ==
    {op \in unstakingIndex \cap DOMAIN sups :
        /\ IsSessionEndHeight(live, height)
        /\ IsUnbonding(sups[op])
        /\ UnbondingEndHeight(sups[op]) <= height}

(* Index entries of suppliers that are not unbonding are dropped. *)
DanglingEntries(sups) ==
    {op \in unstakingIndex \cap DOMAIN sups :
        IsSessionEndHeight(live, height) /\ ~ IsUnbonding(sups[op])}

(* Mutant: a config is pruned as soon as it has ended.                     *)
IsPrunableAtOnce(c) == c.deactivation # NoDeactivation /\ c.deactivation <= height

(* The config has ended, and so has the proof window of the last session   *)
(* it was active in.                                                       *)
IsPrunable(c) ==
    LET last == c.deactivation - 1
    IN  /\ c.deactivation # NoDeactivation
        /\ c.deactivation <= height
        /\ height > GetProofWindowCloseHeight(GetParamsAtHeight(last), last)

(* Unbond, then prune.  stuck: the unbonded suppliers whose stake the bank *)
(* would not send (an owner that is a module account, in old state); they  *)
(* are removed all the same and the coins stay in the pool.                *)
SupplierEndBlock(sups, pool, stuck) ==
    LET unbonded == UnbondedSuppliers(sups)
    IN  /\ stuck \subseteq unbonded
        /\ suppliers' = Restrict(sups, DOMAIN sups \ unbonded)
        /\ unstakingIndex' = unstakingIndex \ (unbonded \cup DanglingEntries(sups))
        /\ configs' = [op \in Operators |->
                         IF op \in unbonded
                         THEN {}
                         ELSE {c \in configs[op] : ~ IsPrunable(c)}]
        /\ supplierPool' = pool - Total(StakesOf(sups), unbonded \ stuck)

-----------------------------------------------------------------------------
SLInit ==
    /\ Init
    /\ suppliers = [op \in {} |-> [stake |-> 0, unstakeSessionEndHeight |-> 0]]
    /\ configs = [op \in Operators |-> {}]
    /\ unstakingIndex = {}
    /\ supplierPool = 0

SupplierMessage ==
    \E op \in Operators :
       \/ \E signer \in Signers, services \in SUBSET Services :
             \/ \E amount \in Stakes :
                   StakeNewSupplier(op, signer, amount, services)
             \/ \E amount \in Stakes \cup {UnchangedStake} :
                   UpdateSupplier(op, signer, amount, services)
       \/ UnstakeSupplier(op)

SLGovern == Govern /\ UNCHANGED supplierVars

SLEndBlock ==
    /\ EndBlock
    /\ \E stuck \in SUBSET UnbondedSuppliers(suppliers) :
          SupplierEndBlock(suppliers, supplierPool, stuck)

SLNext == SLGovern \/ SupplierMessage \/ SLEndBlock

SLSpec == SLInit /\ [][SLNext]_slVars

-----------------------------------------------------------------------------
(* Properties. *)

(* Every stored supplier is within its types, and no two config updates of *)
(* a supplier share the (service, activation) key of their store.          *)
SLTypeOK ==
    /\ DOMAIN suppliers \subseteq Operators
    /\ \A op \in DOMAIN suppliers :
          suppliers[op] \in [stake : Nat, unstakeSessionEndHeight : Nat]
    /\ configs \in [Operators -> SUBSET Config]
    /\ unstakingIndex \subseteq Operators
    /\ supplierPool \in Nat
    /\ \A op \in Operators : \A c, d \in configs[op] :
          c.service = d.service /\ c.activation = d.activation => c = d

(* The unstaking index holds exactly the unbonding suppliers: one that is  *)
(* missing would never be released, and one whose record is gone makes the *)
(* EndBlocker return an error, which halts the chain.                      *)
UnstakingIndexIsExact ==
    unstakingIndex = {op \in DOMAIN suppliers : IsUnbonding(suppliers[op])}

(* The module account always holds every stake on record, through stake    *)
(* changes, cancelled unbondings, removals and stuck transfers.            *)
PoolCoversStakes ==
    supplierPool >= Total(StakesOf(suppliers), DOMAIN suppliers)

(* A session that can still be claimed or proven never loses a supplier,   *)
(* whatever is staked, updated, unstaked, unbonded or pruned, and whatever *)
(* happens to the params meanwhile: claims and proofs are accepted only    *)
(* from suppliers the re-hydrated session still lists.  Only the end of    *)
(* the block in which its proof window closes, or a later step, may take   *)
(* a supplier from the session that height x is in.                        *)
OpenSessionsNeverLoseASupplier ==
    [][\A x \in 1..height, s \in Services :
          \/ SessionSuppliers(s, x) \subseteq SessionSuppliers(s, x)'
          \/ height' > GetProofWindowCloseHeight(GetParamsAtHeight(x), x)
      ]_slVars

(* What the params must leave for that in general: a later session has no  *)
(* shorter windows than an earlier one, and a supplier unbonds for longer  *)
(* than they last; once the session length has changed, by a session more, *)
(* because the height it unbonds from is a session end by live and need    *)
(* not be one by the params on record.                                     *)
UnbondingOutlastsWindows ==
    \A y \in 1..height :
        LET q      == GetParamsAtHeight(y)
            n      == q.numBlocksPerSession
            window == GetSessionEndToProofWindowCloseBlocks(q)
            period == q.supplierUnbondingPeriodSessions * n
        IN  /\ window < period
            /\ \A x \in 1..y :
                  LET p == GetParamsAtHeight(x)
                  IN  /\ GetSessionEndToProofWindowCloseBlocks(p) <= window
                      /\ p.numBlocksPerSession # n => window + n <= period

(* x/supplier/keeper/msg_server_unstake_supplier.go:87-88: "onchain        *)
(* sessions' suppliers list MUST NOT change mid-session".                  *)
SuppliersListIsFixedMidSession ==
    [][\A x \in SessionAt(height).start..height, s \in Services :
          SessionSuppliers(s, x)' = SessionSuppliers(s, x)
      ]_slVars

=============================================================================
