------------------------ MODULE ApplicationLifecycle ------------------------
(***************************************************************************)
(* The application module (x/application) over the gateway and the shared  *)
(* modules: staking, delegation to gateways, unbonding, transfer of an     *)
(* application to another address, the history of its services, and the    *)
(* four indexes the EndBlockers iterate over instead of all applications.  *)
(*                                                                         *)
(* A relay request is signed by the ring of the application and the        *)
(* gateways it delegates to.  A proof is checked against the ring as it    *)
(* was in its session, rebuilt from the delegatees of now and the          *)
(* undelegations kept since, so what the EndBlockers prune and a transfer  *)
(* merges decides which proofs stay valid.                                 *)
(*                                                                         *)
(* Settlement (x/tokenomics) is here what it does to the application: at   *)
(* the close of a session's proof window it takes some of its stake.       *)
(* The per-session spend limit is left out: only settlement reads it.      *)
(***************************************************************************)
EXTENDS GatewayLifecycle

CONSTANTS
    Applications,    \* application addresses, in the order of their store keys
    Services,        \* service ids
    AppStakes,       \* the amounts a stake message may carry
    AppMinStake,     \* x/application param min_stake
    MaxDelegated,    \* x/application param max_delegated_gateways
    Charges          \* the amounts settlement may take from an application

ASSUME ApplicationAssumption ==
    /\ Applications \subseteq Nat
    /\ AppStakes \subseteq Nat \ {0}
    /\ {AppMinStake, MaxDelegated} \subseteq Nat
    /\ Charges \subseteq Nat \ {0}

VARIABLES
    store,     \* the application store: the records and their four indexes
    appPool    \* stake held by the module account

applicationVars == <<store, appPool>>
alVars == <<glVars, applicationVars>>

NoDeactivation == 0
NoTransfer == [to |-> 0, end |-> 0]
NumSessionsAppToGatewayUndelegationRetention == 2

HasPendingTransfer(app) == app.transfer # NoTransfer

(* Active for a session that ends at h: an unstake or a transfer lets the  *)
(* session it came in run to its end.                                      *)
IsActive(app, h) ==
    IF IsUnbonding(app) THEN h <= app.unstakeSessionEndHeight
    ELSE HasPendingTransfer(app) => h <= app.transfer.end

-----------------------------------------------------------------------------
(* The store. *)

UndelegatedGateways(app) == {u.gateway : u \in app.undelegations}

(* The index entries of the records apps, by address.                      *)
DelegationsOf(apps) ==
    UNION {{<<g, a>> : g \in apps[a].delegatees} : a \in DOMAIN apps}

UndelegationsOf(apps) ==
    UNION {{<<a, g>> : g \in UndelegatedGateways(apps[a])} : a \in DOMAIN apps}

Converse(pairs) == {<<e[2], e[1]>> : e \in pairs}

(* Mutant: the entry of a cancelled unbonding is left in the index.        *)
SetApplicationsAddOnly(st, new) ==
    [apps          |-> PutAll(st.apps, new),
     unstaking     |-> st.unstaking \cup {a \in DOMAIN new : IsUnbonding(new[a])},
     transferring  |-> (st.transferring \ DOMAIN new)
                         \cup {a \in DOMAIN new : HasPendingTransfer(new[a])},
     delegations   |-> (st.delegations \cup DelegationsOf(new))
                         \ Converse(UndelegationsOf(new)),
     undelegations |-> {e \in st.undelegations : e[1] \notin DOMAIN new}
                         \cup UndelegationsOf(new)]

(* SetApplication for each of the applications new gives a record: the     *)
(* records and their entries.  An application is in the unstaking and the  *)
(* transfer index as its record says; it leaves the delegation index of    *)
(* every gateway it is undelegating from, be it a delegatee as well.       *)
SetApplications(st, new) ==
    [apps          |-> PutAll(st.apps, new),
     unstaking     |-> (st.unstaking \ DOMAIN new)
                         \cup {a \in DOMAIN new : IsUnbonding(new[a])},
     transferring  |-> (st.transferring \ DOMAIN new)
                         \cup {a \in DOMAIN new : HasPendingTransfer(new[a])},
     delegations   |-> (st.delegations \cup DelegationsOf(new))
                         \ Converse(UndelegationsOf(new)),
     undelegations |-> {e \in st.undelegations : e[1] \notin DOMAIN new}
                         \cup UndelegationsOf(new)]

SetApplication(st, a, app) == SetApplications(st, [x \in {a} |-> app])

(* RemoveApplication for each of the applications A.                       *)
RemoveApplications(st, A) ==
    [apps          |-> Restrict(st.apps, DOMAIN st.apps \ A),
     unstaking     |-> st.unstaking \ A,
     transferring  |-> st.transferring \ A,
     delegations   |-> st.delegations \ DelegationsOf(Restrict(st.apps, A)),
     undelegations |-> {e \in st.undelegations : e[1] \notin A}]

-----------------------------------------------------------------------------
(* The services of an application over time. *)

(* Mutant: a change of services takes effect in the running session.       *)
ServiceChangeNow(app, services) ==
    IF services = app.services
    THEN app
    ELSE [app EXCEPT
           !.services = services,
           !.history = {[c EXCEPT !.deactivation =
                           IF @ = NoDeactivation THEN height ELSE @] : c \in @}
                       \cup [service : services, activation : {height},
                             deactivation : {NoDeactivation}]]

(* recordApplicationServiceConfigChange: the same services leave the       *)
(* history alone.  The first change records what was there as active since *)
(* block 1; a change replaces one that was to start next session too.      *)
RecordServiceConfigChange(app, services) ==
    LET next == GetNextSessionStartHeight(live, height)
        past == IF app.history # {} THEN app.history
                ELSE [service : app.services, activation : {1},
                      deactivation : {NoDeactivation}]
        kept == {c \in past : c.activation # next}
    IN  IF services = app.services
        THEN app
        ELSE [app EXCEPT
               !.services = services,
               !.history = {[c EXCEPT !.deactivation =
                               IF @ = NoDeactivation THEN next ELSE @] : c \in kept}
                           \cup [service : services, activation : {next},
                                 deactivation : {NoDeactivation}]]

(* GetActiveServiceConfigs; an empty history stands for the services of    *)
(* now at every height.                                                    *)
ActiveServices(app, h) ==
    IF app.history = {}
    THEN app.services
    ELSE {c.service : c \in {d \in app.history :
            /\ d.activation <= h
            /\ d.deactivation = NoDeactivation \/ h < d.deactivation}}

-----------------------------------------------------------------------------
(* Messages.  A stake message names exactly one service; an application    *)
(* has more after a merge only.                                            *)

StakeNewApplication(a, amount, services) ==
    /\ a \notin DOMAIN store.apps
    /\ amount >= AppMinStake
    /\ store' = SetApplication(store, a,
          [stake |-> amount, unstakeSessionEndHeight |-> NotUnstaking,
           services |-> services, history |-> {}, delegatees |-> {},
           undelegations |-> {}, transfer |-> NoTransfer])
    /\ appPool' = appPool + amount
    /\ UNCHANGED glVars

(* Strictly more stake; cancels an unbonding, leaves a pending transfer.   *)
UpdateApplication(a, amount, services) ==
    /\ a \in DOMAIN store.apps
    /\ amount > store.apps[a].stake
    /\ amount >= AppMinStake
    /\ store' = SetApplication(store, a,
          [RecordServiceConfigChange(store.apps[a], services) EXCEPT
             !.stake = amount, !.unstakeSessionEndHeight = NotUnstaking])
    /\ appPool' = appPool + amount - store.apps[a].stake
    /\ UNCHANGED glVars

UnstakeApplication(a) ==
    /\ a \in DOMAIN store.apps
    /\ ~ IsUnbonding(store.apps[a])
    /\ ~ HasPendingTransfer(store.apps[a])
    /\ store' = SetApplication(store, a,
          [store.apps[a] EXCEPT !.unstakeSessionEndHeight =
                                    GetSessionEndHeight(live, height)])
    /\ UNCHANGED <<glVars, appPool>>

(* A second transfer message replaces the first. *)
TransferApplication(a, to) ==
    /\ to \notin DOMAIN store.apps
    /\ a \in DOMAIN store.apps
    /\ ~ IsUnbonding(store.apps[a])
    /\ store' = SetApplication(store, a,
          [store.apps[a] EXCEPT !.transfer =
              [to |-> to, end |-> GetSessionEndHeight(live, height)]])
    /\ UNCHANGED <<glVars, appPool>>

(* The gateway leaves the undelegations it is pending in. *)
DelegateToGateway(a, g) ==
    LET app == store.apps[a]
    IN  /\ a \in DOMAIN store.apps
        /\ g \in DOMAIN gateways /\ IsActiveGateway(gateways[g], height)
        /\ g \notin app.delegatees
        /\ Cardinality(app.delegatees) < MaxDelegated
        /\ store' = SetApplication(store, a,
              [app EXCEPT !.delegatees = @ \cup {g},
                          !.undelegations = {u \in @ : u.gateway # g}])
        /\ UNCHANGED <<glVars, appPool>>

(* The gateways gs leave the delegatees, recordPendingUndelegation keeps   *)
(* them for the rings of the sessions so far.                              *)
Undelegated(app, gs) ==
    [app EXCEPT !.delegatees = @ \ gs,
                !.undelegations = @ \cup
                   [height : {GetSessionEndHeight(live, height)}, gateway : gs]]

UndelegateFromGateway(a, g) ==
    /\ a \in DOMAIN store.apps
    /\ g \in store.apps[a].delegatees
    /\ store' = SetApplication(store, a, Undelegated(store.apps[a], {g}))
    /\ UNCHANGED <<glVars, appPool>>

-----------------------------------------------------------------------------
(* The EndBlockers, in the order they run: settlement, x/gateway, then     *)
(* those of x/application.                                                 *)

(* The proof window of some session closes in this block. *)
SettlementIsDue ==
    \E x \in 1..height :
        /\ IsSessionEndHeight(GetParamsAtHeight(x), x)
        /\ GetProofWindowCloseHeight(GetParamsAtHeight(x), x) = height

(* Mutant: falling below the minimum stake goes unnoticed.                 *)
SettledUnchecked(app, amount) == [app EXCEPT !.stake = @ - amount]

(* ProcessTokenLogicModules, for an application it takes amount from: one  *)
(* below the minimum stake is set unbonding, even if it was already, and   *)
(* whether or not it has a transfer pending.                               *)
Settled(app, amount) ==
    [app EXCEPT !.stake = @ - amount,
                !.unstakeSessionEndHeight = IF app.stake - amount < AppMinStake
                                            THEN GetSessionEndHeight(live, height)
                                            ELSE @]

(* Mutant: delegations to an unbonding gateway are left to the owner.      *)
AutoUndelegatedNot(st) == st

(* EndBlockerAutoUndelegateFromUnbondingGateways.                          *)
AutoUndelegated(st) ==
    LET inactive == {g \in DOMAIN GatewaysLeft :
                        ~ IsActiveGateway(GatewaysLeft[g], height)}
        left     == [a \in DOMAIN st.apps |->
                        {g \in inactive \cap st.apps[a].delegatees :
                            <<g, a>> \in st.delegations}]
    IN  SetApplications(st, [a \in {b \in DOMAIN left : left[b] # {}} |->
                                Undelegated(st.apps[a], left[a])])

(* Mutant: undelegations are kept for one session only.                    *)
UndelegationRetentionShort == live.gracePeriodEndOffsetBlocks

GetNumBlocksUndelegationRetention ==
    live.gracePeriodEndOffsetBlocks
      + live.numBlocksPerSession * NumSessionsAppToGatewayUndelegationRetention

(* EndBlockerPruneAppToGatewayPendingUndelegation. *)
Pruned(st) ==
    IF height <= GetNumBlocksUndelegationRetention
    THEN st
    ELSE SetApplications(st,
            [a \in {e[1] : e \in st.undelegations} \cap DOMAIN st.apps |->
                [st.apps[a] EXCEPT !.undelegations =
                    {u \in @ : u.height >= height - GetNumBlocksUndelegationRetention}]])

GetApplicationUnbondingHeight(app) ==
    LET p == GetParamsAtHeight(app.unstakeSessionEndHeight)
    IN  app.unstakeSessionEndHeight
          + p.applicationUnbondingPeriodSessions * p.numBlocksPerSession

(* Mutant: released at the first session end.                              *)
UnbondedApplicationsEarly(st) ==
    {a \in st.unstaking :
        IsSessionEndHeight(live, height) /\ IsUnbonding(st.apps[a])}

UnbondedApplications(st) ==
    {a \in st.unstaking :
        /\ IsSessionEndHeight(live, height)
        /\ IsUnbonding(st.apps[a])
        /\ GetApplicationUnbondingHeight(st.apps[a]) <= height}

(* EndBlockerUnbondApplications: removed, whether or not the bank would    *)
(* send the stake back.                                                    *)
Unbonded(st) == RemoveApplications(st, UnbondedApplications(st))

(* mergeAppPendingUndelegations: the later word is the destination's.      *)
MergedUndelegations(src, dst) ==
    dst.undelegations \cup
      {u \in src.undelegations : u.gateway \notin UndelegatedGateways(dst)}

(* Mutant: the source stays beside its copy.                               *)
TransferredTwice(st, a) ==
    SetApplication(st, st.apps[a].transfer.to,
                   [st.apps[a] EXCEPT !.transfer = NoTransfer])

(* transferApplication: copied to a new address, or merged into an         *)
(* application staked there meanwhile.                                     *)
Transferred(st, a) ==
    LET src    == st.apps[a]
        to     == src.transfer.to
        dst    == st.apps[to]
        merged == IF to \notin DOMAIN st.apps
                  THEN [src EXCEPT !.transfer = NoTransfer]
                  ELSE RecordServiceConfigChange(
                         [dst EXCEPT !.stake = @ + src.stake,
                                     !.delegatees = @ \cup src.delegatees,
                                     !.undelegations = MergedUndelegations(src, dst)],
                         dst.services \cup src.services)
    IN  SetApplication(RemoveApplications(st, {a}), to, merged)

(* GetApplicationTransferHeight, by the live params. *)
GetApplicationTransferHeight(app) ==
    GetProofWindowCloseHeight(live, app.transfer.end)

(* One application of the transfer index.  A transfer of an application    *)
(* that is unbonding by now is given up.                                   *)
TransferStep(st, a) ==
    LET src == st.apps[a]
    IN  IF height < GetApplicationTransferHeight(src) THEN st
        ELSE IF IsUnbonding(src)
        THEN SetApplication(st, a, [src EXCEPT !.transfer = NoTransfer])
        ELSE Transferred(st, a)

(* EndBlockerTransferApplication, in the order of the store's keys: the    *)
(* last key's step is the outermost.                                       *)
TransfersEnded(st) ==
    IF IsSessionEndHeight(live, height)
    THEN MapThenFoldSet(LAMBDA a, s : TransferStep(s, a), st, LAMBDA a : a,
                        LAMBDA A : Max(A), st.transferring)
    ELSE st

BeforeUnbonding(charged, amount) ==
    Pruned(AutoUndelegated(
        SetApplications(store, [a \in charged |-> Settled(store.apps[a], amount)])))

(* charged: the applications settlement takes amount from.  stuck: the     *)
(* unbonded ones whose stake the bank would not send.                      *)
ALEndBlock(charged, amount, stuck) ==
    LET st       == BeforeUnbonding(charged, amount)
        unbonded == UnbondedApplications(st)
    IN  /\ charged # {} => SettlementIsDue
        /\ \A a \in charged : store.apps[a].stake >= amount
        /\ stuck \subseteq unbonded
        /\ EndBlock
        /\ GatewayEndBlock
        /\ store' = TransfersEnded(Unbonded(st))
        /\ appPool' = appPool - amount * Cardinality(charged)
                        - Total(StakesOf(st.apps), unbonded \ stuck)

-----------------------------------------------------------------------------
ALInit ==
    /\ GatewayInit
    /\ store = [apps |-> [a \in {} |-> 0], unstaking |-> {}, transferring |-> {},
                delegations |-> {}, undelegations |-> {}]
    /\ appPool = 0

ALGovern == Govern /\ UNCHANGED <<gatewayVars, applicationVars>>

ALGatewayMessage == GatewayMessage /\ UNCHANGED applicationVars

ApplicationMessage ==
    \E a \in Applications :
       \/ \E amount \in AppStakes, service \in Services :
             \/ StakeNewApplication(a, amount, {service})
             \/ UpdateApplication(a, amount, {service})
       \/ UnstakeApplication(a)
       \/ \E to \in Applications : TransferApplication(a, to)
       \/ \E g \in Gateways : DelegateToGateway(a, g) \/ UndelegateFromGateway(a, g)

ALBlockEnds ==
    \E charged \in SUBSET DOMAIN store.apps, amount \in Charges :
       \E stuck \in SUBSET UnbondedApplications(BeforeUnbonding(charged, amount)) :
          ALEndBlock(charged, amount, stuck)

ALNext == ALGovern \/ ALGatewayMessage \/ ApplicationMessage \/ ALBlockEnds

ALSpec == ALInit /\ [][ALNext]_alVars

-----------------------------------------------------------------------------
(* Properties. *)

(* The records are within their types.                                     *)
ALTypeOK ==
    /\ DOMAIN gateways \subseteq Gateways
    /\ gatewayPool = Total(StakesOf(gateways), DOMAIN gateways)
    /\ DOMAIN store.apps \subseteq Applications
    /\ \A a \in DOMAIN store.apps :
          LET app == store.apps[a]
          IN  /\ app.stake \in Nat
              /\ app.unstakeSessionEndHeight \in Nat
              /\ app.services \subseteq Services
              /\ app.delegatees \subseteq Gateways
              /\ UndelegatedGateways(app) \subseteq Gateways
              /\ app.transfer.to \in Applications \cup {0}

(* What the EndBlockers iterate over is what they should: the unstaking    *)
(* and transfer indexes hold exactly the applications unbonding and in     *)
(* transfer, the undelegation index exactly the pending undelegations, and *)
(* the delegation index no application that is gone or that no longer      *)
(* delegates to that gateway.  A missing entry would leave stake locked    *)
(* forever, and an entry without its record makes the EndBlocker return an *)
(* error, which halts the chain.                                           *)
ApplicationIndexesAreExact ==
    LET apps == store.apps
    IN  /\ store.unstaking = {a \in DOMAIN apps : IsUnbonding(apps[a])}
        /\ store.transferring = {a \in DOMAIN apps : HasPendingTransfer(apps[a])}
        /\ store.undelegations =
              UNION {{<<a, g>> : g \in UndelegatedGateways(apps[a])} : a \in DOMAIN apps}
        /\ store.delegations =
              UNION {{<<g, a>> : g \in apps[a].delegatees \ UndelegatedGateways(apps[a])} :
                       a \in DOMAIN apps}

(* The module account always holds every stake on record, through stake    *)
(* changes, settlement, unbonding and transfers that copy or merge.        *)
AppPoolCoversStakes ==
    appPool >= Total(StakesOf(store.apps), DOMAIN store.apps)

(* No application stays staked below the minimum: whatever settlement      *)
(* takes from it, and whatever transfer was under way, it is unbonding.    *)
UnderfundedApplicationsAreUnbonding ==
    \A a \in DOMAIN store.apps :
        store.apps[a].stake < AppMinStake => IsUnbonding(store.apps[a])

(* Once the last session of an unbonding gateway is over, the end of the   *)
(* block leaves no application that delegates to it, whatever is settled,  *)
(* pruned or transferred in that block, unless a merge had left one both   *)
(* delegating to it and undelegating from it: the delegation index, which  *)
(* the EndBlocker goes by, holds the other one of the two then.  (Pruning  *)
(* brings the delegation back, by when the gateway may be gone; see        *)
(* DelegationsEndWithTheirGateway.)                                        *)
InactiveGatewaysAreUndelegated ==
    [][height' = height + 1 =>
         \A a \in DOMAIN store'.apps :
            \A g \in store'.apps[a].delegatees \cap DOMAIN gateways' :
               \/ IsActiveGateway(gateways'[g], height)
               \/ \E b \in DOMAIN store.apps :
                     g \in store.apps[b].delegatees
                             \cap UndelegatedGateways(store.apps[b])
      ]_alVars

(* x/gateway/keeper/unbond_gateways.go:50-51: the delegations to a gateway *)
(* that unbonds are removed by the application module's EndBlocker.        *)
DelegationsEndWithTheirGateway ==
    \A a \in DOMAIN store.apps : store.apps[a].delegatees \subseteq DOMAIN gateways

(* No epoch with another timing is on record. *)
OneTiming ==
    \A e, f \in DOMAIN history : ~ sessionTimingParamsChanged(history[e], history[f])

(* The claim and proof windows are over before an application that unbonds *)
(* is removed, and before an undelegation is pruned.  Params.ValidateBasic *)
(* lets an application be removed a block before the last proof, and knows *)
(* nothing of pruning.                                                     *)
OutlastsProofs(p) ==
    LET window == GetSessionEndToProofWindowCloseBlocks(p)
    IN  /\ window < p.applicationUnbondingPeriodSessions * p.numBlocksPerSession
        /\ window <= p.gracePeriodEndOffsetBlocks
                       + p.numBlocksPerSession * NumSessionsAppToGatewayUndelegationRetention

(* What the properties of sessions need of the params.                     *)
ParamsLeaveTime ==
    OneTiming /\ OutlastsProofs(live) /\ \A e \in DOMAIN history : OutlastsProofs(history[e])

(* The ring of the session of height x, rebuilt as GetRingAddressesAtBlock *)
(* does it, from the record and the live params of now.  The placeholder   *)
(* stands in for a gateway where there is none.                            *)
RingGateways(a, x) ==
    LET app == store.apps[a]
    IN  app.delegatees \cup
        {u.gateway : u \in {v \in app.undelegations :
                               v.height >= GetSessionEndHeight(live, x)}}

Ring(a, x) ==
    IF RingGateways(a, x) = {} THEN {"placeholder"} ELSE RingGateways(a, x)

(* The session of x can be proven up to the end of this height. *)
LastProofHeight(x) == GetProofWindowCloseHeight(GetParamsAtHeight(x), x)

(* The session of height x is still found for application a, as it should  *)
(* be: a session after the one a transfer began in is found only because   *)
(* settlement made the application unbond meanwhile.                       *)
HasSession(a, x) ==
    /\ a \in DOMAIN store.apps
    /\ IsActive(store.apps[a], SessionAt(x).end)
    /\ HasPendingTransfer(store.apps[a]) => SessionAt(x).end <= store.apps[a].transfer.end

(* A gateway that could sign for an application in a session that has      *)
(* begun can be verified to have done so until the session's proof window  *)
(* has closed, however it is undelegated, unstaked or merged meanwhile; a  *)
(* relay is proven only if its signers are in the ring rebuilt then.       *)
OpenRingsKeepTheirGateways ==
    [][ParamsLeaveTime' =>
         \A x \in 1..height :
            height' <= LastProofHeight(x) =>
               \A a \in DOMAIN store.apps \cap DOMAIN store.apps' :
                  HasSession(a, x) => RingGateways(a, x) \subseteq RingGateways(a, x)'
      ]_alVars

(* The services a session of an application may have been for do not       *)
(* change once the session has begun, through re-stakes and merges.        *)
ServicesOfBegunSessionsStay ==
    [][ParamsLeaveTime' =>
         \A x \in 1..SessionAt(height).end :
            height' <= LastProofHeight(x) =>
               \A a \in DOMAIN store.apps \cap DOMAIN store.apps' :
                  HasSession(a, x) =>
                     ActiveServices(store.apps[a], x)' = ActiveServices(store.apps[a], x)
      ]_alVars

(* An application outlasts the proof window of the last session it was     *)
(* assigned to, whether it unstakes, is made to unbond by settlement or is *)
(* transferred: claims and proofs are accepted only while its session can  *)
(* still be hydrated.                                                      *)
OpenSessionsKeepTheirApplication ==
    [][ParamsLeaveTime' =>
         \A x \in 1..height :
            height' <= LastProofHeight(x) =>
               \A a \in DOMAIN store.apps : HasSession(a, x) => HasSession(a, x)'
      ]_alVars

(* pkg/crypto/rings/client.go:80-85: the ring is built from the            *)
(* delegations of its session, "since they become effective at the next    *)
(* session's start height".                                                *)
RingOfASessionStays ==
    [][\A a \in DOMAIN store.apps \cap DOMAIN store.apps', x \in 1..height :
          HasSession(a, x) /\ height' <= LastProofHeight(x) => Ring(a, x) \subseteq Ring(a, x)'
      ]_alVars
=============================================================================
