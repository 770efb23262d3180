------------------------ MODULE ClaimLifecycleProofs ------------------------
(***************************************************************************)
(* What SupplierLifecycle and, over it, ClaimLifecycle guarantee for every *)
(* set of suppliers, services, roots, samples, stakes and updates and for  *)
(* every chain of params.                                                  *)
(*                                                                         *)
(* Suppliers: the records and the config history keep their types and      *)
(* their keys, the unstaking index follows the records, the module account *)
(* covers the stakes, and a session that can still be proven keeps its     *)
(* suppliers if the params leave the windows time enough.                  *)
(*                                                                         *)
(* Claims are settled once, in the block their proof window closes in, at  *)
(* the price they were made at, and never against the supplier that proved *)
(* them.  Together that is ClaimContract, which ClaimLifecycle refines.    *)
(* The argument rests on the one of SharedParams: the session and the      *)
(* params of a height up to this block's do not move (ParamsStep), and     *)
(* sessions partition the chain (SessionFacts).                            *)
(***************************************************************************)
EXTENDS ClaimLifecycle, SharedParamsProofs, TotalsProofs

-----------------------------------------------------------------------------
(* The supplier module. *)

Supplier == [stake : Nat, unstakeSessionEndHeight : Nat]

(* The inductive invariant.  The sum of the stakes needs a finite number   *)
(* of suppliers, though any set of operators may stake.                    *)
SupInv == SLTypeOK /\ IsFiniteSet(DOMAIN suppliers) /\ PoolCoversStakes

-----------------------------------------------------------------------------
(* The messages of suppliers leave the params alone.                       *)
LEMMA SupplierMessageFrame == SupplierMessage => UNCHANGED paramVars
<1>1. ASSUME NEW op, NEW signer, NEW amount, NEW services,
             StakeNewSupplier(op, signer, amount, services)
      PROVE  UNCHANGED paramVars
  BY <1>1 DEF StakeNewSupplier
<1>2. ASSUME NEW op, NEW signer, NEW amount, NEW services,
             UpdateSupplier(op, signer, amount, services)
      PROVE  UNCHANGED paramVars
  BY <1>2 DEF UpdateSupplier
<1>3. ASSUME NEW op, UnstakeSupplier(op)
      PROVE  UNCHANGED paramVars
  BY <1>3 DEF UnstakeSupplier
<1> QED
  BY <1>1, <1>2, <1>3 DEF SupplierMessage

(* Below, a step of the suppliers is a step of the shared module.          *)
LEMMA SupplierStepOfParams == [SLNext]_slVars => [Next]_paramVars
BY SupplierMessageFrame DEF SLNext, SLGovern, SLEndBlock, Next, slVars

(* So what is invariant of the shared params is so here.                   *)
LEMMA SupplierParams == SLSpec => [](IInv /\ GridInv)
<1>1. SLInit => Init
  BY DEF SLInit
<1>2. SLSpec => Spec
  BY <1>1, SupplierStepOfParams, PTL DEF SLSpec, Spec
<1> QED
  BY <1>2, GridInvariance, PTL

(* The next session, by live, starts after this block.                     *)
LEMMA NextStartIsLater ==
    ASSUME IInv
    PROVE  /\ NextStart \in Nat \ {0} /\ height < NextStart
           /\ GetSessionEndHeight(live, height) \in Nat \ {0}
<1>1. height \in Nat \ {0} /\ live \in Params /\ live.numBlocksPerSession >= 1
  BY IInvFacts DEF ValidParams, ValidateBasic
<1>2. GetSessionEndHeight(live, height) \in Nat /\ height <= GetSessionEndHeight(live, height)
  BY <1>1, GridBounds
<1> QED
  BY <1>1, <1>2 DEF NextStart, GetNextSessionStartHeight

(* The stakes on record.                                                   *)
LEMMA StakesAreNat ==
    ASSUME NEW sups, \A op \in DOMAIN sups : sups[op] \in Supplier, IsFiniteSet(DOMAIN sups)
    PROVE  /\ \A op \in DOMAIN sups : StakesOf(sups)[op] = sups[op].stake
                                      /\ StakesOf(sups)[op] \in Nat
           /\ Total(StakesOf(sups), DOMAIN sups) \in Nat
           /\ \A op \in DOMAIN sups : sups[op].stake <= Total(StakesOf(sups), DOMAIN sups)
<1>1. \A op \in DOMAIN sups : StakesOf(sups)[op] = sups[op].stake /\ StakesOf(sups)[op] \in Nat
  BY DEF StakesOf, Supplier
<1> QED
  BY <1>1, TotalIsNat

(* The sum after one record is written.                                    *)
LEMMA StakesAfterSet ==
    ASSUME NEW sups, \A o \in DOMAIN sups : sups[o] \in Supplier, IsFiniteSet(DOMAIN sups),
           NEW op, NEW s \in Supplier, NEW new,
           new = [o \in DOMAIN sups \cup {op} |-> IF o = op THEN s ELSE sups[o]]
    PROVE  /\ IsFiniteSet(DOMAIN new) /\ \A o \in DOMAIN new : new[o] \in Supplier
           /\ Total(StakesOf(new), DOMAIN new)
                = Total(StakesOf(sups), DOMAIN sups) + s.stake
                    - (IF op \in DOMAIN sups THEN sups[op].stake ELSE 0)
<1> DEFINE D == DOMAIN sups
           f == StakesOf(sups)
           g == StakesOf(new)
<1>1. DOMAIN new = D \cup {op} /\ new[op] = s /\ \A o \in D \ {op} : new[o] = sups[o]
  OBVIOUS
<1>2. IsFiniteSet(D \cup {op})
  BY FS_AddElement
<1>3. \A o \in DOMAIN new : new[o] \in Supplier
  BY <1>1
<1>4. /\ \A o \in D : f[o] = sups[o].stake /\ f[o] \in Int
      /\ \A o \in D \cup {op} : g[o] = new[o].stake /\ g[o] \in Int
      /\ Total(f, D) \in Int
  BY <1>1, <1>2, <1>3, StakesAreNat
<1> HIDE DEF f, g
<1>5. g[op] = s.stake /\ \A o \in D \ {op} : g[o] = f[o]
  BY <1>1, <1>4
<1>6. CASE op \in D
  <2>1. D \cup {op} = D
    BY <1>6
  <2>2. Total(g, D) = Total(f, D) - f[op] + g[op]
    <3>1. \A y \in D : f[y] \in Int /\ g[y] \in Int /\ (y # op => g[y] = f[y])
      BY <1>4, <1>5
    <3> HIDE DEF D
    <3> QED
      BY <1>6, <3>1, TotalChanges DEF D
  <2>3. s.stake \in Int
    BY DEF Supplier
  <2> QED
    BY <1>1, <1>2, <1>3, <1>4, <1>5, <1>6, <2>1, <2>2, <2>3 DEF f, g
<1>7. CASE op \notin D
  <2>1. Total(g, D \cup {op}) = g[op] + Total(g, D)
    BY <1>4, <1>7, TotalAdds
  <2>2. Total(g, D) = Total(f, D)
    BY <1>4, <1>5, <1>7, TotalOfEquals
  <2>3. s.stake \in Int
    BY DEF Supplier
  <2> QED
    BY <1>1, <1>2, <1>3, <1>4, <1>5, <1>7, <2>1, <2>2, <2>3 DEF f, g
<1> QED
  BY <1>6, <1>7

-----------------------------------------------------------------------------
(* Messages.                                                               *)

(* No two config updates share a service and an activation height.         *)
UniqueKeys(cs) ==
    \A c, d \in cs : c.service = d.service /\ c.activation = d.activation => c = d

(* The config history a message writes.                                    *)
LEMMA UpdatedHistory ==
    ASSUME IInv, SLTypeOK, NEW op \in Operators, NEW services \in SUBSET Services
    PROVE  /\ NewConfigs(services) \in SUBSET Config /\ UniqueKeys(NewConfigs(services))
           /\ UpdatedConfigs(op, services) \in SUBSET Config
           /\ UniqueKeys(UpdatedConfigs(op, services))
           /\ {[c EXCEPT !.deactivation = NextStart] : c \in configs[op]} \in SUBSET Config
           /\ UniqueKeys({[c EXCEPT !.deactivation = NextStart] : c \in configs[op]})
<1>1. configs[op] \in SUBSET Config /\ UniqueKeys(configs[op])
  BY DEF SLTypeOK, UniqueKeys
<1>2. NextStart \in Nat
  BY NextStartIsLater
<1> DEFINE new  == NewConfigs(services)
           kept == KeptConfigs(op, services)
<1>3. new \in SUBSET Config /\ UniqueKeys(new)
  BY <1>2 DEF NewConfigs, Config, UniqueKeys, NoDeactivation
<1>4. ASSUME NEW e \in kept
      PROVE  \E c \in configs[op] :
                /\ ~ (c.activation = NextStart /\ c.service \in services)
                /\ e = [c EXCEPT !.deactivation = IF @ = NoDeactivation THEN NextStart ELSE @]
                /\ e \in Config /\ e.service = c.service /\ e.activation = c.activation
  BY <1>1, <1>2, <1>4 DEF KeptConfigs, Config
<1>5. kept \in SUBSET Config
  BY <1>4
<1>6. UniqueKeys(kept)
  <2> SUFFICES ASSUME NEW e \in kept, NEW f \in kept,
                      e.service = f.service, e.activation = f.activation
               PROVE  e = f
    BY DEF UniqueKeys
  <2>1. PICK c \in configs[op] :
           /\ e = [c EXCEPT !.deactivation = IF @ = NoDeactivation THEN NextStart ELSE @]
           /\ e.service = c.service /\ e.activation = c.activation
    BY <1>4
  <2>2. PICK d \in configs[op] :
           /\ f = [d EXCEPT !.deactivation = IF @ = NoDeactivation THEN NextStart ELSE @]
           /\ f.service = d.service /\ f.activation = d.activation
    BY <1>4
  <2>3. c = d
    BY <1>1, <2>1, <2>2 DEF UniqueKeys
  <2> QED
    BY <2>1, <2>2, <2>3
<1>7. \A e \in new : e.activation = NextStart /\ e.service \in services
  BY DEF NewConfigs
<1>8. \A e \in kept : ~ (e.activation = NextStart /\ e.service \in services)
  BY <1>4
<1> HIDE DEF new, kept
<1>9. new \cup kept \in SUBSET Config /\ UniqueKeys(new \cup kept)
  BY <1>3, <1>5, <1>6, <1>7, <1>8 DEF UniqueKeys
<1>10. UpdatedConfigs(op, services) \in SUBSET Config /\ UniqueKeys(UpdatedConfigs(op, services))
  BY <1>1, <1>9 DEF UpdatedConfigs, new, kept
<1> DEFINE ended == {[c EXCEPT !.deactivation = NextStart] : c \in configs[op]}
<1>11. ended \in SUBSET Config /\ UniqueKeys(ended)
  <2>1. ASSUME NEW e \in ended
        PROVE  \E c \in configs[op] :
                  /\ e = [c EXCEPT !.deactivation = NextStart]
                  /\ e \in Config /\ e.service = c.service /\ e.activation = c.activation
    BY <1>1, <1>2 DEF Config
  <2> SUFFICES ASSUME NEW e \in ended, NEW f \in ended,
                      e.service = f.service, e.activation = f.activation
               PROVE  e = f
    BY <2>1 DEF UniqueKeys
  <2>2. PICK c \in configs[op] :
           /\ e = [c EXCEPT !.deactivation = NextStart]
           /\ e.service = c.service /\ e.activation = c.activation
    BY <2>1
  <2>3. PICK d \in configs[op] :
           /\ f = [d EXCEPT !.deactivation = NextStart]
           /\ f.service = d.service /\ f.activation = d.activation
    BY <2>1
  <2>4. c = d
    BY <1>1, <2>2, <2>3 DEF UniqueKeys
  <2> QED
    BY <2>2, <2>3, <2>4
<1> QED
  BY <1>3, <1>10, <1>11 DEF new

(* Writing a record with its configs and its index entry, the account      *)
(* taking in what the stake grew by.                                       *)
LEMMA SetAndIndexKeeps ==
    ASSUME SupInv, NEW op \in Operators, NEW s \in Supplier,
           NEW cs \in SUBSET Config, UniqueKeys(cs), SetAndIndex(op, s, cs),
           supplierPool' = supplierPool + s.stake
                             - (IF op \in DOMAIN suppliers THEN suppliers[op].stake ELSE 0)
    PROVE  SupInv'
<1>1. /\ DOMAIN suppliers \subseteq Operators /\ IsFiniteSet(DOMAIN suppliers)
      /\ \A o \in DOMAIN suppliers : suppliers[o] \in Supplier
      /\ configs \in [Operators -> SUBSET Config]
      /\ unstakingIndex \subseteq Operators /\ supplierPool \in Nat
      /\ \A o \in Operators : UniqueKeys(configs[o])
  BY DEF SupInv, SLTypeOK, Supplier, UniqueKeys
<1> DEFINE new == [o \in DOMAIN suppliers \cup {op} |-> IF o = op THEN s ELSE suppliers[o]]
           old == IF op \in DOMAIN suppliers THEN suppliers[op].stake ELSE 0
<1>2. /\ suppliers' = new /\ configs' = [configs EXCEPT ![op] = cs]
      /\ unstakingIndex' \subseteq Operators
  BY <1>1 DEF SetAndIndex
<1>3. /\ IsFiniteSet(DOMAIN new) /\ \A o \in DOMAIN new : new[o] \in Supplier
      /\ Total(StakesOf(new), DOMAIN new)
           = Total(StakesOf(suppliers), DOMAIN suppliers) + s.stake - old
  BY <1>1, StakesAfterSet
<1>4. DOMAIN new \subseteq Operators
  BY <1>1
<1>5. /\ Total(StakesOf(suppliers), DOMAIN suppliers) \in Nat
      /\ Total(StakesOf(suppliers), DOMAIN suppliers) <= supplierPool
      /\ Total(StakesOf(new), DOMAIN new) \in Nat
  <2> HIDE DEF new
  <2> QED
    BY <1>1, <1>3, StakesAreNat DEF SupInv, PoolCoversStakes
<1>6. old \in Nat /\ s.stake \in Nat
  BY <1>1 DEF Supplier
<1> HIDE DEF new, old
<1>7. supplierPool' = supplierPool + s.stake - old
  BY DEF old
<1>8. supplierPool' >= Total(StakesOf(new), DOMAIN new) /\ supplierPool' \in Nat
  BY <1>1, <1>3, <1>5, <1>6, <1>7
<1>9. configs' \in [Operators -> SUBSET Config] /\ \A o \in Operators : UniqueKeys(configs'[o])
  BY <1>1, <1>2
<1>10. SLTypeOK'
  BY <1>2, <1>3, <1>4, <1>8, <1>9 DEF SLTypeOK, UniqueKeys, Supplier
<1>11. PoolCoversStakes'
  BY <1>2, <1>8 DEF PoolCoversStakes
<1> QED
  BY <1>2, <1>3, <1>10, <1>11 DEF SupInv

(* Staking, updating and unstaking keep the stakes covered.                *)
LEMMA SupplierMessageKeeps ==
    ASSUME IInv, SupInv, SupplierMessage
    PROVE  SupInv'
<1>1. /\ \A o \in DOMAIN suppliers : suppliers[o] \in Supplier
      /\ supplierPool \in Nat /\ SLTypeOK
  BY DEF SupInv, SLTypeOK, Supplier
<1>2. ASSUME NEW op \in Operators, NEW signer \in Signers, NEW services \in SUBSET Services,
             NEW amount \in Stakes, StakeNewSupplier(op, signer, amount, services)
      PROVE  SupInv'
  <2> DEFINE s == [stake |-> amount, unstakeSessionEndHeight |-> NotUnstaking]
  <2>1. s \in Supplier
    BY SupplierAssumption DEF Supplier, NotUnstaking
  <2>2. /\ op \notin DOMAIN suppliers /\ SetAndIndex(op, s, NewConfigs(services))
        /\ supplierPool' = supplierPool + s.stake - 0
    BY <1>1, <1>2, SupplierAssumption DEF StakeNewSupplier
  <2> HIDE DEF s
  <2> QED
    BY <1>1, <2>1, <2>2, UpdatedHistory, SetAndIndexKeeps
<1>3. ASSUME NEW op \in Operators, NEW signer \in Signers, NEW services \in SUBSET Services,
             NEW amount \in Stakes \cup {UnchangedStake},
             UpdateSupplier(op, signer, amount, services)
      PROVE  SupInv'
  <2> DEFINE new == IF amount = UnchangedStake THEN suppliers[op].stake ELSE amount
             s   == [stake |-> new, unstakeSessionEndHeight |-> NotUnstaking]
  <2>1. op \in DOMAIN suppliers
    BY <1>3 DEF UpdateSupplier
  <2>2. s \in Supplier
    BY <1>1, <2>1, SupplierAssumption DEF Supplier, NotUnstaking, UnchangedStake
  <2>3. /\ SetAndIndex(op, s, UpdatedConfigs(op, services))
        /\ supplierPool' = supplierPool + s.stake - suppliers[op].stake
    BY <1>3 DEF UpdateSupplier
  <2> HIDE DEF s
  <2> QED
    BY <1>1, <2>1, <2>2, <2>3, UpdatedHistory, SetAndIndexKeeps
<1>4. ASSUME NEW op \in Operators, UnstakeSupplier(op)
      PROVE  SupInv'
  <2> DEFINE s == [suppliers[op] EXCEPT !.unstakeSessionEndHeight =
                                            GetSessionEndHeight(live, height)]
             cs == {[c EXCEPT !.deactivation = NextStart] : c \in configs[op]}
  <2>1. op \in DOMAIN suppliers /\ SetAndIndex(op, s, cs) /\ supplierPool' = supplierPool
    BY <1>4 DEF UnstakeSupplier
  <2>2. s \in Supplier /\ s.stake = suppliers[op].stake /\ s.stake \in Nat
    BY <1>1, <2>1, NextStartIsLater DEF Supplier
  <2>3. cs \in SUBSET Config /\ UniqueKeys(cs)
    BY <1>1, UpdatedHistory
  <2> HIDE DEF s, cs
  <2> QED
    BY <1>1, <2>1, <2>2, <2>3, SetAndIndexKeeps
<1> QED
  BY <1>2, <1>3, <1>4 DEF SupplierMessage

-----------------------------------------------------------------------------
(* The EndBlocker, on the records settlement left.                         *)
LEMMA SupplierEndBlockKeeps ==
    ASSUME SLTypeOK, NEW sups, DOMAIN sups \subseteq Operators, IsFiniteSet(DOMAIN sups),
           \A op \in DOMAIN sups : sups[op] \in Supplier,
           NEW pool \in Int, pool >= Total(StakesOf(sups), DOMAIN sups),
           NEW stuck, SupplierEndBlock(sups, pool, stuck)
    PROVE  SupInv'
<1> DEFINE D == DOMAIN sups
           U == UnbondedSuppliers(sups)
           f == StakesOf(sups)
           paid == U \ stuck
<1>1. U \in SUBSET D /\ stuck \in SUBSET U /\ paid \in SUBSET U
  BY DEF UnbondedSuppliers, SupplierEndBlock
<1>2. /\ suppliers' = Restrict(sups, D \ U)
      /\ unstakingIndex' = unstakingIndex \ (U \cup DanglingEntries(sups))
      /\ configs' = [op \in Operators |->
                       IF op \in U THEN {} ELSE {c \in configs[op] : ~ IsPrunable(c)}]
      /\ supplierPool' = pool - Total(f, paid)
  BY DEF SupplierEndBlock
<1>3. \A op \in D : f[op] \in Int /\ f[op] \in Nat /\ f[op] = sups[op].stake
  BY StakesAreNat
<1> HIDE DEF U, f, paid
<1>4. /\ Total(f, U) \in Int /\ Total(f, D \ U) \in Int
      /\ Total(f, D) = Total(f, U) + Total(f, D \ U)
  BY <1>1, <1>3, TotalSplits
<1>5. IsFiniteSet(U) /\ IsFiniteSet(D \ U) /\ \A op \in U : f[op] \in Int /\ f[op] \in Nat
  <2>1. D \ U \in SUBSET D
    OBVIOUS
  <2> QED
    BY <1>1, <1>3, <2>1, FS_Subset
<1>6. /\ Total(f, paid) \in Int /\ Total(f, U \ paid) \in Int
      /\ Total(f, U) = Total(f, paid) + Total(f, U \ paid)
  <2>1. IsFiniteSet(U) /\ paid \in SUBSET U /\ \A op \in U : f[op] \in Int
    BY <1>1, <1>5
  <2>2. Total(f, paid) \in Int
    BY <2>1, TotalSplits
  <2>3. Total(f, U \ paid) \in Int
    BY <2>1, TotalSplits
  <2>4. Total(f, U) = Total(f, paid) + Total(f, U \ paid)
    BY <2>1, TotalSplits
  <2> QED
    BY <2>2, <2>3, <2>4
<1>7. Total(f, U \ paid) \in Nat /\ Total(f, D \ U) \in Nat
  <2>1. U \ paid \in SUBSET U /\ D \ U \in SUBSET D
    OBVIOUS
  <2>2. /\ IsFiniteSet(U \ paid) /\ \A op \in U \ paid : f[op] \in Nat
        /\ \A op \in D \ U : f[op] \in Nat
    BY <1>3, <1>5, <2>1, FS_Subset
  <2> QED
    BY <1>5, <2>2, TotalIsNat
<1>8. supplierPool' >= Total(f, D \ U) /\ supplierPool' \in Nat
  <2>1. pool >= Total(f, D)
    BY DEF f
  <2> QED
    BY <1>2, <1>4, <1>6, <1>7, <2>1
<1>9. DOMAIN suppliers' = D \ U /\ \A op \in D \ U : suppliers'[op] = sups[op]
  BY <1>2 DEF Restrict
<1>10. Total(StakesOf(suppliers'), DOMAIN suppliers') = Total(f, D \ U)
  <2>1. \A op \in D \ U : suppliers'[op] \in Supplier
    BY <1>9
  <2>2. \A op \in D \ U : StakesOf(suppliers')[op] = suppliers'[op].stake
    BY <1>9 DEF StakesOf
  <2>3. \A op \in D \ U : f[op] \in Int /\ f[op] = StakesOf(suppliers')[op]
    BY <1>3, <1>9, <2>2
  <2> QED
    BY <1>5, <1>9, <2>3, TotalOfEquals
<1>11. PoolCoversStakes'
  BY <1>8, <1>10 DEF PoolCoversStakes
<1>12. SLTypeOK'
  <2>1. configs' \in [Operators -> SUBSET Config]
        /\ \A op \in Operators : configs'[op] \subseteq configs[op]
    BY <1>2 DEF SLTypeOK
  <2>2. \A op \in Operators : \A c, d \in configs'[op] :
           c.service = d.service /\ c.activation = d.activation => c = d
    BY <2>1 DEF SLTypeOK
  <2>3. DOMAIN suppliers' \subseteq Operators /\ unstakingIndex' \subseteq Operators
    BY <1>2, <1>9 DEF SLTypeOK
  <2> QED
    BY <1>8, <1>9, <2>1, <2>2, <2>3 DEF SLTypeOK, Supplier
<1> QED
  BY <1>5, <1>9, <1>11, <1>12 DEF SupInv

(* At genesis there is no supplier and nothing in the pool.                *)
LEMMA SupplierInit == SLInit => SupInv
<1> SUFFICES ASSUME SLInit PROVE SupInv
  OBVIOUS
<1>1. /\ DOMAIN suppliers = {} /\ configs = [op \in Operators |-> {}]
      /\ unstakingIndex = {} /\ supplierPool = 0
  BY DEF SLInit
<1>2. Total(StakesOf(suppliers), DOMAIN suppliers) = 0
  BY <1>1, TotalOfNone
<1> QED
  BY <1>1, <1>2, FS_EmptySet DEF SupInv, SLTypeOK, PoolCoversStakes

-----------------------------------------------------------------------------
(* Theorems. *)

(* The EndBlocker of the suppliers alone: nothing slashed before it.       *)
LEMMA SupplierStepKeeps ==
    ASSUME IInv, SupInv, [SLNext]_slVars
    PROVE  SupInv'
<1>1. CASE SLGovern
  BY <1>1 DEF SLGovern, supplierVars, SupInv, SLTypeOK, PoolCoversStakes
<1>2. CASE SupplierMessage
  BY <1>2, SupplierMessageKeeps
<1>3. CASE SLEndBlock
  <2>1. PICK stuck : SupplierEndBlock(suppliers, supplierPool, stuck)
    BY <1>3 DEF SLEndBlock
  <2>2. /\ DOMAIN suppliers \subseteq Operators /\ IsFiniteSet(DOMAIN suppliers)
        /\ \A op \in DOMAIN suppliers : suppliers[op] \in Supplier
        /\ supplierPool \in Int
        /\ supplierPool >= Total(StakesOf(suppliers), DOMAIN suppliers)
        /\ SLTypeOK
    BY DEF SupInv, SLTypeOK, PoolCoversStakes, Supplier
  <2> QED
    BY <2>1, <2>2, SupplierEndBlockKeeps
<1>4. CASE UNCHANGED slVars
  BY <1>4 DEF slVars, supplierVars, SupInv, SLTypeOK, PoolCoversStakes
<1> QED
  BY <1>1, <1>2, <1>3, <1>4 DEF SLNext

(* The inductive invariant of the suppliers: stakes and the pool.          *)
THEOREM SuppliersInvariance == SLSpec => []SupInv
<1>1. IInv /\ GridInv /\ SupInv /\ [SLNext]_slVars => SupInv'
  BY SupplierStepKeeps
<1> QED
  BY <1>1, SupplierInit, SupplierParams, PTL DEF SLSpec

(* The stores hold what they are declared to hold.                         *)
THEOREM SupplierTypes == SLSpec => []SLTypeOK
<1>1. SupInv => SLTypeOK
  BY DEF SupInv
<1> QED
  BY <1>1, SuppliersInvariance, PTL

(* The module account always covers the stakes on record.                  *)
THEOREM StakesAreCovered == SLSpec => []PoolCoversStakes
<1>1. SupInv => PoolCoversStakes
  BY DEF SupInv
<1> QED
  BY <1>1, SuppliersInvariance, PTL

(* A message writes the record and its index entry as one.                 *)
LEMMA SetAndIndexIsExact ==
    ASSUME UnstakingIndexIsExact, NEW op, NEW s, NEW cs, SetAndIndex(op, s, cs)
    PROVE  UnstakingIndexIsExact'
BY DEF UnstakingIndexIsExact, SetAndIndex

(* The index follows the records through every step.                       *)
LEMMA IndexStepIsExact ==
    ASSUME UnstakingIndexIsExact, [SLNext]_slVars
    PROVE  UnstakingIndexIsExact'
<1>1. CASE SLGovern
  BY <1>1 DEF SLGovern, supplierVars, UnstakingIndexIsExact
<1>2. CASE SupplierMessage
  <2>1. PICK op, s, cs : SetAndIndex(op, s, cs)
    <3>1. ASSUME NEW op \in Operators, NEW signer, NEW amount, NEW services,
                 \/ StakeNewSupplier(op, signer, amount, services)
                 \/ UpdateSupplier(op, signer, amount, services)
          PROVE  \E s, cs : SetAndIndex(op, s, cs)
      BY <3>1 DEF StakeNewSupplier, UpdateSupplier
    <3>2. ASSUME NEW op \in Operators, UnstakeSupplier(op)
          PROVE  \E s, cs : SetAndIndex(op, s, cs)
      BY <3>2 DEF UnstakeSupplier
    <3> QED
      BY <1>2, <3>1, <3>2 DEF SupplierMessage
  <2> QED
    BY <2>1, SetAndIndexIsExact
<1>3. CASE SLEndBlock
  <2>1. PICK stuck : SupplierEndBlock(suppliers, supplierPool, stuck)
    BY <1>3 DEF SLEndBlock
  <2> DEFINE U == UnbondedSuppliers(suppliers)
  <2>2. DanglingEntries(suppliers) = {}
    BY DEF DanglingEntries, UnstakingIndexIsExact
  <2>3. /\ suppliers' = [op \in DOMAIN suppliers \ U |-> suppliers[op]]
        /\ unstakingIndex' = unstakingIndex \ U
    BY <2>1, <2>2 DEF SupplierEndBlock, Restrict
  <2> HIDE DEF U
  <2> QED
    BY <2>3 DEF UnstakingIndexIsExact
<1>4. CASE UNCHANGED slVars
  BY <1>4 DEF slVars, supplierVars, UnstakingIndexIsExact
<1> QED
  BY <1>1, <1>2, <1>3, <1>4 DEF SLNext

(* The unstaking index names exactly the suppliers that are unbonding.     *)
THEOREM IndexIsExact == SLSpec => []UnstakingIndexIsExact
<1>1. SLInit => UnstakingIndexIsExact
  BY DEF SLInit, UnstakingIndexIsExact
<1>2. UnstakingIndexIsExact /\ [SLNext]_slVars => UnstakingIndexIsExact'
  BY IndexStepIsExact
<1> QED
  BY <1>1, <1>2, PTL DEF SLSpec

-----------------------------------------------------------------------------
(* The suppliers of a session that can still be proven.                    *)

(* An unbonding supplier serves up to the session end it unbonds from, and *)
(* no further: none of its configs outlives it or is left open.            *)
ConfigsEndTogether(u, cs) == u \in Nat \ {0} /\ \A c \in cs : c.deactivation = u + 1

UnbondingInv ==
    \A op \in DOMAIN suppliers :
        IsUnbonding(suppliers[op]) =>
            ConfigsEndTogether(suppliers[op].unstakeSessionEndHeight, configs[op])

(* The message that starts the unbonding ends the configs with it.         *)
LEMMA UnstakeEndsConfigs ==
    ASSUME IInv, SLTypeOK, UnbondingInv, NEW op \in Operators, UnstakeSupplier(op)
    PROVE  UnbondingInv'
<1> DEFINE u == GetSessionEndHeight(live, height)
           cs == {[c EXCEPT !.deactivation = NextStart] : c \in configs[op]}
<1>1. u \in Nat \ {0} /\ NextStart = u + 1
  BY NextStartIsLater DEF NextStart, GetNextSessionStartHeight
<1>2. /\ op \in DOMAIN suppliers /\ configs \in [Operators -> SUBSET Config]
      /\ suppliers[op] \in Supplier
      /\ SetAndIndex(op, [suppliers[op] EXCEPT !.unstakeSessionEndHeight = u], cs)
  BY DEF UnstakeSupplier, SLTypeOK, Supplier
<1>3. \A c \in cs : c.deactivation = NextStart
  BY <1>2 DEF Config
<1> HIDE DEF u, cs
<1>4. /\ DOMAIN suppliers' = DOMAIN suppliers
      /\ \A o \in DOMAIN suppliers \ {op} : suppliers'[o] = suppliers[o] /\ configs'[o] = configs[o]
      /\ suppliers'[op].unstakeSessionEndHeight = u /\ configs'[op] = cs
  BY <1>2 DEF SetAndIndex, SLTypeOK, Supplier
<1>5. ConfigsEndTogether(suppliers'[op].unstakeSessionEndHeight, configs'[op])
  BY <1>1, <1>3, <1>4 DEF ConfigsEndTogether
<1>6. ASSUME NEW o \in DOMAIN suppliers \ {op}, IsUnbonding(suppliers'[o])
      PROVE  ConfigsEndTogether(suppliers'[o].unstakeSessionEndHeight, configs'[o])
  BY <1>4, <1>6 DEF UnbondingInv
<1> QED
  BY <1>4, <1>5, <1>6 DEF UnbondingInv

(* Any other message leaves the supplier it is about not unbonding.        *)
LEMMA StakeEndsUnbonding ==
    ASSUME SLTypeOK, UnbondingInv, NEW op \in Operators, NEW s, NEW cs,
           SetAndIndex(op, s, cs), ~ IsUnbonding(s)
    PROVE  UnbondingInv'
<1>1. configs \in [Operators -> SUBSET Config]
  BY DEF SLTypeOK
<1>2. /\ DOMAIN suppliers' = DOMAIN suppliers \cup {op} /\ suppliers'[op] = s
      /\ \A o \in DOMAIN suppliers \ {op} : suppliers'[o] = suppliers[o] /\ configs'[o] = configs[o]
  BY <1>1 DEF SetAndIndex, SLTypeOK
<1> QED
  BY <1>2 DEF UnbondingInv

(* The EndBlocker only ever takes configs away.                            *)
LEMMA EndBlockEndsNoMore ==
    ASSUME SLTypeOK, UnbondingInv, NEW pool, NEW stuck,
           SupplierEndBlock(suppliers, pool, stuck)
    PROVE  UnbondingInv'
<1> DEFINE U == UnbondedSuppliers(suppliers)
<1>1. /\ suppliers' = [o \in DOMAIN suppliers \ U |-> suppliers[o]]
      /\ configs' = [o \in Operators |->
                       IF o \in U THEN {} ELSE {c \in configs[o] : ~ IsPrunable(c)}]
      /\ DOMAIN suppliers \subseteq Operators
  BY DEF SupplierEndBlock, Restrict, SLTypeOK
<1> HIDE DEF U
<1>2. /\ DOMAIN suppliers' \subseteq DOMAIN suppliers
      /\ \A o \in DOMAIN suppliers' : /\ suppliers'[o] = suppliers[o]
                                      /\ configs'[o] \subseteq configs[o]
  BY <1>1
<1>3. ASSUME NEW o \in DOMAIN suppliers', IsUnbonding(suppliers'[o])
      PROVE  ConfigsEndTogether(suppliers'[o].unstakeSessionEndHeight, configs'[o])
  BY <1>2, <1>3 DEF UnbondingInv, ConfigsEndTogether
<1> QED
  BY <1>3 DEF UnbondingInv

(* So it holds of every reachable state.                                   *)
LEMMA UnbondingStepKeeps ==
    ASSUME IInv, SLTypeOK, UnbondingInv, [SLNext]_slVars
    PROVE  UnbondingInv'
<1>1. CASE SLGovern
  BY <1>1 DEF SLGovern, supplierVars, UnbondingInv
<1>2. CASE SupplierMessage
  <2>1. ASSUME NEW op \in Operators, NEW signer, NEW amount, NEW services,
               \/ StakeNewSupplier(op, signer, amount, services)
               \/ UpdateSupplier(op, signer, amount, services)
        PROVE  UnbondingInv'
    <3>1. PICK a, cs : SetAndIndex(op, [stake |-> a, unstakeSessionEndHeight |-> NotUnstaking], cs)
      BY <2>1 DEF StakeNewSupplier, UpdateSupplier
    <3>2. ~ IsUnbonding([stake |-> a, unstakeSessionEndHeight |-> NotUnstaking])
      BY DEF IsUnbonding
    <3> QED
      BY <3>1, <3>2, StakeEndsUnbonding
  <2> QED
    BY <1>2, <2>1, UnstakeEndsConfigs DEF SupplierMessage
<1>3. CASE SLEndBlock
  BY <1>3, EndBlockEndsNoMore DEF SLEndBlock
<1>4. CASE UNCHANGED slVars
  BY <1>4 DEF slVars, supplierVars, UnbondingInv
<1> QED
  BY <1>1, <1>2, <1>3, <1>4 DEF SLNext

(* The height a supplier unbonds from ends the session of an earlier       *)
(* height, unless the session length has changed by then.                  *)
LengthChanged(u) ==
    \E x, y \in 1..height :
        /\ x <= u /\ y <= u
        /\ GetParamsAtHeight(x).numBlocksPerSession # GetParamsAtHeight(y).numBlocksPerSession

UnbondsFrom(u) ==
    \/ \E h \in 1..height : u = SessionAt(h).end
    \/ LengthChanged(u)

UnbondingStarts ==
    \A op \in DOMAIN suppliers :
        IsUnbonding(suppliers[op]) => UnbondsFrom(suppliers[op].unstakeSessionEndHeight)

(* The session end by live, in the first block of an epoch of the same     *)
(* session length as in any other.                                         *)
LEMMA LiveSessionEnd ==
    ASSUME IInv, GridInv, height # 1,
           GetParamsAtHeight(height - 1).numBlocksPerSession
             = GetParamsAtHeight(height).numBlocksPerSession
    PROVE  GetSessionEndHeight(live, height) = SessionAt(height).end
<1> DEFINE b == height - 1
           p == GetParamsAtHeight(b)
           q == GetParamsAtHeight(height)
           r == EpochAt(SeededHistory, b)
           n == p.numBlocksPerSession
           z == GetSessionEndHeight(r, b)
<1>1. height \in Nat \ {0} /\ b \in Nat \ {0} /\ live \in Params
  BY IInvFacts DEF ValidParams
<1>2. p \in ValidParams /\ q \in ValidParams
  BY <1>1, LookupValid
<1>3. EpochsUpTo(SeededHistory, b) # {} /\ Anchored(r, b)
  BY <1>1, EpochFacts DEF GridInv
<1>4. ParamsAt(SeededHistory, live, b) = r
  BY <1>3 DEF ParamsAt, EpochAt
<1>5. /\ SameGrid(r, p) /\ r \in Params /\ p \in Params
      /\ r.numBlocksPerSession = n /\ p.numBlocksPerSession = n
  <2>1. Agree(r, p)
    BY <1>1, <1>4, SeededFacts
  <2> QED
    BY <1>2, <1>3, <2>1 DEF Agree, ParamNames, TimingParams, Anchored, ValidParams
<1>6. SameGrid(live, p) /\ live.numBlocksPerSession = n
  BY <1>1 DEF IInv, LiveIsPrevious, PreviousParams, SameTiming, TimingParams
<1>7. SessionAt(b).end = GetSessionEndHeight(p, b)
      /\ SessionAt(height).end = GetSessionEndHeight(q, height)
      /\ SessionAt(height).start = GetSessionStartHeight(q, height)
      /\ q.numBlocksPerSession = n
  BY DEF SessionAt
<1> HIDE DEF p, q, r, b, n
<1>8. /\ GetSessionEndHeight(live, height) = GetSessionEndHeight(p, height)
      /\ GetSessionEndHeight(r, height) = GetSessionEndHeight(p, height)
      /\ z = GetSessionEndHeight(p, b)
  BY <1>1, <1>5, <1>6, SameSessions
<1>9. height = b + 1
  BY <1>1 DEF b
<1>10. /\ SessionAt(b).start \in Nat /\ SessionAt(b).end \in Nat
       /\ SessionAt(b).start <= b /\ b <= SessionAt(b).end
       /\ \A y \in SessionAt(b).start..SessionAt(b).end : SessionAt(y) = SessionAt(b)
       /\ SessionAt(SessionAt(b).end + 1).start = SessionAt(b).end + 1
  BY <1>1, SessionFacts
<1>11. /\ GetSessionStartHeight(r, b) <= b /\ b <= z /\ z \in Nat
       /\ GetSessionStartHeight(r, b) \in Nat
       /\ \A y \in Nat : GetSessionStartHeight(r, b) <= y /\ y <= z =>
                           GetSessionEndHeight(r, y) = z
       /\ GetSessionStartHeight(r, z + 1) = z + 1
  BY <1>1, <1>3, GridPartition
<1>12. SessionAt(b).end = z
  BY <1>7, <1>8
<1> HIDE DEF z
<1>13. CASE height <= z
  <2>1. GetSessionEndHeight(r, height) = z
    BY <1>1, <1>9, <1>11, <1>13
  <2>2. SessionAt(height) = SessionAt(b)
    BY <1>1, <1>9, <1>10, <1>12, <1>13
  <2> QED
    BY <1>8, <1>12, <2>1, <2>2
<1>14. CASE ~ (height <= z)
  <2>1. height = z + 1
    BY <1>1, <1>9, <1>11, <1>14
  <2>2. GetSessionStartHeight(r, height) = height /\ SessionAt(height).start = height
    BY <1>10, <1>11, <1>12, <2>1
  <2>3. GetSessionEndHeight(r, height) = height + n - 1
    BY <1>1, <1>5, <2>2 DEF GetSessionEndHeight
  <2>4. GetSessionEndHeight(q, height) = height + n - 1
    BY <1>1, <1>7, <2>2 DEF GetSessionEndHeight
  <2> QED
    BY <1>7, <1>8, <2>3, <2>4
<1> QED
  BY <1>13, <1>14

(* So what unstaking records now is as UnbondsFrom has it.                 *)
LEMMA UnbondsFromNow ==
    ASSUME IInv, GridInv
    PROVE  UnbondsFrom(GetSessionEndHeight(live, height))
<1> DEFINE u == GetSessionEndHeight(live, height)
<1>1. height \in Nat \ {0} /\ live \in Params /\ live.numBlocksPerSession >= 1
  BY IInvFacts DEF ValidParams, ValidateBasic
<1>2. u \in Nat /\ height <= u
  BY <1>1, GridBounds
<1>3. CASE height = 1
  <2>1. /\ SameGrid(live, GetParamsAtHeight(height))
        /\ live.numBlocksPerSession = GetParamsAtHeight(height).numBlocksPerSession
        /\ GetParamsAtHeight(height) \in Params
    BY <1>1, <1>3, LookupValid
       DEF IInv, LiveIsPrevious, PreviousParams, SameTiming, TimingParams, ValidParams
  <2>2. u = SessionAt(height).end
    BY <1>1, <2>1, SameSessions DEF SessionAt
  <2> QED
    BY <1>1, <2>2 DEF UnbondsFrom
<1>4. CASE height # 1
  <2> DEFINE N(x) == GetParamsAtHeight(x).numBlocksPerSession
  <2>1. CASE N(height - 1) = N(height)
    <3>1. u = SessionAt(height).end
      BY <1>4, <2>1, LiveSessionEnd
    <3> QED
      BY <1>1, <3>1 DEF UnbondsFrom
  <2>2. CASE N(height - 1) # N(height)
    <3>1. height - 1 \in 1..height /\ height \in 1..height /\ height - 1 <= u
      BY <1>1, <1>2, <1>4
    <3> HIDE DEF u
    <3>2. LengthChanged(u)
      BY <1>2, <2>2, <3>1 DEF LengthChanged
    <3> QED
      BY <3>2 DEF UnbondsFrom, u
  <2> QED
    BY <2>1, <2>2
<1> QED
  BY <1>3, <1>4

(* It stays so, as the params and the session of a past height do.         *)
LEMMA UnbondsFromStays ==
    ASSUME IInv, [Next]_paramVars, NEW u, UnbondsFrom(u)
    PROVE  UnbondsFrom(u)'
<1>1. \A x \in 1..height :
         /\ x \in 1..height' /\ SessionAt(x)' = SessionAt(x)
         /\ GetParamsAtHeight(x)'.numBlocksPerSession
              = GetParamsAtHeight(x).numBlocksPerSession
  <2> SUFFICES ASSUME NEW x \in 1..height
               PROVE  /\ x \in 1..height' /\ SessionAt(x)' = SessionAt(x)
                      /\ GetParamsAtHeight(x)'.numBlocksPerSession
                           = GetParamsAtHeight(x).numBlocksPerSession
    OBVIOUS
  <2>1. height \in Nat \ {0} /\ x \in Nat \ {0} /\ x <= height
    BY IInvFacts
  <2>2. /\ Agree(GetParamsAtHeight(x)', GetParamsAtHeight(x)) /\ SessionAt(x)' = SessionAt(x)
        /\ height' \in Nat \ {0} /\ height <= height'
    BY <2>1, ParamsStep
  <2> QED
    BY <2>1, <2>2 DEF Agree, ParamNames, TimingParams
<1>2. CASE \E h \in 1..height : u = SessionAt(h).end
  BY <1>1, <1>2 DEF UnbondsFrom
<1>3. CASE LengthChanged(u)
  <2>1. LengthChanged(u)'
    BY <1>1, <1>3 DEF LengthChanged
  <2> QED
    BY <2>1 DEF UnbondsFrom
<1> QED
  BY <1>2, <1>3 DEF UnbondsFrom

(* A supplier found unbonding after a step either was before, from the     *)
(* same height, or has just been unstaked.                                 *)
LEMMA UnbondingBegins ==
    ASSUME SLTypeOK, [SLNext]_slVars, NEW o \in DOMAIN suppliers', IsUnbonding(suppliers'[o])
    PROVE  \/ /\ o \in DOMAIN suppliers /\ IsUnbonding(suppliers[o])
              /\ suppliers'[o].unstakeSessionEndHeight = suppliers[o].unstakeSessionEndHeight
           \/ suppliers'[o].unstakeSessionEndHeight = GetSessionEndHeight(live, height)
<1>1. ASSUME NEW op, NEW s, NEW cs, SetAndIndex(op, s, cs),
             \/ ~ IsUnbonding(s)
             \/ s.unstakeSessionEndHeight = GetSessionEndHeight(live, height)
      PROVE  \/ /\ o \in DOMAIN suppliers /\ IsUnbonding(suppliers[o])
                /\ suppliers'[o].unstakeSessionEndHeight = suppliers[o].unstakeSessionEndHeight
             \/ suppliers'[o].unstakeSessionEndHeight = GetSessionEndHeight(live, height)
  BY <1>1 DEF SetAndIndex
<1>2. CASE SupplierMessage
  <2>1. ASSUME NEW op \in Operators, NEW signer, NEW amount, NEW services,
               \/ StakeNewSupplier(op, signer, amount, services)
               \/ UpdateSupplier(op, signer, amount, services)
        PROVE  \E s, cs : SetAndIndex(op, s, cs) /\ ~ IsUnbonding(s)
    <3>1. PICK a, cs : SetAndIndex(op, [stake |-> a, unstakeSessionEndHeight |-> NotUnstaking], cs)
      BY <2>1 DEF StakeNewSupplier, UpdateSupplier
    <3> QED
      BY <3>1 DEF IsUnbonding
  <2>2. ASSUME NEW op \in Operators, UnstakeSupplier(op)
        PROVE  \E s, cs : /\ SetAndIndex(op, s, cs)
                          /\ s.unstakeSessionEndHeight = GetSessionEndHeight(live, height)
    <3> DEFINE s == [suppliers[op] EXCEPT !.unstakeSessionEndHeight =
                                              GetSessionEndHeight(live, height)]
    <3>1. s.unstakeSessionEndHeight = GetSessionEndHeight(live, height)
      BY <2>2 DEF UnstakeSupplier, SLTypeOK
    <3>2. \E cs : SetAndIndex(op, s, cs)
      BY <2>2 DEF UnstakeSupplier
    <3> HIDE DEF s
    <3> QED
      BY <3>1, <3>2
  <2> QED
    BY <1>1, <1>2, <2>1, <2>2 DEF SupplierMessage
<1>3. CASE SLEndBlock
  BY <1>3 DEF SLEndBlock, SupplierEndBlock, Restrict
<1>4. CASE SLGovern \/ UNCHANGED slVars
  BY <1>4 DEF SLGovern, slVars, supplierVars
<1> QED
  BY <1>2, <1>3, <1>4 DEF SLNext

(* Every step keeps it.                                                    *)
LEMMA UnbondingStartsStay ==
    ASSUME IInv, GridInv, SLTypeOK, UnbondingStarts, [SLNext]_slVars
    PROVE  UnbondingStarts'
<1> DEFINE After(u) ==
              \/ \E h \in 1..height' : u = SessionAt(h)'.end
              \/ \E x, y \in 1..height' :
                    /\ x <= u /\ y <= u
                    /\ GetParamsAtHeight(x)'.numBlocksPerSession
                         # GetParamsAtHeight(y)'.numBlocksPerSession
<1>1. ASSUME NEW u, UnbondsFrom(u)
      PROVE  After(u)
  <2>1. UnbondsFrom(u)'
    BY <1>1, SupplierStepOfParams, UnbondsFromStays
  <2> QED
    BY <2>1 DEF UnbondsFrom, LengthChanged
<1>2. ASSUME NEW o \in DOMAIN suppliers', IsUnbonding(suppliers'[o])
      PROVE  UnbondsFrom(suppliers'[o].unstakeSessionEndHeight)
  BY <1>2, UnbondingBegins, UnbondsFromNow DEF UnbondingStarts
<1>3. (\A o \in DOMAIN suppliers' :
         IsUnbonding(suppliers'[o]) => After(suppliers'[o].unstakeSessionEndHeight))
      => UnbondingStarts'
  BY DEF UnbondingStarts, UnbondsFrom, LengthChanged
<1> HIDE DEF After
<1> QED
  BY <1>1, <1>2, <1>3

(* The last block a session can be proven in, by the params on record.     *)
LastProofBlock(x) == GetProofWindowCloseHeight(GetParamsAtHeight(x), x)

(* A later height is in the same session or in one that ends later.        *)
LEMMA SessionsEndInOrder ==
    ASSUME IInv, GridInv, NEW x \in Nat \ {0}, NEW y \in Nat \ {0}, x <= y
    PROVE  SessionAt(x).end <= SessionAt(y).end
<1>1. /\ SessionAt(x).start \in Nat /\ SessionAt(x).end \in Nat /\ SessionAt(x).start <= x
      /\ \A z \in SessionAt(x).start..SessionAt(x).end : SessionAt(z) = SessionAt(x)
  BY SessionFacts
<1>2. SessionAt(y).end \in Nat /\ y <= SessionAt(y).end
  BY SessionFacts
<1>3. CASE y <= SessionAt(x).end
  BY <1>1, <1>2, <1>3
<1>4. CASE y > SessionAt(x).end
  BY <1>1, <1>2, <1>4
<1> QED
  BY <1>1, <1>3, <1>4

(* As windows never shorten, proof windows close in the order of sessions. *)
LEMMA ProofWindowsCloseInOrder ==
    ASSUME IInv, GridInv, UnbondingOutlastsWindows,
           NEW x \in 1..height, NEW y \in 1..height, x <= y
    PROVE  /\ LastProofBlock(x) \in Nat /\ LastProofBlock(y) \in Nat
           /\ LastProofBlock(x) <= LastProofBlock(y)
<1> DEFINE p == GetParamsAtHeight(x)
           q == GetParamsAtHeight(y)
           W(r) == GetSessionEndToProofWindowCloseBlocks(r)
<1>1. x \in Nat \ {0} /\ y \in Nat \ {0} /\ x \in 1..y
  BY IInvFacts
<1>2. p \in ValidParams /\ q \in ValidParams
  BY <1>1, LookupValid
<1>3. W(p) <= W(q)
  BY <1>1 DEF UnbondingOutlastsWindows
<1>4. GetSessionEndHeight(p, x) <= GetSessionEndHeight(q, y)
  BY <1>1, SessionsEndInOrder DEF SessionAt
<1> HIDE DEF p, q
<1>5. /\ GetSessionEndHeight(p, x) \in Nat /\ W(p) \in Nat
      /\ GetProofWindowCloseHeight(p, x) = GetSessionEndHeight(p, x) + W(p) + 1
  BY <1>1, <1>2, WindowsInOrder
<1>6. /\ GetSessionEndHeight(q, y) \in Nat /\ W(q) \in Nat
      /\ GetProofWindowCloseHeight(q, y) = GetSessionEndHeight(q, y) + W(q) + 1
  BY <1>1, <1>2, WindowsInOrder
<1>7. LastProofBlock(x) = GetProofWindowCloseHeight(p, x)
      /\ LastProofBlock(y) = GetProofWindowCloseHeight(q, y)
  BY DEF LastProofBlock, p, q
<1> HIDE DEF W
<1> QED
  BY <1>3, <1>4, <1>5, <1>6, <1>7

(* A session ends less than its length after any of its blocks.            *)
LEMMA SessionEndsSoon ==
    ASSUME NEW p \in ValidParams, NEW h \in Nat \ {0}
    PROVE  GetSessionEndHeight(p, h) <= h + p.numBlocksPerSession - 1
<1> DEFINE a == GridAnchor(p, h)
           n == p.numBlocksPerSession
<1>1. n \in Nat \ {0} /\ a \in Nat /\ h - a \in Nat
  BY DEF ValidParams, ValidateBasic, GridAnchor, AnchorUnusable, Params
<1>2. GetSessionEndHeight(p, h) = a + ((h - a) \div n) * n + n - 1
  BY DEF GetSessionEndHeight, GetSessionStartHeight, a, n
<1> HIDE DEF a, n
<1>3. ((h - a) \div n) * n \in Nat /\ ((h - a) \div n) * n <= h - a
  BY <1>1, DivBounds
<1>4. GetSessionEndHeight(p, h) <= h + n - 1
  BY <1>1, <1>2, <1>3
<1> QED
  BY <1>4 DEF n

(* A supplier is still there in the block in which the proof window of the *)
(* session it unbonds from closes.                                         *)
LEMMA UnbondedAfterProofs ==
    ASSUME IInv, GridInv, UnbondingOutlastsWindows, NEW s, UnbondingEndHeight(s) <= height,
           s.unstakeSessionEndHeight \in Nat \ {0}, UnbondsFrom(s.unstakeSessionEndHeight)
    PROVE  /\ s.unstakeSessionEndHeight \in 1..height
           /\ LastProofBlock(s.unstakeSessionEndHeight) <= height
<1> DEFINE u == s.unstakeSessionEndHeight
           q == GetParamsAtHeight(u)
           n == q.numBlocksPerSession
           W == GetSessionEndToProofWindowCloseBlocks(q)
           T == q.supplierUnbondingPeriodSessions * n
           z == GetSessionEndHeight(q, u)
<1>1. u \in Nat \ {0} /\ height \in Nat \ {0} /\ q \in ValidParams
  BY IInvFacts, LookupValid
<1>2. n \in Nat /\ q.supplierUnbondingPeriodSessions \in Nat
  BY <1>1 DEF ValidParams, Params
<1>3. T \in Nat
  BY <1>2
<1>4. u + T <= height
  BY DEF UnbondingEndHeight
<1>5. u \in 1..height
  <2> HIDE DEF u, T
  <2> QED
    BY <1>1, <1>3, <1>4
<1>6. W < T
  BY <1>5 DEF UnbondingOutlastsWindows
<1>7. W \in Nat /\ z \in Nat /\ LastProofBlock(u) = z + W + 1
  BY <1>1, WindowsInOrder DEF LastProofBlock
<1>8. z = u \/ W + n <= T
  <2>1. CASE \E h \in 1..height : u = SessionAt(h).end
    <3>1. PICK h \in Nat \ {0} : u = SessionAt(h).end
      BY <1>1, <2>1
    <3>2. SessionAt(h).start <= SessionAt(h).end /\ SessionAt(h).start \in Nat
      BY SessionFacts
    <3>3. SessionAt(u) = SessionAt(h)
      BY <1>1, <3>1, <3>2, SessionFacts
    <3> QED
      BY <3>1, <3>3 DEF SessionAt
  <2>2. CASE LengthChanged(u)
    <3>1. PICK x \in 1..height :
             x <= u /\ GetParamsAtHeight(x).numBlocksPerSession # n
      BY <2>2 DEF LengthChanged
    <3>2. x \in 1..u
      BY <1>1, <3>1
    <3> QED
      BY <1>5, <3>1, <3>2 DEF UnbondingOutlastsWindows
  <2> QED
    BY <2>1, <2>2 DEF UnbondsFrom
<1>9. z <= u + n - 1
  BY <1>1, SessionEndsSoon
<1> HIDE DEF u, q, n, W, T, z
<1>10. LastProofBlock(u) <= height
  BY <1>1, <1>2, <1>3, <1>4, <1>6, <1>7, <1>8, <1>9
<1> QED
  BY <1>5, <1>10 DEF u

(* The EndBlocker leaves every session its suppliers until the last block  *)
(* it can be proven in.                                                    *)
LEMMA EndBlockLeavesSuppliers ==
    ASSUME IInv, GridInv, SLTypeOK, UnbondingInv, UnbondingStarts, UnbondingOutlastsWindows,
           NEW pool, NEW stuck, SupplierEndBlock(suppliers, pool, stuck),
           NEW x \in 1..height, NEW s \in Services, height < LastProofBlock(x)
    PROVE  SessionSuppliers(s, x) \subseteq SessionSuppliers(s, x)'
<1> SUFFICES ASSUME NEW op \in DOMAIN suppliers,
                    NEW c \in configs[op], c.service = s, IsActive(c, x)
             PROVE  op \in DOMAIN suppliers' /\ c \in configs'[op]
  BY DEF SessionSuppliers, IsActive
<1>1. /\ op \in Operators /\ suppliers[op] \in Supplier /\ c \in Config
      /\ height \in Nat \ {0}
  BY IInvFacts DEF SLTypeOK, Supplier
<1>2. op \notin UnbondedSuppliers(suppliers)
  <2> SUFFICES ASSUME op \in UnbondedSuppliers(suppliers) PROVE FALSE
    OBVIOUS
  <2> DEFINE u == suppliers[op].unstakeSessionEndHeight
  <2>1. IsUnbonding(suppliers[op]) /\ UnbondingEndHeight(suppliers[op]) <= height
    BY DEF UnbondedSuppliers
  <2>2. u \in Nat \ {0} /\ c.deactivation = u + 1 /\ UnbondsFrom(u)
    BY <2>1 DEF UnbondingInv, ConfigsEndTogether, UnbondingStarts
  <2>3. u \in 1..height /\ LastProofBlock(u) <= height
    BY <2>1, <2>2, UnbondedAfterProofs
  <2> HIDE DEF u
  <2>4. x <= u
    BY <1>1, <2>2 DEF IsActive, NoDeactivation, Config
  <2>5. LastProofBlock(x) <= LastProofBlock(u) /\ LastProofBlock(x) \in Nat
        /\ LastProofBlock(u) \in Nat
    BY <2>3, <2>4, ProofWindowsCloseInOrder
  <2> QED
    BY <1>1, <2>3, <2>5
<1>3. ~ IsPrunable(c)
  <2> SUFFICES ASSUME IsPrunable(c) PROVE FALSE
    OBVIOUS
  <2> DEFINE d == c.deactivation - 1
  <2>1. /\ c.deactivation # NoDeactivation /\ c.deactivation <= height
        /\ height > LastProofBlock(d)
    BY DEF IsPrunable, LastProofBlock
  <2>2. x <= d /\ d \in 1..height
    BY <1>1, <2>1 DEF IsActive, Config, NoDeactivation
  <2> HIDE DEF d
  <2>3. LastProofBlock(x) <= LastProofBlock(d) /\ LastProofBlock(x) \in Nat
        /\ LastProofBlock(d) \in Nat
    BY <2>2, ProofWindowsCloseInOrder
  <2> QED
    BY <1>1, <2>1, <2>3
<1> QED
  BY <1>1, <1>2, <1>3 DEF SupplierEndBlock, Restrict

(* A message ends no config before the next session starts.                *)
LEMMA MessageLeavesSuppliers ==
    ASSUME IInv, SLTypeOK, SupplierMessage, NEW x \in 1..height, NEW s \in Services
    PROVE  SessionSuppliers(s, x) \subseteq SessionSuppliers(s, x)'
<1> SUFFICES ASSUME NEW o \in DOMAIN suppliers,
                    NEW c \in configs[o], c.service = s, IsActive(c, x)
             PROVE  /\ o \in DOMAIN suppliers'
                    /\ \E d \in configs'[o] : d.service = s /\ IsActive(d, x)
  BY DEF SessionSuppliers, IsActive
<1>1. /\ configs \in [Operators -> SUBSET Config] /\ DOMAIN suppliers \subseteq Operators
      /\ c \in Config /\ height \in Nat \ {0}
  BY IInvFacts DEF SLTypeOK
<1>2. NextStart \in Nat \ {0} /\ x < NextStart /\ c.activation # NextStart
  BY <1>1, NextStartIsLater DEF IsActive, Config
<1> DEFINE kept == [c EXCEPT !.deactivation = IF @ = NoDeactivation THEN NextStart ELSE @]
           last == [c EXCEPT !.deactivation = NextStart]
<1>3. kept.service = s /\ IsActive(kept, x) /\ last.service = s /\ IsActive(last, x)
  BY <1>1, <1>2 DEF IsActive, Config
<1> HIDE DEF kept, last
<1>4. ASSUME NEW op \in Operators, NEW r, NEW cs, SetAndIndex(op, r, cs),
             op = o => \E d \in cs : d.service = s /\ IsActive(d, x)
      PROVE  /\ o \in DOMAIN suppliers'
             /\ \E d \in configs'[o] : d.service = s /\ IsActive(d, x)
  <2>1. o \in DOMAIN suppliers' /\ configs'[o] = IF o = op THEN cs ELSE configs[o]
    BY <1>1, <1>4 DEF SetAndIndex
  <2> QED
    BY <1>4, <2>1
<1>5. ASSUME NEW op \in Operators, NEW signer, NEW amount, NEW services,
             StakeNewSupplier(op, signer, amount, services)
      PROVE  \E r, cs : /\ SetAndIndex(op, r, cs)
                        /\ op = o => \E d \in cs : d.service = s /\ IsActive(d, x)
  BY <1>5 DEF StakeNewSupplier
<1>6. ASSUME NEW op \in Operators, NEW signer, NEW amount, NEW services,
             UpdateSupplier(op, signer, amount, services)
      PROVE  \E r, cs : /\ SetAndIndex(op, r, cs)
                        /\ op = o => \E d \in cs : d.service = s /\ IsActive(d, x)
  <2>1. PICK r : SetAndIndex(op, r, UpdatedConfigs(op, services))
    BY <1>6 DEF UpdateSupplier
  <2>2. op = o /\ services # {} => kept \in KeptConfigs(op, services)
    BY <1>2 DEF KeptConfigs, kept
  <2>3. op = o => \E d \in UpdatedConfigs(op, services) : d.service = s /\ IsActive(d, x)
    BY <1>3, <2>2 DEF UpdatedConfigs
  <2> QED
    BY <2>1, <2>3
<1>7. ASSUME NEW op \in Operators, UnstakeSupplier(op)
      PROVE  \E r, cs : /\ SetAndIndex(op, r, cs)
                        /\ op = o => \E d \in cs : d.service = s /\ IsActive(d, x)
  <2> DEFINE cs == {[d EXCEPT !.deactivation = NextStart] : d \in configs[op]}
  <2>1. \E r : SetAndIndex(op, r, cs)
    BY <1>7 DEF UnstakeSupplier
  <2>2. op = o => last \in cs
    BY DEF last
  <2> HIDE DEF cs
  <2> QED
    BY <1>3, <2>1, <2>2
<1> QED
  BY <1>4, <1>5, <1>6, <1>7 DEF SupplierMessage

(* Every step, then.                                                       *)
LEMMA StepLeavesSuppliers ==
    ASSUME IInv, GridInv, SLTypeOK, UnbondingInv, UnbondingStarts,
           UnbondingOutlastsWindows, SLNext,
           NEW x \in 1..height, NEW s \in Services
    PROVE  \/ SessionSuppliers(s, x) \subseteq SessionSuppliers(s, x)'
           \/ height' > GetProofWindowCloseHeight(GetParamsAtHeight(x), x)
<1>1. CASE SLGovern
  BY <1>1 DEF SLGovern, supplierVars, SessionSuppliers
<1>2. CASE SupplierMessage
  BY <1>2, MessageLeavesSuppliers
<1>3. CASE SLEndBlock
  <2>1. height' = height + 1 /\ \E stuck : SupplierEndBlock(suppliers, supplierPool, stuck)
    BY <1>3 DEF SLEndBlock, EndBlock
  <2>2. height \in Nat /\ LastProofBlock(x) \in Nat
    BY IInvFacts, ProofWindowsCloseInOrder
  <2>3. CASE height < LastProofBlock(x)
    BY <2>1, <2>3, EndBlockLeavesSuppliers
  <2>4. CASE ~ (height < LastProofBlock(x))
    BY <2>1, <2>2, <2>4 DEF LastProofBlock
  <2> QED
    BY <2>3, <2>4
<1> QED
  BY <1>1, <1>2, <1>3 DEF SLNext

(* No session that can still be claimed or proven loses a supplier, as     *)
(* long as the params leave the windows time enough.                       *)
THEOREM SuppliersStay ==
    SLSpec /\ []UnbondingOutlastsWindows => OpenSessionsNeverLoseASupplier
<1> DEFINE Stay == \A x \in 1..height, s \in Services :
                      \/ SessionSuppliers(s, x) \subseteq SessionSuppliers(s, x)'
                      \/ height' > GetProofWindowCloseHeight(GetParamsAtHeight(x), x)
           Ends == UnbondingInv /\ UnbondingStarts
           Inv  == IInv /\ GridInv /\ SLTypeOK /\ UnbondingInv /\ UnbondingStarts
<1>1. SLInit => Ends
  BY DEF SLInit, UnbondingInv, UnbondingStarts
<1>2. IInv /\ GridInv /\ SLTypeOK /\ Ends /\ [SLNext]_slVars => Ends'
  BY UnbondingStepKeeps, UnbondingStartsStay
<1>3. SLSpec => []Inv
  BY <1>1, <1>2, SupplierParams, SupplierTypes, PTL DEF SLSpec
<1>4. Inv /\ UnbondingOutlastsWindows /\ [SLNext]_slVars => [Stay]_slVars
  BY StepLeavesSuppliers
<1>5. SLSpec /\ []UnbondingOutlastsWindows => [][Stay]_slVars
  BY <1>3, <1>4, PTL DEF SLSpec
<1> QED
  BY <1>5 DEF OpenSessionsNeverLoseASupplier

-----------------------------------------------------------------------------
(* The claims: the inductive invariant.                                    *)

(* The window bounds of a claim, by the params on record.                  *)
ClaimClose(k) == GetClaimWindowCloseHeight(GetParamsAtHeight(k.end), k.end)
Deadline(k) == GetProofWindowCloseHeight(GetParamsAtHeight(k.end), k.end)

(* The key of a session that has ended.                                    *)
OfPastSession(k) ==
    /\ k \in Key /\ k.start > 0 /\ k.start <= k.end /\ k.end < height
    /\ SessionAt(k.end).end = k.end

(* A claim on record: of a past session, priced by the params of its       *)
(* start, before or in the block its proof window closes in, ...           *)
ClaimOk(k) ==
    /\ OfPastSession(k)
    /\ claims[k] \in [root : Roots, status : Statuses, sampled : SUBSET Statuses,
                      amount : Nat]
    /\ claims[k].amount = ClaimedAmount(k, claims[k].root)
    /\ height <= Deadline(k)

(* ... and, unless a proof is waiting, with a status that says whether the *)
(* last one proved its root.  Once there has been a proof the claim window *)
(* has reached its last block, and once that proof has been validated it   *)
(* has closed: no later claim can replace the one validated.               *)
StatusOk(k) ==
    /\ k \in DOMAIN lastProof => height >= ClaimClose(k)
    /\ k \notin DOMAIN proofs =>
          /\ k \in DOMAIN lastProof => height > ClaimClose(k)
          /\ claims[k].status = "validated"
               <=> k \in DOMAIN lastProof /\ lastProof[k] = claims[k].root

OutcomeOk(k) ==
    /\ OfPastSession(k)
    /\ outcomes[k].at = Deadline(k) /\ outcomes[k].at < height
    /\ outcomes[k].priced = outcomes[k].claimed
    /\ outcomes[k].result = "expired" =>
          ~ (k \in DOMAIN lastProof /\ lastProof[k] = outcomes[k].root)

ProofOk(k) ==
    /\ k \in DOMAIN claims /\ proofs[k] \in Roots
    /\ k \in DOMAIN lastProof /\ proofs[k] = lastProof[k]

CInv ==
    /\ \A k \in DOMAIN claims : ClaimOk(k) /\ StatusOk(k)
    /\ \A k \in DOMAIN outcomes : OutcomeOk(k)
    /\ \A k \in DOMAIN proofs : ProofOk(k)
    /\ DOMAIN lastProof \subseteq DOMAIN claims \cup DOMAIN outcomes
    /\ DOMAIN claims \cap DOMAIN outcomes = {}

-----------------------------------------------------------------------------
(* Below, a step of the claims is a step of the shared module.             *)
LEMMA StepOfParams == [CLNext]_clVars => [Next]_paramVars
BY SupplierMessageFrame, ZenonT(30)
   DEF CLNext, CLGovern, SLGovern, CLSupplierMessage, ProofMessage, CreateClaim, SubmitProof,
       CLEndBlock, Next, clVars, slVars

(* So what is invariant of the shared params is so here.                   *)
LEMMA ParamsInvariant == CLSpec => [](IInv /\ GridInv)
<1>1. CLInit => Init
  BY DEF CLInit, SLInit
<1>2. CLSpec => Spec
  BY <1>1, StepOfParams, PTL DEF CLSpec, Spec
<1> QED
  BY <1>2, GridInvariance, PTL

(* The windows of a key, and the sense of its deadline.                    *)
LEMMA KeyWindows ==
    ASSUME IInv, NEW k, OfPastSession(k)
    PROVE  /\ k.end \in Nat \ {0} /\ k.start \in Nat \ {0} /\ k.start < height
           /\ GetParamsAtHeight(k.end) \in ValidParams
           /\ GetSessionEndHeight(GetParamsAtHeight(k.end), k.end) = k.end
           /\ ClaimClose(k) \in Nat /\ Deadline(k) \in Nat
           /\ ClaimClose(k) <= Deadline(k)
           /\ GetSessionEndToProofWindowCloseBlocks(GetParamsAtHeight(k.end)) \in Nat
           /\ Deadline(k) = k.end
                + GetSessionEndToProofWindowCloseBlocks(GetParamsAtHeight(k.end)) + 1
<1>1. k.end \in Nat \ {0} /\ k.start \in Nat \ {0} /\ k.start < height
  BY IInvFacts DEF OfPastSession, Key
<1>2. GetParamsAtHeight(k.end) \in ValidParams
  BY <1>1, LookupValid
<1>3. GetSessionEndHeight(GetParamsAtHeight(k.end), k.end) = k.end
  BY DEF OfPastSession, SessionAt
<1> QED
  BY <1>1, <1>2, <1>3, WindowsInOrder DEF ClaimClose, Deadline

(* What a claim is windowed and priced by does not move.                   *)
LEMMA KeyStays ==
    ASSUME IInv, [Next]_paramVars, NEW k, OfPastSession(k)
    PROVE  /\ OfPastSession(k)'
           /\ ClaimClose(k)' = ClaimClose(k)
           /\ Deadline(k)' = Deadline(k)
           /\ \A root : ClaimedAmount(k, root)' = ClaimedAmount(k, root)
           /\ height' \in Nat /\ height <= height' /\ height' <= height + 1
<1> DEFINE p == GetParamsAtHeight(k.end)
           q == GetParamsAtHeight(k.end)'
           r == GetParamsAtHeight(k.start)
           s == GetParamsAtHeight(k.start)'
<1>1. /\ k.end \in Nat \ {0} /\ k.start \in Nat \ {0}
      /\ k.start <= height /\ k.end <= height /\ height \in Nat
  BY KeyWindows, IInvFacts DEF OfPastSession
<1>2. /\ p \in ValidParams /\ q \in ValidParams /\ Agree(q, p)
      /\ SessionAt(k.end)' = SessionAt(k.end)
      /\ height' \in Nat /\ height <= height' /\ height' <= height + 1
  BY <1>1, ParamsStep
<1>3. r \in ValidParams /\ s \in ValidParams /\ Agree(s, r)
  BY <1>1, ParamsStep
<1>4. /\ ClaimClose(k)' = GetClaimWindowCloseHeight(q, k.end)
      /\ Deadline(k)' = GetProofWindowCloseHeight(q, k.end)
      /\ \A root : ClaimedAmount(k, root)' =
             (root * s.computeUnitsToTokensMultiplier) \div s.computeUnitCostGranularity
  BY DEF ClaimClose, Deadline, ClaimedAmount
<1>5. /\ ClaimClose(k) = GetClaimWindowCloseHeight(p, k.end)
      /\ Deadline(k) = GetProofWindowCloseHeight(p, k.end)
      /\ \A root : ClaimedAmount(k, root) =
             (root * r.computeUnitsToTokensMultiplier) \div r.computeUnitCostGranularity
  BY DEF ClaimClose, Deadline, ClaimedAmount
<1> HIDE DEF p, q, r, s
<1>6. ClaimClose(k)' = ClaimClose(k) /\ Deadline(k)' = Deadline(k)
  BY <1>1, <1>2, <1>4, <1>5, SameWindows
<1>7. /\ s.computeUnitsToTokensMultiplier = r.computeUnitsToTokensMultiplier
      /\ s.computeUnitCostGranularity = r.computeUnitCostGranularity
  BY <1>1, <1>3, SameWindows
<1>8. \A root : ClaimedAmount(k, root)' = ClaimedAmount(k, root)
  BY <1>4, <1>5, <1>7
<1>9. OfPastSession(k)'
  BY <1>1, <1>2 DEF OfPastSession
<1> QED
  BY <1>2, <1>6, <1>8, <1>9

(* A root is worth a natural amount.                                       *)
LEMMA AmountIsNat ==
    ASSUME IInv, NEW k, k.start \in Nat, NEW root \in Nat
    PROVE  ClaimedAmount(k, root) \in Nat
<1> DEFINE p == GetParamsAtHeight(k.start)
           m == p.computeUnitsToTokensMultiplier
           g == p.computeUnitCostGranularity
<1>1. m \in Nat /\ g \in Nat \ {0}
  <2>1. p \in ValidParams
    BY LookupValid
  <2> QED
    BY <2>1 DEF ValidParams, ValidateBasic, Params
<1>2. ClaimedAmount(k, root) = (root * m) \div g
  BY DEF ClaimedAmount
<1> HIDE DEF p, m, g
<1>3. root * m \in Nat
  BY <1>1, Z3
<1> QED
  BY <1>1, <1>2, <1>3, DivBounds

-----------------------------------------------------------------------------
(* The steps.                                                              *)

(* A claim or a proof that names a session and is in or after its claim    *)
(* window is of a past one.                                                *)
LEMMA ListedIsPast ==
    ASSUME IInv, GridInv, NEW k \in SessionKeys, SessionListsSupplier(k),
           height >= GetClaimWindowOpenHeight(GetParamsAtHeight(k.end), k.end)
    PROVE  OfPastSession(k)
<1> DEFINE p == GetParamsAtHeight(k.end)
<1>1. height \in Nat \ {0}
  BY IInvFacts
<1>2. PICK op \in Operators, sv \in Services, x \in 1..height :
         k = [operator |-> op, service |-> sv,
              start |-> SessionAt(x).start, end |-> SessionAt(x).end]
  BY DEF SessionKeys
<1>3. /\ SessionAt(x).start \in Nat \ {0} /\ SessionAt(x).end \in Nat \ {0}
      /\ SessionAt(x).start <= x /\ x <= SessionAt(x).end
  <2>1. x \in Nat \ {0}
    BY <1>1
  <2> QED
    BY <2>1, SessionFacts
<1>4. k \in Key /\ k.start > 0 /\ k.start <= k.end /\ k.end \in Nat \ {0} /\ k.start \in Nat \ {0}
  BY <1>1, <1>2, <1>3 DEF Key
<1>5. SessionAt(k.end).end = k.end
  <2> DEFINE s == SessionAt(k.start)
  <2>1. s.start = k.start /\ s.end = k.end
    BY DEF SessionListsSupplier
  <2>2. \A y \in s.start..s.end : SessionAt(y) = s
    BY <1>4, SessionFacts
  <2> HIDE DEF s
  <2> QED
    BY <1>4, <2>1, <2>2
<1>6. p \in ValidParams /\ GetSessionEndHeight(p, k.end) = k.end
  BY <1>4, <1>5, LookupValid DEF SessionAt
<1>7. k.end < height
  <2>1. GetClaimWindowOpenHeight(p, k.end) \in Nat
        /\ GetSessionEndHeight(p, k.end) < GetClaimWindowOpenHeight(p, k.end)
    BY <1>4, <1>6, WindowsInOrder
  <2> HIDE DEF p
  <2> QED
    BY <1>1, <1>4, <1>6, <2>1 DEF p
<1> QED
  BY <1>4, <1>5, <1>7 DEF OfPastSession

(* A claim created in its window is of a past session, and pending.        *)
LEMMA CreateClaimKeeps ==
    ASSUME IInv, GridInv, CInv,
           NEW k \in SessionKeys, NEW root \in Roots, NEW sampled \in SampleOutcomes,
           CreateClaim(k, root, sampled)
    PROVE  CInv'
<1> DEFINE c == [root |-> root, status |-> "pending", sampled |-> sampled,
                 amount |-> ClaimedAmount(k, root)]
<1>1. /\ claims' = Put(claims, k, c)
      /\ UNCHANGED <<height, live, history, proofs, outcomes, lastProof>>
  BY DEF CreateClaim, slVars, paramVars
<1>2. DOMAIN claims' = DOMAIN claims \cup {k} /\ claims'[k] = c
      /\ \A j \in DOMAIN claims \ {k} : claims'[j] = claims[j]
  BY <1>1 DEF Put
<1>3. OfPastSession(k) /\ height <= ClaimClose(k)
  BY ListedIsPast DEF CreateClaim, InClaimWindow, ClaimClose
<1>4. height \in Nat /\ ClaimClose(k) \in Nat /\ Deadline(k) \in Nat
      /\ ClaimClose(k) <= Deadline(k)
  BY <1>3, KeyWindows, IInvFacts
<1>5. k \notin DOMAIN outcomes
  BY <1>3, <1>4 DEF CInv, OutcomeOk
<1>6. \A j : /\ OfPastSession(j)' = OfPastSession(j)
             /\ ClaimClose(j)' = ClaimClose(j) /\ Deadline(j)' = Deadline(j)
             /\ \A r : ClaimedAmount(j, r)' = ClaimedAmount(j, r)
  BY <1>1 DEF OfPastSession, ClaimClose, Deadline, ClaimedAmount, SessionAt, GetParamsAtHeight
<1>7. c \in [root : Roots, status : Statuses, sampled : SUBSET Statuses, amount : Nat]
  <2>1. ClaimedAmount(k, root) \in Nat
    BY <1>3, AmountIsNat, KeyWindows, ClaimAssumption
  <2> QED
    BY <2>1, ClaimAssumption DEF Statuses
<1>8. ClaimOk(k)'
  BY <1>1, <1>2, <1>3, <1>4, <1>6, <1>7 DEF ClaimOk
<1>9. StatusOk(k)'
  <2>1. k \in DOMAIN lastProof => k \in DOMAIN claims
    BY <1>5 DEF CInv
  <2>2. k \in DOMAIN lastProof => height >= ClaimClose(k)
    BY <2>1 DEF CInv, StatusOk
  <2>3. k \in DOMAIN lastProof => k \in DOMAIN proofs
    BY <1>3, <1>4, <2>1 DEF CInv, StatusOk
  <2>4. claims'[k].status # "validated"
    BY <1>2
  <2> QED
    BY <1>1, <1>6, <2>2, <2>3, <2>4 DEF StatusOk
<1>10. ASSUME NEW j \in DOMAIN claims', j # k
       PROVE  ClaimOk(j)' /\ StatusOk(j)'
  BY <1>1, <1>2, <1>6, <1>10 DEF CInv, ClaimOk, StatusOk
<1>11. \A j \in DOMAIN outcomes' : OutcomeOk(j)'
  BY <1>1, <1>6 DEF CInv, OutcomeOk
<1>12. \A j \in DOMAIN proofs' : ProofOk(j)'
  BY <1>1, <1>2 DEF CInv, ProofOk
<1> QED
  BY <1>1, <1>2, <1>5, <1>8, <1>9, <1>10, <1>11, <1>12 DEF CInv

(* A proof goes with a claim, and in the window of its session.            *)
LEMMA SubmitProofKeeps ==
    ASSUME IInv, GridInv, CInv,
           NEW k \in SessionKeys, NEW root \in Roots, SubmitProof(k, root)
    PROVE  CInv'
<1>1. /\ proofs' = Put(proofs, k, root) /\ lastProof' = Put(lastProof, k, root)
      /\ UNCHANGED <<height, live, history, claims, outcomes>>
  BY DEF SubmitProof, slVars, paramVars
<1>2. /\ DOMAIN proofs' = DOMAIN proofs \cup {k} /\ proofs'[k] = root
      /\ \A j \in DOMAIN proofs \ {k} : proofs'[j] = proofs[j]
      /\ DOMAIN lastProof' = DOMAIN lastProof \cup {k} /\ lastProof'[k] = root
      /\ \A j \in DOMAIN lastProof \ {k} : lastProof'[j] = lastProof[j]
  BY <1>1 DEF Put
<1>3. k \in DOMAIN claims /\ k \notin DOMAIN outcomes /\ OfPastSession(k)
  BY DEF SubmitProof, CInv, ClaimOk
<1>4. height >= ClaimClose(k)
  <2> DEFINE p == GetParamsAtHeight(k.end)
  <2>1. k.end \in Nat \ {0} /\ p \in ValidParams /\ height \in Nat
    BY <1>3, KeyWindows, IInvFacts
  <2>2. height >= GetProofWindowOpenHeight(p, k.end)
    BY DEF SubmitProof, InProofWindow
  <2> HIDE DEF p
  <2>3. height >= GetClaimWindowCloseHeight(p, k.end)
    BY <2>1, <2>2, WindowsInOrder
  <2> QED
    BY <2>3 DEF ClaimClose, p
<1>5. \A j : /\ OfPastSession(j)' = OfPastSession(j)
             /\ ClaimClose(j)' = ClaimClose(j) /\ Deadline(j)' = Deadline(j)
             /\ \A r : ClaimedAmount(j, r)' = ClaimedAmount(j, r)
  BY <1>1 DEF OfPastSession, ClaimClose, Deadline, ClaimedAmount, SessionAt, GetParamsAtHeight
<1>6. \A j \in DOMAIN claims' : ClaimOk(j)'
  BY <1>1, <1>5 DEF CInv, ClaimOk
<1>7. ASSUME NEW j \in DOMAIN claims'
      PROVE  StatusOk(j)'
  <2>1. CASE j = k
    BY <1>1, <1>2, <1>4, <1>5, <2>1 DEF StatusOk
  <2>2. CASE j # k
    BY <1>1, <1>2, <1>5, <2>2 DEF CInv, StatusOk
  <2> QED
    BY <2>1, <2>2
<1>8. \A j \in DOMAIN outcomes' : OutcomeOk(j)'
  BY <1>1, <1>2, <1>3, <1>5 DEF CInv, OutcomeOk
<1>9. \A j \in DOMAIN proofs' : ProofOk(j)'
  BY <1>1, <1>2, <1>3 DEF CInv, ProofOk
<1> QED
  BY <1>1, <1>2, <1>3, <1>6, <1>7, <1>8, <1>9 DEF CInv

(* A step of the other modules, which leaves claims and proofs alone.      *)
LEMMA OtherStepKeeps ==
    ASSUME IInv, GridInv, CInv, [Next]_paramVars, height' = height, UNCHANGED claimVars
    PROVE  CInv'
<1>1. UNCHANGED <<claims, proofs, outcomes, lastProof>>
  BY DEF claimVars
<1>2. ASSUME NEW j \in DOMAIN claims'
      PROVE  ClaimOk(j)' /\ StatusOk(j)'
  <2>1. ClaimOk(j) /\ StatusOk(j)
    BY <1>1 DEF CInv
  <2>2. /\ OfPastSession(j)'
        /\ ClaimClose(j)' = ClaimClose(j) /\ Deadline(j)' = Deadline(j)
        /\ \A root : ClaimedAmount(j, root)' = ClaimedAmount(j, root)
    BY <2>1, KeyStays DEF ClaimOk
  <2> QED
    BY <1>1, <2>1, <2>2 DEF ClaimOk, StatusOk
<1>3. ASSUME NEW j \in DOMAIN outcomes'
      PROVE  OutcomeOk(j)'
  <2>1. OutcomeOk(j)
    BY <1>1 DEF CInv
  <2>2. OfPastSession(j)' /\ Deadline(j)' = Deadline(j)
    BY <2>1, KeyStays DEF OutcomeOk
  <2> QED
    BY <1>1, <2>1, <2>2 DEF OutcomeOk
<1>4. \A j \in DOMAIN proofs' : ProofOk(j)'
  BY <1>1 DEF CInv, ProofOk
<1> QED
  BY <1>1, <1>2, <1>3, <1>4 DEF CInv

-----------------------------------------------------------------------------
(* The end of a block.                                                     *)

(* The candidate scan finds a session end in the block its proof window    *)
(* closes in: by live while there is one epoch only, else by the epoch it  *)
(* ended in, whose last height cannot be before it.                        *)
LEMMA ScanFindsSessionEnd ==
    ASSUME IInv, NEW k, OfPastSession(k), height = Deadline(k)
    PROVE  k.end \in CandidateSessionEndHeights
<1> DEFINE p == GetParamsAtHeight(k.end)
           W == GetSessionEndToProofWindowCloseBlocks(p)
<1>1. /\ k.end \in Nat \ {0} /\ k.end < height /\ height \in Nat
      /\ W \in Nat /\ height = k.end + W + 1
  BY KeyWindows, IInvFacts DEF OfPastSession
<1> SUFFICES p \in SettlementEpochs
  <2>1. k.end = height - (W + 1)
    <3> HIDE DEF W
    <3> QED
      BY <1>1
  <2> QED
    BY <1>1, <2>1 DEF CandidateSessionEndHeights
<1>2. DOMAIN history \subseteq Nat
  BY IInvFacts
<1> DEFINE E == EpochsUpTo(history, k.end)
<1>3. CASE E = {}
  BY <1>3 DEF GetParamsAtHeight, ParamsAt, SettlementEpochs
<1>4. CASE E # {}
  <2> DEFINE e == Latest(E)
             later == {f \in EpochsUpTo(history, height) : f > e}
  <2>1. E \in SUBSET Nat /\ \A f \in E : f <= k.end
    BY <1>2 DEF EpochsUpTo
  <2>2. e \in E /\ \A f \in E : f <= e
    <3> HIDE DEF E
    <3> QED
      BY <1>1, <1>4, <2>1, LatestIsMax
  <2>3. p = history[e]
    BY <1>4 DEF GetParamsAtHeight, ParamsAt
  <2>4. e \in EpochsUpTo(history, height) /\ e \in Nat
    BY <1>1, <1>2, <2>2 DEF EpochsUpTo
  <2>5. ASSUME NEW f \in later
        PROVE  f \in Nat /\ k.end < f
    <3>1. f \in DOMAIN history /\ f \in Nat /\ f > e
      BY <1>2 DEF EpochsUpTo
    <3>2. f <= k.end => f \in E
      BY <3>1 DEF EpochsUpTo
    <3> HIDE DEF E, e
    <3> QED
      BY <1>1, <2>1, <2>2, <3>1, <3>2
  <2>6. LastHeightOfEpoch(e) \in Nat /\ k.end <= LastHeightOfEpoch(e)
    <3>1. CASE later = {}
      BY <1>1, <3>1 DEF LastHeightOfEpoch
    <3>2. CASE later # {}
      <4> HIDE DEF later
      <4>1. PICK m \in later : \A f \in later : m <= f
        BY <2>5, <3>2, FirstHeight
      <4>2. Min(later) \in later
        BY <4>1 DEF Min
      <4>3. LastHeightOfEpoch(e) = Min(later) - 1
        BY <3>2 DEF LastHeightOfEpoch, later
      <4> QED
        BY <1>1, <2>5, <4>2, <4>3
    <3> QED
      BY <3>1, <3>2
  <2> HIDE DEF e
  <2>7. LastHeightOfEpoch(e) + W + 1 >= height
    <3> HIDE DEF W
    <3> QED
      BY <1>1, <2>6
  <2> QED
    BY <2>3, <2>4, <2>7 DEF SettlementEpochs
<1> QED
  BY <1>3, <1>4

(* So settlement takes the claims whose deadline it is, and no other.      *)
LEMMA DueAtDeadline ==
    ASSUME IInv, CInv, NEW k \in DOMAIN claims
    PROVE  k \in SettledKeys <=> height = Deadline(k)
<1> DEFINE W == GetSessionEndToProofWindowCloseBlocks(GetParamsAtHeight(k.end))
<1>1. OfPastSession(k) /\ height <= Deadline(k)
  BY DEF CInv, ClaimOk
<1>2. /\ k.end \in Nat /\ W \in Nat /\ Deadline(k) = k.end + W + 1 /\ height \in Nat
  BY <1>1, KeyWindows, IInvFacts
<1>3. DOMAIN ValidatedClaims = DOMAIN claims
  BY DEF ValidatedClaims
<1>4. k \in SettledKeys <=> k.end \in CandidateSessionEndHeights /\ height > k.end + W
  BY <1>3 DEF SettledKeys, DueClaims
<1>5. height = Deadline(k) => k.end \in CandidateSessionEndHeights
  BY <1>1, ScanFindsSessionEnd
<1> HIDE DEF W
<1> QED
  BY <1>1, <1>2, <1>4, <1>5

(* After validation the status of a claim says whether the last proof      *)
(* accepted for it is one of its root.                                     *)
LEMMA ValidatedIfProven ==
    ASSUME CInv, NEW k \in DOMAIN claims
    PROVE  /\ ValidatedClaims[k] =
                 [root |-> claims[k].root, status |-> ValidatedClaims[k].status,
                  sampled |-> claims[k].sampled, amount |-> claims[k].amount]
           /\ ValidatedClaims[k].root = claims[k].root
           /\ ValidatedClaims[k].amount = claims[k].amount
           /\ ValidatedClaims[k].status \in Statuses
           /\ ValidatedClaims[k].status = "validated"
                 <=> k \in DOMAIN lastProof /\ lastProof[k] = claims[k].root
<1>1. claims[k] \in [root : Roots, status : Statuses, sampled : SUBSET Statuses,
                      amount : Nat]
  BY DEF CInv, ClaimOk
<1>2. CASE k \in DOMAIN proofs
  <2>1. ValidatedClaims[k] =
          [claims[k] EXCEPT !.status = IF proofs[k] = claims[k].root
                                       THEN "validated" ELSE "invalid"]
    BY <1>2 DEF ValidatedClaims
  <2>2. k \in DOMAIN lastProof /\ proofs[k] = lastProof[k]
    BY <1>2 DEF CInv, ProofOk
  <2> QED
    BY <1>1, <2>1, <2>2 DEF Statuses
<1>3. CASE k \notin DOMAIN proofs
  <2>1. ValidatedClaims[k] = claims[k]
    BY <1>3 DEF ValidatedClaims
  <2>2. claims[k].status = "validated"
          <=> k \in DOMAIN lastProof /\ lastProof[k] = claims[k].root
    BY <1>3 DEF CInv, StatusOk
  <2> QED
    BY <1>1, <2>1, <2>2
<1> QED
  BY <1>2, <1>3

(* The variables after the end of a block.                                 *)
LEMMA EndBlockFacts ==
    ASSUME IInv, CInv, CLEndBlock
    PROVE  /\ EndBlock /\ height' = height + 1 /\ [Next]_paramVars
           /\ DOMAIN proofs' = {} /\ lastProof' = lastProof
           /\ SettledKeys \subseteq DOMAIN claims
           /\ DOMAIN claims' = DOMAIN claims \ SettledKeys
           /\ \A k \in DOMAIN claims' : claims'[k] = ValidatedClaims[k]
           /\ DOMAIN outcomes' = DOMAIN outcomes \cup SettledKeys
           /\ \A k \in SettledKeys :
                 outcomes'[k] = [result |-> Settlement(k, ValidatedClaims[k]), at |-> height,
                                 status |-> ValidatedClaims[k].status,
                                 root |-> ValidatedClaims[k].root,
                                 claimed |-> ValidatedClaims[k].amount,
                                 priced |-> ClaimedAmount(k, ValidatedClaims[k].root)]
           /\ \A k \in DOMAIN outcomes \ SettledKeys : outcomes'[k] = outcomes[k]
<1>1. DOMAIN ValidatedClaims = DOMAIN claims
  BY DEF ValidatedClaims
<1>2. SettledKeys \subseteq DOMAIN claims
  BY <1>1 DEF SettledKeys, DueClaims
<1>3. EndBlock /\ height' = height + 1 /\ [Next]_paramVars
  BY DEF CLEndBlock, EndBlock, Next
<1>4. DOMAIN proofs' = {}
  BY DEF CLEndBlock, ProofsLeft, Restrict, CInv, ProofOk
<1>5. /\ DOMAIN claims' = DOMAIN claims \ SettledKeys
      /\ \A k \in DOMAIN claims' : claims'[k] = ValidatedClaims[k]
  BY <1>1 DEF CLEndBlock, Restrict
<1> QED
  BY <1>2, <1>3, <1>4, <1>5 DEF CLEndBlock

(* A block's end settles exactly what is due and keeps the rest.           *)
LEMMA EndBlockKeeps ==
    ASSUME IInv, GridInv, CInv, CLEndBlock
    PROVE  CInv'
<1>1. height \in Nat
  BY IInvFacts
<1>2. ASSUME NEW k \in DOMAIN claims'
      PROVE  ClaimOk(k)' /\ StatusOk(k)'
  <2>1. k \in DOMAIN claims /\ k \notin SettledKeys /\ claims'[k] = ValidatedClaims[k]
    BY <1>2, EndBlockFacts
  <2>2. ClaimOk(k) /\ StatusOk(k)
    BY <2>1 DEF CInv
  <2>3. /\ OfPastSession(k)'
        /\ ClaimClose(k)' = ClaimClose(k) /\ Deadline(k)' = Deadline(k)
        /\ \A root : ClaimedAmount(k, root)' = ClaimedAmount(k, root)
    BY <2>2, KeyStays, EndBlockFacts DEF ClaimOk
  <2>4. ClaimClose(k) \in Nat /\ Deadline(k) \in Nat
    BY <2>2, KeyWindows DEF ClaimOk
  <2>5. height # Deadline(k)
    BY <2>1, DueAtDeadline
  <2>6. height' <= Deadline(k)
    BY <1>1, <2>2, <2>4, <2>5, EndBlockFacts DEF ClaimOk
  <2>7. /\ claims'[k] =
              [root |-> claims[k].root, status |-> ValidatedClaims[k].status,
               sampled |-> claims[k].sampled, amount |-> claims[k].amount]
        /\ claims'[k].status \in Statuses
        /\ claims'[k].status = "validated"
              <=> k \in DOMAIN lastProof /\ lastProof[k] = claims[k].root
    BY <2>1, ValidatedIfProven
  <2>8. ClaimOk(k)'
    BY <2>2, <2>3, <2>6, <2>7 DEF ClaimOk
  <2>9. k \in DOMAIN lastProof => height' > ClaimClose(k) /\ height' >= ClaimClose(k)
    BY <1>1, <2>2, <2>4, EndBlockFacts DEF StatusOk
  <2>10. StatusOk(k)'
    BY <2>3, <2>7, <2>9, EndBlockFacts DEF StatusOk
  <2> QED
    BY <2>8, <2>10
<1>3. ASSUME NEW k \in DOMAIN outcomes'
      PROVE  OutcomeOk(k)'
  <2>1. CASE k \in SettledKeys
    <3>1. k \in DOMAIN claims /\ OfPastSession(k) /\ height = Deadline(k)
          /\ claims[k].amount = ClaimedAmount(k, claims[k].root)
      BY <2>1, EndBlockFacts, DueAtDeadline DEF CInv, ClaimOk
    <3>2. OfPastSession(k)' /\ Deadline(k)' = Deadline(k)
      BY <3>1, KeyStays, EndBlockFacts
    <3>3. /\ outcomes'[k].at = height
          /\ outcomes'[k].root = claims[k].root
          /\ outcomes'[k].claimed = claims[k].amount
          /\ outcomes'[k].priced = ClaimedAmount(k, claims[k].root)
          /\ outcomes'[k].result = Settlement(k, ValidatedClaims[k])
      <4>1. outcomes'[k] = [result |-> Settlement(k, ValidatedClaims[k]), at |-> height,
                            status |-> ValidatedClaims[k].status,
                            root |-> ValidatedClaims[k].root,
                            claimed |-> ValidatedClaims[k].amount,
                            priced |-> ClaimedAmount(k, ValidatedClaims[k].root)]
        BY <2>1, EndBlockFacts
      <4>2. /\ ValidatedClaims[k].root = claims[k].root
            /\ ValidatedClaims[k].amount = claims[k].amount
        BY <3>1, ValidatedIfProven
      <4> QED
        BY <4>1, <4>2
    <3>4. Settlement(k, ValidatedClaims[k]) = "expired" =>
            ValidatedClaims[k].status # "validated"
      BY DEF Settlement
    <3>5. outcomes'[k].result = "expired" =>
            ~ (k \in DOMAIN lastProof' /\ lastProof'[k] = outcomes'[k].root)
      BY <3>1, <3>3, <3>4, EndBlockFacts, ValidatedIfProven
    <3> QED
      BY <1>1, <3>1, <3>2, <3>3, <3>5, EndBlockFacts DEF OutcomeOk
  <2>2. CASE k \notin SettledKeys
    <3>1. k \in DOMAIN outcomes /\ outcomes'[k] = outcomes[k]
      BY <1>3, <2>2, EndBlockFacts
    <3>2. OutcomeOk(k)
      BY <3>1 DEF CInv
    <3>3. OfPastSession(k)' /\ Deadline(k)' = Deadline(k) /\ Deadline(k) \in Nat
      BY <3>2, KeyStays, KeyWindows, EndBlockFacts DEF OutcomeOk
    <3> QED
      BY <1>1, <3>1, <3>2, <3>3, EndBlockFacts DEF OutcomeOk
  <2> QED
    BY <2>1, <2>2
<1>4. DOMAIN proofs' = {}
  BY EndBlockFacts
<1>5. DOMAIN lastProof' \subseteq DOMAIN claims' \cup DOMAIN outcomes'
  BY EndBlockFacts DEF CInv
<1>6. DOMAIN claims' \cap DOMAIN outcomes' = {}
  BY EndBlockFacts DEF CInv
<1> QED
  BY <1>2, <1>3, <1>4, <1>5, <1>6 DEF CInv

(* At genesis there is no claim to say anything of.                        *)
LEMMA ClaimsInit == CLInit => CInv
BY DEF CLInit, CInv

(* The invariant of claims, proofs and their outcomes.                     *)
THEOREM ClaimsInvariance == CLSpec => [](IInv /\ GridInv /\ CInv)
<1>1. ASSUME IInv, GridInv, CInv, [CLNext]_clVars
      PROVE  CInv'
  <2>1. CASE CLGovern
    <3>1. [Next]_paramVars /\ height' = height /\ UNCHANGED claimVars
      BY <1>1, <2>1, GovernRecords DEF CLGovern, SLGovern, Next
    <3> QED
      BY <1>1, <3>1, OtherStepKeeps
  <2>2. CASE CLSupplierMessage
    <3>1. UNCHANGED paramVars /\ UNCHANGED claimVars
      BY <2>2, SupplierMessageFrame DEF CLSupplierMessage
    <3> QED
      BY <1>1, <3>1, OtherStepKeeps DEF paramVars
  <2>3. CASE ProofMessage
    BY <1>1, <2>3, CreateClaimKeeps, SubmitProofKeeps DEF ProofMessage
  <2>4. CASE CLEndBlock
    BY <1>1, <2>4, EndBlockKeeps
  <2>5. CASE UNCHANGED clVars
    <3>1. UNCHANGED paramVars /\ UNCHANGED claimVars
      BY <2>5 DEF clVars, slVars
    <3> QED
      BY <1>1, <3>1, OtherStepKeeps DEF paramVars
  <2> QED
    BY <1>1, <2>1, <2>2, <2>3, <2>4, <2>5 DEF CLNext
<1>2. CLSpec => [][CLNext]_clVars /\ CLInit
  BY DEF CLSpec
<1> QED
  BY <1>1, <1>2, ClaimsInit, ParamsInvariant, PTL

-----------------------------------------------------------------------------
(* Slashing.  With finitely many claims on record, each supplier is        *)
(* slashed a natural number of times.                                      *)
SlashInv == SupInv /\ IsFiniteSet(DOMAIN claims)

(* What slashing takes from a stake is never more than the stake.          *)
LEMMA SlashingFacts ==
    ASSUME IInv, SupInv, NEW op \in DOMAIN suppliers, NEW n \in Nat
    PROVE  /\ SlashingCoin(op, n) \in Nat
           /\ SlashingCoin(op, n) <= suppliers[op].stake
           /\ Slashed(op, n) \in Supplier
           /\ Slashed(op, n).stake = suppliers[op].stake - SlashingCoin(op, n)
<1> DEFINE m == n * Penalty
           s == suppliers[op].stake
<1>1. m \in Nat
  BY ClaimAssumption, Z3
<1>2. s \in Nat /\ suppliers[op].unstakeSessionEndHeight \in Nat
  BY DEF SupInv, SLTypeOK
<1>3. SlashingCoin(op, n) = Min({m, s})
  BY DEF SlashingCoin
<1> HIDE DEF m
<1>4. Min({m, s}) \in {m, s} /\ Min({m, s}) <= s
  <2>1. \E x \in {m, s} : \A y \in {m, s} : x <= y
    BY <1>1, <1>2
  <2> QED
    BY <2>1 DEF Min
<1>5. SlashingCoin(op, n) \in Nat /\ SlashingCoin(op, n) <= s
  BY <1>1, <1>2, <1>3, <1>4
<1>6. s - SlashingCoin(op, n) \in Nat
  BY <1>2, <1>5
<1>7. GetSessionEndHeight(live, height) \in Nat
  BY NextStartIsLater
<1> QED
  BY <1>2, <1>5, <1>6, <1>7 DEF Slashed, Supplier

(* Only claims on record are settled.                                      *)
LEMMA SettledKeysAreClaims == SettledKeys \subseteq DOMAIN claims
BY DEF SettledKeys, DueClaims, ValidatedClaims

(* What settlement burns from the account it has taken from the stakes.    *)
LEMMA SlashingKeepsCover ==
    ASSUME IInv, SlashInv, NEW sups, NEW cut,
           sups = [op \in DOMAIN suppliers |-> Slashed(op, ExpiredOf(ValidatedClaims, op))],
           cut = [op \in DOMAIN suppliers |->
                     SlashingCoin(op, ExpiredOf(ValidatedClaims, op))]
    PROVE  /\ \A op \in DOMAIN sups : sups[op] \in Supplier
           /\ supplierPool - Total(cut, DOMAIN suppliers) \in Int
           /\ supplierPool - Total(cut, DOMAIN suppliers) >= Total(StakesOf(sups), DOMAIN sups)
<1> DEFINE D == DOMAIN suppliers
           n(op) == ExpiredOf(ValidatedClaims, op)
           f == StakesOf(suppliers)
           h == StakesOf(sups)
<1>1. \A op \in D : n(op) \in Nat
  <2> TAKE op \in D
  <2> DEFINE T == {k \in SettledKeys :
                     k.operator = op /\ Settlement(k, ValidatedClaims[k]) = "expired"}
  <2>1. T \in SUBSET DOMAIN claims
    BY SettledKeysAreClaims
  <2>2. IsFiniteSet(DOMAIN claims)
    BY DEF SlashInv
  <2> HIDE DEF T
  <2>3. Cardinality(T) \in Nat
    BY <2>1, <2>2, FS_Subset, FS_CardinalityType
  <2> QED
    BY <2>3 DEF ExpiredOf, T
<1>2. SupInv /\ IsFiniteSet(D) /\ supplierPool \in Nat /\ supplierPool >= Total(f, D)
      /\ \A op \in D : suppliers[op] \in Supplier
  BY DEF SlashInv, SupInv, SLTypeOK, PoolCoversStakes, Supplier
<1>3. DOMAIN sups = D /\ DOMAIN cut = D
      /\ \A op \in D : sups[op] = Slashed(op, n(op)) /\ cut[op] = SlashingCoin(op, n(op))
  OBVIOUS
<1> HIDE DEF n, D
<1>4. \A op \in D : /\ SlashingCoin(op, n(op)) \in Nat /\ Slashed(op, n(op)) \in Supplier
                    /\ Slashed(op, n(op)).stake = suppliers[op].stake - SlashingCoin(op, n(op))
  BY <1>1, <1>2, SlashingFacts DEF D
<1>5. \A op \in D : sups[op] \in Supplier
  BY <1>3, <1>4
<1>6. \A op \in D : f[op] \in Int /\ f[op] = suppliers[op].stake
  BY <1>2, StakesAreNat DEF D
<1>7. \A op \in D : h[op] = sups[op].stake
  BY <1>3 DEF StakesOf
<1> HIDE DEF f, h
<1>8. \A op \in D : f[op] \in Int /\ cut[op] \in Int /\ h[op] = f[op] - cut[op]
  BY <1>3, <1>4, <1>6, <1>7
<1>9. Total(h, D) = Total(f, D) - Total(cut, D)
  BY <1>2, <1>8, TotalOfDifferences
<1>10. Total(cut, D) \in Nat
  BY <1>2, <1>3, <1>4, TotalIsNat
<1>11. Total(f, D) \in Nat
  BY <1>2, StakesAreNat DEF D, f
<1> QED
  BY <1>2, <1>3, <1>5, <1>9, <1>10, <1>11 DEF D, h

(* Every step keeps the stakes covered, the slashing ones included.        *)
LEMMA SlashStepKeeps ==
    ASSUME IInv, SlashInv, [CLNext]_clVars
    PROVE  SlashInv'
<1>1. CASE CLGovern
  BY <1>1 DEF CLGovern, SLGovern, supplierVars, claimVars, SlashInv, SupInv, SLTypeOK,
              PoolCoversStakes
<1>2. CASE CLSupplierMessage
  BY <1>2, SupplierMessageKeeps DEF CLSupplierMessage, claimVars, SlashInv
<1>3. CASE ProofMessage
  <2>1. UNCHANGED supplierVars
    BY <1>3 DEF ProofMessage, CreateClaim, SubmitProof, slVars
  <2>2. SupInv'
    BY <2>1 DEF supplierVars, SlashInv, SupInv, SLTypeOK, PoolCoversStakes
  <2>3. DOMAIN claims' = DOMAIN claims \/ \E k : DOMAIN claims' = DOMAIN claims \cup {k}
    BY <1>3 DEF ProofMessage, CreateClaim, SubmitProof, Put
  <2>4. IsFiniteSet(DOMAIN claims')
    BY <2>3, FS_AddElement DEF SlashInv
  <2> QED
    BY <2>2, <2>4 DEF SlashInv
<1>4. CASE CLEndBlock
  <2> DEFINE sups == [op \in DOMAIN suppliers |-> Slashed(op, ExpiredOf(ValidatedClaims, op))]
             cut  == [op \in DOMAIN suppliers |->
                        SlashingCoin(op, ExpiredOf(ValidatedClaims, op))]
             pool == supplierPool - Total(cut, DOMAIN suppliers)
  <2>1. PICK stuck : SupplierEndBlock(sups, pool, stuck)
    BY <1>4 DEF CLEndBlock
  <2>2. /\ \A op \in DOMAIN sups : sups[op] \in Supplier
        /\ pool \in Int /\ pool >= Total(StakesOf(sups), DOMAIN sups)
    BY SlashingKeepsCover
  <2>3. /\ DOMAIN sups \subseteq Operators /\ IsFiniteSet(DOMAIN sups) /\ SLTypeOK
    BY DEF SlashInv, SupInv, SLTypeOK
  <2> HIDE DEF sups, pool
  <2>4. SupInv'
    BY <2>1, <2>2, <2>3, SupplierEndBlockKeeps
  <2>5. DOMAIN claims' \in SUBSET DOMAIN claims
    BY <1>4 DEF CLEndBlock, Restrict, ValidatedClaims
  <2>6. IsFiniteSet(DOMAIN claims')
    BY <2>5, FS_Subset DEF SlashInv
  <2> QED
    BY <2>4, <2>6 DEF SlashInv
<1>5. CASE UNCHANGED clVars
  BY <1>5 DEF clVars, slVars, supplierVars, claimVars, SlashInv, SupInv, SLTypeOK,
              PoolCoversStakes
<1> QED
  BY <1>1, <1>2, <1>3, <1>4, <1>5 DEF CLNext

(* The stakes stay covered through settlement: what slashing burns from    *)
(* the module account of the suppliers it has taken from their records,    *)
(* however often a supplier is slashed in a block and however little of    *)
(* its stake is left, and it leaves a record of the right type.            *)
THEOREM SlashingKeepsStakesCovered == CLSpec => [](SLTypeOK /\ PoolCoversStakes)
<1>1. CLInit => SlashInv
  BY SupplierInit, FS_EmptySet DEF CLInit, SlashInv
<1>2. IInv /\ GridInv /\ SlashInv /\ [CLNext]_clVars => SlashInv'
  BY SlashStepKeeps
<1>3. SlashInv => SLTypeOK /\ PoolCoversStakes
  BY DEF SlashInv, SupInv
<1> QED
  BY <1>1, <1>2, <1>3, ParamsInvariant, PTL DEF CLSpec

-----------------------------------------------------------------------------
(* Refinement.  The contract's view of one key: its open claim ...         *)
OpenClaim(k) ==
    [root     |-> claims[k].root,
     price    |-> ClaimedAmount(k, claims[k].root),
     deadline |-> Deadline(k),
     proven   |-> {lastProof[j] : j \in {k} \cap DOMAIN lastProof}]

(* ... and its closed one.                                                 *)
ClosedClaim(k) ==
    [result |-> outcomes[k].result, root |-> outcomes[k].root, price |-> outcomes[k].priced]

(* The contract's state is these views, key by key.                        *)
LEMMA Views ==
    /\ OpenClaims = [k \in DOMAIN claims |-> OpenClaim(k)]
    /\ ClosedClaims = [k \in DOMAIN outcomes |-> ClosedClaim(k)]
BY DEF OpenClaims, OpenClaim, Deadline, ClosedClaims, ClosedClaim

(* And so it is after a step.                                              *)
LEMMA ViewsAfter ==
    /\ OpenClaims' = [k \in DOMAIN claims' |-> OpenClaim(k)']
    /\ ClosedClaims' = [k \in DOMAIN outcomes' |-> ClosedClaim(k)']
BY DEF OpenClaims, OpenClaim, Deadline, ClosedClaims, ClosedClaim

(* What the contract sees of a claim does not move with the params.        *)
LEMMA OpenClaimStays ==
    ASSUME IInv, CInv, [Next]_paramVars, NEW k \in DOMAIN claims, k \in DOMAIN claims',
           claims'[k].root = claims[k].root, lastProof' = lastProof
    PROVE  OpenClaim(k)' = OpenClaim(k)
<1>1. Deadline(k)' = Deadline(k)
      /\ \A root : ClaimedAmount(k, root)' = ClaimedAmount(k, root)
  BY KeyStays DEF CInv, ClaimOk
<1> QED
  BY <1>1 DEF OpenClaim

(* A step that leaves the claims alone is a stutter of the contract.       *)
LEMMA OtherStepStutters ==
    ASSUME IInv, CInv, [Next]_paramVars, height' = height, UNCHANGED claimVars
    PROVE  UNCHANGED <<height, OpenClaims, ClosedClaims>>
<1>1. UNCHANGED <<claims, proofs, outcomes, lastProof>>
  BY DEF claimVars
<1>2. \A k \in DOMAIN claims : OpenClaim(k)' = OpenClaim(k)
  BY <1>1, OpenClaimStays
<1>3. OpenClaims' = OpenClaims
  BY <1>1, <1>2, Views, ViewsAfter
<1>4. ClosedClaims' = ClosedClaims
  BY <1>1 DEF ClosedClaims
<1> QED
  BY <1>3, <1>4

(* A claim or a proof message touches one open claim.                      *)
LEMMA CreateClaimClaims ==
    ASSUME IInv, CInv, CInv',
           NEW k \in SessionKeys, NEW root \in Roots, NEW sampled \in SampleOutcomes,
           CreateClaim(k, root, sampled)
    PROVE  Contract!ClaimOrProve
<1> DEFINE was == OpenClaims
           is  == OpenClaims'
<1>1. /\ DOMAIN claims' = DOMAIN claims \cup {k}
      /\ \A j \in DOMAIN claims \ {k} : claims'[j] = claims[j]
      /\ claims'[k].root = root
      /\ UNCHANGED <<height, live, history, proofs, outcomes, lastProof>>
  BY DEF CreateClaim, slVars, paramVars, Put
<1>2. /\ DOMAIN was = DOMAIN claims /\ DOMAIN is = DOMAIN claims'
      /\ \A j \in DOMAIN claims : was[j] = OpenClaim(j)
      /\ \A j \in DOMAIN claims' : is[j] = OpenClaim(j)'
  BY Views, ViewsAfter
<1>3. \A j : /\ Deadline(j)' = Deadline(j)
             /\ \A r : ClaimedAmount(j, r)' = ClaimedAmount(j, r)
  BY <1>1 DEF Deadline, ClaimedAmount, GetParamsAtHeight
<1> HIDE DEF was, is
<1>4. \A j \in DOMAIN is \ {k} : j \in DOMAIN was /\ is[j] = was[j]
  BY <1>1, <1>2, <1>3 DEF OpenClaim
<1>5. k \in DOMAIN is /\ DOMAIN was \subseteq DOMAIN is
  BY <1>1, <1>2
<1>0. is[k] = [root |-> root, price |-> ClaimedAmount(k, root),
               deadline |-> Deadline(k),
               proven |-> {lastProof[j] : j \in {k} \cap DOMAIN lastProof}]
  <2>1. is[k] = OpenClaim(k)' /\ claims'[k].root = root
    BY <1>1, <1>2
  <2> QED
    BY <1>1, <1>3, <2>1 DEF OpenClaim
<1>6. /\ is[k].deadline = Deadline(k) /\ is[k].deadline >= height
      /\ k \notin DOMAIN ClosedClaims
  <2>1. ClaimOk(k)' /\ k \notin DOMAIN outcomes'
    BY <1>2, <1>5 DEF CInv
  <2>2. height <= Deadline(k) /\ Deadline(k) \in Nat /\ height \in Nat
    <3>1. OfPastSession(k)
      BY <1>1, <2>1 DEF ClaimOk, OfPastSession, SessionAt, GetParamsAtHeight
    <3> QED
      BY <1>1, <1>3, <2>1, <3>1, KeyWindows, IInvFacts DEF ClaimOk
  <2> QED
    BY <1>0, <1>1, <2>1, <2>2, Views
<1>7. CASE k \in DOMAIN claims
  <2>1. /\ is[k].deadline = was[k].deadline
        /\ is[k].proven = was[k].proven
        /\ is[k].root = was[k].root => is[k].price = was[k].price
    <3>1. was[k] = [root |-> claims[k].root, price |-> ClaimedAmount(k, claims[k].root),
                    deadline |-> Deadline(k),
                    proven |-> {lastProof[j] : j \in {k} \cap DOMAIN lastProof}]
      BY <1>2, <1>7 DEF OpenClaim
    <3> QED
      BY <1>0, <3>1
  <2>2. Contract!Claims(k, was, is)
    BY <1>2, <1>6, <1>7, <2>1 DEF Contract!Claims
  <2> QED
    BY <1>1, <1>4, <1>5, <2>2 DEF Contract!ClaimOrProve, ClosedClaims, was, is
<1>8. CASE k \notin DOMAIN claims
  <2>1. k \notin DOMAIN lastProof
    BY <1>1, <1>6, <1>8, Views DEF CInv
  <2>2. is[k].proven = {}
    BY <1>0, <2>1
  <2>3. Contract!Claims(k, was, is)
    BY <1>2, <1>6, <1>8, <2>2 DEF Contract!Claims
  <2> QED
    BY <1>1, <1>4, <1>5, <2>3 DEF Contract!ClaimOrProve, ClosedClaims, was, is
<1> QED
  BY <1>7, <1>8

(* SubmitProof is the contract's step: it proves a claim, in time.         *)
LEMMA SubmitProofProves ==
    ASSUME IInv, CInv,
           NEW k \in SessionKeys, NEW root \in Roots, SubmitProof(k, root)
    PROVE  Contract!ClaimOrProve
<1> DEFINE was == OpenClaims
           is  == OpenClaims'
<1>1. /\ DOMAIN lastProof' = DOMAIN lastProof \cup {k} /\ lastProof'[k] = root
      /\ \A j \in DOMAIN lastProof \ {k} : lastProof'[j] = lastProof[j]
      /\ UNCHANGED <<height, live, history, claims, outcomes>>
      /\ k \in DOMAIN claims
  BY DEF SubmitProof, slVars, paramVars, Put
<1>2. /\ DOMAIN was = DOMAIN claims /\ DOMAIN is = DOMAIN claims
      /\ \A j \in DOMAIN claims : was[j] = OpenClaim(j) /\ is[j] = OpenClaim(j)'
  BY <1>1, Views, ViewsAfter
<1>3. \A j : /\ Deadline(j)' = Deadline(j)
             /\ \A r : ClaimedAmount(j, r)' = ClaimedAmount(j, r)
  BY <1>1 DEF Deadline, ClaimedAmount, GetParamsAtHeight
<1>4. ASSUME NEW j \in DOMAIN claims, j # k
      PROVE  is[j] = was[j]
  <2>1. {lastProof'[i] : i \in {j} \cap DOMAIN lastProof'}
          = {lastProof[i] : i \in {j} \cap DOMAIN lastProof}
    BY <1>1, <1>4
  <2> QED
    BY <1>1, <1>2, <1>3, <2>1 DEF OpenClaim
<1>5. is[k] = [was[k] EXCEPT !.proven = {root}] /\ root \in is[k].proven
  <2>1. {lastProof'[i] : i \in {k} \cap DOMAIN lastProof'} = {root}
    BY <1>1
  <2>2. is[k] = [root |-> claims[k].root, price |-> ClaimedAmount(k, claims[k].root),
                 deadline |-> Deadline(k), proven |-> {root}]
    BY <1>1, <1>2, <1>3, <2>1 DEF OpenClaim
  <2>3. was[k] = [root |-> claims[k].root, price |-> ClaimedAmount(k, claims[k].root),
                  deadline |-> Deadline(k),
                  proven |-> {lastProof[j] : j \in {k} \cap DOMAIN lastProof}]
    BY <1>1, <1>2 DEF OpenClaim
  <2> HIDE DEF was, is
  <2> QED
    BY <2>2, <2>3
<1> HIDE DEF was, is
<1>6. Contract!Proves(k, was, is)
  BY <1>1, <1>2, <1>5 DEF Contract!Proves
<1> QED
  BY <1>1, <1>2, <1>4, <1>6 DEF Contract!ClaimOrProve, ClosedClaims, was, is

(* The end of a block closes the claims whose deadline it is.              *)
LEMMA EndBlockCloses ==
    ASSUME IInv, CInv, CLEndBlock
    PROVE  Contract!Close
<1> DEFINE was == OpenClaims
           due == {k \in DOMAIN was : was[k].deadline = height}
<1>1. DOMAIN was = DOMAIN claims /\ \A k \in DOMAIN claims : was[k] = OpenClaim(k)
  BY Views
<1>2. due = SettledKeys
  BY <1>1, DueAtDeadline, EndBlockFacts DEF OpenClaim
<1> HIDE DEF was
<1>3. OpenClaims' = Restrict(was, DOMAIN was \ due)
  <2>1. ASSUME NEW k \in DOMAIN claims'
        PROVE  OpenClaim(k)' = OpenClaim(k)
    <3>1. k \in DOMAIN claims /\ claims'[k].root = claims[k].root
      BY <2>1, EndBlockFacts, ValidatedIfProven
    <3> QED
      BY <2>1, <3>1, OpenClaimStays, EndBlockFacts
  <2> QED
    BY <1>1, <1>2, <2>1, ViewsAfter, EndBlockFacts DEF Restrict
<1> HIDE DEF due
<1>4. DOMAIN ClosedClaims' = DOMAIN ClosedClaims \cup due
  BY <1>2, EndBlockFacts, Views, ViewsAfter
<1>5. Restrict(ClosedClaims', DOMAIN ClosedClaims) = ClosedClaims
  <2>1. ASSUME NEW k \in DOMAIN outcomes
        PROVE  ClosedClaim(k)' = ClosedClaim(k)
    <3>1. k \notin SettledKeys
      BY EndBlockFacts DEF CInv
    <3>2. outcomes'[k] = outcomes[k]
      BY <3>1, EndBlockFacts
    <3> QED
      BY <3>2 DEF ClosedClaim
  <2> QED
    BY <2>1, EndBlockFacts, Views, ViewsAfter DEF Restrict
<1>6. ASSUME NEW k \in due
      PROVE  /\ ClosedClaims'[k].result \in Contract!Verdicts(was[k])
             /\ ClosedClaims'[k].root = was[k].root
             /\ ClosedClaims'[k].price = was[k].price
  <2>1. k \in SettledKeys /\ k \in DOMAIN claims /\ k \in DOMAIN outcomes'
    BY <1>2, EndBlockFacts
  <2>2. ClosedClaims'[k] = ClosedClaim(k)'
    BY <2>1, ViewsAfter
  <2>3. /\ ValidatedClaims[k].root = claims[k].root
        /\ ValidatedClaims[k].status = "validated"
             <=> k \in DOMAIN lastProof /\ lastProof[k] = claims[k].root
    BY <2>1, ValidatedIfProven
  <2>4. ClosedClaim(k)' = [result |-> Settlement(k, ValidatedClaims[k]),
                           root   |-> claims[k].root,
                           price  |-> ClaimedAmount(k, claims[k].root)]
    <3>1. /\ outcomes'[k].result = Settlement(k, ValidatedClaims[k])
          /\ outcomes'[k].root = ValidatedClaims[k].root
          /\ outcomes'[k].priced = ClaimedAmount(k, ValidatedClaims[k].root)
      BY <2>1, EndBlockFacts
    <3> QED
      BY <3>1, <2>3 DEF ClosedClaim
  <2>5. /\ was[k].root = claims[k].root
        /\ was[k].price = ClaimedAmount(k, claims[k].root)
        /\ was[k].root \in was[k].proven <=> ValidatedClaims[k].status = "validated"
    <3>1. was[k] = OpenClaim(k)
      BY <1>1, <2>1
    <3> QED
      BY <2>3, <3>1 DEF OpenClaim
  <2>6. Settlement(k, ValidatedClaims[k]) \in Contract!Verdicts(was[k])
    <3>1. Settlement(k, ValidatedClaims[k]) = "expired" =>
            ValidatedClaims[k].status # "validated"
      BY DEF Settlement
    <3>2. Settlement(k, ValidatedClaims[k]) = "settled" =>
            (was[k].price >= ProofThreshold => ValidatedClaims[k].status = "validated")
      BY <2>3, <2>5 DEF Settlement, ProofIsRequired
    <3>3. Settlement(k, ValidatedClaims[k]) \in {"discarded", "expired", "settled"}
      BY DEF Settlement
    <3> QED
      BY <2>5, <3>1, <3>2, <3>3 DEF Contract!Verdicts
  <2> QED
    BY <2>2, <2>4, <2>5, <2>6
<1>7. height' = height + 1
  BY EndBlockFacts
<1>8. \E d \in {{k \in DOMAIN was : was[k].deadline = height}} :
         /\ OpenClaims' = Restrict(was, DOMAIN was \ d)
         /\ DOMAIN ClosedClaims' = DOMAIN ClosedClaims \cup d
         /\ Restrict(ClosedClaims', DOMAIN ClosedClaims) = ClosedClaims
         /\ \A k \in d :
               /\ ClosedClaims'[k].result \in Contract!Verdicts(was[k])
               /\ ClosedClaims'[k].root = was[k].root
               /\ ClosedClaims'[k].price = was[k].price
  <2>1. due \in {{k \in DOMAIN was : was[k].deadline = height}}
    BY DEF due
  <2> QED
    BY <1>3, <1>4, <1>5, <1>6, <2>1
<1> QED
  BY <1>7, <1>8 DEF Contract!Close, Contract!Restrict, Restrict, was

-----------------------------------------------------------------------------
(* Results. *)

(* Claims and proofs keep their types, and no claim is of a session that   *)
(* is still running.                                                       *)
THEOREM ClaimTypes == CLSpec => []CLTypeOK
<1>1. CInv => CLTypeOK
  BY DEF CInv, ClaimOk, OfPastSession, ProofOk, CLTypeOK, Key
<1> QED
  BY <1>1, ClaimsInvariance, PTL

(* The candidate scan of settlement finds every claim in the block its     *)
(* proof window closes in, through every change of the session length and  *)
(* of the windows: none is left on record past its deadline.               *)
THEOREM NoOrphans == CLSpec => []NoClaimIsOrphaned
<1>1. CInv => NoClaimIsOrphaned
  BY DEF CInv, ClaimOk, Deadline, NoClaimIsOrphaned
<1> QED
  BY <1>1, ClaimsInvariance, PTL

(* And none is settled in any other block.                                 *)
THEOREM SettlementIsOnTime == CLSpec => []SettledAsProofWindowCloses
<1>1. CInv => SettledAsProofWindowCloses
  BY DEF CInv, OutcomeOk, Deadline, SettledAsProofWindowCloses
<1> QED
  BY <1>1, ClaimsInvariance, PTL

(* A settled session cannot be claimed, and so not settled, again.         *)
THEOREM SettlementIsOnce == CLSpec => []SettledOnlyOnce
<1>1. CInv => SettledOnlyOnce
  BY DEF CInv, SettledOnlyOnce
<1> QED
  BY <1>1, ClaimsInvariance, PTL

(* No proof outlives its claim: validation reads every proof with its      *)
(* claim and removes it.                                                   *)
THEOREM ProofsHaveClaims == CLSpec => []EveryProofHasItsClaim
<1>1. CInv => EveryProofHasItsClaim
  BY DEF CInv, ProofOk, EveryProofHasItsClaim
<1> QED
  BY <1>1, ClaimsInvariance, PTL

(* A supplier whose last accepted proof is one of the claim on record is   *)
(* not slashed for it.                                                     *)
THEOREM ProvenClaimsAreSafe == CLSpec => []ProvenClaimIsNeverSlashed
<1>1. CInv => ProvenClaimIsNeverSlashed
  BY DEF CInv, OutcomeOk, ProvenClaimIsNeverSlashed
<1> QED
  BY <1>1, ClaimsInvariance, PTL

(* A claim is settled at the price it was made at.                         *)
THEOREM PricesArePinned == CLSpec => []PriceIsPinned
<1>1. CInv => PriceIsPinned
  BY DEF CInv, OutcomeOk, PriceIsPinned
<1> QED
  BY <1>1, ClaimsInvariance, PTL

(* Every step of claims, proofs and settlement is one of the contract.     *)
THEOREM ContractRefinement == CLSpec => ClaimContractIsKept
<1>1. CLInit => Contract!CCInit
  <2> SUFFICES ASSUME CLInit PROVE Contract!CCInit
    OBVIOUS
  <2>1. height = 1 /\ DOMAIN claims = {} /\ DOMAIN outcomes = {}
    BY DEF CLInit, SLInit, Init
  <2> QED
    BY <2>1, Views DEF Contract!CCInit
<1>2. ASSUME IInv, GridInv, CInv, CInv', [CLNext]_clVars
      PROVE  [Contract!CCNext]_(Contract!contractVars)
  <2>1. CASE CLGovern
    <3>1. [Next]_paramVars /\ height' = height /\ UNCHANGED claimVars
      BY <1>2, <2>1, GovernRecords DEF CLGovern, SLGovern, Next
    <3> QED
      BY <1>2, <3>1, OtherStepStutters DEF Contract!contractVars
  <2>2. CASE CLSupplierMessage
    <3>1. UNCHANGED paramVars /\ UNCHANGED claimVars
      BY <2>2, SupplierMessageFrame DEF CLSupplierMessage
    <3> QED
      BY <1>2, <3>1, OtherStepStutters DEF Contract!contractVars, paramVars
  <2>3. CASE ProofMessage
    <3>1. Contract!ClaimOrProve
      BY <1>2, <2>3, CreateClaimClaims, SubmitProofProves DEF ProofMessage
    <3> QED
      BY <3>1 DEF Contract!CCNext
  <2>4. CASE CLEndBlock
    BY <1>2, <2>4, EndBlockCloses DEF Contract!CCNext
  <2>5. CASE UNCHANGED clVars
    <3>1. UNCHANGED paramVars /\ UNCHANGED claimVars
      BY <2>5 DEF clVars, slVars
    <3> QED
      BY <1>2, <3>1, OtherStepStutters DEF Contract!contractVars, paramVars
  <2> QED
    BY <1>2, <2>1, <2>2, <2>3, <2>4, <2>5 DEF CLNext
<1> QED
  BY <1>1, <1>2, ClaimsInvariance, PTL DEF CLSpec, ClaimContractIsKept, Contract!CCSpec
=============================================================================
