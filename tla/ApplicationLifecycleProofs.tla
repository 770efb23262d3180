--------------------- MODULE ApplicationLifecycleProofs ---------------------
(***************************************************************************)
(* What ApplicationLifecycle guarantees for every set of applications,     *)
(* gateways, services and stakes and for every chain of params.            *)
(*                                                                         *)
(* Each write keeps the records and their indexes right, so the stages of  *)
(* a block do, the loop over transfers included; the module account covers *)
(* the stakes throughout.  Sessions that can still be proven keep their    *)
(* application, its services and its ring as long as all epochs measure    *)
(* time alike: what a record says of them is carried by every step.        *)
(***************************************************************************)
EXTENDS ApplicationLifecycle, SharedParamsProofs, TotalsProofs

ServiceConfig == [service : Services, activation : Nat, deactivation : Nat]

Undelegation == [height : Nat, gateway : Gateways]

Application ==
    [stake : Nat, unstakeSessionEndHeight : Nat, services : SUBSET Services,
     history : SUBSET ServiceConfig, delegatees : SUBSET Gateways,
     undelegations : SUBSET Undelegation, transfer : [to : Nat, end : Nat]]

(* A pending transfer is to another address, from an actual session on.    *)
TransferOk(a, app) ==
    HasPendingTransfer(app) =>
        app.transfer.to \in Applications \ {a} /\ app.transfer.end \in Nat \ {0}

RecordOk(a, app) ==
    /\ app \in Application
    /\ TransferOk(a, app)
    /\ app.stake < AppMinStake => IsUnbonding(app)

RecordsOk(apps) ==
    /\ DOMAIN apps \subseteq Applications /\ IsFiniteSet(DOMAIN apps)
    /\ \A a \in DOMAIN apps : RecordOk(a, apps[a])

(* The gateways an application is in the delegation index of.              *)
Indexed(app) == app.delegatees \ UndelegatedGateways(app)

(* ApplicationIndexesAreExact of any store st.                             *)
IndexesExact(st) ==
    /\ st.unstaking = {a \in DOMAIN st.apps : IsUnbonding(st.apps[a])}
    /\ st.transferring = {a \in DOMAIN st.apps : HasPendingTransfer(st.apps[a])}
    /\ st.undelegations =
          UNION {{<<a, g>> : g \in UndelegatedGateways(st.apps[a])} : a \in DOMAIN st.apps}
    /\ st.delegations =
          UNION {{<<g, a>> : g \in Indexed(st.apps[a])} : a \in DOMAIN st.apps}

StoreOk(st) == RecordsOk(st.apps) /\ IndexesExact(st)

-----------------------------------------------------------------------------
(* The indexes. *)

(* Writing records keeps the indexes exact, provided no application loses  *)
(* a delegatee that it is not undelegating from then.                      *)
LEMMA SetApplicationsIsExact ==
    ASSUME NEW st, IndexesExact(st), NEW new,
           \A a \in DOMAIN new \cap DOMAIN st.apps :
              Indexed(st.apps[a]) \subseteq new[a].delegatees \cup UndelegatedGateways(new[a])
    PROVE  IndexesExact(SetApplications(st, new))
<1> DEFINE t    == SetApplications(st, new)
           apps == st.apps
           N    == DOMAIN new
           D    == DOMAIN apps
<1>1. /\ t.apps = PutAll(apps, new)
      /\ t.unstaking = (st.unstaking \ N) \cup {a \in N : IsUnbonding(new[a])}
      /\ t.transferring = (st.transferring \ N) \cup {a \in N : HasPendingTransfer(new[a])}
      /\ t.delegations = (st.delegations \cup DelegationsOf(new))
                           \ Converse(UndelegationsOf(new))
      /\ t.undelegations = {e \in st.undelegations : e[1] \notin N} \cup UndelegationsOf(new)
  BY DEF SetApplications
<1>2. /\ DOMAIN t.apps = D \cup N
      /\ \A a \in N : t.apps[a] = new[a]
      /\ \A a \in D \ N : t.apps[a] = apps[a]
  BY <1>1 DEF PutAll
<1> HIDE DEF t
<1>3. t.unstaking = {a \in DOMAIN t.apps : IsUnbonding(t.apps[a])}
  BY <1>1, <1>2 DEF IndexesExact
<1>4. t.transferring = {a \in DOMAIN t.apps : HasPendingTransfer(t.apps[a])}
  BY <1>1, <1>2 DEF IndexesExact
<1>5. t.undelegations =
         UNION {{<<a, g>> : g \in UndelegatedGateways(t.apps[a])} : a \in DOMAIN t.apps}
  <2> DEFINE Entries == UNION {{<<a, g>> : g \in UndelegatedGateways(t.apps[a])} :
                                 a \in DOMAIN t.apps}
  <2>1. ASSUME NEW e \in t.undelegations
        PROVE  e \in Entries
    <3>1. CASE e \in UndelegationsOf(new)
      <4>1. PICK a \in N : \E g \in UndelegatedGateways(new[a]) : e = <<a, g>>
        BY <3>1 DEF UndelegationsOf
      <4> QED
        BY <1>2, <4>1
    <3>2. CASE e \in st.undelegations /\ e[1] \notin N
      <4>1. PICK a \in D : \E g \in UndelegatedGateways(apps[a]) : e = <<a, g>>
        BY <3>2 DEF IndexesExact
      <4> QED
        BY <1>2, <3>2, <4>1
    <3> QED
      BY <1>1, <2>1, <3>1, <3>2
  <2>2. ASSUME NEW e \in Entries
        PROVE  e \in t.undelegations
    <3>1. PICK a \in D \cup N : \E g \in UndelegatedGateways(t.apps[a]) : e = <<a, g>>
      BY <1>2
    <3>2. PICK g \in UndelegatedGateways(t.apps[a]) : e = <<a, g>>
      BY <3>1
    <3>3. CASE a \in N
      <4>1. e \in UndelegationsOf(new)
        BY <1>2, <3>2, <3>3 DEF UndelegationsOf
      <4> QED
        BY <1>1, <4>1
    <3>4. CASE a \notin N
      <4>1. e \in st.undelegations
        BY <1>2, <3>1, <3>2, <3>4 DEF IndexesExact
      <4> QED
        BY <1>1, <3>2, <3>4, <4>1
    <3> QED
      BY <3>3, <3>4
  <2> HIDE DEF Entries
  <2>3. t.undelegations = Entries
    BY <2>1, <2>2
  <2> QED
    BY <2>3 DEF Entries
<1>6. t.delegations = UNION {{<<g, a>> : g \in Indexed(t.apps[a])} : a \in DOMAIN t.apps}
  <2> DEFINE Entries == UNION {{<<g, a>> : g \in Indexed(t.apps[a])} : a \in DOMAIN t.apps}
  <2>1. ASSUME NEW a, NEW g
        PROVE  /\ <<g, a>> \in DelegationsOf(new) <=> a \in N /\ g \in new[a].delegatees
               /\ <<g, a>> \in Converse(UndelegationsOf(new))
                    <=> a \in N /\ g \in UndelegatedGateways(new[a])
               /\ <<g, a>> \in st.delegations <=> a \in D /\ g \in Indexed(apps[a])
               /\ <<g, a>> \in Entries <=> a \in D \cup N /\ g \in Indexed(t.apps[a])
    <3>1. <<g, a>> \in DelegationsOf(new) <=> a \in N /\ g \in new[a].delegatees
      BY DEF DelegationsOf
    <3>2. <<g, a>> \in Converse(UndelegationsOf(new))
            <=> a \in N /\ g \in UndelegatedGateways(new[a])
      <4>1. <<a, g>> \in UndelegationsOf(new) <=> a \in N /\ g \in UndelegatedGateways(new[a])
        BY DEF UndelegationsOf
      <4>2. \A e \in UndelegationsOf(new) : \E b, h : e = <<b, h>>
        BY DEF UndelegationsOf
      <4>3. <<g, a>> \in Converse(UndelegationsOf(new)) <=> <<a, g>> \in UndelegationsOf(new)
        BY <4>2 DEF Converse
      <4> QED
        BY <4>1, <4>3
    <3>3. <<g, a>> \in st.delegations <=> a \in D /\ g \in Indexed(apps[a])
      BY DEF IndexesExact
    <3>4. <<g, a>> \in Entries <=> a \in D \cup N /\ g \in Indexed(t.apps[a])
      BY <1>2
    <3> QED
      BY <3>1, <3>2, <3>3, <3>4
  <2>2. \A e \in st.delegations \cup DelegationsOf(new) \cup Entries : \E g, a : e = <<g, a>>
    <3>1. \A e \in st.delegations : \E g, a : e = <<g, a>>
      BY DEF IndexesExact
    <3>2. \A e \in DelegationsOf(new) : \E g, a : e = <<g, a>>
      BY DEF DelegationsOf
    <3>3. \A e \in Entries : \E g, a : e = <<g, a>>
      OBVIOUS
    <3> QED
      BY <3>1, <3>2, <3>3
  <2> HIDE DEF Entries
  <2>3. \A g, a : <<g, a>> \in t.delegations <=> <<g, a>> \in Entries
    <3> SUFFICES ASSUME NEW g, NEW a
                 PROVE  <<g, a>> \in t.delegations <=> <<g, a>> \in Entries
      OBVIOUS
    <3>1. CASE a \in N
      <4>1. t.apps[a] = new[a]
        BY <1>2, <3>1
      <4>2. a \in D /\ g \in Indexed(apps[a]) =>
              g \in new[a].delegatees \/ g \in UndelegatedGateways(new[a])
        BY <3>1
      <4>3. g \in Indexed(t.apps[a])
              <=> g \in new[a].delegatees /\ g \notin UndelegatedGateways(new[a])
        BY <4>1 DEF Indexed
      <4> QED
        BY <1>1, <2>1, <3>1, <4>2, <4>3
    <3>2. CASE a \notin N
      <4>1. a \in D => t.apps[a] = apps[a]
        BY <1>2, <3>2
      <4> QED
        BY <1>1, <2>1, <3>2, <4>1
    <3> QED
      BY <3>1, <3>2
  <2>4. \A e \in t.delegations : e \in Entries
    BY <1>1, <2>2, <2>3
  <2>5. \A e \in Entries : e \in t.delegations
    BY <2>2, <2>3
  <2>6. t.delegations = Entries
    BY <2>4, <2>5
  <2> QED
    BY <2>6 DEF Entries
<1> QED
  BY <1>3, <1>4, <1>5, <1>6 DEF IndexesExact, t

(* Removing applications removes their entries.                            *)
LEMMA RemoveApplicationsIsExact ==
    ASSUME NEW st, IndexesExact(st), NEW A \in SUBSET DOMAIN st.apps
    PROVE  IndexesExact(RemoveApplications(st, A))
<1> DEFINE t    == RemoveApplications(st, A)
           apps == st.apps
           D    == DOMAIN apps
<1>1. /\ t.apps = Restrict(apps, D \ A)
      /\ t.unstaking = st.unstaking \ A
      /\ t.transferring = st.transferring \ A
      /\ t.delegations = st.delegations \ DelegationsOf(Restrict(apps, A))
      /\ t.undelegations = {e \in st.undelegations : e[1] \notin A}
  BY DEF RemoveApplications
<1>2. DOMAIN t.apps = D \ A /\ \A a \in D \ A : t.apps[a] = apps[a]
  BY <1>1 DEF Restrict
<1>3. DOMAIN Restrict(apps, A) = A /\ \A a \in A : Restrict(apps, A)[a] = apps[a]
  BY DEF Restrict
<1> HIDE DEF t
<1>4. t.unstaking = {a \in DOMAIN t.apps : IsUnbonding(t.apps[a])}
  BY <1>1, <1>2 DEF IndexesExact
<1>5. t.transferring = {a \in DOMAIN t.apps : HasPendingTransfer(t.apps[a])}
  BY <1>1, <1>2 DEF IndexesExact
<1>6. t.undelegations =
         UNION {{<<a, g>> : g \in UndelegatedGateways(t.apps[a])} : a \in DOMAIN t.apps}
  <2> DEFINE Entries == UNION {{<<a, g>> : g \in UndelegatedGateways(t.apps[a])} :
                                 a \in DOMAIN t.apps}
  <2>1. ASSUME NEW e \in t.undelegations
        PROVE  e \in Entries
    <3>1. e \in st.undelegations /\ e[1] \notin A
      BY <1>1
    <3>2. PICK a \in D : \E g \in UndelegatedGateways(apps[a]) : e = <<a, g>>
      BY <3>1 DEF IndexesExact
    <3> QED
      BY <1>2, <3>1, <3>2
  <2>2. ASSUME NEW e \in Entries
        PROVE  e \in t.undelegations
    <3>1. PICK a \in D \ A : \E g \in UndelegatedGateways(t.apps[a]) : e = <<a, g>>
      BY <1>2
    <3>2. PICK g \in UndelegatedGateways(t.apps[a]) : e = <<a, g>>
      BY <3>1
    <3>3. e \in st.undelegations
      BY <1>2, <3>2 DEF IndexesExact
    <3> QED
      BY <1>1, <3>2, <3>3
  <2> HIDE DEF Entries
  <2>3. t.undelegations = Entries
    BY <2>1, <2>2
  <2> QED
    BY <2>3 DEF Entries
<1>7. t.delegations = UNION {{<<g, a>> : g \in Indexed(t.apps[a])} : a \in DOMAIN t.apps}
  <2> DEFINE Entries == UNION {{<<g, a>> : g \in Indexed(t.apps[a])} : a \in DOMAIN t.apps}
  <2>1. ASSUME NEW e \in t.delegations
        PROVE  e \in Entries
    <3>1. e \in st.delegations /\ e \notin DelegationsOf(Restrict(apps, A))
      BY <1>1
    <3>2. PICK a \in D : \E g \in Indexed(apps[a]) : e = <<g, a>>
      BY <3>1 DEF IndexesExact
    <3>3. PICK g \in Indexed(apps[a]) : e = <<g, a>>
      BY <3>2
    <3>4. a \notin A
      <4> SUFFICES ASSUME a \in A PROVE FALSE
        OBVIOUS
      <4>1. e \in DelegationsOf(Restrict(apps, A))
        BY <1>3, <3>3 DEF DelegationsOf, Indexed
      <4> QED
        BY <3>1, <4>1
    <3> QED
      BY <1>2, <3>3, <3>4
  <2>2. ASSUME NEW e \in Entries
        PROVE  e \in t.delegations
    <3>1. PICK a \in D \ A : \E g \in Indexed(t.apps[a]) : e = <<g, a>>
      BY <1>2
    <3>2. PICK g \in Indexed(t.apps[a]) : e = <<g, a>>
      BY <3>1
    <3>3. e \in st.delegations
      BY <1>2, <3>2 DEF IndexesExact
    <3>4. e \notin DelegationsOf(Restrict(apps, A))
      <4> SUFFICES ASSUME e \in DelegationsOf(Restrict(apps, A)) PROVE FALSE
        OBVIOUS
      <4>1. PICK b \in A : \E h \in apps[b].delegatees : e = <<h, b>>
        BY <1>3 DEF DelegationsOf
      <4> QED
        BY <3>2, <4>1
    <3> QED
      BY <1>1, <3>3, <3>4
  <2> HIDE DEF Entries
  <2>3. t.delegations = Entries
    BY <2>1, <2>2
  <2> QED
    BY <2>3 DEF Entries
<1> QED
  BY <1>4, <1>5, <1>6, <1>7 DEF IndexesExact, t

-----------------------------------------------------------------------------
(* The stakes. *)

Staked(f) == IsFiniteSet(DOMAIN f) /\ \A x \in DOMAIN f : f[x].stake \in Nat

StakeSum(f) == Total(StakesOf(f), DOMAIN f)

(* A set of records and its stakes.                                        *)
LEMMA StakesAreNat ==
    ASSUME NEW f, Staked(f)
    PROVE  /\ \A x \in DOMAIN f : StakesOf(f)[x] = f[x].stake /\ StakesOf(f)[x] \in Int
           /\ StakeSum(f) \in Nat
<1>1. \A x \in DOMAIN f : StakesOf(f)[x] = f[x].stake /\ StakesOf(f)[x] \in Nat
  BY DEF StakesOf, Staked
<1>2. IsFiniteSet(DOMAIN f)
  BY DEF Staked
<1>3. Total(StakesOf(f), DOMAIN f) \in Nat
  BY <1>1, <1>2, TotalIsNat
<1> QED
  BY <1>1, <1>3 DEF StakeSum

(* The sum after one record is written.                                    *)
LEMMA StakesAfterPut ==
    ASSUME NEW f, Staked(f), NEW x, NEW r, r.stake \in Nat
    PROVE  /\ Staked(Put(f, x, r))
           /\ StakeSum(Put(f, x, r))
                = StakeSum(f) + r.stake - (IF x \in DOMAIN f THEN f[x].stake ELSE 0)
<1> DEFINE h == Put(f, x, r)
           D == DOMAIN f
           s == StakesOf(f)
           t == StakesOf(h)
<1>1. DOMAIN h = D \cup {x} /\ h[x] = r /\ \A y \in D \ {x} : h[y] = f[y]
  BY DEF Put, PutAll
<1> HIDE DEF h
<1>2. IsFiniteSet(D) /\ IsFiniteSet(D \cup {x}) /\ \A y \in D : f[y].stake \in Nat
  BY FS_AddElement DEF Staked
<1>3. Staked(h)
  BY <1>1, <1>2 DEF Staked
<1>4. /\ \A y \in D : s[y] = f[y].stake /\ s[y] \in Int
      /\ \A y \in D \cup {x} : t[y] = h[y].stake /\ t[y] \in Int
      /\ StakeSum(f) \in Nat
  BY <1>1, <1>3, StakesAreNat
<1> HIDE DEF s, t
<1>5. t[x] = r.stake /\ \A y \in D \ {x} : t[y] = s[y]
  BY <1>1, <1>4
<1>6. StakeSum(f) = Total(s, D) /\ StakeSum(h) = Total(t, D \cup {x})
  BY <1>1 DEF StakeSum, s, t
<1>7. CASE x \in D
  <2>1. D \cup {x} = D
    BY <1>7
  <2>2. \A y \in D : s[y] \in Int /\ t[y] \in Int /\ (y # x => t[y] = s[y])
    BY <1>4, <1>5
  <2>3. Total(t, D) = Total(s, D) - s[x] + t[x]
    <3> HIDE DEF D
    <3> QED
      BY <1>2, <1>7, <2>2, TotalChanges
  <2>4. StakeSum(h) = StakeSum(f) + r.stake - f[x].stake
    <3>1. s[x] \in Int /\ s[x] = f[x].stake /\ t[x] = r.stake
      BY <1>4, <1>5, <1>7
    <3>2. StakeSum(f) \in Nat
      BY <1>4
    <3>3. StakeSum(h) = Total(t, D)
      BY <1>6, <2>1
    <3> HIDE DEF D
    <3> QED
      BY <1>6, <2>3, <3>1, <3>2, <3>3
  <2> QED
    BY <1>3, <1>7, <2>4 DEF h
<1>8. CASE x \notin D
  <2>1. Total(t, D \cup {x}) = t[x] + Total(t, D)
    BY <1>2, <1>4, <1>8, TotalAdds
  <2>2. Total(t, D) = Total(s, D)
    BY <1>2, <1>4, <1>5, <1>8, TotalOfEquals
  <2>3. StakeSum(h) = StakeSum(f) + r.stake - 0
    <3> HIDE DEF D
    <3> QED
      BY <1>4, <1>5, <1>6, <2>1, <2>2
  <2> QED
    BY <1>3, <1>8, <2>3 DEF h
<1> QED
  BY <1>7, <1>8

(* The sum once some records are gone.                                     *)
LEMMA StakesAfterRemoval ==
    ASSUME NEW f, Staked(f), NEW A \in SUBSET DOMAIN f
    PROVE  /\ Staked(Restrict(f, DOMAIN f \ A))
           /\ \A B \in SUBSET A : Total(StakesOf(f), B) \in Nat
                                  /\ Total(StakesOf(f), B) <= Total(StakesOf(f), A)
           /\ StakeSum(Restrict(f, DOMAIN f \ A)) \in Nat
           /\ StakeSum(Restrict(f, DOMAIN f \ A)) = StakeSum(f) - Total(StakesOf(f), A)
<1> DEFINE D == DOMAIN f
           h == Restrict(f, D \ A)
           s == StakesOf(f)
<1>1. DOMAIN h = D \ A /\ \A y \in D \ A : h[y] = f[y]
  BY DEF Restrict
<1> HIDE DEF h
<1>2. IsFiniteSet(D) /\ IsFiniteSet(D \ A) /\ IsFiniteSet(A)
  <2>1. IsFiniteSet(D)
    BY DEF Staked
  <2>2. D \ A \in SUBSET D
    OBVIOUS
  <2> QED
    BY <2>1, <2>2, FS_Subset
<1>3. Staked(h)
  BY <1>1, <1>2 DEF Staked
<1>4. /\ \A y \in D : s[y] = f[y].stake /\ s[y] \in Int /\ s[y] \in Nat
      /\ StakeSum(f) \in Nat /\ StakeSum(h) \in Nat
  <2>1. \A y \in D : f[y].stake \in Nat
    BY DEF Staked
  <2> QED
    BY <1>3, <2>1, StakesAreNat
<1>5. \A y \in D \ A : StakesOf(h)[y] = s[y]
  BY <1>1, <1>4 DEF StakesOf
<1> HIDE DEF s
<1>6. /\ Total(s, A) \in Int /\ Total(s, D \ A) \in Int
      /\ Total(s, D) = Total(s, A) + Total(s, D \ A)
  <2>1. A \in SUBSET D /\ IsFiniteSet(D) /\ \A y \in D : s[y] \in Int
    BY <1>2, <1>4
  <2> HIDE DEF D
  <2>2. Total(s, A) \in Int
    BY <2>1, TotalSplits
  <2>3. Total(s, D \ A) \in Int
    BY <2>1, TotalSplits
  <2>4. Total(s, D) = Total(s, A) + Total(s, D \ A)
    BY <2>1, TotalSplits
  <2> QED
    BY <2>2, <2>3, <2>4
<1>7. Total(StakesOf(h), D \ A) = Total(s, D \ A)
  <2>1. \A y \in D \ A : s[y] \in Int /\ s[y] = StakesOf(h)[y]
    BY <1>4, <1>5
  <2> QED
    BY <1>2, <2>1, TotalOfEquals
<1>8. ASSUME NEW B \in SUBSET A
      PROVE  Total(s, B) \in Nat /\ Total(s, B) <= Total(s, A)
  <2>1. /\ IsFiniteSet(B) /\ IsFiniteSet(A \ B) /\ A \ B \in SUBSET A
        /\ \A y \in A : s[y] \in Int /\ s[y] \in Nat
    BY <1>2, <1>4, FS_Subset
  <2>2. Total(s, B) \in Nat /\ Total(s, A \ B) \in Nat
    BY <2>1, TotalIsNat
  <2>3. Total(s, A) = Total(s, B) + Total(s, A \ B)
    BY <1>2, <2>1, TotalSplits
  <2> QED
    BY <2>2, <2>3
<1>9. StakeSum(h) = StakeSum(f) - Total(s, A)
  <2>1. StakeSum(f) = Total(s, D) /\ StakeSum(h) = Total(s, D \ A)
    BY <1>1, <1>7 DEF StakeSum, s
  <2> QED
    BY <1>4, <1>6, <2>1
<1> QED
  BY <1>3, <1>4, <1>8, <1>9 DEF h, s

(* The sum when each of some records loses k.                              *)
LEMMA StakesAfterLoss ==
    ASSUME NEW f, Staked(f), NEW new, DOMAIN new \subseteq DOMAIN f, NEW k \in Nat,
           \A x \in DOMAIN new : new[x].stake \in Nat /\ new[x].stake = f[x].stake - k
    PROVE  /\ Staked(PutAll(f, new))
           /\ StakeSum(PutAll(f, new)) = StakeSum(f) - k * Cardinality(DOMAIN new)
           /\ k * Cardinality(DOMAIN new) \in Nat
<1> DEFINE D == DOMAIN f
           N == DOMAIN new
           h == PutAll(f, new)
           s == StakesOf(f)
           t == StakesOf(h)
           c == [x \in D |-> IF x \in N THEN k ELSE 0]
<1>1. DOMAIN h = D /\ \A x \in D : h[x] = IF x \in N THEN new[x] ELSE f[x]
  BY DEF PutAll
<1> HIDE DEF h
<1>2. IsFiniteSet(D) /\ \A x \in D : f[x].stake \in Nat
  BY DEF Staked
<1>3. Staked(h)
  BY <1>1, <1>2 DEF Staked
<1>4. /\ \A x \in D : s[x] = f[x].stake /\ s[x] \in Int /\ t[x] = h[x].stake /\ t[x] \in Int
      /\ StakeSum(f) \in Nat
  BY <1>1, <1>3, StakesAreNat
<1> HIDE DEF s, t
<1>5. \A x \in D : s[x] \in Int /\ c[x] \in Int /\ t[x] = s[x] - c[x]
  BY <1>1, <1>4
<1>6. Total(c, N) = k * Cardinality(N) /\ k * Cardinality(N) \in Nat
  <2>1. IsFiniteSet(N) /\ \A x \in N : c[x] = k
    BY <1>2, FS_Subset
  <2>2. Cardinality(N) \in Nat
    BY <2>1, FS_CardinalityType
  <2>3. \A n \in Nat : k * n \in Nat
    OBVIOUS
  <2> HIDE DEF c
  <2> QED
    BY <2>1, <2>2, <2>3, TotalOfConstant
<1>7. Total(c, D \ N) = 0
  <2>1. IsFiniteSet(D \ N) /\ \A x \in D \ N : c[x] = 0
    <3>1. D \ N \in SUBSET D
      OBVIOUS
    <3> QED
      BY <1>2, <3>1, FS_Subset
  <2>2. Total(c, D \ N) = 0 * Cardinality(D \ N)
    <3> HIDE DEF c
    <3> QED
      BY <2>1, TotalOfConstant
  <2>3. Cardinality(D \ N) \in Nat
    BY <2>1, FS_CardinalityType
  <2> QED
    BY <2>2, <2>3
<1> HIDE DEF c
<1>8. Total(c, D) = k * Cardinality(N)
  <2>1. N \in SUBSET D
    OBVIOUS
  <2>2. Total(c, D) = Total(c, N) + Total(c, D \ N)
    <3> HIDE DEF D, N
    <3> QED
      BY <1>2, <1>5, <2>1, TotalSplits
  <2> QED
    BY <1>6, <1>7, <2>2
<1>9. Total(t, D) = Total(s, D) - Total(c, D)
  <2> HIDE DEF D
  <2> QED
    BY <1>2, <1>5, TotalOfDifferences
<1>10. StakeSum(h) = StakeSum(f) - k * Cardinality(N)
  <2>1. StakeSum(f) = Total(s, D) /\ StakeSum(h) = Total(t, D)
    BY <1>1 DEF StakeSum, s, t
  <2> QED
    BY <1>8, <1>9, <2>1
<1> QED
  BY <1>3, <1>6, <1>10 DEF h

-----------------------------------------------------------------------------
(* The store. *)

(* The records of a store that is in order.                                *)
LEMMA StoreRecords ==
    ASSUME NEW st, StoreOk(st)
    PROVE  /\ DOMAIN st.apps \subseteq Applications /\ IsFiniteSet(DOMAIN st.apps)
           /\ \A a \in DOMAIN st.apps : RecordOk(a, st.apps[a]) /\ st.apps[a] \in Application
           /\ Staked(st.apps)
           /\ StakeSum(st.apps) \in Nat
<1>1. /\ DOMAIN st.apps \subseteq Applications /\ IsFiniteSet(DOMAIN st.apps)
      /\ \A a \in DOMAIN st.apps : RecordOk(a, st.apps[a]) /\ st.apps[a] \in Application
  BY DEF StoreOk, RecordsOk, RecordOk
<1>2. Staked(st.apps)
  BY <1>1 DEF Staked, Application
<1> QED
  BY <1>1, <1>2, StakesAreNat

(* What may be written for a, given what is there.                         *)
Writable(st, a, app) ==
    /\ RecordOk(a, app)
    /\ a \in DOMAIN st.apps =>
          Indexed(st.apps[a]) \subseteq app.delegatees \cup UndelegatedGateways(app)

(* Records that each take k from the stake.                                *)
LEMMA RewritesKeepStore ==
    ASSUME NEW st, StoreOk(st), NEW new, DOMAIN new \subseteq DOMAIN st.apps, NEW k \in Nat,
           \A a \in DOMAIN new : /\ Writable(st, a, new[a])
                                 /\ new[a].stake = st.apps[a].stake - k
    PROVE  LET t == SetApplications(st, new)
           IN  /\ StoreOk(t)
               /\ DOMAIN t.apps = DOMAIN st.apps
               /\ \A a \in DOMAIN st.apps :
                     t.apps[a] = IF a \in DOMAIN new THEN new[a] ELSE st.apps[a]
               /\ StakeSum(t.apps) = StakeSum(st.apps) - k * Cardinality(DOMAIN new)
               /\ k * Cardinality(DOMAIN new) \in Nat
<1> DEFINE t == SetApplications(st, new)
<1>1. /\ DOMAIN st.apps \subseteq Applications /\ IsFiniteSet(DOMAIN st.apps)
      /\ \A a \in DOMAIN st.apps : RecordOk(a, st.apps[a])
      /\ Staked(st.apps)
  BY StoreRecords
<1>2. IndexesExact(t)
  BY SetApplicationsIsExact DEF StoreOk, Writable
<1>3. t.apps = PutAll(st.apps, new)
  BY DEF SetApplications
<1>4. DOMAIN t.apps = DOMAIN st.apps
      /\ \A a \in DOMAIN st.apps : t.apps[a] = IF a \in DOMAIN new THEN new[a] ELSE st.apps[a]
  BY <1>3 DEF PutAll
<1>5. StoreOk(t)
  BY <1>1, <1>2, <1>4 DEF StoreOk, RecordsOk, Writable
<1>6. \A a \in DOMAIN new : new[a].stake \in Nat
  BY DEF Writable, RecordOk, Application
<1>7. StakeSum(t.apps) = StakeSum(st.apps) - k * Cardinality(DOMAIN new)
      /\ k * Cardinality(DOMAIN new) \in Nat
  BY <1>1, <1>3, <1>6, StakesAfterLoss
<1> QED
  BY <1>4, <1>5, <1>7

(* One record, of an application that may be new.                          *)
LEMMA SetKeepsStore ==
    ASSUME NEW st, StoreOk(st), NEW a \in Applications, NEW app, Writable(st, a, app)
    PROVE  LET t == SetApplication(st, a, app)
           IN  /\ StoreOk(t)
               /\ DOMAIN t.apps = DOMAIN st.apps \cup {a}
               /\ t.apps[a] = app
               /\ \A b \in DOMAIN st.apps \ {a} : t.apps[b] = st.apps[b]
               /\ StakeSum(t.apps)
                    = StakeSum(st.apps) + app.stake
                        - (IF a \in DOMAIN st.apps THEN st.apps[a].stake ELSE 0)
<1> DEFINE new == [x \in {a} |-> app]
           t   == SetApplications(st, new)
<1>1. /\ DOMAIN st.apps \subseteq Applications /\ IsFiniteSet(DOMAIN st.apps)
      /\ \A b \in DOMAIN st.apps : RecordOk(b, st.apps[b])
      /\ Staked(st.apps)
  BY StoreRecords
<1>2. DOMAIN new = {a} /\ new[a] = app
  OBVIOUS
<1>3. t.apps = Put(st.apps, a, app)
  BY DEF SetApplications, Put
<1> HIDE DEF new
<1>4. IndexesExact(t)
  BY <1>2, SetApplicationsIsExact DEF StoreOk, Writable
<1>5. /\ DOMAIN t.apps = DOMAIN st.apps \cup {a}
      /\ t.apps[a] = app
      /\ \A b \in DOMAIN st.apps \ {a} : t.apps[b] = st.apps[b]
  BY <1>3 DEF Put, PutAll
<1>6. IsFiniteSet(DOMAIN st.apps \cup {a})
  BY <1>1, FS_AddElement
<1>7. StoreOk(t)
  BY <1>1, <1>4, <1>5, <1>6 DEF StoreOk, RecordsOk, Writable
<1>8. app.stake \in Nat
  BY DEF Writable, RecordOk, Application
<1>9. StakeSum(t.apps) = StakeSum(st.apps) + app.stake
                           - (IF a \in DOMAIN st.apps THEN st.apps[a].stake ELSE 0)
  BY <1>1, <1>3, <1>8, StakesAfterPut
<1> QED
  BY <1>5, <1>7, <1>9 DEF SetApplication, new

(* Applications that are removed.                                          *)
LEMMA RemovalKeepsStore ==
    ASSUME NEW st, StoreOk(st), NEW A \in SUBSET DOMAIN st.apps
    PROVE  LET t == RemoveApplications(st, A)
           IN  /\ StoreOk(t)
               /\ DOMAIN t.apps = DOMAIN st.apps \ A
               /\ \A a \in DOMAIN st.apps \ A : t.apps[a] = st.apps[a]
               /\ StakeSum(t.apps) = StakeSum(st.apps) - Total(StakesOf(st.apps), A)
               /\ \A B \in SUBSET A :
                     /\ Total(StakesOf(st.apps), B) \in Nat
                     /\ Total(StakesOf(st.apps), B) <= Total(StakesOf(st.apps), A)
<1> DEFINE t == RemoveApplications(st, A)
<1>1. /\ DOMAIN st.apps \subseteq Applications /\ IsFiniteSet(DOMAIN st.apps)
      /\ \A a \in DOMAIN st.apps : RecordOk(a, st.apps[a])
      /\ Staked(st.apps)
  BY StoreRecords
<1>2. IndexesExact(t)
  BY RemoveApplicationsIsExact DEF StoreOk
<1>3. t.apps = Restrict(st.apps, DOMAIN st.apps \ A)
  BY DEF RemoveApplications
<1>4. DOMAIN t.apps = DOMAIN st.apps \ A
      /\ \A a \in DOMAIN st.apps \ A : t.apps[a] = st.apps[a]
  BY <1>3 DEF Restrict
<1>5. IsFiniteSet(DOMAIN st.apps \ A)
  <2>1. DOMAIN st.apps \ A \in SUBSET (DOMAIN st.apps)
    OBVIOUS
  <2> QED
    BY <1>1, <2>1, FS_Subset
<1>6. StoreOk(t)
  BY <1>1, <1>2, <1>4, <1>5 DEF StoreOk, RecordsOk
<1>7. /\ StakeSum(t.apps) = StakeSum(st.apps) - Total(StakesOf(st.apps), A)
      /\ \A B \in SUBSET A : /\ Total(StakesOf(st.apps), B) \in Nat
                             /\ Total(StakesOf(st.apps), B) <= Total(StakesOf(st.apps), A)
  BY <1>1, <1>3, StakesAfterRemoval
<1> QED
  BY <1>4, <1>6, <1>7

-----------------------------------------------------------------------------
(* The records written.                                                    *)

(* The running session, by live, ends at this block or later.              *)
LEMMA SessionOfNow ==
    ASSUME IInv
    PROVE  /\ height \in Nat \ {0}
           /\ GetSessionEndHeight(live, height) \in Nat \ {0}
           /\ height <= GetSessionEndHeight(live, height)
           /\ GetNextSessionStartHeight(live, height) \in Nat \ {0}
           /\ GetNextSessionStartHeight(live, height) = GetSessionEndHeight(live, height) + 1
<1>1. height \in Nat \ {0} /\ live \in Params /\ live.numBlocksPerSession >= 1
  BY IInvFacts DEF ValidParams, ValidateBasic
<1>2. GetSessionEndHeight(live, height) \in Nat /\ height <= GetSessionEndHeight(live, height)
  BY <1>1, GridBounds
<1> QED
  BY <1>1, <1>2 DEF GetNextSessionStartHeight

(* Two records that differ in their services only.                         *)
SameButServices(old, new) ==
    /\ new.stake = old.stake
    /\ new.unstakeSessionEndHeight = old.unstakeSessionEndHeight
    /\ new.delegatees = old.delegatees
    /\ new.undelegations = old.undelegations
    /\ new.transfer = old.transfer

(* A change of services touches nothing else.                              *)
LEMMA ServiceChangeKeepsRest ==
    ASSUME IInv, NEW app \in Application, NEW services \in SUBSET Services
    PROVE  /\ RecordServiceConfigChange(app, services) \in Application
           /\ SameButServices(app, RecordServiceConfigChange(app, services))
<1> DEFINE next == GetNextSessionStartHeight(live, height)
           past == IF app.history # {} THEN app.history
                   ELSE [service : app.services, activation : {1},
                         deactivation : {NoDeactivation}]
           kept == {c \in past : c.activation # next}
           ended == {[c EXCEPT !.deactivation =
                         IF @ = NoDeactivation THEN next ELSE @] : c \in kept}
           begun == [service : services, activation : {next}, deactivation : {NoDeactivation}]
<1>1. CASE services = app.services
  <2>1. RecordServiceConfigChange(app, services) = app
    BY <1>1 DEF RecordServiceConfigChange
  <2> QED
    BY <2>1 DEF SameButServices
<1>2. CASE services # app.services
  <2>1. RecordServiceConfigChange(app, services)
          = [app EXCEPT !.services = services, !.history = ended \cup begun]
    BY <1>2 DEF RecordServiceConfigChange
  <2>2. next \in Nat
    BY SessionOfNow
  <2>3. past \subseteq ServiceConfig
    BY DEF Application, ServiceConfig, NoDeactivation
  <2>4. begun \subseteq ServiceConfig
    BY <2>2 DEF ServiceConfig, NoDeactivation
  <2>5. ended \subseteq ServiceConfig
    <3> HIDE DEF past, next
    <3> QED
      BY <2>2, <2>3 DEF ServiceConfig, NoDeactivation
  <2>6. PICK hist \in SUBSET ServiceConfig : hist = ended \cup begun
    BY <2>4, <2>5
  <2> HIDE DEF ended, begun
  <2> DEFINE r == [app EXCEPT !.services = services, !.history = hist]
  <2>7. r \in Application /\ SameButServices(app, r)
    BY DEF Application, SameButServices
  <2> QED
    BY <2>1, <2>6, <2>7
<1> QED
  BY <1>1, <1>2

(* Gateways that leave the delegatees go to the undelegations.             *)
LEMMA UndelegatedRecord ==
    ASSUME IInv, NEW a, NEW app, RecordOk(a, app), NEW gs \in SUBSET Gateways
    PROVE  LET new == Undelegated(app, gs)
           IN  /\ RecordOk(a, new)
               /\ new.stake = app.stake
               /\ new.unstakeSessionEndHeight = app.unstakeSessionEndHeight
               /\ new.transfer = app.transfer
               /\ new.services = app.services /\ new.history = app.history
               /\ new.delegatees = app.delegatees \ gs
               /\ new.undelegations = app.undelegations
                     \cup [height : {GetSessionEndHeight(live, height)}, gateway : gs]
               /\ UndelegatedGateways(new) = UndelegatedGateways(app) \cup gs
<1> DEFINE end == GetSessionEndHeight(live, height)
           new == [app EXCEPT !.delegatees = app.delegatees \ gs,
                              !.undelegations = app.undelegations
                                                  \cup [height : {end}, gateway : gs]]
<1>1. end \in Nat
  BY SessionOfNow
<1>2. Undelegated(app, gs) = new
  BY DEF Undelegated
<1> HIDE DEF end
<1>3. [height : {end}, gateway : gs] \subseteq Undelegation
  BY <1>1 DEF Undelegation
<1>4. app \in Application
  BY DEF RecordOk
<1>5. /\ new.stake = app.stake
      /\ new.unstakeSessionEndHeight = app.unstakeSessionEndHeight
      /\ new.transfer = app.transfer
      /\ new.services = app.services /\ new.history = app.history
      /\ new.delegatees = app.delegatees \ gs
      /\ new.undelegations = app.undelegations \cup [height : {end}, gateway : gs]
  BY <1>4 DEF Application
<1>6. new \in Application
  BY <1>3, <1>4 DEF Application
<1> HIDE DEF new
<1>7. UndelegatedGateways(new) = UndelegatedGateways(app) \cup gs
  <2>1. {u.gateway : u \in [height : {end}, gateway : gs]} = gs
    <3>1. \A g \in gs : [height |-> end, gateway |-> g] \in [height : {end}, gateway : gs]
                        /\ [height |-> end, gateway |-> g].gateway = g
      OBVIOUS
    <3> QED
      BY <3>1
  <2> QED
    BY <1>5, <2>1 DEF UndelegatedGateways
<1>8. RecordOk(a, new)
  BY <1>5, <1>6 DEF RecordOk, TransferOk, HasPendingTransfer, IsUnbonding
<1> QED
  BY <1>2, <1>5, <1>7, <1>8 DEF end

-----------------------------------------------------------------------------
(* The inductive invariant.  The sum of the stakes needs a finite number   *)
(* of applications and gateways, though any set of them may stake.         *)

Gateway == [stake : Nat, unstakeSessionEndHeight : Nat]

GatewaysOk ==
    /\ DOMAIN gateways \subseteq Gateways /\ IsFiniteSet(DOMAIN gateways)
    /\ \A g \in DOMAIN gateways : gateways[g] \in Gateway
    /\ gatewayPool = StakeSum(gateways)

ALInv ==
    /\ GatewaysOk
    /\ StoreOk(store)
    /\ appPool \in Int /\ appPool >= StakeSum(store.apps)

(* Below, a step of the applications is a step of the shared module.       *)
LEMMA ApplicationStepOfParams == [ALNext]_alVars => [Next]_paramVars
BY DEF ALNext, ALGovern, ALGatewayMessage, GatewayMessage, StakeGateway, UnstakeGateway,
       ApplicationMessage, StakeNewApplication, UpdateApplication, UnstakeApplication,
       TransferApplication, DelegateToGateway, UndelegateFromGateway, ALBlockEnds, ALEndBlock,
       Next, alVars, glVars

(* So what is invariant of the shared params is so here.                   *)
LEMMA ApplicationParams == ALSpec => [](IInv /\ GridInv)
<1>1. ALInit => Init
  BY DEF ALInit, GatewayInit
<1>2. ALSpec => Spec
  BY <1>1, ApplicationStepOfParams, PTL DEF ALSpec, Spec
<1> QED
  BY <1>2, GridInvariance, PTL

(* The gateways' records, and what they sum to.                            *)
LEMMA GatewaysStaked ==
    ASSUME GatewaysOk
    PROVE  Staked(gateways) /\ StakeSum(gateways) \in Nat
<1>1. Staked(gateways)
  BY DEF GatewaysOk, Staked, Gateway
<1> QED
  BY <1>1, StakesAreNat

(* A gateway stakes, stakes more or unstakes.                              *)
LEMMA GatewayMessageKeeps ==
    ASSUME IInv, GatewaysOk, GatewayMessage
    PROVE  GatewaysOk'
<1>1. Staked(gateways) /\ StakeSum(gateways) \in Nat
  BY GatewaysStaked
<1>2. PICK g \in Gateways :
         (\E amount \in GatewayStakes : StakeGateway(g, amount)) \/ UnstakeGateway(g)
  BY DEF GatewayMessage
<1>3. ASSUME NEW amount \in GatewayStakes, StakeGateway(g, amount)
      PROVE  GatewaysOk'
  <2> DEFINE r == [stake |-> amount, unstakeSessionEndHeight |-> NotUnstaking]
             old == IF g \in DOMAIN gateways THEN gateways[g].stake ELSE 0
  <2>1. amount \in Nat
    BY GatewayAssumption
  <2>2. gateways' = Put(gateways, g, r) /\ gatewayPool' = gatewayPool + amount - old
    BY <1>3 DEF StakeGateway
  <2>3. r \in Gateway /\ r.stake = amount
    BY <2>1 DEF Gateway, NotUnstaking
  <2>4. old \in Nat
    BY DEF GatewaysOk, Gateway
  <2> HIDE DEF r
  <2>5. Staked(gateways') /\ StakeSum(gateways') = StakeSum(gateways) + amount - old
    <3>1. r.stake \in Nat
      BY <2>1, <2>3
    <3>2. Staked(Put(gateways, g, r))
          /\ StakeSum(Put(gateways, g, r)) = StakeSum(gateways) + r.stake - old
      BY <1>1, <3>1, StakesAfterPut
    <3> QED
      BY <2>2, <2>3, <3>2
  <2>6. DOMAIN gateways' \subseteq Gateways
        /\ \A x \in DOMAIN gateways' : gateways'[x] \in Gateway
    BY <2>2, <2>3 DEF GatewaysOk, Put, PutAll
  <2>7. IsFiniteSet(DOMAIN gateways')
    BY <2>5 DEF Staked
  <2>8. gatewayPool' = StakeSum(gateways')
    BY <2>2, <2>5 DEF GatewaysOk
  <2> QED
    BY <2>6, <2>7, <2>8 DEF GatewaysOk
<1>4. CASE UnstakeGateway(g)
  <2> DEFINE end == GetSessionEndHeight(live, height)
             r == [gateways[g] EXCEPT !.unstakeSessionEndHeight = end]
  <2>1. /\ g \in DOMAIN gateways /\ gatewayPool' = gatewayPool
        /\ gateways' = [gateways EXCEPT ![g].unstakeSessionEndHeight = end]
    BY <1>4 DEF UnstakeGateway
  <2>2. end \in Nat
    BY SessionOfNow
  <2> HIDE DEF end
  <2>3. DOMAIN gateways' = DOMAIN gateways
        /\ \A x \in DOMAIN gateways : gateways'[x] = IF x = g THEN r ELSE gateways[x]
    BY <2>1
  <2>4. r \in Gateway /\ r.stake = gateways[g].stake
    BY <2>1, <2>2 DEF GatewaysOk, Gateway
  <2> HIDE DEF r
  <2>5. StakesOf(gateways') = StakesOf(gateways)
    BY <2>3, <2>4 DEF StakesOf
  <2>6. \A x \in DOMAIN gateways : gateways'[x] \in Gateway
    BY <2>3, <2>4 DEF GatewaysOk
  <2> QED
    BY <2>1, <2>3, <2>5, <2>6 DEF GatewaysOk, StakeSum
<1> QED
  BY <1>2, <1>3, <1>4

(* A gateway that is released takes its coins along.                       *)
LEMMA GatewayEndBlockKeeps ==
    ASSUME GatewaysOk, GatewayEndBlock
    PROVE  GatewaysOk'
<1> DEFINE U == UnbondedGateways
<1>1. gateways' = Restrict(gateways, DOMAIN gateways \ U)
      /\ gatewayPool' = gatewayPool - Total(StakesOf(gateways), U)
  BY DEF GatewayEndBlock, GatewaysLeft
<1>2. U \in SUBSET DOMAIN gateways
  BY DEF UnbondedGateways
<1> HIDE DEF U
<1>3. Staked(gateways')
      /\ StakeSum(gateways') = StakeSum(gateways) - Total(StakesOf(gateways), U)
  <2>1. Staked(gateways)
    BY GatewaysStaked
  <2> QED
    BY <1>1, <1>2, <2>1, StakesAfterRemoval
<1>4. DOMAIN gateways' \subseteq Gateways
      /\ \A g \in DOMAIN gateways' : gateways'[g] \in Gateway
  BY <1>1 DEF Restrict, GatewaysOk
<1>5. IsFiniteSet(DOMAIN gateways')
  BY <1>3 DEF Staked
<1>6. gatewayPool' = StakeSum(gateways')
  BY <1>1, <1>3 DEF GatewaysOk
<1> QED
  BY <1>4, <1>5, <1>6 DEF GatewaysOk

-----------------------------------------------------------------------------
(* Messages of the applications. *)

(* A message writes one record, and the pool follows its stake.            *)
LEMMA WriteKeeps ==
    ASSUME ALInv, NEW a \in Applications, NEW app, Writable(store, a, app),
           store' = SetApplication(store, a, app), UNCHANGED gatewayVars,
           appPool' = appPool + app.stake
                        - (IF a \in DOMAIN store.apps THEN store.apps[a].stake ELSE 0)
    PROVE  ALInv'
<1> DEFINE old == IF a \in DOMAIN store.apps THEN store.apps[a].stake ELSE 0
<1>1. StoreOk(store) /\ StakeSum(store.apps) \in Nat
      /\ \A b \in DOMAIN store.apps : store.apps[b] \in Application
  BY StoreRecords DEF ALInv
<1>2. StoreOk(store') /\ StakeSum(store'.apps) = StakeSum(store.apps) + app.stake - old
  BY <1>1, SetKeepsStore
<1>3. app.stake \in Nat /\ old \in Nat
  BY <1>1 DEF Writable, RecordOk, Application
<1>4. appPool' = appPool + app.stake - old /\ appPool \in Int
      /\ appPool >= StakeSum(store.apps)
  BY DEF ALInv
<1> HIDE DEF old
<1>5. appPool' \in Int /\ appPool' >= StakeSum(store'.apps)
  BY <1>1, <1>2, <1>3, <1>4
<1>6. GatewaysOk'
  BY DEF ALInv, GatewaysOk, gatewayVars
<1> QED
  BY <1>2, <1>5, <1>6 DEF ALInv

(* Every message of an application leaves the invariant.                   *)
LEMMA ApplicationMessageKeeps ==
    ASSUME IInv, ALInv, ApplicationMessage
    PROVE  ALInv'
<1> DEFINE apps == store.apps
           D    == DOMAIN apps
           end  == GetSessionEndHeight(live, height)
<1>1. PICK a \in Applications :
         \/ \E amount \in AppStakes, service \in Services :
               \/ StakeNewApplication(a, amount, {service})
               \/ UpdateApplication(a, amount, {service})
         \/ UnstakeApplication(a)
         \/ \E to \in Applications : TransferApplication(a, to)
         \/ \E g \in Gateways : DelegateToGateway(a, g) \/ UndelegateFromGateway(a, g)
  BY DEF ApplicationMessage
<1>2. StoreOk(store) /\ D \subseteq Applications
      /\ \A b \in D : RecordOk(b, apps[b]) /\ apps[b] \in Application
  BY StoreRecords DEF ALInv
<1>3. end \in Nat \ {0} /\ appPool \in Int
  BY SessionOfNow DEF ALInv
<1>4. ASSUME NEW amount \in AppStakes, NEW service \in Services,
             StakeNewApplication(a, amount, {service})
      PROVE  ALInv'
  <2> DEFINE new == [stake |-> amount, unstakeSessionEndHeight |-> NotUnstaking,
                     services |-> {service}, history |-> {}, delegatees |-> {},
                     undelegations |-> {}, transfer |-> NoTransfer]
  <2>1. /\ a \notin D /\ amount >= AppMinStake /\ UNCHANGED glVars
        /\ store' = SetApplication(store, a, new) /\ appPool' = appPool + amount
    BY <1>4 DEF StakeNewApplication
  <2>2. amount \in Nat /\ AppMinStake \in Nat
    BY ApplicationAssumption
  <2>3. new \in Application
    BY <2>2 DEF Application, NotUnstaking, NoTransfer
  <2>4. RecordOk(a, new)
    BY <2>1, <2>2, <2>3 DEF RecordOk, TransferOk, HasPendingTransfer
  <2>5. Writable(store, a, new) /\ new.stake = amount
    BY <2>1, <2>4 DEF Writable
  <2>6. appPool' = appPool + new.stake - (IF a \in D THEN apps[a].stake ELSE 0)
    BY <1>3, <2>1, <2>2
  <2> HIDE DEF new
  <2> QED
    BY <2>1, <2>5, <2>6, WriteKeeps DEF glVars
<1>5. ASSUME NEW amount \in AppStakes, NEW service \in Services,
             UpdateApplication(a, amount, {service})
      PROVE  ALInv'
  <2> DEFINE mid == RecordServiceConfigChange(apps[a], {service})
             new == [mid EXCEPT !.stake = amount, !.unstakeSessionEndHeight = NotUnstaking]
  <2>1. /\ a \in D /\ amount >= AppMinStake /\ UNCHANGED glVars
        /\ store' = SetApplication(store, a, new)
        /\ appPool' = appPool + amount - apps[a].stake
    BY <1>5 DEF UpdateApplication
  <2>2. amount \in Nat /\ AppMinStake \in Nat
    BY ApplicationAssumption
  <2>3. mid \in Application /\ SameButServices(apps[a], mid)
    <3>1. {service} \in SUBSET Services
      OBVIOUS
    <3> QED
      BY <1>2, <2>1, <3>1, ServiceChangeKeepsRest
  <2> HIDE DEF mid
  <2>4. new \in Application
    BY <2>2, <2>3 DEF Application, NotUnstaking
  <2>5. /\ new.stake = amount /\ new.transfer = mid.transfer
        /\ new.delegatees = mid.delegatees /\ new.undelegations = mid.undelegations
    BY <2>3 DEF Application
  <2> HIDE DEF new
  <2>6. RecordOk(a, new)
    <3>1. TransferOk(a, apps[a])
      BY <1>2, <2>1 DEF RecordOk
    <3>2. TransferOk(a, new)
      BY <2>3, <2>5, <3>1 DEF TransferOk, HasPendingTransfer, SameButServices
    <3> QED
      BY <2>1, <2>2, <2>4, <2>5, <3>2 DEF RecordOk
  <2>7. Writable(store, a, new)
    BY <2>3, <2>5, <2>6 DEF Writable, Indexed, SameButServices
  <2>8. appPool' = appPool + new.stake - (IF a \in D THEN apps[a].stake ELSE 0)
    BY <2>1, <2>5
  <2> QED
    BY <2>1, <2>7, <2>8, WriteKeeps DEF glVars
<1>6. ASSUME a \in D, UNCHANGED <<glVars, appPool>>, NEW new, RecordOk(a, new),
             new.stake = apps[a].stake,
             Indexed(apps[a]) \subseteq new.delegatees \cup UndelegatedGateways(new),
             store' = SetApplication(store, a, new)
      PROVE  ALInv'
  <2>1. Writable(store, a, new)
    BY <1>6 DEF Writable
  <2>2. apps[a].stake \in Nat
    BY <1>2, <1>6 DEF Application
  <2>3. appPool' = appPool + new.stake - (IF a \in D THEN apps[a].stake ELSE 0)
    BY <1>3, <1>6, <2>2
  <2> QED
    BY <1>6, <2>1, <2>3, WriteKeeps DEF glVars
<1>7. CASE UnstakeApplication(a)
  <2> DEFINE new == [apps[a] EXCEPT !.unstakeSessionEndHeight = end]
  <2>1. a \in D /\ store' = SetApplication(store, a, new) /\ UNCHANGED <<glVars, appPool>>
    BY <1>7 DEF UnstakeApplication
  <2>2. new \in Application
    BY <1>2, <1>3, <2>1 DEF Application
  <2>3. /\ new.stake = apps[a].stake /\ new.unstakeSessionEndHeight = end
        /\ new.transfer = apps[a].transfer /\ new.delegatees = apps[a].delegatees
        /\ new.undelegations = apps[a].undelegations
    BY <1>2, <2>1 DEF Application
  <2> HIDE DEF new
  <2>4. RecordOk(a, new)
    BY <1>2, <1>3, <2>1, <2>2, <2>3
       DEF RecordOk, TransferOk, HasPendingTransfer, IsUnbonding, NotUnstaking
  <2>5. Indexed(apps[a]) \subseteq new.delegatees \cup UndelegatedGateways(new)
    BY <2>3 DEF Indexed
  <2> QED
    BY <1>6, <2>1, <2>3, <2>4, <2>5
<1>8. ASSUME NEW to \in Applications, TransferApplication(a, to)
      PROVE  ALInv'
  <2> DEFINE new == [apps[a] EXCEPT !.transfer = [to |-> to, end |-> end]]
  <2>1. a \in D /\ to \notin D
        /\ store' = SetApplication(store, a, new) /\ UNCHANGED <<glVars, appPool>>
    BY <1>8 DEF TransferApplication
  <2>2. new \in Application
    <3>1. [to |-> to, end |-> end] \in [to : Nat, end : Nat]
      BY <1>3, ApplicationAssumption
    <3> QED
      BY <1>2, <2>1, <3>1 DEF Application
  <2>3. /\ new.stake = apps[a].stake /\ new.transfer = [to |-> to, end |-> end]
        /\ new.unstakeSessionEndHeight = apps[a].unstakeSessionEndHeight
        /\ new.delegatees = apps[a].delegatees
        /\ new.undelegations = apps[a].undelegations
    BY <1>2, <2>1 DEF Application
  <2> HIDE DEF new
  <2>4. TransferOk(a, new)
    BY <1>3, <2>1, <2>3 DEF TransferOk
  <2>5. RecordOk(a, new)
    BY <1>2, <2>1, <2>2, <2>3, <2>4 DEF RecordOk, IsUnbonding
  <2>6. Indexed(apps[a]) \subseteq new.delegatees \cup UndelegatedGateways(new)
    BY <2>3 DEF Indexed
  <2> QED
    BY <1>6, <2>1, <2>3, <2>5, <2>6
<1>9. ASSUME NEW g \in Gateways, DelegateToGateway(a, g)
      PROVE  ALInv'
  <2> DEFINE kept == {u \in apps[a].undelegations : u.gateway # g}
             new  == [apps[a] EXCEPT !.delegatees = apps[a].delegatees \cup {g},
                                     !.undelegations = kept]
  <2>1. a \in D /\ store' = SetApplication(store, a, new) /\ UNCHANGED <<glVars, appPool>>
    BY <1>9 DEF DelegateToGateway
  <2>2. kept \subseteq apps[a].undelegations
    OBVIOUS
  <2> HIDE DEF kept
  <2>3. new \in Application
    BY <1>2, <2>1, <2>2 DEF Application
  <2>4. /\ new.stake = apps[a].stake /\ new.transfer = apps[a].transfer
        /\ new.unstakeSessionEndHeight = apps[a].unstakeSessionEndHeight
        /\ new.delegatees = apps[a].delegatees \cup {g}
    BY <1>2, <2>1 DEF Application
  <2> HIDE DEF new
  <2>5. RecordOk(a, new)
    BY <1>2, <2>1, <2>3, <2>4 DEF RecordOk, TransferOk, HasPendingTransfer, IsUnbonding
  <2>6. Indexed(apps[a]) \subseteq new.delegatees \cup UndelegatedGateways(new)
    BY <2>4 DEF Indexed
  <2> QED
    BY <1>6, <2>1, <2>4, <2>5, <2>6
<1>10. ASSUME NEW g \in Gateways, UndelegateFromGateway(a, g)
       PROVE  ALInv'
  <2> DEFINE new == Undelegated(apps[a], {g})
  <2>1. a \in D /\ store' = SetApplication(store, a, new) /\ UNCHANGED <<glVars, appPool>>
    BY <1>10 DEF UndelegateFromGateway
  <2>2. /\ RecordOk(a, new) /\ new.stake = apps[a].stake
        /\ new.delegatees = apps[a].delegatees \ {g}
        /\ UndelegatedGateways(new) = UndelegatedGateways(apps[a]) \cup {g}
    <3>1. {g} \in SUBSET Gateways /\ RecordOk(a, apps[a])
      BY <1>2, <2>1
    <3> QED
      BY <3>1, UndelegatedRecord
  <2> HIDE DEF new
  <2>3. Indexed(apps[a]) \subseteq new.delegatees \cup UndelegatedGateways(new)
    BY <2>2 DEF Indexed
  <2> QED
    BY <1>6, <2>1, <2>2, <2>3
<1> QED
  BY <1>1, <1>4, <1>5, <1>7, <1>8, <1>9, <1>10

-----------------------------------------------------------------------------
(* The end of a block, stage by stage. *)

(* What settlement leaves of an application it takes from.                 *)
Settles(old, new) ==
    /\ new.unstakeSessionEndHeight
         \in {old.unstakeSessionEndHeight, GetSessionEndHeight(live, height)}
    /\ new.delegatees = old.delegatees /\ new.undelegations = old.undelegations
    /\ new.services = old.services /\ new.history = old.history
    /\ new.transfer = old.transfer

(* Settlement takes no more than there is, and makes an application that   *)
(* falls below the minimum unbond.                                         *)
LEMMA SettledRecord ==
    ASSUME IInv, NEW a, NEW app, RecordOk(a, app), NEW amount \in Nat, app.stake >= amount
    PROVE  LET new == Settled(app, amount)
           IN  /\ RecordOk(a, new) /\ Settles(app, new)
               /\ new.stake = app.stake - amount
<1> DEFINE left == app.stake - amount
           end  == GetSessionEndHeight(live, height)
           when == IF left < AppMinStake THEN end ELSE app.unstakeSessionEndHeight
           new  == [app EXCEPT !.stake = left, !.unstakeSessionEndHeight = when]
<1>1. end \in Nat \ {0}
  BY SessionOfNow
<1>2. app \in Application /\ TransferOk(a, app)
      /\ (app.stake < AppMinStake => IsUnbonding(app))
  BY DEF RecordOk
<1>3. left \in Nat /\ left <= app.stake /\ when \in Nat /\ app.stake \in Nat
  BY <1>1, <1>2 DEF Application
<1>4. Settled(app, amount) = new
  BY DEF Settled
<1>5. when \in {app.unstakeSessionEndHeight, end} /\ (left < AppMinStake => when = end)
  OBVIOUS
<1>6. left = app.stake - amount
  OBVIOUS
<1> HIDE DEF left, when
<1>7. /\ new.stake = left /\ new.unstakeSessionEndHeight = when
      /\ new.delegatees = app.delegatees /\ new.undelegations = app.undelegations
      /\ new.services = app.services /\ new.history = app.history
      /\ new.transfer = app.transfer
  BY <1>2 DEF Application
<1>8. new \in Application
  BY <1>2, <1>3 DEF Application
<1> HIDE DEF new
<1>9. left < AppMinStake => IsUnbonding(new)
  BY <1>1, <1>5, <1>7 DEF IsUnbonding, NotUnstaking
<1>10. TransferOk(a, new)
  BY <1>2, <1>7 DEF TransferOk, HasPendingTransfer
<1>11. RecordOk(a, new)
  BY <1>7, <1>8, <1>9, <1>10 DEF RecordOk
<1>12. Settles(app, new)
  BY <1>5, <1>7 DEF Settles
<1> QED
  BY <1>4, <1>6, <1>7, <1>11, <1>12

SettledStore(charged, amount) ==
    SetApplications(store, [a \in charged |-> Settled(store.apps[a], amount)])

(* Settlement, of all the applications it takes from.                      *)
LEMMA SettlementStage ==
    ASSUME IInv, StoreOk(store), NEW charged \in SUBSET DOMAIN store.apps, NEW amount \in Nat,
           \A a \in charged : store.apps[a].stake >= amount
    PROVE  LET t == SettledStore(charged, amount)
           IN  /\ StoreOk(t)
               /\ DOMAIN t.apps = DOMAIN store.apps
               /\ \A a \in DOMAIN store.apps : Settles(store.apps[a], t.apps[a])
               /\ StakeSum(t.apps) = StakeSum(store.apps) - amount * Cardinality(charged)
               /\ amount * Cardinality(charged) \in Nat
<1> DEFINE new == [a \in charged |-> Settled(store.apps[a], amount)]
           t   == SetApplications(store, new)
<1>1. DOMAIN new = charged /\ \A a \in charged : new[a] = Settled(store.apps[a], amount)
  OBVIOUS
<1> HIDE DEF new
<1>2. \A a \in DOMAIN store.apps : RecordOk(a, store.apps[a])
  BY StoreRecords
<1>3. \A a \in charged : /\ RecordOk(a, new[a]) /\ Settles(store.apps[a], new[a])
                         /\ new[a].stake = store.apps[a].stake - amount
  BY <1>1, <1>2, SettledRecord
<1>4. \A a \in DOMAIN new : /\ Writable(store, a, new[a])
                            /\ new[a].stake = store.apps[a].stake - amount
  BY <1>1, <1>3 DEF Writable, Indexed, Settles
<1>5. /\ StoreOk(t)
      /\ DOMAIN t.apps = DOMAIN store.apps
      /\ \A a \in DOMAIN store.apps :
            t.apps[a] = IF a \in DOMAIN new THEN new[a] ELSE store.apps[a]
      /\ StakeSum(t.apps) = StakeSum(store.apps) - amount * Cardinality(DOMAIN new)
      /\ amount * Cardinality(DOMAIN new) \in Nat
  BY <1>1, <1>4, RewritesKeepStore
<1> HIDE DEF t
<1>6. \A a \in DOMAIN store.apps : Settles(store.apps[a], t.apps[a])
  <2>1. \A app : Settles(app, app)
    BY DEF Settles
  <2> QED
    BY <1>1, <1>3, <1>5, <2>1
<1> QED
  BY <1>1, <1>5, <1>6 DEF SettledStore, t, new

(* What the automatic undelegation leaves of an application: the gateways  *)
(* it drops are in its undelegations, and of the gateways left it keeps no *)
(* inactive one but those it was undelegating from already.                *)
Undelegates(old, new) ==
    /\ new.unstakeSessionEndHeight = old.unstakeSessionEndHeight
    /\ new.services = old.services /\ new.history = old.history
    /\ new.transfer = old.transfer
    /\ new.delegatees \subseteq old.delegatees
    /\ old.undelegations \subseteq new.undelegations
    /\ \A g \in old.delegatees \ new.delegatees :
          [height |-> GetSessionEndHeight(live, height), gateway |-> g] \in new.undelegations
    /\ \A g \in new.delegatees \cap DOMAIN GatewaysLeft :
          IsActiveGateway(GatewaysLeft[g], height) \/ g \in UndelegatedGateways(old)

(* The automatic undelegation, of all the applications.                    *)
LEMMA UndelegationStage ==
    ASSUME IInv, NEW st, StoreOk(st)
    PROVE  LET t == AutoUndelegated(st)
           IN  /\ StoreOk(t)
               /\ DOMAIN t.apps = DOMAIN st.apps
               /\ \A a \in DOMAIN st.apps : Undelegates(st.apps[a], t.apps[a])
               /\ StakeSum(t.apps) = StakeSum(st.apps)
<1> DEFINE inactive == {g \in DOMAIN GatewaysLeft :
                           ~ IsActiveGateway(GatewaysLeft[g], height)}
           left == [a \in DOMAIN st.apps |-> {g \in inactive \cap st.apps[a].delegatees :
                                                 <<g, a>> \in st.delegations}]
           N    == {b \in DOMAIN left : left[b] # {}}
           new  == [a \in N |-> Undelegated(st.apps[a], left[a])]
           t    == SetApplications(st, new)
           end  == GetSessionEndHeight(live, height)
<1>1. AutoUndelegated(st) = t
  BY DEF AutoUndelegated
<1>2. DOMAIN new = N /\ \A a \in N : new[a] = Undelegated(st.apps[a], left[a])
  OBVIOUS
<1> HIDE DEF new
<1>3. /\ \A a \in DOMAIN st.apps : RecordOk(a, st.apps[a]) /\ st.apps[a] \in Application
      /\ StakeSum(st.apps) \in Nat
  BY StoreRecords
<1>4. \A a \in DOMAIN st.apps : \A g : <<g, a>> \in st.delegations <=> g \in Indexed(st.apps[a])
  BY DEF StoreOk, IndexesExact
<1>5. \A a \in DOMAIN st.apps : left[a] = inactive \cap Indexed(st.apps[a])
  BY <1>4 DEF Indexed
<1>6. N \subseteq DOMAIN st.apps /\ \A a \in DOMAIN st.apps : a \notin N => left[a] = {}
  OBVIOUS
<1> HIDE DEF left, N
<1>7. \A a \in N : /\ RecordOk(a, new[a])
                   /\ new[a].stake = st.apps[a].stake
                   /\ new[a].unstakeSessionEndHeight = st.apps[a].unstakeSessionEndHeight
                   /\ new[a].transfer = st.apps[a].transfer
                   /\ new[a].services = st.apps[a].services
                   /\ new[a].history = st.apps[a].history
                   /\ new[a].delegatees = st.apps[a].delegatees \ left[a]
                   /\ new[a].undelegations = st.apps[a].undelegations
                         \cup [height : {end}, gateway : left[a]]
                   /\ UndelegatedGateways(new[a])
                         = UndelegatedGateways(st.apps[a]) \cup left[a]
  <2> SUFFICES ASSUME NEW a \in N
               PROVE  /\ RecordOk(a, new[a])
                      /\ new[a].stake = st.apps[a].stake
                      /\ new[a].unstakeSessionEndHeight = st.apps[a].unstakeSessionEndHeight
                      /\ new[a].transfer = st.apps[a].transfer
                      /\ new[a].services = st.apps[a].services
                      /\ new[a].history = st.apps[a].history
                      /\ new[a].delegatees = st.apps[a].delegatees \ left[a]
                      /\ new[a].undelegations = st.apps[a].undelegations
                            \cup [height : {end}, gateway : left[a]]
                      /\ UndelegatedGateways(new[a])
                            = UndelegatedGateways(st.apps[a]) \cup left[a]
    OBVIOUS
  <2>1. left[a] \in SUBSET Gateways /\ RecordOk(a, st.apps[a])
    <3>1. left[a] \subseteq st.apps[a].delegatees
      BY <1>5, <1>6 DEF Indexed
    <3> QED
      BY <1>3, <1>6, <3>1 DEF Application
  <2>2. new[a] = Undelegated(st.apps[a], left[a])
    BY <1>2
  <2> QED
    BY <2>1, <2>2, UndelegatedRecord
<1>8. \A a \in DOMAIN new : /\ Writable(st, a, new[a])
                            /\ new[a].stake = st.apps[a].stake - 0
  <2>1. \A a \in N : st.apps[a].stake \in Nat
    BY <1>3, <1>6 DEF Application
  <2> QED
    BY <1>2, <1>7, <2>1 DEF Writable, Indexed
<1>9. /\ StoreOk(t)
      /\ DOMAIN t.apps = DOMAIN st.apps
      /\ \A a \in DOMAIN st.apps : t.apps[a] = IF a \in DOMAIN new THEN new[a] ELSE st.apps[a]
      /\ StakeSum(t.apps) = StakeSum(st.apps) - 0 * Cardinality(DOMAIN new)
  BY <1>2, <1>6, <1>8, RewritesKeepStore
<1>10. StakeSum(t.apps) = StakeSum(st.apps)
  <2>1. DOMAIN new \subseteq DOMAIN st.apps /\ IsFiniteSet(DOMAIN st.apps)
    BY <1>2, <1>6, StoreRecords
  <2>2. Cardinality(DOMAIN new) \in Nat
    BY <2>1, FS_Subset, FS_CardinalityType
  <2> QED
    BY <1>3, <1>9, <2>2
<1> HIDE DEF t
<1>11. ASSUME NEW a \in DOMAIN st.apps
       PROVE  Undelegates(st.apps[a], t.apps[a])
  <2>1. /\ t.apps[a].unstakeSessionEndHeight = st.apps[a].unstakeSessionEndHeight
        /\ t.apps[a].services = st.apps[a].services /\ t.apps[a].history = st.apps[a].history
        /\ t.apps[a].transfer = st.apps[a].transfer
        /\ t.apps[a].delegatees = st.apps[a].delegatees \ left[a]
        /\ st.apps[a].undelegations \subseteq t.apps[a].undelegations
        /\ [height : {end}, gateway : left[a]] \subseteq t.apps[a].undelegations
    <3>1. CASE a \in N
      BY <1>2, <1>7, <1>9, <3>1
    <3>2. CASE a \notin N
      <4>1. left[a] = {} /\ t.apps[a] = st.apps[a]
        BY <1>2, <1>6, <1>9, <3>2
      <4>2. [height : {end}, gateway : left[a]] = {}
        BY <4>1
      <4> QED
        BY <4>1, <4>2
    <3> QED
      BY <3>1, <3>2
  <2>2. \A g \in left[a] : [height |-> end, gateway |-> g] \in t.apps[a].undelegations
    <3>1. \A g \in left[a] :
             [height |-> end, gateway |-> g] \in [height : {end}, gateway : left[a]]
      OBVIOUS
    <3> QED
      BY <2>1, <3>1
  <2>3. \A g \in t.apps[a].delegatees \cap DOMAIN GatewaysLeft :
           IsActiveGateway(GatewaysLeft[g], height) \/ g \in UndelegatedGateways(st.apps[a])
    BY <1>5, <2>1 DEF Indexed
  <2> QED
    BY <2>1, <2>2, <2>3 DEF Undelegates
<1> QED
  BY <1>1, <1>9, <1>10, <1>11

(* What pruning leaves of an application.                                  *)
Prunes(old, new) ==
    /\ new.unstakeSessionEndHeight = old.unstakeSessionEndHeight
    /\ new.services = old.services /\ new.history = old.history
    /\ new.transfer = old.transfer /\ new.delegatees = old.delegatees
    /\ new.undelegations \subseteq old.undelegations
    /\ \A u \in old.undelegations :
          u.height + GetNumBlocksUndelegationRetention >= height => u \in new.undelegations

(* Pruning, of all the applications.                                       *)
LEMMA PruningStage ==
    ASSUME IInv, NEW st, StoreOk(st)
    PROVE  LET t == Pruned(st)
           IN  /\ StoreOk(t)
               /\ DOMAIN t.apps = DOMAIN st.apps
               /\ \A a \in DOMAIN st.apps : Prunes(st.apps[a], t.apps[a])
               /\ StakeSum(t.apps) = StakeSum(st.apps)
<1> DEFINE R   == GetNumBlocksUndelegationRetention
           N   == {e[1] : e \in st.undelegations} \cap DOMAIN st.apps
           kept(a) == {u \in st.apps[a].undelegations : u.height >= height - R}
           new == [a \in N |-> [st.apps[a] EXCEPT !.undelegations = kept(a)]]
           t   == SetApplications(st, new)
<1>1. \A app : Prunes(app, app)
  BY DEF Prunes
<1>2. CASE height <= R
  BY <1>1, <1>2 DEF Pruned
<1>3. CASE ~ (height <= R)
  <2>1. Pruned(st) = t
    BY <1>3 DEF Pruned
  <2>2. DOMAIN new = N
        /\ \A a \in N : new[a] = [st.apps[a] EXCEPT !.undelegations = kept(a)]
    OBVIOUS
  <2> HIDE DEF new
  <2>3. /\ \A a \in DOMAIN st.apps : RecordOk(a, st.apps[a]) /\ st.apps[a] \in Application
        /\ StakeSum(st.apps) \in Nat
    BY StoreRecords
  <2>4. R \in Nat /\ height \in Nat
    <3>1. live \in Params
      BY IInvFacts DEF ValidParams
    <3> QED
      BY <3>1, IInvFacts DEF GetNumBlocksUndelegationRetention, Params,
                             NumSessionsAppToGatewayUndelegationRetention
  <2> HIDE DEF R
  <2>5. \A a \in DOMAIN st.apps : kept(a) \subseteq st.apps[a].undelegations
        /\ \A u \in st.apps[a].undelegations : u.height + R >= height => u \in kept(a)
    <3> SUFFICES ASSUME NEW a \in DOMAIN st.apps, NEW u \in st.apps[a].undelegations,
                        u.height + R >= height
                 PROVE  u.height >= height - R
      OBVIOUS
    <3>1. u.height \in Nat
      BY <2>3 DEF Application, Undelegation
    <3> QED
      BY <2>4, <3>1
  <2> HIDE DEF kept
  <2>6. \A a \in N : RecordOk(a, new[a]) /\ new[a].stake = st.apps[a].stake
                     /\ Prunes(st.apps[a], new[a])
    <3> SUFFICES ASSUME NEW a \in N
                 PROVE  RecordOk(a, new[a]) /\ new[a].stake = st.apps[a].stake
                        /\ Prunes(st.apps[a], new[a])
      OBVIOUS
    <3>1. RecordOk(a, st.apps[a]) /\ st.apps[a] \in Application
      BY <2>3
    <3>2. /\ new[a].stake = st.apps[a].stake
          /\ new[a].unstakeSessionEndHeight = st.apps[a].unstakeSessionEndHeight
          /\ new[a].services = st.apps[a].services /\ new[a].history = st.apps[a].history
          /\ new[a].transfer = st.apps[a].transfer
          /\ new[a].delegatees = st.apps[a].delegatees
          /\ new[a].undelegations = kept(a)
      BY <2>2, <3>1 DEF Application
    <3>3. new[a] \in Application
      BY <2>2, <2>5, <3>1 DEF Application
    <3>4. RecordOk(a, new[a])
      BY <3>1, <3>2, <3>3 DEF RecordOk, TransferOk, HasPendingTransfer, IsUnbonding
    <3>5. Prunes(st.apps[a], new[a])
      BY <2>5, <3>2 DEF Prunes, R
    <3> QED
      BY <3>2, <3>4, <3>5
  <2>7. \A a \in DOMAIN new : /\ Writable(st, a, new[a])
                              /\ new[a].stake = st.apps[a].stake - 0
    <3>1. \A a \in N : st.apps[a].stake \in Nat
      BY <2>3 DEF Application
    <3>2. \A a \in N : new[a].delegatees = st.apps[a].delegatees
      BY <2>6 DEF Prunes
    <3> QED
      BY <2>2, <2>6, <3>1, <3>2 DEF Writable, Indexed
  <2>8. /\ StoreOk(t)
        /\ DOMAIN t.apps = DOMAIN st.apps
        /\ \A a \in DOMAIN st.apps : t.apps[a] = IF a \in DOMAIN new THEN new[a] ELSE st.apps[a]
        /\ StakeSum(t.apps) = StakeSum(st.apps) - 0 * Cardinality(DOMAIN new)
    <3>1. DOMAIN new \subseteq DOMAIN st.apps
      BY <2>2
    <3> HIDE DEF N
    <3> QED
      BY <2>7, <3>1, RewritesKeepStore
  <2>9. StakeSum(t.apps) = StakeSum(st.apps)
    <3>1. DOMAIN new \subseteq DOMAIN st.apps /\ IsFiniteSet(DOMAIN st.apps)
      BY <2>2, StoreRecords
    <3>2. Cardinality(DOMAIN new) \in Nat
      BY <3>1, FS_Subset, FS_CardinalityType
    <3> QED
      BY <2>3, <2>8, <3>2
  <2> HIDE DEF t
  <2>10. \A a \in DOMAIN st.apps : Prunes(st.apps[a], t.apps[a])
    BY <1>1, <2>2, <2>6, <2>8
  <2> QED
    BY <2>1, <2>8, <2>9, <2>10
<1> QED
  BY <1>2, <1>3

-----------------------------------------------------------------------------
(* Services over time. *)

(* A change of services reaches no session that has begun: it ends what    *)
(* was active where the next session starts, and replaces what was to      *)
(* start there.                                                            *)
LEMMA ServiceChangeIsLater ==
    ASSUME IInv, NEW app \in Application, NEW services \in SUBSET Services,
           NEW x \in Nat \ {0}, x < GetNextSessionStartHeight(live, height)
    PROVE  ActiveServices(RecordServiceConfigChange(app, services), x) = ActiveServices(app, x)
<1> DEFINE next == GetNextSessionStartHeight(live, height)
           past == IF app.history # {} THEN app.history
                   ELSE [service : app.services, activation : {1},
                         deactivation : {NoDeactivation}]
           kept == {c \in past : c.activation # next}
           End(c) == [c EXCEPT !.deactivation = IF @ = NoDeactivation THEN next ELSE @]
           ended == {End(c) : c \in kept}
           begun == [service : services, activation : {next}, deactivation : {NoDeactivation}]
           On(c) == /\ c.activation <= x
                    /\ c.deactivation = NoDeactivation \/ x < c.deactivation
           Active(S) == {c.service : c \in {d \in S : On(d)}}
<1> SUFFICES ASSUME services # app.services
             PROVE  ActiveServices(RecordServiceConfigChange(app, services), x)
                      = ActiveServices(app, x)
  BY DEF RecordServiceConfigChange
<1>1. RecordServiceConfigChange(app, services)
        = [app EXCEPT !.services = services, !.history = ended \cup begun]
  BY DEF RecordServiceConfigChange
<1>2. next \in Nat /\ x < next
  BY SessionOfNow
<1> HIDE DEF next
<1>3. past \subseteq ServiceConfig
  BY DEF Application, ServiceConfig, NoDeactivation
<1>4. ActiveServices(app, x) = Active(past)
  <2>1. CASE app.history # {}
    BY <2>1 DEF ActiveServices
  <2>2. CASE app.history = {}
    <3>1. ActiveServices(app, x) = app.services
      BY <2>2 DEF ActiveServices
    <3>2. past = [service : app.services, activation : {1}, deactivation : {NoDeactivation}]
      BY <2>2
    <3>3. \A c \in past : c.service \in app.services /\ On(c)
      <4>1. \A c \in past : /\ c.service \in app.services /\ c.activation = 1
                            /\ c.deactivation = NoDeactivation
        <5> HIDE DEF past
        <5> QED
          BY <3>2
      <4>2. 1 <= x
        OBVIOUS
      <4> HIDE DEF past
      <4> QED
        BY <4>1, <4>2
    <3>4. \A s \in app.services : \E c \in past : c.service = s
      <4> SUFFICES ASSUME NEW s \in app.services
                   PROVE  \E c \in past : c.service = s
        OBVIOUS
      <4>1. [service |-> s, activation |-> 1, deactivation |-> NoDeactivation] \in past
        BY <3>2
      <4> QED
        BY <4>1
    <3> HIDE DEF past, On
    <3>5. Active(past) = app.services
      BY <3>3, <3>4
    <3> QED
      BY <3>1, <3>5
  <2> QED
    BY <2>1, <2>2
<1> HIDE DEF past
<1>5. \A c \in past : On(c) => c \in kept
  BY <1>2, <1>3 DEF ServiceConfig
<1>6. \A c \in kept : End(c).service = c.service /\ (On(End(c)) <=> On(c))
  <2> SUFFICES ASSUME NEW c \in kept
               PROVE  End(c).service = c.service /\ (On(End(c)) <=> On(c))
    OBVIOUS
  <2>1. c \in ServiceConfig
    BY <1>3
  <2>2. /\ End(c).service = c.service /\ End(c).activation = c.activation
        /\ End(c).deactivation = IF c.deactivation = NoDeactivation
                                 THEN next ELSE c.deactivation
    BY <2>1 DEF ServiceConfig
  <2> HIDE DEF End
  <2> QED
    BY <1>2, <2>1, <2>2 DEF ServiceConfig, NoDeactivation
<1>7. \A c \in begun : ~ On(c)
  BY <1>2
<1>8. kept \subseteq past
  OBVIOUS
<1>9. begun = {} => services = {}
  <2> SUFFICES ASSUME services # {}
               PROVE  begun # {}
    OBVIOUS
  <2>1. PICK s \in services : TRUE
    OBVIOUS
  <2>2. [service |-> s, activation |-> next, deactivation |-> NoDeactivation] \in begun
    BY <2>1
  <2> QED
    BY <2>2
<1> HIDE DEF On, End, kept, begun
<1>10. Active(ended \cup begun) = Active(past)
  <2>1. ASSUME NEW s \in Active(past)
        PROVE  s \in Active(ended \cup begun)
    <3>1. PICK c \in past : On(c) /\ c.service = s
      BY <2>1
    <3>2. c \in kept
      BY <1>5, <3>1
    <3>3. End(c) \in ended \cup begun /\ On(End(c)) /\ End(c).service = s
      BY <1>6, <3>1, <3>2
    <3> HIDE DEF ended
    <3> QED
      BY <3>3
  <2>2. ASSUME NEW s \in Active(ended \cup begun)
        PROVE  s \in Active(past)
    <3>1. PICK d \in ended \cup begun : On(d) /\ d.service = s
      <4> HIDE DEF ended
      <4> QED
        BY <2>2
    <3>2. PICK c \in kept : d = End(c)
      BY <1>7, <3>1
    <3>3. c \in past /\ On(c) /\ c.service = s
      BY <1>6, <1>8, <3>1, <3>2
    <3> QED
      BY <3>3
  <2> HIDE DEF Active
  <2>3. \A s : s \in Active(ended \cup begun) <=> s \in Active(past)
    BY <2>1, <2>2
  <2>4. Active(ended \cup begun) \subseteq Active(past)
        /\ Active(past) \subseteq Active(ended \cup begun)
    BY <2>3
  <2> QED
    BY <2>4
<1>11. ActiveServices(RecordServiceConfigChange(app, services), x) = Active(ended \cup begun)
  <2> DEFINE hist == ended \cup begun
             r == [app EXCEPT !.services = services, !.history = hist]
  <2>1. hist = {} => services = {}
    BY <1>9
  <2> HIDE DEF hist
  <2>2. r.services = services /\ r.history = hist
    BY DEF Application
  <2> HIDE DEF r
  <2>3. CASE hist = {}
    <3>1. ActiveServices(r, x) = services
      BY <2>2, <2>3 DEF ActiveServices
    <3>2. Active(hist) = {}
      BY <2>3
    <3> QED
      BY <1>1, <2>1, <2>3, <3>1, <3>2 DEF r, hist
  <2>4. CASE hist # {}
    <3>1. ActiveServices(r, x) = Active(hist)
      BY <2>2, <2>4 DEF ActiveServices, On
    <3> QED
      BY <1>1, <3>1 DEF r, hist
  <2> QED
    BY <2>3, <2>4
<1> HIDE DEF Active
<1> QED
  BY <1>4, <1>10, <1>11

-----------------------------------------------------------------------------
(* Transfers.  One step of the loop first. *)

(* What a transfer leaves of another application: if anything, it gains.   *)
Extends(old, new) ==
    /\ new.unstakeSessionEndHeight = old.unstakeSessionEndHeight
    /\ new.transfer = old.transfer
    /\ old.delegatees \subseteq new.delegatees
    /\ old.undelegations \subseteq new.undelegations
    /\ \A x \in Nat \ {0} :
          x < GetNextSessionStartHeight(live, height) =>
             ActiveServices(new, x) = ActiveServices(old, x)

(* The record a transfer merges into, or copies to, the destination.       *)
LEMMA MergedRecord ==
    ASSUME IInv, NEW dst, NEW src, NEW b \in Applications, RecordOk(b, dst),
           src \in Application, src.stake >= AppMinStake
    PROVE  LET new == RecordServiceConfigChange(
                         [dst EXCEPT !.stake = @ + src.stake,
                                     !.delegatees = @ \cup src.delegatees,
                                     !.undelegations = MergedUndelegations(src, dst)],
                         dst.services \cup src.services)
           IN  /\ RecordOk(b, new) /\ Extends(dst, new)
               /\ new.stake = dst.stake + src.stake
               /\ new.delegatees = dst.delegatees \cup src.delegatees
<1> DEFINE sum == dst.stake + src.stake
           gs  == dst.delegatees \cup src.delegatees
           us  == MergedUndelegations(src, dst)
           mid == [dst EXCEPT !.stake = sum, !.delegatees = gs, !.undelegations = us]
           svs == dst.services \cup src.services
           new == RecordServiceConfigChange(mid, svs)
<1>1. dst \in Application
  BY DEF RecordOk
<1>2. /\ sum \in Nat /\ gs \in SUBSET Gateways /\ svs \in SUBSET Services
      /\ us \in SUBSET Undelegation /\ dst.undelegations \subseteq us
  <2>1. us \subseteq dst.undelegations \cup src.undelegations /\ dst.undelegations \subseteq us
    BY DEF MergedUndelegations
  <2> QED
    BY <1>1, <2>1 DEF Application
<1>3. AppMinStake \in Nat /\ dst.stake \in Nat /\ src.stake \in Nat
  BY <1>1, ApplicationAssumption DEF Application
<1>4. sum = dst.stake + src.stake /\ dst.delegatees \subseteq gs
  OBVIOUS
<1>5. sum >= AppMinStake
  BY <1>3
<1> HIDE DEF us, svs, sum
<1>6. mid \in Application
  <2> HIDE DEF gs
  <2> QED
    BY <1>1, <1>2 DEF Application
<1>7. /\ mid.stake = sum /\ mid.delegatees = gs /\ mid.undelegations = us
      /\ mid.unstakeSessionEndHeight = dst.unstakeSessionEndHeight
      /\ mid.transfer = dst.transfer
      /\ mid.services = dst.services /\ mid.history = dst.history
  BY <1>1 DEF Application
<1>8. \A x : ActiveServices(mid, x) = ActiveServices(dst, x)
  <2> HIDE DEF mid
  <2> QED
    BY <1>7 DEF ActiveServices
<1> HIDE DEF mid
<1>9. new \in Application /\ SameButServices(mid, new)
  BY <1>2, <1>6, ServiceChangeKeepsRest
<1>10. \A x \in Nat \ {0} :
         x < GetNextSessionStartHeight(live, height) =>
            ActiveServices(new, x) = ActiveServices(mid, x)
  BY <1>2, <1>6, ServiceChangeIsLater
<1> HIDE DEF new, gs
<1>11. Extends(dst, new)
  BY <1>2, <1>4, <1>7, <1>8, <1>9, <1>10 DEF Extends, SameButServices
<1>12. RecordOk(b, new)
  <2>1. TransferOk(b, new)
    <3>1. TransferOk(b, dst)
      BY DEF RecordOk
    <3> QED
      BY <1>7, <1>9, <3>1 DEF TransferOk, HasPendingTransfer, SameButServices
  <2>2. new.stake = sum
    BY <1>7, <1>9 DEF SameButServices
  <2>3. ~ (new.stake < AppMinStake)
    BY <1>2, <1>3, <1>5, <2>2
  <2> QED
    BY <1>9, <2>1, <2>3 DEF RecordOk
<1>13. new.stake = dst.stake + src.stake /\ new.delegatees = gs
  BY <1>4, <1>7, <1>9 DEF SameButServices
<1>14. [dst EXCEPT !.stake = @ + src.stake,
                   !.delegatees = @ \cup src.delegatees,
                   !.undelegations = MergedUndelegations(src, dst)] = mid
  BY DEF mid, sum, gs, us
<1> QED
  BY <1>11, <1>12, <1>13, <1>14 DEF new, svs, gs

(* The transfers that end now. *)
TransferIsOver(app) == GetApplicationTransferHeight(app) <= height

(* What transfers leave of a store, those of the applications T apart.     *)
TransfersFollow(st, t, T) ==
    /\ StoreOk(t)
    /\ StakeSum(t.apps) = StakeSum(st.apps)
    /\ \A a \in DOMAIN st.apps :
          \/ a \in T /\ TransferIsOver(st.apps[a])
          \/ a \in DOMAIN t.apps /\ Extends(st.apps[a], t.apps[a])
    /\ \A b \in DOMAIN t.apps : \A g \in t.apps[b].delegatees :
          \E a \in DOMAIN st.apps : g \in st.apps[a].delegatees

(* One transfer, by itself.                                                *)
LEMMA TransferStepFollows ==
    ASSUME IInv, NEW st, StoreOk(st), NEW m \in st.transferring
    PROVE  TransfersFollow(st, TransferStep(st, m), {m})
<1> DEFINE src == st.apps[m]
           D   == DOMAIN st.apps
<1>1. /\ m \in D /\ HasPendingTransfer(src)
      /\ D \subseteq Applications
      /\ \A a \in D : RecordOk(a, st.apps[a]) /\ st.apps[a] \in Application
      /\ StakeSum(st.apps) \in Nat
  BY StoreRecords DEF StoreOk, IndexesExact
<1>2. \A app : Extends(app, app)
  BY DEF Extends
<1>3. CASE height < GetApplicationTransferHeight(src)
  <2>1. TransferStep(st, m) = st
    BY <1>3 DEF TransferStep
  <2> QED
    BY <1>2, <2>1 DEF TransfersFollow
<1>4. CASE ~ (height < GetApplicationTransferHeight(src)) /\ IsUnbonding(src)
  <2> DEFINE new == [src EXCEPT !.transfer = NoTransfer]
             t   == SetApplication(st, m, new)
  <2>1. TransferStep(st, m) = t
    BY <1>4 DEF TransferStep
  <2>2. new \in Application
    BY <1>1 DEF Application, NoTransfer
  <2>3. /\ new.stake = src.stake /\ new.delegatees = src.delegatees
        /\ new.unstakeSessionEndHeight = src.unstakeSessionEndHeight
        /\ new.transfer = NoTransfer
    BY <1>1 DEF Application
  <2> HIDE DEF new
  <2>4. RecordOk(m, new)
    <3>1. RecordOk(m, src)
      BY <1>1
    <3> QED
      BY <2>2, <2>3, <3>1 DEF RecordOk, TransferOk, HasPendingTransfer, IsUnbonding
  <2>5. Writable(st, m, new)
    BY <2>3, <2>4 DEF Writable, Indexed
  <2>6. /\ StoreOk(t)
        /\ DOMAIN t.apps = D \cup {m}
        /\ t.apps[m] = new
        /\ \A b \in D \ {m} : t.apps[b] = st.apps[b]
        /\ StakeSum(t.apps) = StakeSum(st.apps) + new.stake
                                - (IF m \in D THEN st.apps[m].stake ELSE 0)
    BY <1>1, <2>5, SetKeepsStore
  <2>7. src.stake \in Nat
    BY <1>1 DEF Application
  <2>8. StakeSum(t.apps) = StakeSum(st.apps)
    BY <1>1, <2>3, <2>6, <2>7
  <2> HIDE DEF t
  <2>9. TransferIsOver(src)
    <3>1. GetApplicationTransferHeight(src) \in Int /\ height \in Int
      BY <1>1, IInvFacts, WindowsInOrder
         DEF GetApplicationTransferHeight, RecordOk, TransferOk
    <3> QED
      BY <1>4, <3>1 DEF TransferIsOver
  <2>10. \A a \in D :
            \/ a \in {m} /\ TransferIsOver(st.apps[a])
            \/ a \in DOMAIN t.apps /\ Extends(st.apps[a], t.apps[a])
    <3> SUFFICES ASSUME NEW a \in D
                 PROVE  \/ a \in {m} /\ TransferIsOver(st.apps[a])
                        \/ a \in DOMAIN t.apps /\ Extends(st.apps[a], t.apps[a])
      OBVIOUS
    <3>1. CASE a = m
      BY <2>9, <3>1
    <3>2. CASE a # m
      BY <1>2, <2>6, <3>2
    <3> QED
      BY <3>1, <3>2
  <2>11. \A b \in DOMAIN t.apps : \A g \in t.apps[b].delegatees :
            \E a \in D : g \in st.apps[a].delegatees
    BY <1>1, <2>3, <2>6
  <2> QED
    BY <2>1, <2>6, <2>8, <2>10, <2>11 DEF TransfersFollow
<1>5. CASE ~ (height < GetApplicationTransferHeight(src)) /\ ~ IsUnbonding(src)
  <2> DEFINE to   == src.transfer.to
             rest == RemoveApplications(st, {m})
             copy == [src EXCEPT !.transfer = NoTransfer]
             dst  == st.apps[to]
             both == RecordServiceConfigChange(
                       [dst EXCEPT !.stake = @ + src.stake,
                                   !.delegatees = @ \cup src.delegatees,
                                   !.undelegations = MergedUndelegations(src, dst)],
                       dst.services \cup src.services)
             new  == IF to \notin D THEN copy ELSE both
             t    == SetApplication(rest, to, new)
  <2>1. TransferStep(st, m) = t
    BY <1>5 DEF TransferStep, Transferred
  <2>2. to \in Applications \ {m}
    BY <1>1 DEF RecordOk, TransferOk
  <2>3. TransferIsOver(src)
    <3>1. GetApplicationTransferHeight(src) \in Int /\ height \in Int
      BY <1>1, IInvFacts, WindowsInOrder
         DEF GetApplicationTransferHeight, RecordOk, TransferOk
    <3> QED
      BY <1>5, <3>1 DEF TransferIsOver
  <2>4. /\ StoreOk(rest)
        /\ DOMAIN rest.apps = D \ {m}
        /\ \A a \in D \ {m} : rest.apps[a] = st.apps[a]
        /\ StakeSum(rest.apps) = StakeSum(st.apps) - src.stake
    <3>1. {m} \in SUBSET D
      BY <1>1
    <3>2. Total(StakesOf(st.apps), {m}) = src.stake
      <4>1. StakesOf(st.apps)[m] = src.stake /\ src.stake \in Int
        BY <1>1 DEF StakesOf, Application
      <4>2. Total(StakesOf(st.apps), {} \cup {m}) = StakesOf(st.apps)[m]
                                                     + Total(StakesOf(st.apps), {})
        BY <4>1, FS_EmptySet, TotalAdds
      <4> QED
        BY <4>1, <4>2, TotalOfNone
    <3> QED
      BY <3>1, <3>2, RemovalKeepsStore
  <2>5. RecordOk(m, src) /\ src \in Application
    BY <1>1
  <2>6. src.stake \in Nat /\ src.stake >= AppMinStake
    BY <1>5, <2>5, ApplicationAssumption DEF RecordOk, Application
  <2>7. /\ copy \in Application /\ copy.stake = src.stake
        /\ copy.delegatees = src.delegatees /\ copy.transfer = NoTransfer
    BY <2>5 DEF Application, NoTransfer
  <2>8. to \in D =>
          /\ RecordOk(to, both) /\ Extends(dst, both)
          /\ both.stake = dst.stake + src.stake
          /\ both.delegatees = dst.delegatees \cup src.delegatees
          /\ dst.stake \in Nat
    <3> SUFFICES ASSUME to \in D
                 PROVE  /\ RecordOk(to, both) /\ Extends(dst, both)
                        /\ both.stake = dst.stake + src.stake
                        /\ both.delegatees = dst.delegatees \cup src.delegatees
                        /\ dst.stake \in Nat
      OBVIOUS
    <3>1. RecordOk(to, dst) /\ dst.stake \in Nat
      BY <1>1 DEF Application
    <3> HIDE DEF dst, src, to
    <3> QED
      BY <2>2, <2>5, <2>6, <3>1, MergedRecord
  <2> HIDE DEF copy, both
  <2>9. RecordOk(to, new)
    <3>1. CASE to \notin D
      <4>1. copy.stake >= AppMinStake
        BY <2>6, <2>7
      <4>2. TransferOk(to, copy)
        BY <2>7 DEF TransferOk, HasPendingTransfer
      <4>3. RecordOk(to, copy)
        BY <2>6, <2>7, <4>1, <4>2, ApplicationAssumption DEF RecordOk
      <4> QED
        BY <3>1, <4>3
    <3>2. CASE to \in D
      BY <2>8, <3>2
    <3> QED
      BY <3>1, <3>2
  <2>10. /\ to \in DOMAIN rest.apps <=> to \in D
         /\ to \in D => rest.apps[to] = dst
    BY <2>2, <2>4
  <2>11. Writable(rest, to, new)
    <3>1. to \in DOMAIN rest.apps =>
            Indexed(rest.apps[to]) \subseteq new.delegatees \cup UndelegatedGateways(new)
      BY <2>8, <2>10 DEF Indexed
    <3> QED
      BY <2>9, <3>1 DEF Writable
  <2> HIDE DEF rest
  <2>12. /\ StoreOk(t)
         /\ DOMAIN t.apps = (D \ {m}) \cup {to}
         /\ t.apps[to] = new
         /\ \A b \in D \ {m, to} : t.apps[b] = st.apps[b]
         /\ StakeSum(t.apps) = StakeSum(rest.apps) + new.stake
                                 - (IF to \in D THEN dst.stake ELSE 0)
    <3>1. to \in Applications
      BY <2>2
    <3> HIDE DEF new, to
    <3>2. /\ StoreOk(t)
          /\ DOMAIN t.apps = DOMAIN rest.apps \cup {to}
          /\ t.apps[to] = new
          /\ \A b \in DOMAIN rest.apps \ {to} : t.apps[b] = rest.apps[b]
          /\ StakeSum(t.apps) = StakeSum(rest.apps) + new.stake
                - (IF to \in DOMAIN rest.apps THEN rest.apps[to].stake ELSE 0)
      BY <2>4, <2>11, <3>1, SetKeepsStore
    <3> HIDE DEF t
    <3> QED
      BY <2>4, <2>10, <3>2
  <2>13. StakeSum(t.apps) = StakeSum(st.apps)
    <3>1. new.stake = src.stake + (IF to \in D THEN dst.stake ELSE 0)
      BY <2>6, <2>7, <2>8
    <3>2. (IF to \in D THEN dst.stake ELSE 0) \in Nat
      BY <2>8
    <3>3. StakeSum(rest.apps) \in Int
      BY <1>1, <2>4, <2>6
    <3> DEFINE o == IF to \in D THEN dst.stake ELSE 0
    <3> HIDE DEF o, new
    <3>4. StakeSum(t.apps) = StakeSum(rest.apps) + new.stake - o /\ new.stake = src.stake + o
          /\ o \in Nat
      BY <2>12, <3>1, <3>2 DEF o
    <3> HIDE DEF t, src
    <3> QED
      BY <1>1, <2>4, <2>6, <3>3, <3>4
  <2> HIDE DEF t
  <2>14. \A a \in D :
            \/ a \in {m} /\ TransferIsOver(st.apps[a])
            \/ a \in DOMAIN t.apps /\ Extends(st.apps[a], t.apps[a])
    <3> SUFFICES ASSUME NEW a \in D
                 PROVE  \/ a \in {m} /\ TransferIsOver(st.apps[a])
                        \/ a \in DOMAIN t.apps /\ Extends(st.apps[a], t.apps[a])
      OBVIOUS
    <3>1. CASE a = m
      BY <2>3, <3>1
    <3>2. CASE a = to
      BY <2>8, <2>12, <3>2
    <3>3. CASE a # m /\ a # to
      BY <1>2, <2>12, <3>3
    <3> QED
      BY <3>1, <3>2, <3>3
  <2>15. \A b \in DOMAIN t.apps : \A g \in t.apps[b].delegatees :
            \E a \in D : g \in st.apps[a].delegatees
    <3> SUFFICES ASSUME NEW b \in DOMAIN t.apps, NEW g \in t.apps[b].delegatees
                 PROVE  \E a \in D : g \in st.apps[a].delegatees
      OBVIOUS
    <3>1. CASE b = to
      <4>1. g \in new.delegatees
        BY <2>12, <3>1
      <4> QED
        BY <1>1, <2>7, <2>8, <4>1
    <3>2. CASE b # to
      BY <2>12, <3>2
    <3> QED
      BY <3>1, <3>2
  <2> QED
    BY <2>1, <2>12, <2>13, <2>14, <2>15 DEF TransfersFollow
<1> QED
  BY <1>3, <1>4, <1>5

(* So the next transfer of the loop, on what the earlier ones left.        *)
LEMMA TransfersFollowOn ==
    ASSUME IInv, NEW st, StoreOk(st), NEW t, NEW T, TransfersFollow(st, t, T),
           NEW m \in st.transferring, m \notin T
    PROVE  TransfersFollow(st, TransferStep(t, m), T \cup {m})
<1> DEFINE u == TransferStep(t, m)
<1>1. m \in DOMAIN st.apps /\ HasPendingTransfer(st.apps[m])
  BY DEF StoreOk, IndexesExact
<1>2. /\ StoreOk(t) /\ StakeSum(t.apps) = StakeSum(st.apps)
      /\ m \in DOMAIN t.apps /\ Extends(st.apps[m], t.apps[m])
  BY <1>1 DEF TransfersFollow
<1>3. t.apps[m].transfer = st.apps[m].transfer
  BY <1>2 DEF Extends
<1>4. m \in t.transferring
  BY <1>1, <1>2, <1>3 DEF StoreOk, IndexesExact, HasPendingTransfer
<1>5. TransfersFollow(t, u, {m})
  BY <1>2, <1>4, TransferStepFollows
<1> HIDE DEF u
<1>6. ASSUME NEW a \in DOMAIN st.apps
      PROVE  \/ a \in T \cup {m} /\ TransferIsOver(st.apps[a])
             \/ a \in DOMAIN u.apps /\ Extends(st.apps[a], u.apps[a])
  <2>1. CASE a \in T /\ TransferIsOver(st.apps[a])
    BY <2>1
  <2>2. CASE a \in DOMAIN t.apps /\ Extends(st.apps[a], t.apps[a])
    <3>1. CASE a \in {m} /\ TransferIsOver(t.apps[a])
      <4>1. TransferIsOver(st.apps[a])
        BY <1>3, <3>1 DEF TransferIsOver, GetApplicationTransferHeight
      <4> QED
        BY <3>1, <4>1
    <3>2. CASE a \in DOMAIN u.apps /\ Extends(t.apps[a], u.apps[a])
      <4>1. Extends(st.apps[a], u.apps[a])
        BY <2>2, <3>2 DEF Extends
      <4> QED
        BY <3>2, <4>1
    <3> QED
      BY <1>5, <2>2, <3>1, <3>2 DEF TransfersFollow
  <2> QED
    BY <2>1, <2>2 DEF TransfersFollow
<1>7. ASSUME NEW b \in DOMAIN u.apps, NEW g \in u.apps[b].delegatees
      PROVE  \E a \in DOMAIN st.apps : g \in st.apps[a].delegatees
  <2>1. PICK c \in DOMAIN t.apps : g \in t.apps[c].delegatees
    BY <1>5 DEF TransfersFollow
  <2> QED
    BY <2>1 DEF TransfersFollow
<1>8. StoreOk(u) /\ StakeSum(u.apps) = StakeSum(st.apps)
  BY <1>2, <1>5 DEF TransfersFollow
<1>9. TransfersFollow(st, u, T \cup {m})
  BY <1>6, <1>7, <1>8 DEF TransfersFollow
<1> QED
  BY <1>9 DEF u

(* The function the loop is defined by: the last key of a set is taken     *)
(* once the others are done.                                               *)
IsLoop(g, st) ==
    g = [s \in SUBSET st.transferring |->
           IF s = {} THEN st ELSE TransferStep(g[s \ {Max(s)}], Max(s))]

(* The loop is the value of that function at the whole index.              *)
LEMMA TransfersAreLoop ==
    ASSUME NEW st, IsSessionEndHeight(live, height)
    PROVE  TransfersEnded(st) = (CHOOSE g : IsLoop(g, st))[st.transferring]
BY DEF TransfersEnded, MapThenFoldSet, IsLoop

(* Every part of the index has a last key.                                 *)
LEMMA LastKey ==
    ASSUME NEW S \in SUBSET Nat, IsFiniteSet(S), S # {}
    PROVE  Max(S) \in S
<1> DEFINE A == {T \in SUBSET S : T = {} \/ \E x \in T : \A y \in T : x >= y}
<1>1. {} \in A
  OBVIOUS
<1>2. ASSUME NEW T \in A, NEW x \in S, x \notin T
      PROVE  T \cup {x} \in A
  <2>1. CASE T = {}
    <3>1. T \cup {x} = {x} /\ x >= x
      BY <2>1
    <3> QED
      BY <3>1
  <2>2. CASE T # {}
    <3>1. PICK z \in T : \A y \in T : z >= y
      BY <2>2
    <3>2. CASE x >= z
      <4>1. \A y \in T \cup {x} : x >= y
        BY <3>1, <3>2
      <4> QED
        BY <4>1
    <3>3. CASE ~ (x >= z)
      <4>1. \A y \in T \cup {x} : z >= y
        BY <3>1, <3>3
      <4> QED
        BY <4>1
    <3> QED
      BY <3>2, <3>3
  <2> QED
    BY <2>1, <2>2
<1>3. A \in SUBSET (SUBSET S)
  OBVIOUS
<1>4. A = SUBSET S
  <2> HIDE DEF A
  <2> QED
    BY <1>1, <1>2, <1>3, SubsetInduction
<1>5. S \in A
  BY <1>4
<1>6. \E x \in S : \A y \in S : x >= y
  BY <1>5
<1> QED
  BY <1>6 DEF Max

(* There is such a function: it is built up by the size of the sets.       *)
LEMMA LoopExists ==
    ASSUME NEW st, IsFiniteSet(st.transferring), st.transferring \subseteq Nat
    PROVE  \E g : IsLoop(g, st)
<1> DEFINE S        == st.transferring
           Up(n)    == {s \in SUBSET S : Cardinality(s) <= n}
           Ok(g, n) == g = [s \in Up(n) |->
                              IF s = {} THEN st ELSE TransferStep(g[s \ {Max(s)}], Max(s))]
           B        == {n \in Nat : \E g : Ok(g, n)}
<1>1. \A s \in SUBSET S : IsFiniteSet(s) /\ Cardinality(s) \in Nat
  BY FS_Subset, FS_CardinalityType
<1>2. \A s \in SUBSET S : s # {} => Max(s) \in s
  BY <1>1, LastKey
<1>3. 0 \in B
  <2>1. \A s \in Up(0) : s = {}
    BY <1>1, FS_EmptySet
  <2>2. Ok([s \in Up(0) |-> st], 0)
    BY <2>1
  <2> QED
    BY <2>2
<1>4. ASSUME NEW n \in Nat, n \in B
      PROVE  n + 1 \in B
  <2>1. PICK g : Ok(g, n)
    BY <1>4
  <2> DEFINE h == [s \in Up(n + 1) |->
                     IF s = {} THEN st ELSE TransferStep(g[s \ {Max(s)}], Max(s))]
  <2>2. ASSUME NEW s \in Up(n)
        PROVE  s \in Up(n + 1) /\ h[s] = g[s]
    <3>1. s \in SUBSET S /\ Cardinality(s) <= n /\ Cardinality(s) \in Nat
      BY <1>1
    <3>2. s \in Up(n + 1)
      BY <3>1
    <3>3. g[s] = IF s = {} THEN st ELSE TransferStep(g[s \ {Max(s)}], Max(s))
      <4> HIDE DEF Up
      <4> QED
        BY <2>1
    <3> QED
      <4> HIDE DEF Up
      <4> QED
        BY <3>2, <3>3
  <2>3. ASSUME NEW s \in Up(n + 1), s # {}
        PROVE  s \ {Max(s)} \in Up(n)
    <3>1. Max(s) \in s
      BY <1>2, <2>3
    <3>2. Cardinality(s \ {Max(s)}) = Cardinality(s) - 1
      BY <3>1, <1>1, FS_RemoveElement
    <3> QED
      BY <3>2, <1>1
  <2>4. Ok(h, n + 1)
    <3> HIDE DEF Up
    <3> SUFFICES ASSUME NEW s \in Up(n + 1), s # {}
                 PROVE  g[s \ {Max(s)}] = h[s \ {Max(s)}]
      OBVIOUS
    <3> HIDE DEF h
    <3> QED
      BY <2>2, <2>3
  <2> HIDE DEF Ok
  <2> QED
    BY <2>4
<1>5. B = Nat
  <2> B \in SUBSET Nat
    OBVIOUS
  <2> HIDE DEF B
  <2> QED
    BY <1>3, <1>4, NatSetInduction
<1>6. Cardinality(S) \in B
  BY <1>5, <1>1
<1>7. Up(Cardinality(S)) = SUBSET S
  BY <1>1, FS_Subset
<1> QED
  BY <1>6, <1>7 DEF IsLoop

(* What all the transfers of a block leave.                                *)
LEMMA TransferStage ==
    ASSUME IInv, NEW st, StoreOk(st)
    PROVE  TransfersFollow(st, TransfersEnded(st), st.transferring)
<1> DEFINE S == st.transferring
<1>1. \A T : TransfersFollow(st, st, T)
  <2>1. \A app : Extends(app, app)
    BY DEF Extends
  <2> QED
    BY <2>1, StoreRecords DEF TransfersFollow
<1>2. CASE ~ IsSessionEndHeight(live, height)
  <2>1. TransfersEnded(st) = st
    BY <1>2 DEF TransfersEnded
  <2> QED
    BY <1>1, <2>1
<1>3. CASE IsSessionEndHeight(live, height)
  <2>1. IsFiniteSet(S) /\ S \subseteq Nat
    <3>1. S \in SUBSET (DOMAIN st.apps)
      BY DEF StoreOk, IndexesExact
    <3>2. IsFiniteSet(DOMAIN st.apps) /\ DOMAIN st.apps \subseteq Nat
      BY StoreRecords, ApplicationAssumption
    <3> QED
      BY <3>1, <3>2, FS_Subset
  <2>2. PICK g : g = CHOOSE f : IsLoop(f, st)
    OBVIOUS
  <2>3. IsLoop(g, st)
    BY <2>1, <2>2, LoopExists
  <2>4. \A s \in SUBSET S :
           g[s] = IF s = {} THEN st ELSE TransferStep(g[s \ {Max(s)}], Max(s))
    BY <2>3 DEF IsLoop
  <2>5. \A s \in SUBSET S : IsFiniteSet(s) /\ Cardinality(s) \in Nat
    BY <2>1, FS_Subset, FS_CardinalityType
  <2> DEFINE B == {n \in Nat : \A s \in SUBSET S :
                      Cardinality(s) = n => TransfersFollow(st, g[s], s)}
  <2>6. 0 \in B
    <3> SUFFICES ASSUME NEW s \in SUBSET S, Cardinality(s) = 0
                 PROVE  TransfersFollow(st, g[s], s)
      OBVIOUS
    <3>1. s = {}
      BY <2>5, FS_EmptySet
    <3>2. g[s] = st
      BY <2>4, <3>1
    <3> QED
      BY <1>1, <3>2
  <2>7. ASSUME NEW n \in Nat, n \in B
        PROVE  n + 1 \in B
    <3> SUFFICES ASSUME NEW s \in SUBSET S, Cardinality(s) = n + 1
                 PROVE  TransfersFollow(st, g[s], s)
      OBVIOUS
    <3>1. s # {}
      <4> SUFFICES ASSUME s = {} PROVE FALSE
        OBVIOUS
      <4>1. Cardinality({}) = 0
        BY FS_EmptySet
      <4> QED
        BY <4>1
    <3> DEFINE m == Max(s)
               T == s \ {m}
    <3>2. m \in s
      BY <2>1, <2>5, <3>1, LastKey
    <3>3. g[s] = TransferStep(g[T], m)
      BY <2>4, <3>1
    <3> HIDE DEF m
    <3>4. Cardinality(T) = n
      BY <2>5, <3>2, FS_RemoveElement
    <3>5. TransfersFollow(st, g[T], T)
      BY <2>7, <3>4
    <3>6. T \cup {m} = s /\ m \notin T /\ m \in S
      BY <3>2
    <3> HIDE DEF T
    <3>7. TransfersFollow(st, TransferStep(g[T], m), T \cup {m})
      BY <3>5, <3>6, TransfersFollowOn
    <3> QED
      BY <3>3, <3>6, <3>7
  <2>8. B = Nat
    <3> B \in SUBSET Nat
      OBVIOUS
    <3> HIDE DEF B
    <3> QED
      BY <2>6, <2>7, NatSetInduction
  <2>9. TransfersFollow(st, g[S], S)
    <3>1. Cardinality(S) \in B /\ S \in SUBSET S
      BY <2>5, <2>8
    <3> QED
      BY <3>1
  <2>10. TransfersEnded(st) = g[S]
    BY <1>3, <2>2, TransfersAreLoop
  <2> QED
    BY <2>9, <2>10
<1> QED
  BY <1>2, <1>3

-----------------------------------------------------------------------------
(* The end of a block: settlement, undelegation, pruning, unbonding and    *)
(* transfers, one after another.                                           *)

(* What happens to an application before the unbonding ones are removed.   *)
Precedes(old, mid) ==
    /\ mid.unstakeSessionEndHeight
         \in {old.unstakeSessionEndHeight, GetSessionEndHeight(live, height)}
    /\ mid.services = old.services /\ mid.history = old.history
    /\ mid.transfer = old.transfer
    /\ mid.delegatees \subseteq old.delegatees
    /\ \A g \in old.delegatees \ mid.delegatees :
          [height |-> GetSessionEndHeight(live, height), gateway |-> g] \in mid.undelegations
    /\ \A u \in old.undelegations :
          u.height + GetNumBlocksUndelegationRetention >= height => u \in mid.undelegations
    /\ \A g \in mid.delegatees \cap DOMAIN GatewaysLeft :
          IsActiveGateway(GatewaysLeft[g], height) \/ g \in UndelegatedGateways(old)

(* The three ways an application of the store st, with the record mid,     *)
(* comes through unbonding and transfers into the store t.                 *)
IsReleased(mid) == IsUnbonding(mid) /\ GetApplicationUnbondingHeight(mid) <= height

EndsBlock(a, mid, t) ==
    \/ IsReleased(mid)
    \/ HasPendingTransfer(mid) /\ TransferIsOver(mid)
    \/ a \in DOMAIN t.apps /\ Extends(mid, t.apps[a])

(* A block leaves of the store old the store new.                          *)
BlockLeaves(old, new) ==
    /\ \A a \in DOMAIN old.apps :
          \E mid : Precedes(old.apps[a], mid) /\ EndsBlock(a, mid, new)
    /\ \A b \in DOMAIN new.apps : \A g \in new.apps[b].delegatees :
          \E a \in DOMAIN old.apps : \E mid :
             Precedes(old.apps[a], mid) /\ g \in mid.delegatees

(* The undelegations made now are not pruned in the same block.            *)
LEMMA FirstStagesFollow ==
    ASSUME IInv, NEW old, NEW s, NEW u, NEW mid,
           Settles(old, s), Undelegates(s, u), Prunes(u, mid)
    PROVE  Precedes(old, mid)
<1> DEFINE end == GetSessionEndHeight(live, height)
           R   == GetNumBlocksUndelegationRetention
<1>1. height \in Nat /\ end \in Nat /\ height <= end /\ R \in Nat
  <2>1. height \in Nat /\ end \in Nat /\ height <= end
    BY SessionOfNow
  <2>2. live \in Params
    BY IInvFacts DEF ValidParams
  <2>3. R \in Nat
    BY <2>2 DEF GetNumBlocksUndelegationRetention, Params,
                NumSessionsAppToGatewayUndelegationRetention
  <2> QED
    BY <2>1, <2>3
<1> HIDE DEF end, R
<1>2. end + R >= height
  BY <1>1
<1>3. \A g \in old.delegatees \ mid.delegatees :
         [height |-> end, gateway |-> g] \in mid.undelegations
  <2> SUFFICES ASSUME NEW g \in old.delegatees \ mid.delegatees
               PROVE  [height |-> end, gateway |-> g] \in mid.undelegations
    OBVIOUS
  <2>1. [height |-> end, gateway |-> g] \in u.undelegations
    BY DEF Settles, Undelegates, Prunes, end
  <2>2. [height |-> end, gateway |-> g].height = end
    OBVIOUS
  <2> QED
    BY <1>2, <2>1, <2>2 DEF Prunes, R
<1>4. \A v \in old.undelegations : v.height + R >= height => v \in mid.undelegations
  BY DEF Settles, Undelegates, Prunes, R
<1>5. \A g \in mid.delegatees \cap DOMAIN GatewaysLeft :
         IsActiveGateway(GatewaysLeft[g], height) \/ g \in UndelegatedGateways(old)
  <2>1. UndelegatedGateways(old) = UndelegatedGateways(s) /\ mid.delegatees = u.delegatees
    BY DEF Settles, Prunes, UndelegatedGateways
  <2> QED
    BY <2>1 DEF Undelegates
<1> QED
  BY <1>3, <1>4, <1>5 DEF Precedes, Settles, Undelegates, Prunes, end, R

(* What every block end leaves, and that the module account keeps up.      *)
LEMMA BlockStages ==
    ASSUME IInv, ALInv, NEW charged \in SUBSET DOMAIN store.apps, NEW amount \in Charges,
           NEW stuck, ALEndBlock(charged, amount, stuck)
    PROVE  /\ StoreOk(store') /\ BlockLeaves(store, store')
           /\ appPool' \in Int /\ appPool' >= StakeSum(store'.apps)
<1> DEFINE s1 == SettledStore(charged, amount)
           s2 == AutoUndelegated(s1)
           s3 == Pruned(s2)
           U  == UnbondedApplications(s3)
           s4 == RemoveApplications(s3, U)
           s5 == TransfersEnded(s4)
           D  == DOMAIN store.apps
           paid == amount * Cardinality(charged)
           out  == Total(StakesOf(s3.apps), U \ stuck)
<1>1. /\ \A a \in charged : store.apps[a].stake >= amount
      /\ store' = s5 /\ appPool' = appPool - paid - out
  <2>1. BeforeUnbonding(charged, amount) = s3
    BY DEF BeforeUnbonding, SettledStore
  <2> QED
    BY <2>1 DEF ALEndBlock, Unbonded
<1>2. StoreOk(store) /\ amount \in Nat /\ appPool \in Int
      /\ appPool >= StakeSum(store.apps) /\ StakeSum(store.apps) \in Nat
  BY ApplicationAssumption, StoreRecords DEF ALInv
<1>3. /\ StoreOk(s1) /\ DOMAIN s1.apps = D
      /\ \A a \in D : Settles(store.apps[a], s1.apps[a])
      /\ StakeSum(s1.apps) = StakeSum(store.apps) - paid /\ paid \in Nat
  BY <1>1, <1>2, SettlementStage
<1> HIDE DEF s1, paid
<1>4. /\ StoreOk(s2) /\ DOMAIN s2.apps = D
      /\ \A a \in D : Undelegates(s1.apps[a], s2.apps[a])
      /\ StakeSum(s2.apps) = StakeSum(s1.apps)
  BY <1>3, UndelegationStage
<1> HIDE DEF s2
<1>5. /\ StoreOk(s3) /\ DOMAIN s3.apps = D
      /\ \A a \in D : Prunes(s2.apps[a], s3.apps[a])
      /\ StakeSum(s3.apps) = StakeSum(s2.apps)
  BY <1>4, PruningStage
<1> HIDE DEF s3
<1>6. /\ U \in SUBSET D
      /\ \A a \in U : IsReleased(s3.apps[a])
  BY <1>5 DEF UnbondedApplications, StoreOk, IndexesExact, IsReleased
<1> HIDE DEF U
<1>7. /\ StoreOk(s4) /\ DOMAIN s4.apps = D \ U
      /\ \A a \in D \ U : s4.apps[a] = s3.apps[a]
      /\ StakeSum(s4.apps) = StakeSum(s3.apps) - Total(StakesOf(s3.apps), U)
      /\ \A B \in SUBSET U : Total(StakesOf(s3.apps), B) \in Nat
                             /\ Total(StakesOf(s3.apps), B) <= Total(StakesOf(s3.apps), U)
  BY <1>5, <1>6, RemovalKeepsStore
<1> HIDE DEF s4
<1>8. TransfersFollow(s4, s5, s4.transferring)
  BY <1>7, TransferStage
<1> HIDE DEF s5
<1>9. \A a \in D : Precedes(store.apps[a], s3.apps[a])
  BY <1>3, <1>4, <1>5, FirstStagesFollow
<1>10. ASSUME NEW a \in D
       PROVE  EndsBlock(a, s3.apps[a], s5)
  <2>1. CASE a \in U
    BY <1>6, <2>1 DEF EndsBlock
  <2>2. CASE a \notin U
    <3>1. s4.apps[a] = s3.apps[a] /\ a \in DOMAIN s4.apps
      BY <1>7, <2>2
    <3>2. a \in s4.transferring => HasPendingTransfer(s4.apps[a])
      BY <1>7 DEF StoreOk, IndexesExact
    <3> QED
      BY <1>8, <3>1, <3>2 DEF TransfersFollow, EndsBlock
  <2> QED
    BY <2>1, <2>2
<1>11. ASSUME NEW b \in DOMAIN s5.apps, NEW g \in s5.apps[b].delegatees
       PROVE  \E a \in D : \E mid : Precedes(store.apps[a], mid) /\ g \in mid.delegatees
  <2>1. PICK a \in DOMAIN s4.apps : g \in s4.apps[a].delegatees
    BY <1>8 DEF TransfersFollow
  <2>2. a \in D /\ g \in s3.apps[a].delegatees
    BY <1>7, <2>1
  <2> QED
    BY <1>9, <2>2
<1>12. BlockLeaves(store, s5)
  BY <1>9, <1>10, <1>11 DEF BlockLeaves
<1>13. StoreOk(s5) /\ StakeSum(s5.apps) = StakeSum(s4.apps)
  BY <1>8 DEF TransfersFollow
<1>14. appPool' \in Int /\ appPool' >= StakeSum(s5.apps)
  <2> DEFINE all == Total(StakesOf(s3.apps), U)
  <2>1. out \in Nat /\ out <= all /\ all \in Nat
    <3>1. U \ stuck \in SUBSET U /\ U \in SUBSET U
      OBVIOUS
    <3> QED
      BY <1>7, <3>1
  <2> HIDE DEF out, all
  <2>2. StakeSum(s5.apps) = StakeSum(store.apps) - paid - all
    BY <1>3, <1>4, <1>5, <1>7, <1>13 DEF all
  <2> QED
    BY <1>1, <1>2, <1>3, <2>1, <2>2
<1> QED
  BY <1>1, <1>12, <1>13, <1>14

-----------------------------------------------------------------------------
(* The theorems about every state. *)

(* The inductive invariant: the stores and their indexes are as they       *)
(* should be and the accounts hold what the records say.                   *)
THEOREM ALInvariance == ALSpec => []ALInv
<1>1. ALInit => ALInv
  <2> SUFFICES ASSUME ALInit
               PROVE  ALInv
    OBVIOUS
  <2> DEFINE none == [a \in {} |-> 0]
             nog  == [g \in {} |-> [stake |-> 0, unstakeSessionEndHeight |-> 0]]
  <2>1. /\ store = [apps |-> none, unstaking |-> {}, transferring |-> {},
                    delegations |-> {}, undelegations |-> {}]
        /\ appPool = 0 /\ gateways = nog /\ gatewayPool = 0
    BY DEF ALInit, GatewayInit
  <2>2. DOMAIN none = {} /\ DOMAIN nog = {}
    OBVIOUS
  <2> HIDE DEF none, nog
  <2>3. IsFiniteSet({})
    BY FS_EmptySet
  <2>4. StakeSum(none) = 0 /\ StakeSum(nog) = 0
    BY <2>2, TotalOfNone DEF StakeSum
  <2>5. GatewaysOk
    BY <2>1, <2>2, <2>3, <2>4 DEF GatewaysOk
  <2>6. StoreOk(store)
    BY <2>1, <2>2, <2>3 DEF StoreOk, RecordsOk, IndexesExact
  <2> QED
    BY <2>1, <2>4, <2>5, <2>6 DEF ALInv
<1>2. IInv /\ ALInv /\ [ALNext]_alVars => ALInv'
  <2> SUFFICES ASSUME IInv, ALInv, [ALNext]_alVars
               PROVE  ALInv'
    OBVIOUS
  <2>1. CASE UNCHANGED <<gatewayVars, applicationVars>>
    BY <2>1 DEF ALInv, GatewaysOk, gatewayVars, applicationVars
  <2>2. CASE ALGatewayMessage
    <3>1. GatewaysOk'
      BY <2>2, GatewayMessageKeeps DEF ALGatewayMessage, ALInv
    <3> QED
      BY <2>2, <3>1 DEF ALGatewayMessage, ALInv, applicationVars
  <2>3. CASE ApplicationMessage
    BY <2>3, ApplicationMessageKeeps
  <2>4. CASE ALBlockEnds
    <3>1. PICK charged \in SUBSET DOMAIN store.apps, amount \in Charges :
             \E stuck : ALEndBlock(charged, amount, stuck)
      BY <2>4 DEF ALBlockEnds
    <3>2. PICK stuck : ALEndBlock(charged, amount, stuck)
      BY <3>1
    <3>3. GatewaysOk'
      BY <3>2, GatewayEndBlockKeeps DEF ALEndBlock, ALInv
    <3> QED
      BY <3>2, <3>3, BlockStages DEF ALInv
  <2> QED
    BY <2>1, <2>2, <2>3, <2>4 DEF ALNext, ALGovern, alVars, glVars, gatewayVars, applicationVars
<1> QED
  BY <1>1, <1>2, ApplicationParams, PTL DEF ALSpec

(* The records are within their types; the account of the gateways holds   *)
(* exactly their stakes.                                                   *)
THEOREM ApplicationTypeOK == ALSpec => []ALTypeOK
<1>1. ALInv => ALTypeOK
  <2> SUFFICES ASSUME ALInv
               PROVE  ALTypeOK
    OBVIOUS
  <2>1. DOMAIN gateways \subseteq Gateways
        /\ gatewayPool = Total(StakesOf(gateways), DOMAIN gateways)
    BY DEF ALInv, GatewaysOk, StakeSum
  <2>2. DOMAIN store.apps \subseteq Applications
        /\ \A a \in DOMAIN store.apps : RecordOk(a, store.apps[a])
    BY StoreRecords DEF ALInv
  <2>3. ASSUME NEW a \in DOMAIN store.apps
        PROVE  LET app == store.apps[a]
               IN  /\ app.stake \in Nat
                   /\ app.unstakeSessionEndHeight \in Nat
                   /\ app.services \subseteq Services
                   /\ app.delegatees \subseteq Gateways
                   /\ UndelegatedGateways(app) \subseteq Gateways
                   /\ app.transfer.to \in Applications \cup {0}
    <3> DEFINE app == store.apps[a]
    <3>1. RecordOk(a, app)
      BY <2>2
    <3> HIDE DEF app
    <3>2. /\ app.stake \in Nat /\ app.unstakeSessionEndHeight \in Nat
          /\ app.services \subseteq Services /\ app.delegatees \subseteq Gateways
          /\ app.undelegations \subseteq Undelegation
      BY <3>1 DEF RecordOk, Application
    <3>3. UndelegatedGateways(app) \subseteq Gateways
      BY <3>2 DEF UndelegatedGateways, Undelegation
    <3>4. app.transfer.to \in Applications \cup {0}
      BY <3>1 DEF RecordOk, TransferOk, HasPendingTransfer, NoTransfer
    <3> QED
      BY <3>2, <3>3, <3>4 DEF app
  <2> QED
    BY <2>1, <2>2, <2>3 DEF ALTypeOK
<1> QED
  BY <1>1, ALInvariance, PTL

(* The EndBlockers iterate over exactly the applications they should.      *)
THEOREM ApplicationIndexesExactness == ALSpec => []ApplicationIndexesAreExact
<1>1. ALInv => ApplicationIndexesAreExact
  BY DEF ALInv, StoreOk, IndexesExact, Indexed, ApplicationIndexesAreExact
<1> QED
  BY <1>1, ALInvariance, PTL

(* The module account always holds every stake on record.                  *)
THEOREM AppPoolCoverage == ALSpec => []AppPoolCoversStakes
<1>1. ALInv => AppPoolCoversStakes
  BY DEF ALInv, StakeSum, AppPoolCoversStakes
<1> QED
  BY <1>1, ALInvariance, PTL

(* No application stays staked below the minimum.                          *)
THEOREM UnderfundedUnbond == ALSpec => []UnderfundedApplicationsAreUnbonding
<1>1. ALInv => UnderfundedApplicationsAreUnbonding
  BY DEF ALInv, StoreOk, RecordsOk, RecordOk, UnderfundedApplicationsAreUnbonding
<1> QED
  BY <1>1, ALInvariance, PTL

(* A block leaves no application that delegates to a gateway whose last    *)
(* session is over, unless one was undelegating from it at the same time.  *)
THEOREM InactiveGatewaysUndelegated == ALSpec => InactiveGatewaysAreUndelegated
<1>1. IInv /\ ALInv /\ [ALNext]_alVars =>
         [height' = height + 1 =>
            \A a \in DOMAIN store'.apps :
               \A g \in store'.apps[a].delegatees \cap DOMAIN gateways' :
                  \/ IsActiveGateway(gateways'[g], height)
                  \/ \E b \in DOMAIN store.apps :
                        g \in store.apps[b].delegatees
                                \cap UndelegatedGateways(store.apps[b])
         ]_alVars
  <2> SUFFICES ASSUME IInv, ALInv, [ALNext]_alVars, height' = height + 1,
                      NEW a \in DOMAIN store'.apps,
                      NEW g \in store'.apps[a].delegatees \cap DOMAIN gateways'
               PROVE  \/ IsActiveGateway(gateways'[g], height)
                      \/ \E b \in DOMAIN store.apps :
                            g \in store.apps[b].delegatees
                                    \cap UndelegatedGateways(store.apps[b])
    OBVIOUS
  <2>1. height' # height
    <3>1. height \in Nat
      BY SessionOfNow
    <3> QED
      BY <3>1
  <2>2. ALBlockEnds
    <3>1. ASSUME ALGovern
          PROVE  height' = height
      BY <3>1, GovernRecords DEF ALGovern
    <3> QED
      BY <2>1, <3>1
         DEF ALNext, ALGatewayMessage, GatewayMessage, StakeGateway,
             UnstakeGateway, ApplicationMessage, StakeNewApplication, UpdateApplication,
             UnstakeApplication, TransferApplication, DelegateToGateway,
             UndelegateFromGateway, alVars, glVars, paramVars
  <2>3. PICK charged \in SUBSET DOMAIN store.apps, amount \in Charges :
           \E stuck : ALEndBlock(charged, amount, stuck)
    BY <2>2 DEF ALBlockEnds
  <2>4. PICK stuck : ALEndBlock(charged, amount, stuck)
    BY <2>3
  <2>5. BlockLeaves(store, store')
    BY <2>4, BlockStages
  <2>6. gateways' = GatewaysLeft
    BY <2>4 DEF ALEndBlock, GatewayEndBlock
  <2>7. PICK b \in DOMAIN store.apps :
           \E mid : Precedes(store.apps[b], mid) /\ g \in mid.delegatees
    BY <2>5 DEF BlockLeaves
  <2>8. PICK mid : Precedes(store.apps[b], mid) /\ g \in mid.delegatees
    BY <2>7
  <2>9. g \in store.apps[b].delegatees
    BY <2>8 DEF Precedes
  <2>10. IsActiveGateway(GatewaysLeft[g], height) \/ g \in UndelegatedGateways(store.apps[b])
    BY <2>6, <2>8 DEF Precedes
  <2> QED
    BY <2>6, <2>9, <2>10
<1> QED
  BY <1>1, ApplicationParams, ALInvariance, PTL DEF ALSpec, InactiveGatewaysAreUndelegated

-----------------------------------------------------------------------------
(* The sessions of one timing.  As long as no epoch has another session    *)
(* length, every record on file measures sessions from block 1, whatever   *)
(* anchor it carries.                                                      *)

OnGrid(p, n) ==
    /\ p \in Params /\ p.numBlocksPerSession = n
    /\ \/ p.sessionGridAnchorHeight = 0
       \/ \E k \in Nat : p.sessionGridAnchorHeight = 1 + k * n

(* The last block of the session of x, counting from block 1.              *)
UniformEnd(n, x) == ((x - 1) \div n) * n + n

(* It is not before x, and no later than the one of a later block.         *)
LEMMA UniformEndBounds ==
    ASSUME NEW n \in Nat \ {0}, NEW x \in Nat \ {0}
    PROVE  /\ UniformEnd(n, x) \in Nat \ {0} /\ x <= UniformEnd(n, x)
           /\ \A y \in Nat \ {0} : x <= y => UniformEnd(n, x) <= UniformEnd(n, y)
<1> DEFINE Q(y) == (y - 1) \div n
<1>1. \A y \in Nat \ {0} : /\ Q(y) \in Nat /\ Q(y) * n \in Nat
                           /\ Q(y) * n <= y - 1 /\ y - 1 < Q(y) * n + n
  <2> SUFFICES ASSUME NEW y \in Nat \ {0}
               PROVE  /\ Q(y) \in Nat /\ Q(y) * n \in Nat
                      /\ Q(y) * n <= y - 1 /\ y - 1 < Q(y) * n + n
    OBVIOUS
  <2>1. y - 1 \in Nat
    OBVIOUS
  <2> QED
    BY <2>1, DivBounds
<1>2. \A y \in Nat \ {0} : UniformEnd(n, y) = Q(y) * n + n
  BY DEF UniformEnd
<1> HIDE DEF Q
<1>3. ASSUME NEW y \in Nat \ {0}, x <= y
      PROVE  UniformEnd(n, x) <= UniformEnd(n, y)
  <2>1. CASE Q(x) <= Q(y)
    <3>0. Q(x) \in Nat /\ Q(y) \in Nat
      BY <1>1
    <3>1. Q(x) * n <= Q(y) * n
      BY <2>1, <3>0, Z3
    <3> QED
      BY <1>1, <1>2, <3>1
  <2>2. CASE Q(y) < Q(x)
    <3>1. Q(y) + 1 <= Q(x) /\ Q(y) \in Nat /\ Q(x) \in Nat
      BY <1>1, <2>2
    <3>2. (Q(y) + 1) * n <= Q(x) * n
      BY <3>1, Z3
    <3>3. (Q(y) + 1) * n = Q(y) * n + n
      BY <3>1, Z3
    <3>4. FALSE
      BY <1>1, <1>3, <3>2, <3>3
    <3> QED
      BY <3>4
  <2> QED
    BY <1>1, <2>1, <2>2
<1> QED
  BY <1>1, <1>2, <1>3

(* Every record of the grid ends a session where the others do.            *)
LEMMA OnGridEnd ==
    ASSUME NEW n \in Nat \ {0}, NEW p, OnGrid(p, n), NEW x \in Nat \ {0}
    PROVE  GetSessionEndHeight(p, x) = UniformEnd(n, x)
<1> DEFINE a == GridAnchor(p, x)
           q == (x - 1) \div n
<1>1. GetSessionEndHeight(p, x) = a + ((x - a) \div n) * n + n - 1
  BY DEF GetSessionEndHeight, GetSessionStartHeight, OnGrid
<1>2. UniformEnd(n, x) = q * n + n
  BY DEF UniformEnd
<1>3. q \in Nat /\ q * n \in Nat /\ q * n <= x - 1 /\ x - 1 < q * n + n
  <2>1. x - 1 \in Nat
    OBVIOUS
  <2> QED
    BY <2>1, DivBounds
<1>4. \E k \in Nat : a = 1 + k * n /\ a <= x
  <2>1. CASE AnchorUnusable(p, x)
    <3>1. a = 1 + 0 * n /\ a <= x
      BY <2>1 DEF GridAnchor
    <3> QED
      BY <3>1
  <2>2. CASE ~ AnchorUnusable(p, x)
    <3>1. a = p.sessionGridAnchorHeight /\ a # 0 /\ a <= x
      BY <2>2 DEF GridAnchor, AnchorUnusable, OnGrid, Params
    <3> QED
      BY <3>1 DEF OnGrid
  <2> QED
    BY <2>1, <2>2
<1> HIDE DEF a, q
<1>5. PICK k \in Nat : a = 1 + k * n /\ a <= x
  BY <1>4
<1>6. k * n \in Nat
  BY <1>5, Z3
<1>7. k <= q
  <2>1. CASE q < k
    <3>1. q + 1 <= k
      BY <1>3, <2>1
    <3>2. (q + 1) * n <= k * n
      BY <1>3, <3>1, Z3
    <3>3. (q + 1) * n = q * n + n
      BY <1>3, Z3
    <3> QED
      BY <1>3, <1>5, <1>6, <3>2, <3>3
  <2> QED
    BY <1>3, <2>1
<1>8. q - k \in Nat /\ (q - k) * n = q * n - k * n
  <2>1. q - k \in Nat
    BY <1>3, <1>7
  <2> QED
    BY <2>1, <1>3, Z3
<1>9. x - a \in Nat /\ (q - k) * n <= x - a /\ x - a < (q - k) * n + n
  BY <1>3, <1>5, <1>6, <1>8
<1>10. (x - a) \div n = q - k
  BY <1>8, <1>9, DivIsUnique
<1> QED
  BY <1>1, <1>2, <1>3, <1>5, <1>6, <1>8, <1>10

(* Epochs of one session length are all on the grid: each begins where a   *)
(* session of the one before ends.                                         *)
LEMMA EpochsOnGrid ==
    ASSUME NEW hist, GridOk(hist), NEW n \in Nat \ {0},
           \A e \in DOMAIN hist : hist[e].numBlocksPerSession = n
    PROVE  \A e \in DOMAIN hist : OnGrid(hist[e], n)
<1> DEFINE Bad == {e \in DOMAIN hist : ~ OnGrid(hist[e], n)}
<1>1. \A e \in DOMAIN hist : /\ e \in Nat \ {0} /\ Anchored(hist[e], e)
                             /\ hist[e] \in Params
  BY DEF GridOk, Anchored, ValidParams
<1>2. CASE Bad = {}
  BY <1>2
<1>3. CASE Bad # {}
  <2>1. Bad \in SUBSET Nat
    BY <1>1
  <2>2. \E b \in Bad : \A f \in Bad : b <= f
    <3> HIDE DEF Bad
    <3> QED
      BY <1>3, <2>1, FirstHeight
  <2>3. PICK e \in Bad : \A f \in Bad : e <= f
    BY <2>2
  <2> DEFINE a == hist[e].sessionGridAnchorHeight
  <2>4. /\ e \in DOMAIN hist /\ e \in Nat \ {0} /\ ~ OnGrid(hist[e], n)
        /\ hist[e] \in Params /\ hist[e].numBlocksPerSession = n
        /\ a \in Nat \ {0} /\ a <= e
    BY <1>1, <2>3 DEF Anchored
  <2>5. CASE e = 1
    <3>1. a = 1 + 0 * n
      BY <2>4, <2>5
    <3>2. OnGrid(hist[e], n)
      BY <2>4, <3>1 DEF OnGrid
    <3> QED
      BY <2>4, <3>2
  <2>6. CASE e # 1
    <3> DEFINE d == e - 1
               f == Latest(EpochsUpTo(hist, d))
               m == d \div n
    <3>1. d \in Nat \ {0}
      BY <2>4, <2>6
    <3>2. f \in DOMAIN hist /\ f <= d /\ EpochAt(hist, d) = hist[f]
      BY <3>1, EpochFacts DEF EpochAt
    <3>3. OnGrid(hist[f], n)
      <4>1. f < e /\ f \in Nat
        BY <1>1, <2>4, <3>2
      <4>2. f \notin Bad
        BY <2>3, <2>4, <4>1
      <4> QED
        BY <3>2, <4>2
    <3>4. /\ GetSessionEndHeight(hist[f], d) = d
          /\ GetSessionStartHeight(hist[e], e) = e
      BY <2>4, <2>6, <3>2 DEF GridOk
    <3>5. UniformEnd(n, d) = d
      BY <3>1, <3>3, <3>4, OnGridEnd
    <3> DEFINE j == (d - 1) \div n
               q == (e - a) \div n
    <3>6. j \in Nat /\ j * n \in Nat /\ q \in Nat /\ q * n \in Nat
      <4>1. d - 1 \in Nat /\ e - a \in Nat
        BY <2>4, <3>1
      <4> QED
        BY <4>1, DivBounds
    <3>7. d = j * n + n
      BY <3>5 DEF UniformEnd
    <3>8. e = a + q * n
      <4>1. GridAnchor(hist[e], e) = a
        BY <2>4 DEF GridAnchor, AnchorUnusable
      <4> QED
        BY <2>4, <3>4, <4>1 DEF GetSessionStartHeight
    <3> HIDE DEF j, q, a
    <3>9. a = 1 + (j + 1 - q) * n
      <4>1. (j + 1 - q) * n = j * n + n - q * n
        BY <3>6, Z3
      <4> QED
        BY <2>4, <3>6, <3>7, <3>8, <4>1
    <3>10. j + 1 - q \in Nat
      <4>1. CASE j + 1 - q >= 0
        BY <3>6, <4>1
      <4>2. CASE j + 1 - q < 0
        <5>1. q >= j + 2
          BY <3>6, <4>2
        <5>2. q * n >= (j + 2) * n
          BY <3>6, <5>1, Z3
        <5>3. (j + 2) * n = j * n + n + n
          BY <3>6, Z3
        <5> QED
          BY <2>4, <3>6, <3>7, <3>8, <5>2, <5>3
      <4> QED
        BY <3>6, <4>1, <4>2
    <3>11. OnGrid(hist[e], n)
      BY <2>4, <3>9, <3>10 DEF OnGrid, a
    <3> QED
      BY <2>4, <3>11
  <2> QED
    BY <2>5, <2>6
<1> QED
  BY <1>2, <1>3

(* All the records there are, live and promoted ones included, have one    *)
(* timing and one grid.                                                    *)
LEMMA OneGrid ==
    ASSUME IInv, GridInv, OneTiming
    PROVE  \E n \in Nat \ {0} :
              /\ OnGrid(live, n) /\ OnGrid(PromotedParams, n)
              /\ SameTiming(PromotedParams, live)
              /\ \A x \in Nat \ {0} : /\ OnGrid(GetParamsAtHeight(x), n)
                                      /\ SameTiming(GetParamsAtHeight(x), live)
<1> DEFINE n == live.numBlocksPerSession
<1>1. height \in Nat \ {0} /\ live \in Params /\ n \in Nat \ {0}
  BY IInvFacts DEF ValidParams, ValidateBasic, Params
<1>2. CASE DOMAIN history = {}
  <2>1. LegacyGrid(live)
    BY <1>2 DEF IInv, GenesisEpoch
  <2>2. OnGrid(live, n)
    <3>1. live.sessionGridAnchorHeight = 0 \/ live.sessionGridAnchorHeight = 1 + 0 * n
      BY <1>1, <2>1 DEF LegacyGrid
    <3> QED
      BY <1>1, <3>1 DEF OnGrid
  <2>3. PromotedParams = live
    BY <1>2 DEF PromotedParams
  <2>4. \A x \in Nat \ {0} : GetParamsAtHeight(x) = live
    BY <1>2 DEF GetParamsAtHeight, ParamsAt, EpochsUpTo
  <2> QED
    BY <1>1, <2>2, <2>3, <2>4 DEF SameTiming
<1>3. CASE DOMAIN history # {}
  <2>1. GridOk(history)
    BY <1>3 DEF GridInv, SeededHistory
  <2>2. \A x \in Nat \ {0} : \E e \in DOMAIN history : GetParamsAtHeight(x) = history[e]
    <3> SUFFICES ASSUME NEW x \in Nat \ {0}
                 PROVE  \E e \in DOMAIN history : GetParamsAtHeight(x) = history[e]
      OBVIOUS
    <3>1. EpochsUpTo(history, x) # {} /\ Latest(EpochsUpTo(history, x)) \in DOMAIN history
      BY <2>1, EpochFacts
    <3> QED
      BY <3>1 DEF GetParamsAtHeight, ParamsAt
  <2>3. PICK b \in DOMAIN history : PreviousParams = history[b]
    <3>1. (IF height = 1 THEN 1 ELSE height - 1) \in Nat \ {0}
      BY <1>1
    <3> QED
      BY <2>2, <3>1 DEF PreviousParams
  <2>4. \A e \in DOMAIN history : SameTiming(history[e], live)
    <3>1. SameTiming(live, history[b])
      BY <2>3 DEF IInv, LiveIsPrevious
    <3> QED
      BY <3>1 DEF OneTiming, sessionTimingParamsChanged, SameTiming
  <2>5. \A e \in DOMAIN history : history[e].numBlocksPerSession = n
    BY <2>4 DEF SameTiming, TimingParams
  <2> HIDE DEF n
  <2>6. \A e \in DOMAIN history : OnGrid(history[e], n)
    BY <1>1, <2>1, <2>5, EpochsOnGrid
  <2>7. OnGrid(live, n)
    <3>1. SameGrid(live, history[b])
      BY <2>3 DEF IInv, LiveIsPrevious
    <3>2. CASE LegacyGrid(live)
      <4>1. live.sessionGridAnchorHeight = 0 \/ live.sessionGridAnchorHeight = 1 + 0 * n
        BY <1>1, <3>2 DEF LegacyGrid
      <4> QED
        BY <1>1, <4>1 DEF OnGrid, n
    <3>3. CASE live.sessionGridAnchorHeight = history[b].sessionGridAnchorHeight
      BY <1>1, <2>6, <3>3 DEF OnGrid, n
    <3> QED
      BY <3>1, <3>2, <3>3 DEF SameGrid
  <2>8. PromotedParams = live \/ \E e \in DOMAIN history : PromotedParams = history[e]
    BY DEF PromotedParams
  <2>9. OnGrid(PromotedParams, n) /\ SameTiming(PromotedParams, live)
    <3>1. SameTiming(live, live)
      BY DEF SameTiming
    <3> QED
      BY <2>4, <2>6, <2>7, <2>8, <3>1
  <2>10. \A x \in Nat \ {0} : /\ OnGrid(GetParamsAtHeight(x), n)
                              /\ SameTiming(GetParamsAtHeight(x), live)
    BY <2>2, <2>4, <2>6
  <2> QED
    BY <1>1, <2>7, <2>9, <2>10
<1> QED
  BY <1>2, <1>3

Window == GetSessionEndToProofWindowCloseBlocks(live)

(* So any of the records gives a height its session, and sessions end one  *)
(* after the other.                                                        *)
LEMMA UniformSessions ==
    ASSUME IInv, GridInv, OneTiming
    PROVE  /\ Window \in Nat
           /\ \A x \in Nat \ {0} :
                 /\ SessionAt(x).end = GetSessionEndHeight(live, x)
                 /\ GetSessionEndHeight(PromotedParams, x) = GetSessionEndHeight(live, x)
                 /\ GetSessionEndHeight(live, x) \in Nat \ {0}
                 /\ x <= GetSessionEndHeight(live, x)
                 /\ LastProofHeight(x) = GetSessionEndHeight(live, x) + Window + 1
                 /\ GetProofWindowCloseHeight(live, x)
                      = GetSessionEndHeight(live, x) + Window + 1
                 /\ \A y \in Nat \ {0} : x <= y =>
                       GetSessionEndHeight(live, x) <= GetSessionEndHeight(live, y)
<1>1. live \in ValidParams
  BY IInvFacts
<1>2. Window \in Nat
  BY <1>1, WindowsInOrder DEF Window
<1>3. PICK n \in Nat \ {0} :
         /\ OnGrid(live, n) /\ OnGrid(PromotedParams, n)
         /\ \A x \in Nat \ {0} : /\ OnGrid(GetParamsAtHeight(x), n)
                                 /\ SameTiming(GetParamsAtHeight(x), live)
  BY OneGrid
<1>4. ASSUME NEW x \in Nat \ {0}
      PROVE  /\ SessionAt(x).end = GetSessionEndHeight(live, x)
             /\ GetSessionEndHeight(PromotedParams, x) = GetSessionEndHeight(live, x)
             /\ GetSessionEndHeight(live, x) \in Nat \ {0}
             /\ x <= GetSessionEndHeight(live, x)
             /\ LastProofHeight(x) = GetSessionEndHeight(live, x) + Window + 1
             /\ GetProofWindowCloseHeight(live, x) = GetSessionEndHeight(live, x) + Window + 1
             /\ \A y \in Nat \ {0} : x <= y =>
                   GetSessionEndHeight(live, x) <= GetSessionEndHeight(live, y)
  <2> DEFINE p == GetParamsAtHeight(x)
  <2>1. p \in ValidParams /\ OnGrid(p, n) /\ SameTiming(p, live)
    BY <1>3, LookupValid
  <2>2. SessionAt(x).end = GetSessionEndHeight(p, x)
    BY DEF SessionAt
  <2>3. LastProofHeight(x) = GetProofWindowCloseHeight(p, x)
    BY DEF LastProofHeight
  <2> HIDE DEF p
  <2>4. \A y \in Nat \ {0} : GetSessionEndHeight(live, y) = UniformEnd(n, y)
    BY <1>3, OnGridEnd
  <2>5. /\ GetSessionEndHeight(p, x) = UniformEnd(n, x)
        /\ GetSessionEndHeight(PromotedParams, x) = UniformEnd(n, x)
    BY <1>3, <2>1, OnGridEnd
  <2>6. /\ UniformEnd(n, x) \in Nat \ {0} /\ x <= UniformEnd(n, x)
        /\ \A y \in Nat \ {0} : x <= y => UniformEnd(n, x) <= UniformEnd(n, y)
    BY UniformEndBounds
  <2>7. GetSessionEndToProofWindowCloseBlocks(p) = Window
    BY <2>1 DEF GetSessionEndToProofWindowCloseBlocks, Window, SameTiming, TimingParams
  <2>8. GetProofWindowCloseHeight(p, x) = GetSessionEndHeight(p, x) + Window + 1
    BY <2>1, <2>7, WindowsInOrder
  <2>9. GetProofWindowCloseHeight(live, x) = GetSessionEndHeight(live, x) + Window + 1
    BY <1>1, WindowsInOrder DEF Window
  <2> QED
    BY <2>2, <2>3, <2>4, <2>5, <2>6, <2>8, <2>9
<1> QED
  BY <1>2, <1>4

(* What is on record leaves time, and live if there is nothing yet.        *)
RecordsLeaveTime ==
    /\ OneTiming
    /\ \A e \in DOMAIN history : OutlastsProofs(history[e])
    /\ DOMAIN history = {} => OutlastsProofs(live)

(* An undelegation outlasts the proof window, and so does the unbonding    *)
(* period, whenever it began.                                              *)
LEMMA ProofsAreOutlasted ==
    ASSUME IInv, GridInv, RecordsLeaveTime
    PROVE  /\ GetNumBlocksUndelegationRetention \in Nat
           /\ Window <= GetNumBlocksUndelegationRetention
           /\ \A x \in Nat \ {0} :
                 LET p == GetParamsAtHeight(x)
                 IN  /\ p.applicationUnbondingPeriodSessions * p.numBlocksPerSession \in Nat
                     /\ Window
                          < p.applicationUnbondingPeriodSessions * p.numBlocksPerSession
<1>1. /\ live \in ValidParams
      /\ \A x \in Nat \ {0} : /\ GetParamsAtHeight(x) \in ValidParams
                              /\ SameTiming(GetParamsAtHeight(x), live)
  BY IInvFacts, LookupValid, OneGrid DEF RecordsLeaveTime
<1>2. ASSUME NEW x \in Nat \ {0}
      PROVE  OutlastsProofs(GetParamsAtHeight(x))
  <2>1. CASE DOMAIN history = {}
    <3>1. GetParamsAtHeight(x) = live
      BY <2>1 DEF GetParamsAtHeight, ParamsAt, EpochsUpTo
    <3> QED
      BY <2>1, <3>1 DEF RecordsLeaveTime
  <2>2. CASE DOMAIN history # {}
    <3>1. GridOk(history)
      BY <2>2 DEF GridInv, SeededHistory
    <3>2. EpochsUpTo(history, x) # {} /\ Latest(EpochsUpTo(history, x)) \in DOMAIN history
      BY <3>1, EpochFacts
    <3> QED
      BY <3>2 DEF GetParamsAtHeight, ParamsAt, RecordsLeaveTime
  <2> QED
    BY <2>1, <2>2
<1>3. ASSUME NEW x \in Nat \ {0}, NEW p, p = GetParamsAtHeight(x)
      PROVE  /\ GetSessionEndToProofWindowCloseBlocks(p) = Window
             /\ p.gracePeriodEndOffsetBlocks = live.gracePeriodEndOffsetBlocks
             /\ p.numBlocksPerSession = live.numBlocksPerSession
             /\ p.applicationUnbondingPeriodSessions \in Nat
             /\ p.numBlocksPerSession \in Nat
             /\ OutlastsProofs(p)
  <2>1. p \in Params
    BY <1>1, <1>3 DEF ValidParams
  <2>2. SameTiming(p, live)
    BY <1>1, <1>3
  <2> QED
    BY <1>2, <1>3, <2>1, <2>2
       DEF GetSessionEndToProofWindowCloseBlocks, Window, SameTiming, TimingParams, Params
<1>4. live.gracePeriodEndOffsetBlocks \in Nat /\ live.numBlocksPerSession \in Nat
  BY <1>1 DEF ValidParams, Params
<1>5. GetNumBlocksUndelegationRetention \in Nat
      /\ Window <= GetNumBlocksUndelegationRetention
  <2>1. PICK p : p = GetParamsAtHeight(1)
    OBVIOUS
  <2> QED
    BY <1>3, <1>4, <2>1
       DEF OutlastsProofs, GetNumBlocksUndelegationRetention,
           NumSessionsAppToGatewayUndelegationRetention
<1>6. ASSUME NEW x \in Nat \ {0}, NEW p, p = GetParamsAtHeight(x)
      PROVE  /\ p.applicationUnbondingPeriodSessions * p.numBlocksPerSession \in Nat
             /\ Window < p.applicationUnbondingPeriodSessions * p.numBlocksPerSession
  <2>1. Window < p.applicationUnbondingPeriodSessions * p.numBlocksPerSession
    BY <1>3, <1>6 DEF OutlastsProofs
  <2>2. p.applicationUnbondingPeriodSessions \in Nat /\ p.numBlocksPerSession \in Nat
    BY <1>3, <1>6
  <2>3. p.applicationUnbondingPeriodSessions * p.numBlocksPerSession \in Nat
    BY <2>2, Z3
  <2> QED
    BY <2>1, <2>3
<1> QED
  BY <1>5, <1>6

-----------------------------------------------------------------------------
(* Sessions through a step.  HasSession and RingGateways of a record, for  *)
(* the session that ends at E.                                             *)

SessionOf(app, E) ==
    IsActive(app, E) /\ (HasPendingTransfer(app) => E <= app.transfer.end)

RingOf(app, E) ==
    app.delegatees \cup {u.gateway : u \in {v \in app.undelegations : v.height >= E}}

(* What every message and every end of a block leaves of an application    *)
(* that it does not take off the store; h is the last height whose         *)
(* undelegations may go.                                                   *)
Carries(old, new, h) ==
    LET end == GetSessionEndHeight(live, height)
    IN  /\ new.unstakeSessionEndHeight \in {old.unstakeSessionEndHeight, end, NotUnstaking}
        /\ new.transfer = old.transfer \/ new.transfer.end = end
        /\ \A g \in old.delegatees \ new.delegatees :
              [height |-> end, gateway |-> g] \in new.undelegations
        /\ \A u \in old.undelegations :
              u.height + GetNumBlocksUndelegationRetention >= h =>
                 u \in new.undelegations \/ u.gateway \in new.delegatees
        /\ \A x \in Nat \ {0} :
              x < GetNextSessionStartHeight(live, height) =>
                 ActiveServices(new, x) = ActiveServices(old, x)

(* The sessions begun go on ...                                            *)
LEMMA SessionIsCarried ==
    ASSUME NEW old, NEW new, NEW h, Carries(old, new, h), NEW E \in Nat,
           E <= GetSessionEndHeight(live, height), SessionOf(old, E)
    PROVE  SessionOf(new, E)
<1> DEFINE end == GetSessionEndHeight(live, height)
<1>1. new.unstakeSessionEndHeight \in {old.unstakeSessionEndHeight, end, NotUnstaking}
      /\ (new.transfer = old.transfer \/ new.transfer.end = end)
  BY DEF Carries
<1>2. E <= end
  OBVIOUS
<1> HIDE DEF end
<1>3. HasPendingTransfer(new) => E <= new.transfer.end
  BY <1>1, <1>2 DEF SessionOf, HasPendingTransfer
<1>4. IsUnbonding(new) => E <= new.unstakeSessionEndHeight
  BY <1>1, <1>2 DEF SessionOf, IsActive, IsUnbonding
<1> QED
  BY <1>3, <1>4 DEF SessionOf, IsActive

(* ... and keep the gateways that could sign in them.                      *)
LEMMA RingIsCarried ==
    ASSUME NEW old \in Application, NEW new, NEW h \in Nat, Carries(old, new, h), NEW E \in Nat,
           E <= GetSessionEndHeight(live, height),
           GetNumBlocksUndelegationRetention \in Nat,
           E + GetNumBlocksUndelegationRetention >= h
    PROVE  RingOf(old, E) \subseteq RingOf(new, E)
<1> DEFINE end == GetSessionEndHeight(live, height)
           R   == GetNumBlocksUndelegationRetention
<1>1. /\ \A g \in old.delegatees \ new.delegatees :
            [height |-> end, gateway |-> g] \in new.undelegations
      /\ \A u \in old.undelegations :
            u.height + R >= h => u \in new.undelegations \/ u.gateway \in new.delegatees
  BY DEF Carries
<1>2. E <= end /\ E + R >= h /\ R \in Nat
  OBVIOUS
<1> HIDE DEF end, R
<1> SUFFICES ASSUME NEW g \in RingOf(old, E)
             PROVE  g \in RingOf(new, E)
  OBVIOUS
<1>3. CASE g \in old.delegatees
  <2>1. CASE g \in new.delegatees
    BY <2>1 DEF RingOf
  <2>2. CASE g \notin new.delegatees
    <3> DEFINE u == [height |-> end, gateway |-> g]
    <3>1. u \in new.undelegations /\ u.height = end /\ u.gateway = g
      BY <1>1, <1>3, <2>2
    <3> HIDE DEF u
    <3> QED
      BY <1>2, <3>1 DEF RingOf
  <2> QED
    BY <2>1, <2>2
<1>4. CASE g \notin old.delegatees
  <2>1. PICK u \in old.undelegations : u.height >= E /\ u.gateway = g
    BY <1>4 DEF RingOf
  <2>2. u.height \in Nat
    BY DEF Application, Undelegation
  <2>3. u.height + R >= h
    BY <1>2, <2>1, <2>2
  <2>4. u \in new.undelegations \/ u.gateway \in new.delegatees
    BY <1>1, <2>3
  <2> QED
    BY <2>1, <2>4 DEF RingOf
<1> QED
  BY <1>3, <1>4

(* Every message carries every application.                                *)
LEMMA MessageCarries ==
    ASSUME IInv, ALInv, ApplicationMessage, NEW a \in DOMAIN store.apps, NEW h
    PROVE  a \in DOMAIN store'.apps /\ Carries(store.apps[a], store'.apps[a], h)
<1> DEFINE apps == store.apps
           D    == DOMAIN apps
           end  == GetSessionEndHeight(live, height)
<1>1. PICK b \in Applications :
         \/ \E amount \in AppStakes, service \in Services :
               \/ StakeNewApplication(b, amount, {service})
               \/ UpdateApplication(b, amount, {service})
         \/ UnstakeApplication(b)
         \/ \E to \in Applications : TransferApplication(b, to)
         \/ \E g \in Gateways : DelegateToGateway(b, g) \/ UndelegateFromGateway(b, g)
  BY DEF ApplicationMessage
<1>2. \A c \in D : RecordOk(c, apps[c]) /\ apps[c] \in Application
  BY StoreRecords DEF ALInv
<1>3. \A app : Carries(app, app, h)
  BY DEF Carries
<1>4. \A app : store' = SetApplication(store, b, app) =>
         /\ b \in DOMAIN store'.apps /\ store'.apps[b] = app
         /\ \A c \in D \ {b} : c \in DOMAIN store'.apps /\ store'.apps[c] = apps[c]
  BY DEF SetApplication, SetApplications, PutAll
<1>5. ASSUME NEW app, store' = SetApplication(store, b, app),
             b \in D => Carries(apps[b], app, h)
      PROVE  a \in DOMAIN store'.apps /\ Carries(apps[a], store'.apps[a], h)
  <2>1. CASE a = b
    BY <1>4, <1>5, <2>1
  <2>2. CASE a # b
    BY <1>3, <1>4, <1>5, <2>2
  <2> QED
    BY <2>1, <2>2
<1>6. ASSUME NEW amount \in AppStakes, NEW service \in Services,
             StakeNewApplication(b, amount, {service})
      PROVE  a \in DOMAIN store'.apps /\ Carries(apps[a], store'.apps[a], h)
  BY <1>5, <1>6 DEF StakeNewApplication
<1>7. ASSUME NEW amount \in AppStakes, NEW service \in Services,
             UpdateApplication(b, amount, {service})
      PROVE  a \in DOMAIN store'.apps /\ Carries(apps[a], store'.apps[a], h)
  <2> DEFINE old == apps[b]
             mid == RecordServiceConfigChange(old, {service})
             new == [mid EXCEPT !.stake = amount, !.unstakeSessionEndHeight = NotUnstaking]
  <2>1. b \in D /\ store' = SetApplication(store, b, new)
    BY <1>7 DEF UpdateApplication
  <2>2. old \in Application /\ {service} \in SUBSET Services
    BY <1>2, <2>1
  <2>3. mid \in Application /\ SameButServices(old, mid)
    BY <2>2, ServiceChangeKeepsRest
  <2>4. \A x \in Nat \ {0} : x < GetNextSessionStartHeight(live, height) =>
           ActiveServices(mid, x) = ActiveServices(old, x)
    BY <2>2, ServiceChangeIsLater
  <2> HIDE DEF mid
  <2>5. /\ new.unstakeSessionEndHeight = NotUnstaking
        /\ new.transfer = mid.transfer /\ new.delegatees = mid.delegatees
        /\ new.undelegations = mid.undelegations
        /\ new.services = mid.services /\ new.history = mid.history
    BY <2>3 DEF Application
  <2> HIDE DEF new
  <2>6. \A x : ActiveServices(new, x) = ActiveServices(mid, x)
    BY <2>5 DEF ActiveServices
  <2>7. Carries(old, new, h)
    BY <2>3, <2>4, <2>5, <2>6 DEF Carries, SameButServices
  <2> QED
    BY <1>5, <2>1, <2>7
<1>8. ASSUME UnstakeApplication(b)
      PROVE  a \in DOMAIN store'.apps /\ Carries(apps[a], store'.apps[a], h)
  <2> DEFINE old == apps[b]
             new == [old EXCEPT !.unstakeSessionEndHeight = end]
  <2>1. b \in D /\ store' = SetApplication(store, b, new)
    BY <1>8 DEF UnstakeApplication
  <2>2. /\ new.unstakeSessionEndHeight = end
        /\ new.transfer = old.transfer /\ new.delegatees = old.delegatees
        /\ new.undelegations = old.undelegations
        /\ new.services = old.services /\ new.history = old.history
    BY <1>2, <2>1 DEF Application
  <2> HIDE DEF new
  <2>3. Carries(old, new, h)
    BY <2>2 DEF Carries, ActiveServices
  <2> QED
    BY <1>5, <2>1, <2>3
<1>9. ASSUME NEW to \in Applications, TransferApplication(b, to)
      PROVE  a \in DOMAIN store'.apps /\ Carries(apps[a], store'.apps[a], h)
  <2> DEFINE old == apps[b]
             new == [old EXCEPT !.transfer = [to |-> to, end |-> end]]
  <2>1. b \in D /\ store' = SetApplication(store, b, new)
    BY <1>9 DEF TransferApplication
  <2>2. /\ new.unstakeSessionEndHeight = old.unstakeSessionEndHeight
        /\ new.transfer.end = end /\ new.delegatees = old.delegatees
        /\ new.undelegations = old.undelegations
        /\ new.services = old.services /\ new.history = old.history
    BY <1>2, <2>1 DEF Application
  <2> HIDE DEF new
  <2>3. Carries(old, new, h)
    BY <2>2 DEF Carries, ActiveServices
  <2> QED
    BY <1>5, <2>1, <2>3
<1>10. ASSUME NEW g \in Gateways, DelegateToGateway(b, g)
       PROVE  a \in DOMAIN store'.apps /\ Carries(apps[a], store'.apps[a], h)
  <2> DEFINE old == apps[b]
             gs  == old.delegatees \cup {g}
             us  == {u \in old.undelegations : u.gateway # g}
             new == [old EXCEPT !.delegatees = gs, !.undelegations = us]
  <2>1. b \in D /\ store' = SetApplication(store, b, new)
    BY <1>10 DEF DelegateToGateway
  <2>2. old.delegatees \subseteq gs /\ \A u \in old.undelegations : u \in us \/ u.gateway \in gs
    OBVIOUS
  <2> HIDE DEF gs, us
  <2>3. /\ new.unstakeSessionEndHeight = old.unstakeSessionEndHeight
        /\ new.transfer = old.transfer /\ new.delegatees = gs
        /\ new.undelegations = us
        /\ new.services = old.services /\ new.history = old.history
    BY <1>2, <2>1 DEF Application
  <2> HIDE DEF new
  <2>4. Carries(old, new, h)
    BY <2>2, <2>3 DEF Carries, ActiveServices
  <2> QED
    BY <1>5, <2>1, <2>4
<1>11. ASSUME NEW g \in Gateways, UndelegateFromGateway(b, g)
       PROVE  a \in DOMAIN store'.apps /\ Carries(apps[a], store'.apps[a], h)
  <2> DEFINE old == apps[b]
             new == Undelegated(old, {g})
  <2>1. b \in D /\ store' = SetApplication(store, b, new)
    BY <1>11 DEF UndelegateFromGateway
  <2>2. /\ new.unstakeSessionEndHeight = old.unstakeSessionEndHeight
        /\ new.transfer = old.transfer
        /\ new.services = old.services /\ new.history = old.history
        /\ new.delegatees = old.delegatees \ {g}
        /\ new.undelegations = old.undelegations \cup [height : {end}, gateway : {g}]
    BY <1>2, <2>1, UndelegatedRecord
  <2> HIDE DEF new
  <2>3. [height |-> end, gateway |-> g] \in [height : {end}, gateway : {g}]
    OBVIOUS
  <2>4. Carries(old, new, h)
    BY <2>2, <2>3 DEF Carries, ActiveServices
  <2> QED
    BY <1>5, <2>1, <2>4
<1> QED
  BY <1>1, <1>6, <1>7, <1>8, <1>9, <1>10, <1>11

(* The end of a block carries every application with a session that can    *)
(* still be proven.                                                        *)
LEMMA BlockCarries ==
    ASSUME IInv, GridInv, ALInv, RecordsLeaveTime, BlockLeaves(store, store'),
           NEW a \in DOMAIN store.apps, NEW E \in Nat \ {0},
           E <= GetSessionEndHeight(live, height), height <= E + Window,
           SessionOf(store.apps[a], E)
    PROVE  a \in DOMAIN store'.apps /\ Carries(store.apps[a], store'.apps[a], height)
<1> DEFINE old  == store.apps[a]
           end  == GetSessionEndHeight(live, height)
<1>1. PICK mid : Precedes(old, mid) /\ EndsBlock(a, mid, store')
  BY DEF BlockLeaves
<1>2. old \in Application /\ TransferOk(a, old)
  BY StoreRecords DEF ALInv, RecordOk
<1>3. Window \in Nat /\ height \in Nat \ {0} /\ end \in Nat \ {0} /\ E <= end
  BY UniformSessions, SessionOfNow DEF RecordsLeaveTime
<1> HIDE DEF end
<1>4. mid.unstakeSessionEndHeight \in {old.unstakeSessionEndHeight, end}
      /\ mid.transfer = old.transfer
      /\ mid.services = old.services /\ mid.history = old.history
  BY <1>1 DEF Precedes, end
<1>5. ~ IsReleased(mid)
  <2> SUFFICES ASSUME IsReleased(mid)
               PROVE  FALSE
    OBVIOUS
  <2> DEFINE ue == mid.unstakeSessionEndHeight
             p  == GetParamsAtHeight(ue)
             period == p.applicationUnbondingPeriodSessions * p.numBlocksPerSession
  <2>1. ue # 0 /\ GetApplicationUnbondingHeight(mid) <= height
    BY DEF IsReleased, IsUnbonding, NotUnstaking
  <2>2. ue \in Nat \ {0} /\ E <= ue
    <3>1. CASE ue = end
      BY <1>3, <3>1
    <3>2. CASE ue = old.unstakeSessionEndHeight
      <4>1. ue \in Nat
        BY <1>2, <3>2 DEF Application
      <4>2. E <= ue
        BY <2>1, <3>2 DEF SessionOf, IsActive, IsUnbonding, NotUnstaking
      <4> QED
        BY <2>1, <4>1, <4>2
    <3> QED
      BY <1>4, <3>1, <3>2
  <2>3. GetApplicationUnbondingHeight(mid) = ue + period
    BY DEF GetApplicationUnbondingHeight
  <2>4. period \in Nat /\ Window < period
    BY <2>2, ProofsAreOutlasted
  <2> HIDE DEF period
  <2> QED
    BY <1>3, <2>1, <2>2, <2>3, <2>4
<1>6. ~ (HasPendingTransfer(mid) /\ TransferIsOver(mid))
  <2> SUFFICES ASSUME HasPendingTransfer(mid), TransferIsOver(mid)
               PROVE  FALSE
    OBVIOUS
  <2> DEFINE te == old.transfer.end
  <2>1. HasPendingTransfer(old)
    BY <1>4 DEF HasPendingTransfer
  <2>2. te \in Nat \ {0} /\ E <= te
    BY <1>2, <2>1 DEF SessionOf, TransferOk
  <2>3. GetProofWindowCloseHeight(live, te) <= height
    BY <1>4 DEF TransferIsOver, GetApplicationTransferHeight
  <2>4. /\ GetProofWindowCloseHeight(live, te) = GetSessionEndHeight(live, te) + Window + 1
        /\ GetSessionEndHeight(live, te) \in Nat /\ te <= GetSessionEndHeight(live, te)
    BY <2>2, UniformSessions DEF RecordsLeaveTime
  <2> QED
    BY <1>3, <2>2, <2>3, <2>4
<1>7. a \in DOMAIN store'.apps /\ Extends(mid, store'.apps[a])
  BY <1>1, <1>5, <1>6 DEF EndsBlock
<1> DEFINE new == store'.apps[a]
<1> HIDE DEF new
<1>8. Extends(mid, new)
  BY <1>7 DEF new
<1>9. \A x : ActiveServices(mid, x) = ActiveServices(old, x)
  BY <1>4 DEF ActiveServices
<1>10. \A x \in Nat \ {0} : x < GetNextSessionStartHeight(live, height) =>
          ActiveServices(new, x) = ActiveServices(old, x)
  BY <1>8, <1>9 DEF Extends
<1>11. \A g \in old.delegatees \ new.delegatees :
          [height |-> end, gateway |-> g] \in new.undelegations
  BY <1>1, <1>8 DEF Extends, Precedes, end
<1>12. \A u \in old.undelegations :
          u.height + GetNumBlocksUndelegationRetention >= height => u \in new.undelegations
  BY <1>1, <1>8 DEF Extends, Precedes
<1>13. Carries(old, new, height)
  BY <1>4, <1>8, <1>10, <1>11, <1>12 DEF Carries, Extends, end
<1> QED
  BY <1>7, <1>13 DEF new

(* A governance message moves no session of the past or the present, nor   *)
(* where live ends one.                                                    *)
LEMMA GovernKeepsSessions ==
    ASSUME IInv, ALGovern, NEW x \in Nat \ {0}
    PROVE  /\ store' = store
           /\ GetSessionEndHeight(live', x) = GetSessionEndHeight(live, x)
<1>1. PICK p \in ValidParams : RecordParamsHistory(p)
  BY GovernRecords DEF ALGovern
<1>2. /\ live' \in ValidParams /\ SameTiming(live', live)
      /\ live'.sessionGridAnchorHeight = live.sessionGridAnchorHeight
      /\ live'.sessionNumberAtAnchor = live.sessionNumberAtAnchor
  BY <1>1, RecordStep
<1>3. live \in Params /\ live' \in Params
  BY <1>2, IInvFacts DEF ValidParams
<1>4. SameGrid(live', live) /\ live'.numBlocksPerSession = live.numBlocksPerSession
  BY <1>2 DEF SameGrid, SameTiming, TimingParams
<1>5. GetSessionEndHeight(live', x) = GetSessionEndHeight(live, x)
  BY <1>3, <1>4, SameSessions
<1> QED
  BY <1>5 DEF ALGovern, applicationVars

(* The block before one up to the next is one up to this.                  *)
LEMMA HeightBefore ==
    ASSUME NEW i \in Nat \ {0}, NEW m \in Nat, i <= m + 1
    PROVE  i - 1 \in Nat /\ i - 1 <= m
OBVIOUS

(* Every other step carries the applications with a session that can still *)
(* be proven.                                                              *)
LEMMA StepCarries ==
    ASSUME IInv, GridInv, ALInv, ALGatewayMessage \/ ApplicationMessage \/ ALBlockEnds,
           ParamsLeaveTime', NEW a, NEW x \in Nat \ {0}, x <= SessionAt(height).end,
           height' <= LastProofHeight(x), HasSession(a, x)
    PROVE  LET E == GetSessionEndHeight(live, x)
               h == height' - 1
           IN  /\ a \in DOMAIN store.apps /\ a \in DOMAIN store'.apps
               /\ Carries(store.apps[a], store'.apps[a], h)
               /\ SessionAt(x).end = E /\ GetSessionEndHeight(live', x) = E
               /\ E \in Nat \ {0} /\ E <= GetSessionEndHeight(live, height)
               /\ SessionOf(store.apps[a], E)
               /\ h \in Nat /\ GetNumBlocksUndelegationRetention \in Nat
               /\ E + GetNumBlocksUndelegationRetention >= h
               /\ x < GetNextSessionStartHeight(live, height)
<1> DEFINE E   == GetSessionEndHeight(live, x)
           end == GetSessionEndHeight(live, height)
           R   == GetNumBlocksUndelegationRetention
           h   == height' - 1
<1>1. height \in Nat \ {0} /\ end \in Nat \ {0}
      /\ GetNextSessionStartHeight(live, height) = end + 1
  BY SessionOfNow
<1>2. /\ history' = history
      /\ \/ height' = height + 1 /\ live' = PromotedParams
         \/ height' = height /\ live' = live
  <2>1. CASE ALGatewayMessage \/ ApplicationMessage
    BY <2>1
       DEF ALGatewayMessage, GatewayMessage, StakeGateway, UnstakeGateway, ApplicationMessage,
           StakeNewApplication, UpdateApplication, UnstakeApplication, TransferApplication,
           DelegateToGateway, UndelegateFromGateway, glVars, paramVars
  <2>2. CASE ALBlockEnds
    BY <2>2 DEF ALBlockEnds, ALEndBlock, EndBlock, PromoteParams
  <2> QED
    BY <2>1, <2>2
<1>3. RecordsLeaveTime
  <2>1. OneTiming
    BY <1>2 DEF ParamsLeaveTime, OneTiming
  <2>2. \A e \in DOMAIN history : OutlastsProofs(history[e])
    BY <1>2 DEF ParamsLeaveTime
  <2>3. DOMAIN history = {} => OutlastsProofs(live)
    <3>1. DOMAIN history = {} => live' = live
      BY <1>2 DEF PromotedParams
    <3>2. OutlastsProofs(live')
      BY DEF ParamsLeaveTime
    <3> QED
      BY <3>1, <3>2
  <2> QED
    BY <2>1, <2>2, <2>3 DEF RecordsLeaveTime
<1>4. /\ Window \in Nat /\ E \in Nat \ {0}
      /\ SessionAt(x).end = E /\ SessionAt(height).end = end
      /\ GetSessionEndHeight(PromotedParams, x) = E
      /\ x <= E
      /\ LastProofHeight(x) = E + Window + 1
  BY <1>1, <1>3, UniformSessions DEF RecordsLeaveTime
<1>5. GetSessionEndHeight(live', x) = E
  BY <1>2, <1>4
<1>6. E <= end
  <2>1. CASE x <= height
    BY <1>1, <1>3, <2>1, UniformSessions DEF RecordsLeaveTime
  <2>2. CASE height < x
    <3>1. /\ SessionAt(height).start <= height
          /\ SessionAt(height).start \in Nat
          /\ \A y \in SessionAt(height).start..SessionAt(height).end :
                SessionAt(y) = SessionAt(height)
      BY <1>1, SessionFacts
    <3>2. x \in SessionAt(height).start..SessionAt(height).end
      BY <1>1, <1>4, <2>2, <3>1
    <3>3. SessionAt(x) = SessionAt(height)
      BY <3>1, <3>2
    <3> QED
      BY <1>1, <1>4, <3>3
  <2> QED
    BY <1>1, <2>1, <2>2
<1>7. R \in Nat /\ Window <= R
  BY <1>3, ProofsAreOutlasted
<1>8. h \in Nat /\ h <= E + Window
  <2>1. height' \in Nat \ {0}
    BY <1>1, <1>2
  <2>2. height' <= E + Window + 1 /\ E \in Nat /\ Window \in Nat
    BY <1>4
  <2> HIDE DEF E
  <2>3. E + Window \in Nat /\ height' <= (E + Window) + 1
    BY <2>2
  <2> QED
    BY <2>1, <2>3, HeightBefore
<1>9. E + R >= h
  BY <1>4, <1>7, <1>8
<1>10. x < GetNextSessionStartHeight(live, height)
  BY <1>1, <1>4, <1>6
<1>11. a \in DOMAIN store.apps /\ SessionOf(store.apps[a], E)
  BY <1>4 DEF HasSession, SessionOf
<1>12. a \in DOMAIN store'.apps /\ Carries(store.apps[a], store'.apps[a], h)
  <2>1. CASE ALGatewayMessage
    <3>1. store' = store
      BY <2>1 DEF ALGatewayMessage, applicationVars
    <3> QED
      BY <1>11, <3>1 DEF Carries
  <2>2. CASE ApplicationMessage
    BY <1>11, <2>2, MessageCarries
  <2>3. CASE ALBlockEnds
    <3>1. PICK charged \in SUBSET DOMAIN store.apps, amount \in Charges :
             \E stuck : ALEndBlock(charged, amount, stuck)
      BY <2>3 DEF ALBlockEnds
    <3>2. PICK stuck : ALEndBlock(charged, amount, stuck)
      BY <3>1
    <3>3. BlockLeaves(store, store')
      BY <3>2, BlockStages
    <3>4. h = height
      <4>1. height' = height + 1
        BY <3>2 DEF ALEndBlock, EndBlock
      <4> QED
        BY <1>1, <4>1
    <3> HIDE DEF E, h
    <3> QED
      BY <1>3, <1>4, <1>6, <1>8, <1>11, <3>3, <3>4, BlockCarries DEF E
  <2> QED
    BY <2>1, <2>2, <2>3
<1> QED
  BY <1>4, <1>5, <1>6, <1>7, <1>8, <1>9, <1>10, <1>11, <1>12

-----------------------------------------------------------------------------
(* The theorems about every step. *)

(* The ring rebuilt for a session that can still be proven has every       *)
(* gateway that could sign in it before.                                   *)
THEOREM OpenRings == ALSpec => OpenRingsKeepTheirGateways
<1>1. ASSUME IInv, GridInv, ALInv, ALNext, ParamsLeaveTime', NEW x \in 1..height,
             height' <= LastProofHeight(x),
             NEW a \in DOMAIN store.apps \cap DOMAIN store'.apps, HasSession(a, x)
      PROVE  RingGateways(a, x) \subseteq RingGateways(a, x)'
  <2> DEFINE E == GetSessionEndHeight(live, x)
  <2>1. x \in Nat \ {0} /\ height \in Nat \ {0} /\ x <= height
    BY <1>1, SessionOfNow
  <2>2. RingGateways(a, x) = RingOf(store.apps[a], E)
    BY DEF RingGateways, RingOf
  <2>3. RingGateways(a, x)' = RingOf(store'.apps[a], GetSessionEndHeight(live', x))
    BY DEF RingGateways, RingOf
  <2>4. CASE ALGovern
    BY <1>1, <2>1, <2>2, <2>3, <2>4, GovernKeepsSessions
  <2>5. CASE ALGatewayMessage \/ ApplicationMessage \/ ALBlockEnds
    <3>1. height <= SessionAt(height).end /\ SessionAt(height).end \in Nat
      BY <1>1, <2>1, SessionFacts
    <3>2. x <= SessionAt(height).end
      BY <2>1, <3>1
    <3>3. LET h == height' - 1
          IN  /\ Carries(store.apps[a], store'.apps[a], h)
              /\ GetSessionEndHeight(live', x) = E
              /\ E \in Nat \ {0} /\ E <= GetSessionEndHeight(live, height)
              /\ h \in Nat /\ GetNumBlocksUndelegationRetention \in Nat
              /\ E + GetNumBlocksUndelegationRetention >= h
      BY <1>1, <2>1, <2>5, <3>2, StepCarries
    <3>4. store.apps[a] \in Application
      BY <1>1, StoreRecords DEF ALInv
    <3> HIDE DEF E
    <3>5. RingOf(store.apps[a], E) \subseteq RingOf(store'.apps[a], E)
      BY <3>3, <3>4, RingIsCarried
    <3> QED
      BY <2>2, <2>3, <3>3, <3>5 DEF E
  <2> QED
    BY <1>1, <2>4, <2>5 DEF ALNext
<1>2. IInv /\ GridInv /\ ALInv /\ [ALNext]_alVars =>
         [ParamsLeaveTime' =>
            \A x \in 1..height :
               height' <= LastProofHeight(x) =>
                  \A a \in DOMAIN store.apps \cap DOMAIN store.apps' :
                     HasSession(a, x) => RingGateways(a, x) \subseteq RingGateways(a, x)'
         ]_alVars
  BY <1>1
<1> QED
  BY <1>2, ApplicationParams, ALInvariance, PTL DEF ALSpec, OpenRingsKeepTheirGateways

(* The services of a session of an application that has begun stay.        *)
THEOREM ServicesStay == ALSpec => ServicesOfBegunSessionsStay
<1>1. ASSUME IInv, GridInv, ALInv, ALNext, ParamsLeaveTime',
             NEW x \in 1..SessionAt(height).end, height' <= LastProofHeight(x),
             NEW a \in DOMAIN store.apps \cap DOMAIN store'.apps, HasSession(a, x)
      PROVE  ActiveServices(store.apps[a], x)' = ActiveServices(store.apps[a], x)
  <2>1. ActiveServices(store.apps[a], x)' = ActiveServices(store'.apps[a], x)
    BY DEF ActiveServices
  <2>2. x \in Nat \ {0} /\ x <= SessionAt(height).end
    <3>1. SessionAt(height).end \in Nat
      BY <1>1, SessionOfNow, SessionFacts
    <3> QED
      BY <1>1, <3>1
  <2>3. CASE ALGovern
    BY <1>1, <2>1, <2>2, <2>3, GovernKeepsSessions
  <2>4. CASE ALGatewayMessage \/ ApplicationMessage \/ ALBlockEnds
    <3>1. /\ Carries(store.apps[a], store'.apps[a], height' - 1)
          /\ x < GetNextSessionStartHeight(live, height)
      BY <1>1, <2>2, <2>4, StepCarries
    <3> QED
      BY <2>1, <2>2, <3>1 DEF Carries
  <2> QED
    BY <1>1, <2>3, <2>4 DEF ALNext
<1>2. IInv /\ GridInv /\ ALInv /\ [ALNext]_alVars =>
         [ParamsLeaveTime' =>
            \A x \in 1..SessionAt(height).end :
               height' <= LastProofHeight(x) =>
                  \A a \in DOMAIN store.apps \cap DOMAIN store.apps' :
                     HasSession(a, x) =>
                        ActiveServices(store.apps[a], x)' = ActiveServices(store.apps[a], x)
         ]_alVars
  BY <1>1
<1> QED
  BY <1>2, ApplicationParams, ALInvariance, PTL DEF ALSpec, ServicesOfBegunSessionsStay

(* An application outlasts the proof window of its last session.           *)
THEOREM ApplicationsOutlast == ALSpec => OpenSessionsKeepTheirApplication
<1>1. ASSUME IInv, GridInv, ALInv, ALNext, ParamsLeaveTime', NEW x \in 1..height,
             height' <= LastProofHeight(x),
             NEW a \in DOMAIN store.apps, HasSession(a, x)
      PROVE  HasSession(a, x)'
  <2>1. x \in Nat \ {0} /\ height \in Nat \ {0} /\ x <= height
    BY <1>1, SessionOfNow
  <2>2. SessionAt(x)' = SessionAt(x)
    <3>1. [Next]_paramVars
      BY <1>1, ApplicationStepOfParams
    <3> QED
      BY <1>1, <2>1, <3>1, ParamsStep
  <2>3. HasSession(a, x)'
          <=> a \in DOMAIN store'.apps /\ SessionOf(store'.apps[a], SessionAt(x).end)
    BY <2>2 DEF HasSession, SessionOf
  <2>4. CASE ALGovern
    <3>1. store' = store
      BY <1>1, <2>1, <2>4, GovernKeepsSessions
    <3> QED
      BY <1>1, <2>3, <3>1 DEF HasSession, SessionOf
  <2>5. CASE ALGatewayMessage \/ ApplicationMessage \/ ALBlockEnds
    <3> DEFINE E == GetSessionEndHeight(live, x)
    <3>1. height <= SessionAt(height).end /\ SessionAt(height).end \in Nat
      BY <1>1, <2>1, SessionFacts
    <3>2. x <= SessionAt(height).end
      BY <2>1, <3>1
    <3>3. /\ a \in DOMAIN store'.apps
          /\ Carries(store.apps[a], store'.apps[a], height' - 1)
          /\ SessionAt(x).end = E
          /\ E \in Nat \ {0} /\ E <= GetSessionEndHeight(live, height)
          /\ SessionOf(store.apps[a], E)
      BY <1>1, <2>1, <2>5, <3>2, StepCarries
    <3> HIDE DEF E
    <3>4. SessionOf(store'.apps[a], E)
      BY <3>3, SessionIsCarried
    <3> QED
      BY <2>3, <3>3, <3>4
  <2> QED
    BY <1>1, <2>4, <2>5 DEF ALNext
<1>2. IInv /\ GridInv /\ ALInv /\ [ALNext]_alVars =>
         [ParamsLeaveTime' =>
            \A x \in 1..height :
               height' <= LastProofHeight(x) =>
                  \A a \in DOMAIN store.apps : HasSession(a, x) => HasSession(a, x)'
         ]_alVars
  BY <1>1
<1> QED
  BY <1>2, ApplicationParams, ALInvariance, PTL DEF ALSpec, OpenSessionsKeepTheirApplication
=============================================================================
