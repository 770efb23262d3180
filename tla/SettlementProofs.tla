-------------------------- MODULE SettlementProofs --------------------------
(***************************************************************************)
(* What a block's settlement guarantees for any applications, claims and   *)
(* params.  The budgets are a matter of rounding: what a session's claims  *)
(* are entitled to adds up to no more than its budget, although the unused *)
(* part is redistributed, inflation is charged claim by claim, and every   *)
(* division rounds.  The coins are a matter of balance: of every mint,     *)
(* transfer and burn a claim adds, what comes in is what goes out.         *)
(***************************************************************************)
EXTENDS Settlement, TotalsProofs

-----------------------------------------------------------------------------
(* Arithmetic. *)

(* Division rounds down.                                                   *)
LEMMA Rounding ==
    ASSUME NEW a \in Nat, NEW b \in Nat \ {0}
    PROVE  /\ a \div b \in Nat
           /\ b * (a \div b) <= a
           /\ a < b * (a \div b) + b
OBVIOUS

(* A quotient is below what is too much for it.                            *)
LEMMA QuotientBelow ==
    ASSUME NEW a \in Nat, NEW b \in Nat \ {0}, NEW k \in Nat, a < b * k
    PROVE  a \div b < k
<1> DEFINE q == a \div b
<1>1. q \in Nat /\ b * q <= a
  BY Rounding
<1> HIDE DEF q
<1>2. q < k
  BY <1>1, Z3
<1> QED
  BY <1>2 DEF q

(* A larger number has no smaller a quotient.                              *)
LEMMA QuotientIsMonotone ==
    ASSUME NEW a \in Nat, NEW c \in Nat, a <= c, NEW b \in Nat \ {0}
    PROVE  a \div b <= c \div b
<1> DEFINE q == c \div b
<1>1. q \in Nat /\ c < b * q + b
  BY Rounding
<1> HIDE DEF q
<1>2. a < b * (q + 1) /\ q + 1 \in Nat
  BY <1>1, Z3
<1>3. a \div b < q + 1 /\ a \div b \in Nat
  BY <1>2, QuotientBelow, Rounding
<1>4. a \div b <= q
  BY <1>1, <1>3
<1> QED
  BY <1>4 DEF q

(* The smaller and the larger of two.                                      *)
LEMMA SmallerOfTwo ==
    ASSUME NEW a \in Int, NEW b \in Int
    PROVE  /\ Min({a, b}) = IF a <= b THEN a ELSE b
           /\ Max({a, b}) = IF a >= b THEN a ELSE b
BY DEF Min, Max

(* The parts of a distribution are coins, and add up to what is split.     *)
LEMMA DistributionAddsUp ==
    ASSUME NEW amount \in Nat, NEW allocation, IsAllocation(allocation)
    PROVE  LET d == Distribution(amount, allocation)
           IN  /\ d.supplier \in Nat /\ d.proposer \in Nat /\ d.accounts \in Nat
               /\ d.supplier + d.proposer + d.accounts = amount
<1> DEFINE s1 == allocation.supplier[1]
           s2 == allocation.supplier[2]
           p1 == allocation.proposer[1]
           p2 == allocation.proposer[2]
           s == (amount * s1) \div s2
           p == (amount * p1) \div p2
<1>1. /\ s1 \in Nat /\ p1 \in Nat /\ s2 \in Nat \ {0} /\ p2 \in Nat \ {0}
      /\ s1 * p2 + p1 * s2 <= s2 * p2
  BY DEF IsAllocation, IsRatio
<1>2. Distribution(amount, allocation)
        = [supplier |-> s, proposer |-> p, accounts |-> amount - s - p]
  BY DEF Distribution, FloorOf
<1> HIDE DEF s1, s2, p1, p2
<1>3. amount * s1 \in Nat /\ amount * p1 \in Nat
  BY <1>1, Z3
<1>4. s \in Nat /\ p \in Nat /\ s2 * s <= amount * s1 /\ p2 * p <= amount * p1
  BY <1>1, <1>3, Rounding
<1> HIDE DEF s, p
<1>5. p2 * (s2 * s) <= p2 * (amount * s1) /\ s2 * (p2 * p) <= s2 * (amount * p1)
  BY <1>1, <1>3, <1>4, Z3
<1>6. amount * (s1 * p2 + p1 * s2) <= amount * (s2 * p2)
  BY <1>1, Z3
<1>7. p2 * (amount * s1) + s2 * (amount * p1) = amount * (s1 * p2 + p1 * s2)
  BY <1>1, Z3
<1>8. p2 * (s2 * s) + s2 * (p2 * p) = (s2 * p2) * (s + p)
  BY <1>1, <1>4, Z3
<1> DEFINE k == s2 * p2
<1>9. k \in Nat /\ k > 0 /\ amount * (s2 * p2) = k * amount
  BY <1>1, Z3
<1>10. k * (s + p) <= k * amount
  <2>1. /\ p2 * (s2 * s) \in Int /\ s2 * (p2 * p) \in Int /\ p2 * (amount * s1) \in Int
        /\ s2 * (amount * p1) \in Int /\ amount * (s1 * p2 + p1 * s2) \in Int
        /\ k * (s + p) \in Int /\ k * amount \in Int
    BY <1>1, <1>4, <1>9, Z3
  <2>2. p2 * (s2 * s) + s2 * (p2 * p) = k * (s + p)
    BY <1>8 DEF k
  <2> HIDE DEF k
  <2> QED
    BY <2>1, <2>2, <1>5, <1>6, <1>7, <1>9
<1> HIDE DEF k
<1>11. s + p <= amount
  BY <1>4, <1>9, <1>10, Z3
<1> QED
  BY <1>2, <1>4, <1>11

(* The shares of what is left unused, in proportion to what each exceeds   *)
(* its floor by, are no more than what is left.                            *)
LEMMA SharesFit ==
    ASSUME NEW S, IsFiniteSet(S), NEW f, NEW h, NEW unused \in Nat, NEW excess \in Nat \ {0},
           \A x \in S : f[x] \in Nat /\ h[x] = (unused * f[x]) \div excess,
           Total(f, S) <= excess
    PROVE  Total(h, S) <= unused
<1> DEFINE uf == [x \in S |-> unused * f[x]]
           eh == [x \in S |-> excess * h[x]]
<1>1. \A x \in S : unused * f[x] \in Nat
  BY Z3
<1>2. \A x \in S : h[x] \in Nat /\ excess * h[x] <= unused * f[x] /\ excess * h[x] \in Nat
  <2> TAKE x \in S
  <2>1. h[x] \in Nat /\ excess * h[x] <= unused * f[x]
    BY <1>1, Rounding
  <2> QED
    BY <2>1, Z3
<1>3. \A x \in S : uf[x] = unused * f[x] /\ eh[x] = excess * h[x]
  OBVIOUS
<1> HIDE DEF uf, eh
<1>4. Total(uf, S) = unused * Total(f, S)
  BY <1>3, TotalTimes
<1>5. Total(eh, S) = excess * Total(h, S)
  BY <1>2, <1>3, TotalTimes
<1>6. \A x \in S : eh[x] \in Int /\ uf[x] \in Int /\ eh[x] <= uf[x]
  BY <1>1, <1>2, <1>3
<1>7. Total(eh, S) <= Total(uf, S)
  BY <1>6, TotalIsMonotone
<1>8. Total(f, S) \in Nat
  BY TotalIsNat
<1>9. Total(h, S) \in Nat
  BY <1>2, TotalIsNat
<1> DEFINE t == Total(f, S)
           u == Total(h, S)
<1>10. t \in Nat /\ u \in Nat /\ t <= excess /\ excess * u <= unused * t
  BY <1>4, <1>5, <1>7, <1>8, <1>9
<1> HIDE DEF t, u
<1>11. u <= unused
  <2>1. unused * t <= unused * excess
    BY <1>10, Z3
  <2>2. excess * u <= excess * unused
    BY <1>10, <2>1, Z3
  <2> QED
    BY <1>10, <2>2, Z3
<1> QED
  BY <1>11 DEF u

-----------------------------------------------------------------------------
(* The inflation of a claim and the stake it takes. *)

(* What settling an amount takes is a natural number, and grows with it.   *)
LEMMA TermsGrow ==
    ASSUME TokenomicsParams(params), NEW a \in Nat, NEW b \in Nat, a <= b
    PROVE  /\ GlobalInflation(a) \in Nat /\ StakeTerms(a) \in Nat
           /\ GlobalInflation(a) <= GlobalInflation(b)
           /\ StakeTerms(a) <= StakeTerms(b)
<1> DEFINE q1 == params.globalInflationPerClaim[1]
           q2 == params.globalInflationPerClaim[2]
           x  == a * q1 + q2 - 1
           y  == b * q1 + q2 - 1
<1>1. q1 \in Nat /\ q2 \in Nat \ {0}
  BY DEF TokenomicsParams, IsRatio
<1>2. /\ GlobalInflation(a) = x \div q2 /\ GlobalInflation(b) = y \div q2
      /\ StakeTerms(a) = a + x \div q2 /\ StakeTerms(b) = b + y \div q2
  BY DEF GlobalInflation, CeilOf, StakeTerms
<1> HIDE DEF q1, q2
<1>3. a * q1 \in Nat /\ b * q1 \in Nat /\ a * q1 <= b * q1
  BY <1>1, Z3
<1>4. x \in Nat /\ y \in Nat /\ x <= y
  BY <1>1, <1>3
<1> HIDE DEF x, y
<1>5. x \div q2 \in Nat /\ y \div q2 \in Nat /\ x \div q2 <= y \div q2
  BY <1>1, <1>4, QuotientIsMonotone, Rounding
<1> QED
  BY <1>2, <1>5

(* Nothing is charged for inflation where there is none, or no claim.      *)
LEMMA NoInflation ==
    ASSUME TokenomicsParams(params), NEW a \in Nat,
           params.globalInflationPerClaim[1] = 0 \/ a = 0
    PROVE  GlobalInflation(a) = 0
<1> DEFINE q1 == params.globalInflationPerClaim[1]
           q2 == params.globalInflationPerClaim[2]
<1>1. q1 \in Nat /\ q2 \in Nat \ {0} /\ (q1 = 0 \/ a = 0)
  BY DEF TokenomicsParams, IsRatio
<1>2. GlobalInflation(a) = (a * q1 + q2 - 1) \div q2
  BY DEF GlobalInflation, CeilOf
<1> HIDE DEF q1, q2
<1>3. a * q1 = 0
  BY <1>1, Z3
<1>4. a * q1 + q2 - 1 = q2 - 1 /\ q2 - 1 \in Nat /\ q2 - 1 < q2 * 1
  BY <1>1, <1>3
<1>5. (q2 - 1) \div q2 < 1 /\ (q2 - 1) \div q2 \in Nat
  BY <1>1, <1>4, QuotientBelow, Rounding
<1> QED
  BY <1>2, <1>4, <1>5

(* The most that can be settled out of a part of the stake takes, with its *)
(* inflation rounded up, no more than that part.                           *)
LEMMA SettlesWithin ==
    ASSUME TokenomicsParams(params), NEW part \in Nat
    PROVE  /\ MaxSettlement(part) \in Nat
           /\ StakeTerms(MaxSettlement(part)) <= part
<1> DEFINE q1 == params.globalInflationPerClaim[1]
           q2 == params.globalInflationPerClaim[2]
           m  == (part * q2) \div (q1 + q2)
<1>1. q1 \in Nat /\ q2 \in Nat /\ q2 > 0
  BY DEF TokenomicsParams, IsRatio
<1>2. MaxSettlement(part) = m
  BY DEF MaxSettlement
<1>3. \A a : StakeTerms(a) = a + (a * q1 + q2 - 1) \div q2
  BY DEF GlobalInflation, CeilOf, StakeTerms
<1> HIDE DEF q1, q2
<1>4. part * q2 \in Nat /\ q1 + q2 \in Nat \ {0}
  BY <1>1, Z3
<1>5. m \in Nat /\ (q1 + q2) * m <= part * q2
  BY <1>4, Rounding
<1> HIDE DEF m
<1>6. (q1 + q2) * m = m * q1 + q2 * m /\ m * q1 \in Nat /\ q2 * m \in Nat
  BY <1>1, <1>5, Z3
<1>7. q2 * m <= q2 * part
  <2>1. part * q2 = q2 * part
    BY <1>1, Z3
  <2> QED
    BY <1>4, <1>5, <1>6, <2>1
<1>8. m <= part
  BY <1>1, <1>5, <1>7, Z3
<1>9. part - m + 1 \in Nat
  BY <1>5, <1>8
<1>10. q2 * (part - m + 1) = part * q2 - q2 * m + q2
  BY <1>1, <1>5, Z3
<1>11. m * q1 + q2 - 1 \in Nat /\ m * q1 + q2 - 1 < q2 * (part - m + 1)
  BY <1>1, <1>4, <1>5, <1>6, <1>10
<1> DEFINE x == m * q1 + q2 - 1
           k == part - m + 1
<1>12. x \in Nat /\ k \in Nat /\ x < q2 * k /\ q2 \in Nat \ {0}
  BY <1>1, <1>9, <1>11
<1> HIDE DEF x, k
<1>13. x \div q2 < k /\ x \div q2 \in Nat
  BY <1>12, QuotientBelow, Rounding
<1>14. m + x \div q2 <= part
  <2> DEFINE y == x \div q2
  <2>1. y \in Nat /\ y < part - m + 1
    BY <1>13 DEF k
  <2> HIDE DEF y
  <2>2. m + y <= part
    BY <1>5, <2>1
  <2> QED
    BY <2>2 DEF y
<1>15. StakeTerms(m) = m + x \div q2
  BY <1>3 DEF x
<1> QED
  BY <1>2, <1>5, <1>14, <1>15

-----------------------------------------------------------------------------
(* The token logic modules. *)

Ops == [mint : Nat, toSupplier : Nat, toTokenomics : Nat, fromSupplier : Nat,
        fromTokenomics : Nat, burn : Nat]

(* The record the modules pass on.                                         *)
Work == [stake : Nat, rewards : Nat, ops : Ops, ok : BOOLEAN]

(* Operations are added kind by kind.                                      *)
LEMMA OpsAdd ==
    ASSUME NEW o \in Ops, NEW p \in Ops
    PROVE  /\ AddOps(o, p) \in Ops
           /\ AddOps(o, p).mint = o.mint + p.mint
           /\ AddOps(o, p).toSupplier = o.toSupplier + p.toSupplier
           /\ AddOps(o, p).toTokenomics = o.toTokenomics + p.toTokenomics
           /\ AddOps(o, p).fromSupplier = o.fromSupplier + p.fromSupplier
           /\ AddOps(o, p).fromTokenomics = o.fromTokenomics + p.fromTokenomics
           /\ AddOps(o, p).burn = o.burn + p.burn
<1>1. DOMAIN o = {"mint", "toSupplier", "toTokenomics", "fromSupplier",
                  "fromTokenomics", "burn"}
  BY DEF Ops
<1>2. AddOps(o, p) = [f \in {"mint", "toSupplier", "toTokenomics", "fromSupplier",
                             "fromTokenomics", "burn"} |-> o[f] + p[f]]
  BY <1>1 DEF AddOps
<1>3. AddOps(o, p) = [mint |-> o.mint + p.mint,
                      toSupplier |-> o.toSupplier + p.toSupplier,
                      toTokenomics |-> o.toTokenomics + p.toTokenomics,
                      fromSupplier |-> o.fromSupplier + p.fromSupplier,
                      fromTokenomics |-> o.fromTokenomics + p.fromTokenomics,
                      burn |-> o.burn + p.burn]
  BY <1>2
<1> QED
  BY <1>3 DEF Ops

(* What a claim's operations and rewards owe each other: of the coins that *)
(* come in, minted or reimbursed, each is paid out or due to a validator,  *)
(* and what is spent of the stake is burnt or reimbursed with.             *)
Balanced(w, stake, due) ==
    /\ w \in Work
    /\ w.stake <= stake /\ due <= w.rewards
    /\ w.ops.toSupplier = w.ops.fromSupplier
    /\ w.ops.mint + w.ops.toTokenomics + due
         = w.ops.toSupplier + w.ops.fromTokenomics + w.rewards
    /\ w.ok => w.ops.burn + w.ops.toTokenomics = stake - w.stake

(* Distributing d turns w into v: it fails if the supplier of an unserved  *)
(* claim has a share, and adds the proposer's to the rewards otherwise.    *)
Pays(v, w, c, d) ==
    /\ v.stake = w.stake
    /\ IF d.supplier > 0 /\ c.kind = "unserved"
       THEN v.ok = FALSE /\ v.rewards = w.rewards
       ELSE v.ok = w.ok /\ v.rewards = w.rewards + d.proposer

(* A distribution of minted coins keeps the balance, or fails and adds     *)
(* nothing.                                                                *)
LEMMA DistributedIsBalanced ==
    ASSUME NEW stake \in Nat, NEW due \in Nat, NEW w, Balanced(w, stake, due),
           NEW c, NEW amount \in Nat, NEW allocation, IsAllocation(allocation)
    PROVE  /\ Balanced(Distributed(w, c, amount, allocation), stake, due)
           /\ Pays(Distributed(w, c, amount, allocation), w, c,
                   Distribution(amount, allocation))
<1> DEFINE d == Distribution(amount, allocation)
           v == Distributed(w, c, amount, allocation)
           m == MintedOps(amount, d)
<1>1. /\ d.supplier \in Nat /\ d.proposer \in Nat /\ d.accounts \in Nat
      /\ d.supplier + d.proposer + d.accounts = amount
  BY DistributionAddsUp
<1>2. v = IF d.supplier > 0 /\ c.kind = "unserved"
          THEN [w EXCEPT !.ok = FALSE]
          ELSE [w EXCEPT !.rewards = @ + d.proposer, !.ops = AddOps(@, m)]
  BY DEF Distributed
<1>3. /\ m \in Ops
      /\ m.mint = amount /\ m.toSupplier = d.supplier /\ m.toTokenomics = 0
      /\ m.fromSupplier = d.supplier /\ m.fromTokenomics = d.accounts /\ m.burn = 0
  <2> HIDE DEF d
  <2>1. NoOps \in Ops /\ NoOps.toTokenomics = 0 /\ NoOps.burn = 0
    BY DEF NoOps, Ops
  <2>2. m = [[[[NoOps EXCEPT !.mint = amount] EXCEPT !.toSupplier = d.supplier]
               EXCEPT !.fromSupplier = d.supplier] EXCEPT !.fromTokenomics = d.accounts]
    BY <2>1 DEF MintedOps, Ops
  <2> QED
    BY <1>1, <2>1, <2>2 DEF Ops
<1>4. w.stake \in Nat /\ w.rewards \in Nat /\ w.ops \in Ops /\ w.ok \in BOOLEAN /\ w \in Work
  BY DEF Balanced, Work
<1> HIDE DEF d, v, m
<1>5. CASE d.supplier > 0 /\ c.kind = "unserved"
  <2>1. v = [w EXCEPT !.ok = FALSE]
    BY <1>2, <1>5
  <2>2. /\ v \in Work /\ v.stake = w.stake /\ v.rewards = w.rewards /\ v.ops = w.ops
        /\ v.ok = FALSE
    BY <1>4, <2>1 DEF Work
  <2>3. Balanced(v, stake, due)
    BY <2>2 DEF Balanced
  <2> QED
    BY <1>5, <2>2, <2>3 DEF d, v, Pays
<1>6. CASE ~ (d.supplier > 0 /\ c.kind = "unserved")
  <2>1. v = [w EXCEPT !.rewards = @ + d.proposer, !.ops = AddOps(@, m)]
    BY <1>2, <1>6
  <2>2. m \in Ops
    BY <1>3
  <2>3. v.stake = w.stake /\ v.rewards = w.rewards + d.proposer /\ v.ops = AddOps(w.ops, m)
        /\ v.ok = w.ok
    BY <1>4, <2>1 DEF Work
  <2>4. v \in Work
    <3>1. AddOps(w.ops, m) \in Ops /\ w.rewards + d.proposer \in Nat
      BY <1>1, <1>4, <2>2, OpsAdd
    <3>2. v = [[w EXCEPT !.rewards = w.rewards + d.proposer]
                EXCEPT !.ops = AddOps(w.ops, m)]
      BY <1>4, <2>1 DEF Work
    <3> QED
      BY <1>4, <3>1, <3>2 DEF Work
  <2>5. /\ v.ops.mint = w.ops.mint + amount
        /\ v.ops.toSupplier = w.ops.toSupplier + d.supplier
        /\ v.ops.toTokenomics = w.ops.toTokenomics
        /\ v.ops.fromSupplier = w.ops.fromSupplier + d.supplier
        /\ v.ops.fromTokenomics = w.ops.fromTokenomics + d.accounts
        /\ v.ops.burn = w.ops.burn
    <3>1. w.ops.toTokenomics \in Nat /\ w.ops.burn \in Nat
      BY <1>4 DEF Ops
    <3> QED
      BY <1>4, <1>3, <2>3, <3>1, OpsAdd
  <2>6. /\ w.ops.mint \in Nat /\ w.ops.toSupplier \in Nat /\ w.ops.toTokenomics \in Nat
        /\ w.ops.fromSupplier \in Nat /\ w.ops.fromTokenomics \in Nat /\ w.ops.burn \in Nat
    BY <1>4 DEF Ops
  <2>7. Balanced(v, stake, due)
    <3>1. /\ w.stake <= stake /\ due <= w.rewards
          /\ w.ops.toSupplier = w.ops.fromSupplier
          /\ w.ops.mint + w.ops.toTokenomics + due
               = w.ops.toSupplier + w.ops.fromTokenomics + w.rewards
          /\ w.ok => w.ops.burn + w.ops.toTokenomics = stake - w.stake
      BY DEF Balanced
    <3>2. v.stake <= stake /\ due <= v.rewards
      BY <1>1, <1>4, <2>3, <3>1
    <3>3. v.ops.toSupplier = v.ops.fromSupplier
      BY <2>5, <3>1
    <3>4. v.ops.mint + v.ops.toTokenomics + due
            = v.ops.toSupplier + v.ops.fromTokenomics + v.rewards
      BY <1>1, <1>4, <2>3, <2>5, <2>6, <3>1
    <3>5. v.ok => v.ops.burn + v.ops.toTokenomics = stake - v.stake
      BY <2>3, <2>5, <3>1
    <3> QED
      BY <2>4, <3>2, <3>3, <3>4, <3>5 DEF Balanced
  <2> QED
    BY <1>6, <2>3, <2>7 DEF d, v, Pays
<1> QED
  BY <1>5, <1>6

(* The proposer's ratio is no larger than the supplier's.                  *)
ProposerFollows(allocation) ==
    allocation.proposer[1] * allocation.supplier[2]
        <= allocation.supplier[1] * allocation.proposer[2]

(* Then nothing is due to validators of an amount too small for the        *)
(* supplier to have a share in it.                                         *)
LEMMA NothingForTheProposer ==
    ASSUME NEW amount \in Nat, NEW allocation, IsAllocation(allocation),
           ProposerFollows(allocation), Distribution(amount, allocation).supplier = 0
    PROVE  Distribution(amount, allocation).proposer = 0
<1> DEFINE s1 == allocation.supplier[1]
           s2 == allocation.supplier[2]
           p1 == allocation.proposer[1]
           p2 == allocation.proposer[2]
           y  == amount * p1
<1>1. /\ s1 \in Nat /\ p1 \in Nat /\ s2 \in Nat \ {0} /\ p2 \in Nat \ {0}
      /\ p1 * s2 <= s1 * p2
  BY DEF IsAllocation, IsRatio, ProposerFollows
<1>2. /\ Distribution(amount, allocation).supplier = (amount * s1) \div s2
      /\ Distribution(amount, allocation).proposer = y \div p2
  BY DEF Distribution, FloorOf
<1> HIDE DEF s1, s2, p1, p2
<1>3. amount * s1 \in Nat /\ y \in Nat
  BY <1>1, Z3
<1>4. (amount * s1) \div s2 = 0
  BY <1>2
<1>5. amount * s1 < s2 * 0 + s2
  BY <1>1, <1>3, <1>4, Rounding
<1>6. amount * s1 < s2
  BY <1>1, <1>5
<1>7. (amount * s1) * p2 < s2 * p2
  BY <1>1, <1>3, <1>6, Z3
<1>8. amount * (p1 * s2) <= amount * (s1 * p2)
  BY <1>1, Z3
<1>9. amount * (s1 * p2) = (amount * s1) * p2 /\ amount * (p1 * s2) = y * s2
  BY <1>1, Z3
<1>10. y * s2 < s2 * p2
  <2>1. y * s2 \in Int /\ (amount * s1) * p2 \in Int /\ s2 * p2 \in Int
    BY <1>1, <1>3, Z3
  <2> HIDE DEF y
  <2> QED
    BY <2>1, <1>7, <1>8, <1>9
<1> HIDE DEF y
<1>11. y < p2 * 1
  BY <1>1, <1>3, <1>10, Z3
<1>12. y \div p2 < 1 /\ y \div p2 \in Nat
  BY <1>1, <1>3, <1>11, QuotientBelow, Rounding
<1> DEFINE q == y \div p2
<1>13. q < 1 /\ q \in Nat
  BY <1>12
<1> HIDE DEF q
<1>14. q = 0
  BY <1>13
<1> QED
  BY <1>2, <1>14 DEF q

(* RelayBurnEqualsMint takes no more than the settlement, and a claim that *)
(* fails in it is due nothing, one that has no config for its service even *)
(* if it does not fail.                                                    *)
LEMMA BurnIsBalanced ==
    ASSUME TokenomicsParams(params), NEW stake \in Nat, NEW due \in Nat,
           NEW c, NEW settlement \in Nat
    PROVE  LET w == [stake |-> stake, rewards |-> due, ops |-> NoOps, ok |-> TRUE]
               b == RelayBurnEqualsMint(w, c, settlement)
           IN  /\ Balanced(b, stake, due) /\ stake - b.stake <= settlement
               /\ b.ok => stake - b.stake = settlement
               /\ ~ b.ok => b.rewards = due
               /\ c.kind = "unserved"
                    /\ ProposerFollows(params.mintEqualsBurnClaimDistribution)
                  => b.rewards = due
<1> DEFINE w == [stake |-> stake, rewards |-> due, ops |-> NoOps, ok |-> TRUE]
           b == RelayBurnEqualsMint(w, c, settlement)
           mint == FloorOf(settlement, params.mintRatio)
           burnt == [w EXCEPT !.stake = @ - settlement, !.ops.burn = @ + settlement]
           a == params.mintEqualsBurnClaimDistribution
<1>1. /\ IsAllocation(a) /\ params.mintRatio[1] \in Nat
      /\ params.mintRatio[2] \in Nat \ {0}
  BY DEF TokenomicsParams, IsRatio
<1>2. mint \in Nat
  <2>1. settlement * params.mintRatio[1] \in Nat
    BY <1>1, Z3
  <2> QED
    BY <1>1, <2>1, Rounding DEF FloorOf
<1>3. b = IF w.stake < settlement
          THEN [w EXCEPT !.ok = FALSE]
          ELSE IF mint = 0 THEN [burnt EXCEPT !.ok = FALSE] ELSE Distributed(burnt, c, mint, a)
  BY DEF RelayBurnEqualsMint
<1>4. /\ NoOps \in Ops /\ NoOps.mint = 0 /\ NoOps.toSupplier = 0 /\ NoOps.toTokenomics = 0
      /\ NoOps.fromSupplier = 0 /\ NoOps.fromTokenomics = 0 /\ NoOps.burn = 0
  BY DEF NoOps, Ops
<1>5. w \in Work /\ w.stake = stake /\ w.rewards = due /\ w.ops = NoOps /\ w.ok = TRUE
  BY <1>4 DEF Work
<1> HIDE DEF w, b, mint, a
<1>6. CASE w.stake < settlement
  <2>1. b = [w EXCEPT !.ok = FALSE]
    BY <1>3, <1>6
  <2>2. b \in Work /\ b.stake = stake /\ b.rewards = due /\ b.ops = NoOps /\ b.ok = FALSE
    BY <1>5, <2>1 DEF Work
  <2> QED
    BY <1>4, <2>2 DEF Balanced, b, w
<1>7. CASE ~ (w.stake < settlement)
  <2>1. /\ burnt.stake = stake - settlement /\ burnt.rewards = due /\ burnt.ok = TRUE
        /\ burnt.ops = [NoOps EXCEPT !.burn = settlement]
    BY <1>4, <1>5 DEF Work, Ops
  <2>2. /\ burnt.ops \in Ops /\ burnt.ops.mint = 0 /\ burnt.ops.toSupplier = 0
        /\ burnt.ops.toTokenomics = 0 /\ burnt.ops.fromSupplier = 0
        /\ burnt.ops.fromTokenomics = 0 /\ burnt.ops.burn = settlement
    BY <1>4, <2>1 DEF Ops
  <2>3. burnt.stake \in Nat
    BY <1>5, <1>7, <2>1
  <2>4. burnt \in Work
    BY <1>5, <2>1, <2>2, <2>3 DEF Work
  <2> HIDE DEF burnt
  <2>5. Balanced(burnt, stake, due)
    BY <2>1, <2>2, <2>3, <2>4 DEF Balanced
  <2>6. CASE mint = 0
    <3>1. b = [burnt EXCEPT !.ok = FALSE]
      BY <1>3, <1>7, <2>6
    <3>2. /\ b \in Work /\ b.stake = burnt.stake /\ b.rewards = burnt.rewards
          /\ b.ops = burnt.ops /\ b.ok = FALSE
      BY <2>4, <3>1 DEF Work
    <3>3. Balanced(b, stake, due)
      BY <2>5, <3>2 DEF Balanced
    <3> QED
      BY <2>1, <3>2, <3>3 DEF b, w
  <2>7. CASE mint # 0
    <3> DEFINE d == Distribution(mint, a)
    <3>1. b = Distributed(burnt, c, mint, a)
      BY <1>3, <1>7, <2>7
    <3>2. Balanced(b, stake, due) /\ Pays(b, burnt, c, d)
      BY <1>1, <1>2, <2>5, <3>1, DistributedIsBalanced
    <3>3. ProposerFollows(a) /\ d.supplier = 0 => d.proposer = 0
      BY <1>1, <1>2, NothingForTheProposer
    <3>4. d.supplier \in Nat
      BY <1>1, <1>2, DistributionAddsUp
    <3> HIDE DEF d
    <3>5. stake - b.stake = settlement /\ (~ b.ok => b.rewards = due)
      BY <1>5, <2>1, <3>2 DEF Pays
    <3>6. c.kind = "unserved" /\ ProposerFollows(a) => b.rewards = due
      BY <2>1, <3>2, <3>3, <3>4 DEF Pays
    <3> QED
      BY <3>2, <3>5, <3>6 DEF a, b, w
  <2> QED
    BY <2>6, <2>7
<1> QED
  BY <1>6, <1>7

(* What one claim takes from its application's stake is no more than its   *)
(* settlement with inflation, and exactly that if it is not discarded; its *)
(* operations balance; and if the stake                                    *)
(* suffices and proposers do not get more than suppliers, a claim that is  *)
(* discarded leaves no rewards behind.                                     *)
LEMMA ClaimIsBalanced ==
    ASSUME TokenomicsParams(params), NEW c, cached[c.session.app] \in Nat, rewards \in Nat,
           ActualSettlement(c) \in Nat
    PROVE  /\ Balanced(Processed(c), cached[c.session.app], rewards)
           /\ cached[c.session.app] - Processed(c).stake <= StakeTerms(ActualSettlement(c))
           /\ Processed(c).ok =>
                cached[c.session.app] - Processed(c).stake = StakeTerms(ActualSettlement(c))
           /\ /\ params.globalInflationPerClaim[1] = 0
                 \/ ProposerFollows(params.mintEqualsBurnClaimDistribution)
              /\ StakeTerms(ActualSettlement(c)) <= cached[c.session.app]
              => Processed(c).ok \/ Processed(c).rewards = rewards
<1> DEFINE stake == cached[c.session.app]
           n == ActualSettlement(c)
           w == [stake |-> stake, rewards |-> rewards, ops |-> NoOps, ok |-> TRUE]
           b == RelayBurnEqualsMint(w, c, n)
           inflation == GlobalInflation(n)
           a == params.mintAllocationPercentages
           noInflation == params.globalInflationPerClaim[1] = 0
           follows == ProposerFollows(params.mintEqualsBurnClaimDistribution)
           minted == GlobalMint(b, c, n)
           v == GlobalMintReimbursementRequest(minted, n)
<1>1. /\ stake \in Nat /\ n \in Nat /\ rewards \in Nat /\ inflation \in Nat /\ IsAllocation(a)
      /\ StakeTerms(n) = n + inflation
  BY TermsGrow DEF TokenomicsParams, StakeTerms
<1>2. Processed(c) = IF n = 0 THEN w ELSE v
  BY DEF Processed
<1>0. noInflation \/ n = 0 => inflation = 0
  BY <1>1, NoInflation DEF inflation, noInflation
<1>3. minted = IF ~ b.ok \/ noInflation THEN b ELSE Distributed(b, c, inflation, a)
  BY DEF GlobalMint
<1>4. v = IF ~ minted.ok \/ noInflation
          THEN minted
          ELSE IF minted.stake < inflation
          THEN [minted EXCEPT !.ok = FALSE]
          ELSE [minted EXCEPT !.stake = @ - inflation,
                              !.ops.toTokenomics = @ + inflation,
                              !.ops.fromTokenomics = @ + inflation]
  BY DEF GlobalMintReimbursementRequest
<1>5. /\ Balanced(b, stake, rewards) /\ stake - b.stake <= n
      /\ b.ok => stake - b.stake = n
      /\ ~ b.ok => b.rewards = rewards
      /\ c.kind = "unserved" /\ follows => b.rewards = rewards
  BY <1>1, BurnIsBalanced
<1>6. /\ Balanced(w, stake, rewards) /\ w.stake = stake /\ w.ok = TRUE
  <2>1. /\ NoOps \in Ops /\ NoOps.mint = 0 /\ NoOps.toSupplier = 0
        /\ NoOps.toTokenomics = 0 /\ NoOps.fromSupplier = 0
        /\ NoOps.fromTokenomics = 0 /\ NoOps.burn = 0
    BY DEF NoOps, Ops
  <2> HIDE DEF stake
  <2>2. w \in Work
    BY <1>1, <2>1 DEF Work
  <2> QED
    BY <1>1, <2>1, <2>2 DEF Balanced
<1> HIDE DEF stake, n, w, b, inflation, a, minted, v, noInflation, follows
<1>7. /\ Balanced(minted, stake, rewards) /\ stake - minted.stake <= n
      /\ minted.ok => stake - minted.stake = n
      /\ noInflation \/ follows => minted.ok \/ minted.rewards = rewards
  <2>1. CASE ~ b.ok \/ noInflation
    <3>1. minted = b /\ b.ok \in BOOLEAN
      BY <1>3, <1>5, <2>1 DEF Balanced, Work
    <3> QED
      BY <1>5, <3>1
  <2>2. CASE b.ok /\ ~ noInflation
    <3> DEFINE d == Distribution(inflation, a)
    <3>1. minted = Distributed(b, c, inflation, a)
      BY <1>3, <2>2
    <3>2. Balanced(minted, stake, rewards) /\ Pays(minted, b, c, d)
      BY <1>1, <1>5, <3>1, DistributedIsBalanced
    <3> HIDE DEF d
    <3>3. stake - minted.stake = n
      BY <1>5, <2>2, <3>2 DEF Pays
    <3>4. follows => minted.ok \/ minted.rewards = rewards
      BY <1>5, <2>2, <3>2 DEF Pays
    <3> QED
      BY <1>1, <2>2, <3>2, <3>3, <3>4
  <2> QED
    BY <2>1, <2>2
<1>8. /\ Balanced(v, stake, rewards) /\ stake - v.stake <= n + inflation
      /\ v.ok => stake - v.stake = n + inflation
      /\ (noInflation \/ follows) /\ n + inflation <= stake => v.ok \/ v.rewards = rewards
  <2>1. /\ minted \in Work /\ minted.stake \in Nat /\ minted.rewards \in Nat
        /\ minted.ops \in Ops /\ minted.ok \in BOOLEAN
    BY <1>7 DEF Balanced, Work
  <2>2. CASE ~ minted.ok \/ noInflation
    <3>1. v = minted
      BY <1>4, <2>2
    <3>2. stake - v.stake <= n + inflation
      BY <1>1, <1>7, <2>1, <3>1
    <3>3. v.ok => stake - v.stake = n + inflation
      BY <1>0, <1>1, <1>7, <2>2, <3>1
    <3> QED
      BY <1>1, <1>7, <2>1, <3>1, <3>2, <3>3
  <2>3. CASE minted.ok /\ ~ noInflation /\ minted.stake < inflation
    <3>1. v = [minted EXCEPT !.ok = FALSE]
      BY <1>4, <2>3
    <3>2. /\ v \in Work /\ v.stake = minted.stake /\ v.rewards = minted.rewards
          /\ v.ops = minted.ops /\ v.ok = FALSE
      BY <2>1, <3>1 DEF Work
    <3>3. Balanced(v, stake, rewards)
      BY <1>7, <3>2 DEF Balanced
    <3>4. stake - v.stake <= n + inflation /\ ~ (n + inflation <= stake)
      BY <1>1, <1>7, <2>1, <2>3, <3>2
    <3> QED
      BY <3>2, <3>3, <3>4
  <2>4. CASE minted.ok /\ ~ noInflation /\ ~ (minted.stake < inflation)
    <3> DEFINE o == minted.ops
               p == [o EXCEPT !.toTokenomics = @ + inflation, !.fromTokenomics = @ + inflation]
    <3>1. v = [minted EXCEPT !.stake = @ - inflation, !.ops = p]
      BY <1>4, <2>1, <2>4 DEF Work
    <3>2. /\ o.mint \in Nat /\ o.toSupplier \in Nat /\ o.toTokenomics \in Nat
          /\ o.fromSupplier \in Nat /\ o.fromTokenomics \in Nat /\ o.burn \in Nat
      BY <2>1 DEF Ops
    <3>3. /\ p \in Ops /\ p.mint = o.mint /\ p.toSupplier = o.toSupplier
          /\ p.toTokenomics = o.toTokenomics + inflation /\ p.fromSupplier = o.fromSupplier
          /\ p.fromTokenomics = o.fromTokenomics + inflation /\ p.burn = o.burn
      <4> DEFINE x == o.toTokenomics + inflation
                 y == o.fromTokenomics + inflation
      <4>1. x \in Nat /\ y \in Nat
        BY <1>1, <3>2
      <4>2. p = [[o EXCEPT !.toTokenomics = x] EXCEPT !.fromTokenomics = y]
        BY <2>1 DEF Ops
      <4> HIDE DEF x, y, o, p
      <4>3. o \in Ops
        BY <2>1 DEF o
      <4>4. /\ p \in Ops /\ p.mint = o.mint /\ p.toSupplier = o.toSupplier
            /\ p.toTokenomics = x /\ p.fromSupplier = o.fromSupplier
            /\ p.fromTokenomics = y /\ p.burn = o.burn
        BY <4>1, <4>2, <4>3 DEF Ops
      <4> QED
        BY <4>4 DEF x, y
    <3> HIDE DEF p
    <3>4. minted.stake - inflation \in Nat
      BY <1>1, <2>1, <2>4
    <3>5. /\ v \in Work /\ v.stake = minted.stake - inflation /\ v.rewards = minted.rewards
          /\ v.ops = p /\ v.ok = minted.ok
      BY <2>1, <3>1, <3>3, <3>4 DEF Work
    <3>6. /\ minted.stake <= stake /\ rewards <= minted.rewards
          /\ o.toSupplier = o.fromSupplier
          /\ o.mint + o.toTokenomics + rewards
               = o.toSupplier + o.fromTokenomics + minted.rewards
          /\ o.burn + o.toTokenomics = stake - minted.stake
      BY <1>7, <2>4 DEF Balanced
    <3> HIDE DEF o
    <3>7. /\ v.stake <= stake /\ rewards <= v.rewards /\ p.toSupplier = p.fromSupplier
          /\ p.burn + p.toTokenomics = stake - v.stake
      BY <1>1, <2>1, <3>2, <3>3, <3>5, <3>6
    <3>8. p.mint + p.toTokenomics + rewards = p.toSupplier + p.fromTokenomics + v.rewards
      BY <1>1, <2>1, <3>2, <3>3, <3>5, <3>6
    <3>9. Balanced(v, stake, rewards)
      BY <3>5, <3>7, <3>8 DEF Balanced
    <3>10. stake - v.stake = n + inflation
      BY <1>1, <1>7, <2>1, <2>4, <3>5
    <3>11. stake - v.stake <= n + inflation
      BY <1>1, <3>10
    <3> QED
      BY <2>4, <3>5, <3>9, <3>10, <3>11
  <2> QED
    BY <2>1, <2>2, <2>3, <2>4
<1>9. /\ Balanced(Processed(c), stake, rewards) /\ stake - Processed(c).stake <= StakeTerms(n)
      /\ Processed(c).ok => stake - Processed(c).stake = StakeTerms(n)
      /\ (noInflation \/ follows) /\ StakeTerms(n) <= stake
           => Processed(c).ok \/ Processed(c).rewards = rewards
  <2>1. CASE n = 0
    BY <1>0, <1>1, <1>2, <1>6, <2>1
  <2>2. CASE n # 0
    BY <1>1, <1>2, <1>8, <2>2
  <2> QED
    BY <2>1, <2>2
<1> QED
  BY <1>9 DEF stake, n, noInflation, follows

-----------------------------------------------------------------------------
(* The invariant. *)

Outcomes == [result : {"settled", "discarded", "expired"}, settlement : Nat, charge : Nat]

StTypes ==
    /\ params \in TokenomicsParamsSets
    /\ spendLimit \in [Applications -> Nat]
    /\ stakes \in [Applications -> Nat] /\ cached \in [Applications -> Nat]
    /\ bank \in [application : Nat, tokenomics : Nat, supplier : Nat]
    /\ batch \in Seq(Claim) /\ at \in 1..(Len(batch) + 1)
    /\ numSuppliers \in [Sessions -> Nat]
    /\ budgets \in [Sessions -> [unused : Nat, totalExcess : Nat]]
    /\ rewards \in Nat /\ results \in Ops
    /\ outcomes \in Seq(Outcomes) /\ Len(outcomes) <= Len(batch)

(* The claims of a session, settled or not, and those of them that         *)
(* Phase 1.5 has come to.                                                  *)
In(s) == {i \in DOMAIN batch : batch[i].session = s}

Seen(s) == IF phase = "budget" THEN {i \in In(s) : i < at} ELSE In(s)

(* How far the phases have come.                                           *)
PhaseOk ==
    /\ phase \in {"count", "budget", "settle", "done", "halted"}
    /\ phase = "count" =>
         at = 1 /\ \A s \in Sessions : budgets[s].unused = 0 /\ budgets[s].totalExcess = 0
    /\ phase \in {"count", "budget"} =>
         outcomes = <<>> /\ cached = stakes /\ rewards = 0 /\ results = NoOps
    /\ phase \notin {"count", "done"} => \A s \in Sessions : numSuppliers[s] = Cardinality(In(s))
    /\ phase = "settle" => Len(outcomes) = at - 1

(* What a claim leaves of its floor or exceeds it by, its share of what is *)
(* left, and the most it may take.                                         *)
IsPriced(c) == c.kind \in {"settles", "unserved"}

FloorAt(i) == SupplierFloor(batch[i].session)

TermsAt(i) == StakeTerms(batch[i].amount)

Left ==
    [i \in DOMAIN batch |->
        IF IsPriced(batch[i]) /\ TermsAt(i) < FloorAt(i) THEN FloorAt(i) - TermsAt(i) ELSE 0]

Excess ==
    [i \in DOMAIN batch |->
        IF IsPriced(batch[i]) /\ ~ (TermsAt(i) < FloorAt(i)) THEN TermsAt(i) - FloorAt(i) ELSE 0]

Share ==
    [i \in DOMAIN batch |->
        LET b == budgets[batch[i].session]
        IN  IF b.totalExcess = 0 THEN 0 ELSE (b.unused * Excess[i]) \div b.totalExcess]

Cap == [i \in DOMAIN batch |-> FloorAt(i) - Left[i] + Share[i]]

(* Phase 1.5 accumulates what is left and what is exceeded.                *)
BudgetsOk ==
    phase \notin {"count", "done"} =>
        \A s \in Sessions :
            /\ budgets[s].unused = Total(Left, Seen(s))
            /\ budgets[s].totalExcess = Total(Excess, Seen(s))

(* No claim takes more than it may.                                        *)
ChargesOk == phase # "done" => \A i \in DOMAIN outcomes : outcomes[i].charge <= Cap[i]

(* Until the flush the bank has not moved, and the stakes of the context   *)
(* and the charges make up those of the store.                             *)
PoolOk ==
    IF phase = "done"
    THEN bank.tokenomics = 0 /\ bank.supplier = 0 /\ AppPoolIsExact
    ELSE /\ bank.application = Total(stakes, Applications)
         /\ bank.tokenomics = 0 /\ bank.supplier = 0
         /\ Total(cached, Applications) + Total(Charges, DOMAIN outcomes)
              = Total(stakes, Applications)

Discarded == {i \in DOMAIN outcomes : outcomes[i].result = "discarded"}

(* The pending operations: what they pay out is no less than what they     *)
(* bring in, rewards of discarded claims coming on top, and they spend     *)
(* what settled claims were charged.                                       *)
OpsOk ==
    /\ results.toSupplier = results.fromSupplier
    /\ results.mint + results.toTokenomics
         <= results.toSupplier + results.fromTokenomics + rewards
    /\ results.burn + results.toTokenomics + Total(Charges, Discarded)
         = Total(Charges, DOMAIN outcomes)

StInv == StTypes /\ PhaseOk /\ BudgetsOk /\ ChargesOk /\ PoolOk /\ OpsOk

(* When every application has one session in the block, and proposers do   *)
(* not get more than suppliers, stakes suffice and no rewards are left of  *)
(* discarded claims.                                                       *)
OneSessionEach == \A s, t \in Sessions : s.app = t.app => s = t

ProposersFollow ==
    \A p \in TokenomicsParamsSets :
        \/ p.globalInflationPerClaim[1] = 0
        \/ ProposerFollows(p.mintEqualsBurnClaimDistribution)

Unhalted ==
    phase # "done" =>
        /\ \A s \in Sessions : cached[s.app] = stakes[s.app] - Charged(s)
        /\ results.mint + results.toTokenomics
             = results.toSupplier + results.fromTokenomics + rewards
        /\ phase # "halted"

(* A settled claim was charged all that its settlement takes.              *)
PaidOk ==
    phase = "settle" =>
        \A i \in DOMAIN outcomes :
            outcomes[i].result = "settled" =>
                outcomes[i].charge = StakeTerms(ActualSettlement(batch[i]))

-----------------------------------------------------------------------------
(* Budgets. *)

(* What the types say of a claim of the block.                             *)
LEMMA ClaimFacts ==
    ASSUME StTypes
    PROVE  /\ TokenomicsParams(params)
           /\ DOMAIN batch = 1..Len(batch) /\ Len(batch) \in Nat /\ IsFiniteSet(DOMAIN batch)
           /\ \A i \in DOMAIN batch :
                /\ batch[i] \in Claim /\ batch[i].session \in Sessions
                /\ batch[i].amount \in Nat /\ batch[i].kind \in Kinds
                /\ batch[i].session.app \in Applications
<1>1. TokenomicsParams(params)
  BY SettlementAssumption DEF StTypes
<1>2. batch \in Seq(Claim)
  BY DEF StTypes
<1>3. DOMAIN batch = 1..Len(batch) /\ Len(batch) \in Nat
  BY <1>2
<1>4. IsFiniteSet(1..Len(batch))
  BY <1>3, FS_Interval
<1>5. ASSUME NEW i \in DOMAIN batch
      PROVE  /\ batch[i] \in Claim /\ batch[i].session \in Sessions
             /\ batch[i].amount \in Nat /\ batch[i].kind \in Kinds
             /\ batch[i].session.app \in Applications
  <2>1. batch[i] \in Claim
    BY <1>2
  <2> QED
    BY <2>1, SettlementAssumption DEF Claim
<1> QED
  BY <1>1, <1>3, <1>4, <1>5

(* The budget of a session is a part of its application's stake.           *)
LEMMA BudgetIsOfStake ==
    ASSUME StTypes, NEW s \in Sessions
    PROVE  SessionBudget(s) \in Nat /\ SessionBudget(s) <= stakes[s.app]
<1> DEFINE a == stakes[s.app]
           n == s.numPendingSessions
           p == a \div n
           limit == spendLimit[s.app]
<1>1. a \in Nat /\ n \in Nat \ {0} /\ limit \in Nat
  BY SettlementAssumption DEF StTypes
<1>2. SessionBudget(s) = IF limit > 0 /\ limit < p THEN limit ELSE p
  BY DEF SessionBudget
<1> HIDE DEF a, n, limit
<1>3. p \in Nat /\ n * p <= a
  BY <1>1, Rounding
<1> HIDE DEF p
<1>4. p <= a
  BY <1>1, <1>3, Z3
<1> QED
  BY <1>1, <1>2, <1>3, <1>4 DEF a

(* The floors of the claims of a session are within its budget.            *)
LEMMA FloorsFit ==
    ASSUME StTypes, NEW s \in Sessions, numSuppliers[s] # 0
    PROVE  /\ SupplierFloor(s) \in Nat
           /\ SupplierFloor(s) * numSuppliers[s] <= SessionBudget(s)
<1> DEFINE n == numSuppliers[s]
           b == SessionBudget(s)
<1>1. n \in Nat \ {0} /\ b \in Nat
  BY BudgetIsOfStake DEF StTypes
<1>2. SupplierFloor(s) = b \div n
  BY DEF SupplierFloor
<1> HIDE DEF n, b
<1>3. b \div n \in Nat /\ n * (b \div n) <= b
  BY <1>1, Rounding
<1> DEFINE q == b \div n
<1> HIDE DEF q
<1>4. q \in Nat /\ n * q <= b
  BY <1>3 DEF q
<1>5. q * n <= b
  BY <1>1, <1>4, Z3
<1> QED
  BY <1>2, <1>4, <1>5 DEF n, b, q

(* A session that has a claim has counted a supplier.                      *)
LEMMA CountedOnce ==
    ASSUME StTypes, PhaseOk, phase \notin {"count", "done"}, NEW i \in DOMAIN batch
    PROVE  numSuppliers[batch[i].session] # 0
<1> DEFINE s == batch[i].session
<1>1. s \in Sessions /\ IsFiniteSet(DOMAIN batch)
  BY ClaimFacts
<1>2. IsFiniteSet(In(s)) /\ i \in In(s)
  BY <1>1, FS_Subset DEF In
<1>3. Cardinality(In(s)) # 0
  BY <1>2, FS_EmptySet
<1> QED
  BY <1>1, <1>3 DEF PhaseOk

(* What a claim leaves, exceeds and may take are amounts.                  *)
LEMMA CapFacts ==
    ASSUME StTypes, PhaseOk, phase \notin {"count", "done"}, NEW i \in DOMAIN batch
    PROVE  /\ FloorAt(i) \in Nat /\ TermsAt(i) \in Nat
           /\ Left[i] \in Nat /\ Left[i] <= FloorAt(i) /\ Excess[i] \in Nat
           /\ Share[i] \in Nat /\ Cap[i] \in Nat
           /\ Cap[i] = FloorAt(i) - Left[i] + Share[i]
<1> DEFINE s == batch[i].session
           u == budgets[s].unused
           x == budgets[s].totalExcess
<1>1. s \in Sessions /\ batch[i].amount \in Nat /\ TokenomicsParams(params)
  BY ClaimFacts
<1>2. FloorAt(i) \in Nat
  BY <1>1, CountedOnce, FloorsFit DEF FloorAt
<1>3. TermsAt(i) \in Nat
  BY <1>1, TermsGrow DEF TermsAt
<1>4. Left[i] \in Nat /\ Left[i] <= FloorAt(i) /\ Excess[i] \in Nat
  BY <1>2, <1>3 DEF Left, Excess
<1>5. u \in Nat /\ x \in Nat
  BY <1>1 DEF StTypes
<1>6. Share[i] = IF x = 0 THEN 0 ELSE (u * Excess[i]) \div x
  BY DEF Share
<1> HIDE DEF s, u, x
<1>7. Share[i] \in Nat
  <2> DEFINE e == Excess[i]
  <2>1. e \in Nat
    BY <1>4
  <2> HIDE DEF e
  <2>2. u * e \in Nat
    BY <1>5, <2>1, Z3
  <2>3. x # 0 => (u * e) \div x \in Nat
    BY <1>5, <2>2, Rounding
  <2> QED
    BY <1>6, <2>3 DEF e
<1>8. Cap[i] = FloorAt(i) - Left[i] + Share[i]
  BY DEF Cap
<1>9. Cap[i] \in Nat
  BY <1>2, <1>4, <1>7, <1>8
<1> QED
  BY <1>2, <1>3, <1>4, <1>7, <1>8, <1>9

(* What the claims of a session may take is within its budget: floors fit, *)
(* and of what is left of them no more is shared out.                      *)
LEMMA CapsFit ==
    ASSUME StTypes, PhaseOk, BudgetsOk, phase \in {"settle", "halted"}, NEW s \in Sessions
    PROVE  /\ IsFiniteSet(In(s)) /\ In(s) \subseteq DOMAIN batch
           /\ Total(Cap, In(s)) <= SessionBudget(s)
<1> DEFINE S == In(s)
           u == budgets[s].unused
           x == budgets[s].totalExcess
           k == SupplierFloor(s)
           floors == [i \in S |-> k]
           net == [i \in S |-> k - Left[i]]
           taken == [i \in S |-> Left[i] - Share[i]]
<1>1. IsFiniteSet(S) /\ S \subseteq DOMAIN batch
  BY ClaimFacts, FS_Subset DEF In
<1>2. u \in Nat /\ x \in Nat /\ SessionBudget(s) \in Nat
  BY BudgetIsOfStake DEF StTypes
<1>3. u = Total(Left, S) /\ x = Total(Excess, S)
  BY DEF BudgetsOk, Seen
<1>4. numSuppliers[s] = Cardinality(S) /\ Cardinality(S) \in Nat
  BY <1>1, FS_CardinalityType DEF PhaseOk
<1>5. \A i \in S : /\ FloorAt(i) = k /\ k \in Nat /\ Left[i] \in Nat /\ Left[i] <= k
                   /\ Excess[i] \in Nat /\ Share[i] \in Nat /\ Cap[i] \in Nat
                   /\ Cap[i] = k - Left[i] + Share[i]
  <2> TAKE i \in S
  <2>1. i \in DOMAIN batch /\ FloorAt(i) = k
    BY DEF In, FloorAt
  <2> HIDE DEF k
  <2> QED
    BY <2>1, CapFacts
<1>6. \A i \in S : Share[i] = IF x = 0 THEN 0 ELSE (u * Excess[i]) \div x
  BY DEF In, Share
<1> HIDE DEF S, u, x, k
<1>7. CASE S = {}
  BY <1>1, <1>2, <1>7, TotalOfNone DEF S
<1>8. CASE S # {}
  <2>1. k \in Nat /\ numSuppliers[s] # 0
    BY <1>1, <1>4, <1>5, <1>8, FS_EmptySet
  <2>2. k * Cardinality(S) <= SessionBudget(s)
    BY <1>4, <2>1, FloorsFit DEF k
  <2>3. Total(floors, S) <= k * Cardinality(S) /\ Total(floors, S) \in Nat
    <3>1. \A i \in S : floors[i] \in Nat /\ floors[i] <= k
      BY <2>1
    <3> HIDE DEF floors
    <3> QED
      BY <1>1, <2>1, <3>1, TotalIsBounded, TotalIsNat
  <2>4. Total(Share, S) <= Total(Left, S) /\ Total(Share, S) \in Nat /\ Total(Left, S) \in Nat
    <3>1. Total(Share, S) \in Nat /\ Total(Left, S) \in Nat
      BY <1>1, <1>5, TotalIsNat
    <3>2. CASE x = 0
      <4>1. \A i \in S : Share[i] \in Int /\ Left[i] \in Int /\ Share[i] <= Left[i]
        BY <1>5, <1>6, <3>2
      <4> QED
        BY <1>1, <3>1, <4>1, TotalIsMonotone
    <3>3. CASE x # 0
      <4>1. \A i \in S : Excess[i] \in Nat /\ Share[i] = (u * Excess[i]) \div x
        BY <1>5, <1>6, <3>3
      <4>2. x \in Nat \ {0} /\ Total(Excess, S) <= x
        BY <1>2, <1>3, <3>3
      <4>3. Total(Share, S) <= u
        BY <1>1, <1>2, <4>1, <4>2, SharesFit
      <4> QED
        BY <1>3, <3>1, <4>3
    <3> QED
      BY <3>2, <3>3
  <2>5. Total(taken, S) = Total(Left, S) - Total(Share, S)
    <3>1. \A i \in S : Left[i] \in Int /\ Share[i] \in Int /\ taken[i] = Left[i] - Share[i]
      BY <1>5
    <3> HIDE DEF taken
    <3> QED
      BY <1>1, <3>1, TotalOfDifferences
  <2>6. Total(Cap, S) = Total(floors, S) - Total(taken, S)
    <3>1. \A i \in S : floors[i] \in Int /\ taken[i] \in Int /\ Cap[i] = floors[i] - taken[i]
      BY <1>5, <2>1
    <3> HIDE DEF taken, floors
    <3> QED
      BY <1>1, <3>1, TotalOfDifferences
  <2> HIDE DEF floors, taken
  <2>7. k * Cardinality(S) \in Nat
    BY <1>4, <2>1, Z3
  <2>8. Total(Cap, S) <= SessionBudget(s)
    BY <1>2, <2>2, <2>3, <2>4, <2>5, <2>6, <2>7
  <2> QED
    BY <1>1, <2>8 DEF S
<1> QED
  BY <1>7, <1>8

(* What a claim takes with its inflation is within its cap.                *)
LEMMA TakenFits ==
    ASSUME StTypes, PhaseOk, BudgetsOk, phase = "settle",
           NEW i \in DOMAIN batch, IsPriced(batch[i])
    PROVE  /\ ActualSettlement(batch[i]) \in Nat
           /\ StakeTerms(ActualSettlement(batch[i])) <= Cap[i]
<1> DEFINE c == batch[i]
           s == c.session
           floor == SupplierFloor(s)
           b == budgets[s]
           excess == StakeTerms(c.amount) - floor
           bonus == IF Multiplier > 1 /\ b.totalExcess > 0 /\ excess > 0
                    THEN (b.unused * excess) \div b.totalExcess
                    ELSE 0
           most == MaxSettlement(MaxClaimable(c))
           n == ActualSettlement(c)
<1>1. /\ s \in Sessions /\ c.amount \in Nat /\ TokenomicsParams(params)
      /\ params.overservicingBonusMultiplier \in Nat
  BY ClaimFacts DEF TokenomicsParams
<1>2. /\ floor \in Nat /\ StakeTerms(c.amount) \in Nat
      /\ Left[i] \in Nat /\ Left[i] <= floor /\ Excess[i] \in Nat
      /\ Share[i] \in Nat /\ Cap[i] \in Nat /\ Cap[i] = floor - Left[i] + Share[i]
  BY CapFacts DEF FloorAt, TermsAt
<1>3. Multiplier \in Nat \ {0}
  <2> DEFINE m == params.overservicingBonusMultiplier
  <2>1. m \in Nat /\ Multiplier = Max({1, m})
    BY <1>1 DEF Multiplier
  <2> HIDE DEF m
  <2>2. Max({1, m}) = IF 1 >= m THEN 1 ELSE m
    BY <2>1, SmallerOfTwo
  <2> QED
    BY <2>1, <2>2
<1>4. b.unused \in Nat /\ b.totalExcess \in Nat
  BY <1>1 DEF StTypes
<1>5. bonus \in Nat /\ (~ (StakeTerms(c.amount) < floor) => bonus <= Share[i])
  <2>1. CASE ~ (Multiplier > 1 /\ b.totalExcess > 0 /\ excess > 0)
    BY <1>2, <2>1
  <2>2. CASE Multiplier > 1 /\ b.totalExcess > 0 /\ excess > 0
    <3>1. /\ Excess[i] = excess /\ excess \in Nat
          /\ Share[i] = (b.unused * excess) \div b.totalExcess
      <4>1. IsPriced(batch[i]) /\ ~ (TermsAt(i) < FloorAt(i))
        BY <1>2, <2>2 DEF TermsAt, FloorAt
      <4>2. Excess[i] = excess
        BY <4>1 DEF Excess, TermsAt, FloorAt
      <4>3. Share[i] = (b.unused * Excess[i]) \div b.totalExcess
        BY <2>2 DEF Share
      <4> QED
        BY <1>2, <4>2, <4>3
    <3>2. bonus = Share[i]
      BY <2>2, <3>1
    <3> HIDE DEF bonus
    <3> QED
      BY <1>2, <3>2
  <2> QED
    BY <2>1, <2>2
<1>6. MaxClaimable(c) = Min({floor + bonus, floor * Multiplier})
  BY DEF MaxClaimable
<1>7. n = Min({c.amount, most})
  BY DEF ActualSettlement
<1> HIDE DEF bonus, n, floor
<1>8. MaxClaimable(c) \in Nat /\ MaxClaimable(c) <= floor + bonus
  <2>1. floor * Multiplier \in Nat
    BY <1>2, <1>3, Z3
  <2> QED
    BY <1>2, <1>5, <1>6, <2>1, SmallerOfTwo
<1>9. most \in Nat /\ StakeTerms(most) <= MaxClaimable(c)
  BY <1>1, <1>8, SettlesWithin
<1> HIDE DEF most
<1>10. n \in Nat /\ n <= c.amount /\ n <= most
  BY <1>1, <1>7, <1>9, SmallerOfTwo
<1>11. /\ StakeTerms(n) \in Nat /\ StakeTerms(n) <= StakeTerms(c.amount)
       /\ StakeTerms(n) <= StakeTerms(most) /\ StakeTerms(most) \in Nat
  BY <1>1, <1>9, <1>10, TermsGrow
<1>12. StakeTerms(n) <= Cap[i]
  <2>1. CASE StakeTerms(c.amount) < floor
    <3>1. Left[i] = floor - StakeTerms(c.amount)
      BY <2>1 DEF Left, TermsAt, FloorAt, floor
    <3> QED
      BY <1>2, <1>11, <3>1
  <2>2. CASE ~ (StakeTerms(c.amount) < floor)
    <3>1. Left[i] = 0
      BY <2>2 DEF Left, TermsAt, FloorAt, floor
    <3> QED
      BY <1>2, <1>5, <1>8, <1>9, <1>11, <2>2, <3>1
  <2> QED
    BY <2>1, <2>2
<1> QED
  BY <1>10, <1>12 DEF n

(* What the outcomes are made of.                                          *)
LEMMA OutcomeFacts ==
    ASSUME StTypes
    PROVE  /\ DOMAIN outcomes = 1..Len(outcomes) /\ Len(outcomes) \in Nat
           /\ IsFiniteSet(DOMAIN outcomes) /\ DOMAIN outcomes \subseteq DOMAIN batch
           /\ \A i \in DOMAIN outcomes :
                outcomes[i].charge \in Nat /\ Charges[i] = outcomes[i].charge
<1>1. outcomes \in Seq(Outcomes) /\ Len(outcomes) <= Len(batch)
  BY DEF StTypes
<1>2. DOMAIN outcomes = 1..Len(outcomes) /\ Len(outcomes) \in Nat
  BY <1>1
<1>3. IsFiniteSet(1..Len(outcomes))
  BY <1>2, FS_Interval
<1>4. \A i \in DOMAIN outcomes : outcomes[i] \in Outcomes
  BY <1>1
<1>5. \A i \in DOMAIN outcomes : outcomes[i].charge \in Nat
  BY <1>4 DEF Outcomes
<1>6. DOMAIN outcomes \subseteq DOMAIN batch
  BY <1>1, <1>2, ClaimFacts
<1> QED
  BY <1>2, <1>3, <1>5, <1>6 DEF Charges

(* The claims of a session are charged no more than they may take.         *)
LEMMA ChargesFit ==
    ASSUME StTypes, PhaseOk, BudgetsOk, ChargesOk, phase \in {"settle", "halted"},
           NEW s \in Sessions
    PROVE  /\ Charged(s) \in Nat
           /\ Charged(s) <= Total(Cap, ClaimsOf(s))
           /\ Total(Cap, ClaimsOf(s)) <= SessionBudget(s)
           /\ SessionBudget(s) \in Nat /\ SessionBudget(s) <= stakes[s.app]
<1> DEFINE S == In(s)
           T == ClaimsOf(s)
<1>1. IsFiniteSet(S) /\ S \subseteq DOMAIN batch /\ Total(Cap, S) <= SessionBudget(s)
  BY CapsFit
<1>2. T \subseteq S /\ IsFiniteSet(T) /\ T \subseteq DOMAIN outcomes
  BY <1>1, OutcomeFacts, FS_Subset DEF ClaimsOf, In
<1>3. \A i \in S : Cap[i] \in Nat
  BY <1>1, CapFacts
<1>4. \A i \in T : Charges[i] \in Nat /\ Charges[i] <= Cap[i]
  BY <1>2, OutcomeFacts DEF ChargesOk
<1> HIDE DEF S, T
<1>5. Total(Charges, T) <= Total(Cap, T) /\ Total(Charges, T) \in Nat
  <2>1. \A i \in T : Charges[i] \in Int /\ Cap[i] \in Int /\ Charges[i] <= Cap[i]
    BY <1>2, <1>3, <1>4
  <2> QED
    BY <1>2, <1>4, <2>1, TotalIsMonotone, TotalIsNat
<1>6. Total(Cap, T) <= Total(Cap, S)
  <2>1. \A i \in S : Cap[i] \in Int
    BY <1>3
  <2>2. /\ Total(Cap, T) \in Int
        /\ Total(Cap, S) = Total(Cap, T) + Total(Cap, S \ T)
    BY <1>1, <1>2, <2>1, TotalSplits
  <2>3. IsFiniteSet(S \ T) /\ \A i \in S \ T : Cap[i] \in Nat
    BY <1>1, <1>3, FS_Subset
  <2>4. Total(Cap, S \ T) \in Nat
    BY <2>3, TotalIsNat
  <2> QED
    BY <2>2, <2>4
<1>7. SessionBudget(s) \in Nat /\ SessionBudget(s) <= stakes[s.app]
  BY BudgetIsOfStake
<1>8. Total(Cap, T) \in Nat /\ Total(Cap, S) \in Nat
  <2>1. \A i \in T : Cap[i] \in Nat
    BY <1>2, <1>3
  <2> QED
    BY <1>1, <1>2, <1>3, <2>1, TotalIsNat
<1>9. Total(Cap, T) <= SessionBudget(s)
  BY <1>1, <1>6, <1>7, <1>8 DEF S
<1> QED
  BY <1>5, <1>7, <1>9 DEF T, Charged

-----------------------------------------------------------------------------
(* The steps. *)

(* What is left and exceeded does not move between the phases.             *)
LEMMA CapsStay ==
    ASSUME UNCHANGED <<params, spendLimit, stakes, batch, numSuppliers>>
    PROVE  /\ Left' = Left /\ Excess' = Excess
           /\ \A s : In(s)' = In(s)
           /\ budgets' = budgets => Cap' = Cap
<1>1. /\ \A s : SupplierFloor(s)' = SupplierFloor(s)
      /\ \A n : StakeTerms(n)' = StakeTerms(n)
  BY DEF SupplierFloor, SessionBudget, StakeTerms, GlobalInflation, CeilOf
<1>2. \A i : FloorAt(i)' = FloorAt(i) /\ TermsAt(i)' = TermsAt(i)
  BY <1>1 DEF FloorAt, TermsAt
<1>3. Left' = Left /\ Excess' = Excess
  BY <1>2 DEF Left, Excess
<1>4. budgets' = budgets => Share' = Share
  BY <1>3 DEF Share
<1>5. budgets' = budgets => Cap' = Cap
  BY <1>2, <1>3, <1>4 DEF Cap
<1>6. \A s : In(s)' = In(s)
  BY DEF In
<1> QED
  BY <1>3, <1>5, <1>6

(* Phase 1 counts the claims of a session.                                 *)
LEMMA CountKeeps ==
    ASSUME StInv, CountSuppliers
    PROVE  StInv'
<1>1. /\ phase = "count" /\ phase' = "budget" /\ at = 1
      /\ UNCHANGED <<params, spendLimit, stakes, bank, batch, at, budgets, cached,
                     rewards, results, outcomes>>
      /\ numSuppliers' = [s \in Sessions |->
                             Cardinality({i \in DOMAIN batch : batch[i].session = s})]
  BY DEF CountSuppliers, StInv, PhaseOk
<1>2. \A s \in Sessions : Cardinality(In(s)) \in Nat /\ numSuppliers'[s] = Cardinality(In(s))
  <2> TAKE s \in Sessions
  <2>1. IsFiniteSet(In(s))
    BY ClaimFacts, FS_Subset DEF StInv, In
  <2> QED
    BY <1>1, <2>1, FS_CardinalityType DEF In
<1>3. numSuppliers' \in [Sessions -> Nat]
  BY <1>1, <1>2
<1>4. StTypes'
  BY <1>1, <1>3 DEF StInv, StTypes
<1>5. PhaseOk'
  <2>1. \A s \in Sessions : In(s)' = In(s)
    BY <1>1 DEF In
  <2> QED
    BY <1>1, <1>2, <2>1 DEF StInv, PhaseOk
<1>6. BudgetsOk'
  <2>1. \A s \in Sessions : Seen(s)' = {}
    <3>1. DOMAIN batch = 1..Len(batch) /\ Len(batch) \in Nat
      BY ClaimFacts DEF StInv
    <3> QED
      BY <1>1, <3>1 DEF Seen, In
  <2>2. \A s \in Sessions : budgets'[s].unused = 0 /\ budgets'[s].totalExcess = 0
    BY <1>1 DEF StInv, PhaseOk
  <2>3. Total(Left', {}) = 0 /\ Total(Excess', {}) = 0
    BY TotalOfNone
  <2> QED
    BY <1>1, <2>1, <2>2, <2>3 DEF BudgetsOk
<1>7. outcomes' = <<>>
  BY <1>1 DEF StInv, PhaseOk
<1>8. ChargesOk'
  BY <1>7 DEF ChargesOk
<1>9. PoolOk'
  BY <1>1 DEF StInv, PoolOk, Charges
<1>10. OpsOk'
  BY <1>1 DEF StInv, OpsOk, Charges, Discarded
<1> QED
  BY <1>4, <1>5, <1>6, <1>8, <1>9, <1>10 DEF StInv

(* Phase 1.5 adds what one claim leaves or exceeds to the budget of its    *)
(* session.                                                                *)
LEMMA AccumulateKeeps ==
    ASSUME StInv, AccumulateClaimBudget
    PROVE  StInv'
<1> DEFINE c == batch[at]
           s == c.session
           b == budgets[s]
           x == Accumulated(c)
<1>1. /\ phase = "budget" /\ at <= Len(batch) /\ at' = at + 1
      /\ budgets' = [budgets EXCEPT ![s] = x]
      /\ UNCHANGED <<params, spendLimit, stakes, bank, phase, batch, numSuppliers,
                     cached, rewards, results, outcomes>>
  BY DEF AccumulateClaimBudget
<1>2. StTypes /\ PhaseOk /\ BudgetsOk
  BY DEF StInv
<1>3. DOMAIN batch = 1..Len(batch) /\ Len(batch) \in Nat /\ IsFiniteSet(DOMAIN batch)
  BY <1>2, ClaimFacts
<1>4. at \in Nat /\ at >= 1 /\ at \in DOMAIN batch
  BY <1>1, <1>2, <1>3 DEF StTypes
<1>5. s \in Sessions /\ c.kind \in Kinds
  BY <1>2, <1>4, ClaimFacts
<1>6. b \in [unused : Nat, totalExcess : Nat]
  BY <1>2, <1>5 DEF StTypes
<1>7. \A i \in DOMAIN batch : Left[i] \in Nat /\ Excess[i] \in Nat
  BY <1>1, <1>2, CapFacts
<1>8. /\ FloorAt(at) = SupplierFloor(s) /\ TermsAt(at) = StakeTerms(c.amount)
      /\ FloorAt(at) \in Nat /\ TermsAt(at) \in Nat
  BY <1>1, <1>2, <1>4, CapFacts DEF FloorAt, TermsAt
<1>9. /\ x \in [unused : Nat, totalExcess : Nat]
      /\ x.unused = b.unused + Left[at] /\ x.totalExcess = b.totalExcess + Excess[at]
  <2> DEFINE floor == SupplierFloor(s)
             terms == StakeTerms(c.amount)
  <2>1. b.unused \in Nat /\ b.totalExcess \in Nat
    BY <1>6
  <2>2. IsPriced(c) <=> ~ (c.kind = "faulty" \/ ~ WillSettle(c))
    BY <1>5 DEF IsPriced, WillSettle, Kinds
  <2>3. Left[at] = IF IsPriced(c) /\ terms < floor THEN floor - terms ELSE 0
    BY <1>4, <1>8 DEF Left
  <2>4. Excess[at] = IF IsPriced(c) /\ ~ (terms < floor) THEN terms - floor ELSE 0
    BY <1>4, <1>8 DEF Excess
  <2>5. x = IF ~ IsPriced(c)
            THEN b
            ELSE IF terms < floor
            THEN [b EXCEPT !.unused = @ + (floor - terms)]
            ELSE [b EXCEPT !.totalExcess = @ + (terms - floor)]
    BY <2>2 DEF Accumulated
  <2>6. floor \in Nat /\ terms \in Nat
    BY <1>8
  <2> HIDE DEF c, s, b, x, floor, terms
  <2>7. CASE ~ IsPriced(c)
    BY <1>6, <2>1, <2>3, <2>4, <2>5, <2>7
  <2>8. CASE IsPriced(c) /\ terms < floor
    BY <1>6, <2>1, <2>3, <2>4, <2>5, <2>6, <2>8
  <2>9. CASE IsPriced(c) /\ ~ (terms < floor)
    BY <1>6, <2>1, <2>3, <2>4, <2>5, <2>6, <2>9
  <2> QED
    BY <2>7, <2>8, <2>9
<1> HIDE DEF x
<1>10. budgets' \in [Sessions -> [unused : Nat, totalExcess : Nat]]
  BY <1>1, <1>2, <1>9 DEF StTypes
<1>11. at' \in 1..(Len(batch) + 1)
  BY <1>1, <1>3, <1>4
<1>12. StTypes'
  BY <1>1, <1>2, <1>10, <1>11 DEF StTypes
<1>13. /\ Left' = Left /\ Excess' = Excess /\ \A t : In(t)' = In(t)
  BY <1>1, CapsStay
<1>14. PhaseOk'
  BY <1>1, <1>2, <1>13 DEF PhaseOk
<1>15. BudgetsOk'
  <2> SUFFICES ASSUME NEW t \in Sessions
               PROVE  /\ budgets'[t].unused = Total(Left, Seen(t)')
                      /\ budgets'[t].totalExcess = Total(Excess, Seen(t)')
    BY <1>13 DEF BudgetsOk
  <2>1. Seen(t) = {i \in In(t) : i < at} /\ Seen(t)' = {i \in In(t) : i < at + 1}
    BY <1>1, <1>13 DEF Seen
  <2>2. In(t) \subseteq DOMAIN batch
    BY DEF In
  <2>3. budgets[t].unused = Total(Left, Seen(t)) /\ budgets[t].totalExcess = Total(Excess, Seen(t))
    BY <1>1, <1>2 DEF BudgetsOk
  <2>4. CASE t # s
    <3>1. Seen(t)' = Seen(t)
      <4>1. at \notin In(t)
        BY <2>4 DEF In
      <4>2. \A i \in In(t) : i < at + 1 <=> i < at
        BY <1>3, <1>4, <2>2, <4>1
      <4> QED
        BY <2>1, <4>2
    <3>2. budgets'[t] = budgets[t]
      BY <1>1, <1>2, <2>4 DEF StTypes
    <3> QED
      BY <2>3, <3>1, <3>2
  <2>5. CASE t = s
    <3> DEFINE S == Seen(t)
    <3>1. at \in In(t)
      BY <1>4, <2>5 DEF In
    <3>2. Seen(t)' = S \cup {at} /\ at \notin S
      <4>1. \A i \in In(t) : i < at + 1 <=> i < at \/ i = at
        BY <1>3, <1>4, <2>2
      <4>2. {i \in In(t) : i < at + 1} = {i \in In(t) : i < at} \cup {at}
        BY <3>1, <4>1, Zenon
      <4>3. ~ (at < at)
        BY <1>4
      <4>4. at \notin {i \in In(t) : i < at}
        BY <4>3, Zenon
      <4> QED
        BY <2>1, <4>2, <4>4
    <3>3. IsFiniteSet(S) /\ \A i \in S \cup {at} : i \in DOMAIN batch
      BY <1>3, <1>4, <2>1, <2>2, FS_Subset
    <3> HIDE DEF S
    <3>4. PICK m : m = at
      OBVIOUS
    <3>5. Total(Left, S \cup {m}) = Left[m] + Total(Left, S)
      <4>1. \A i \in S \cup {m} : Left[i] \in Int
        BY <1>7, <3>3, <3>4
      <4> QED
        BY <3>2, <3>3, <3>4, <4>1, TotalAdds
    <3>6. Total(Excess, S \cup {m}) = Excess[m] + Total(Excess, S)
      <4>1. \A i \in S \cup {m} : Excess[i] \in Int
        BY <1>7, <3>3, <3>4
      <4> QED
        BY <3>2, <3>3, <3>4, <4>1, TotalAdds
    <3>7. budgets'[t] = x /\ budgets[t] = b
      BY <1>1, <1>2, <1>5, <2>5 DEF StTypes
    <3>8. b.unused \in Nat /\ b.totalExcess \in Nat /\ Left[at] \in Nat /\ Excess[at] \in Nat
      BY <1>4, <1>6, <1>7
    <3>9. b.unused = Total(Left, S) /\ b.totalExcess = Total(Excess, S)
      BY <2>3, <3>7 DEF S
    <3> HIDE DEF b, s
    <3> QED
      BY <1>9, <3>2, <3>4, <3>5, <3>6, <3>7, <3>8, <3>9
  <2> QED
    BY <2>4, <2>5
<1>16. outcomes' = <<>>
  BY <1>1, <1>2 DEF PhaseOk
<1>17. ChargesOk'
  BY <1>16 DEF ChargesOk
<1>18. PoolOk'
  BY <1>1 DEF StInv, PoolOk, Charges
<1>19. OpsOk'
  BY <1>1 DEF StInv, OpsOk, Charges, Discarded
<1> QED
  BY <1>12, <1>14, <1>15, <1>17, <1>18, <1>19 DEF StInv

(* Between the phases the budgets are complete.                            *)
LEMMA CompleteKeeps ==
    ASSUME StInv, BudgetsComplete
    PROVE  StInv'
<1>1. /\ phase = "budget" /\ at > Len(batch) /\ phase' = "settle" /\ at' = 1
      /\ UNCHANGED <<params, spendLimit, stakes, bank, batch, numSuppliers, budgets,
                     cached, rewards, results, outcomes>>
  BY DEF BudgetsComplete
<1>2. StTypes /\ PhaseOk /\ BudgetsOk
  BY DEF StInv
<1>3. DOMAIN batch = 1..Len(batch) /\ Len(batch) \in Nat /\ at \in Nat
  BY <1>2, ClaimFacts DEF StTypes
<1>4. StTypes'
  BY <1>1, <1>2, <1>3 DEF StTypes
<1>5. /\ Left' = Left /\ Excess' = Excess /\ \A t : In(t)' = In(t)
  BY <1>1, CapsStay
<1>6. outcomes = <<>> /\ outcomes' = <<>> /\ Len(outcomes') = at' - 1
  BY <1>1, <1>2 DEF PhaseOk
<1>7. PhaseOk'
  BY <1>1, <1>2, <1>5, <1>6 DEF PhaseOk
<1>8. BudgetsOk'
  <2>1. \A s \in Sessions : Seen(s)' = Seen(s)
    <3> TAKE s \in Sessions
    <3>1. \A i \in In(s) : i < at
      BY <1>1, <1>3 DEF In
    <3>2. Seen(s) = In(s) /\ Seen(s)' = In(s)
      BY <1>1, <1>5, <3>1 DEF Seen
    <3> QED
      BY <3>2
  <2> QED
    BY <1>1, <1>2, <1>5, <2>1 DEF BudgetsOk
<1>9. ChargesOk'
  BY <1>6 DEF ChargesOk
<1>10. PoolOk'
  BY <1>1 DEF StInv, PoolOk, Charges
<1>11. OpsOk'
  BY <1>1 DEF StInv, OpsOk, Charges, Discarded
<1> QED
  BY <1>4, <1>7, <1>8, <1>9, <1>10, <1>11 DEF StInv

(* What an outcome more, the nth, makes of the totals of the charges.      *)
ChargesGrow(n, o) ==
    \A S \in SUBSET DOMAIN outcomes :
        /\ Total(Charges, S) \in Nat
        /\ Total(Charges', S) = Total(Charges, S)
        /\ Total(Charges', S \cup {n}) = Total(Charges, S) + o.charge

(* An outcome more adds its charge to the totals it belongs to.            *)
LEMMA OutcomeAdds ==
    ASSUME StTypes, NEW o, o \in Outcomes, outcomes' = Append(outcomes, o),
           NEW n, n = Len(outcomes) + 1
    PROVE  /\ DOMAIN outcomes' = DOMAIN outcomes \cup {n} /\ n \notin DOMAIN outcomes
           /\ outcomes'[n] = o /\ \A i \in DOMAIN outcomes : outcomes'[i] = outcomes[i]
           /\ ChargesGrow(n, o)
<1>1. /\ outcomes \in Seq(Outcomes) /\ Len(outcomes) \in Nat
      /\ DOMAIN outcomes = 1..Len(outcomes) /\ IsFiniteSet(DOMAIN outcomes)
      /\ \A i \in DOMAIN outcomes :
           outcomes[i].charge \in Nat /\ Charges[i] = outcomes[i].charge
  BY OutcomeFacts DEF StTypes
<1>2. DOMAIN outcomes' = DOMAIN outcomes \cup {n} /\ n \notin DOMAIN outcomes
  BY <1>1
<1>3. outcomes'[n] = o /\ \A i \in DOMAIN outcomes : outcomes'[i] = outcomes[i]
  BY <1>1
<1>4. /\ \A i \in DOMAIN outcomes : Charges'[i] = Charges[i]
      /\ Charges'[n] = o.charge
  BY <1>1, <1>2, <1>3 DEF Charges
<1>5. o.charge \in Nat
  BY DEF Outcomes
<1>6. ASSUME NEW S \in SUBSET DOMAIN outcomes
      PROVE  /\ Total(Charges, S) \in Nat
             /\ Total(Charges', S) = Total(Charges, S)
             /\ Total(Charges', S \cup {n}) = Total(Charges, S) + o.charge
  <2>1. IsFiniteSet(S) /\ n \notin S
    BY <1>1, <1>2, FS_Subset
  <2>2. \A i \in S : Charges[i] \in Nat /\ Charges'[i] = Charges[i]
    BY <1>1, <1>4
  <2>3. Total(Charges, S) \in Nat
    BY <2>1, <2>2, TotalIsNat
  <2>4. Total(Charges', S) = Total(Charges, S)
    <3>1. \A i \in S : Charges'[i] \in Int /\ Charges'[i] = Charges[i]
      BY <2>2
    <3> QED
      BY <2>1, <3>1, TotalOfEquals
  <2>5. Total(Charges', S \cup {n}) = Charges'[n] + Total(Charges', S)
    <3>1. \A i \in S \cup {n} : Charges'[i] \in Int
      BY <1>4, <1>5, <2>2
    <3> QED
      BY <2>1, <3>1, TotalAdds
  <2> QED
    BY <1>4, <1>5, <2>3, <2>4, <2>5
<1> QED
  BY <1>2, <1>3, <1>6 DEF ChargesGrow

(* Settling a claim: what it is charged comes out of its application's     *)
(* stake, its operations are added if it is settled, and if it is not, no  *)
(* rewards are, when the stake suffices and proposers follow.              *)
Settles(c, o) ==
    LET app == c.session.app
    IN  /\ o \in Outcomes /\ outcomes' = Append(outcomes, o)
        /\ o.charge <= cached[app] /\ o.charge <= Cap[at]
        /\ cached' = [cached EXCEPT ![app] = cached[app] - o.charge]
        /\ rewards' \in Nat /\ rewards <= rewards'
        /\ results' \in Ops /\ results'.toSupplier = results'.fromSupplier
        /\ o.result = "settled" =>
             /\ results'.mint + results'.toTokenomics + rewards
                  + results.toSupplier + results.fromTokenomics
                  = results'.toSupplier + results'.fromTokenomics + rewards'
                    + results.mint + results.toTokenomics
             /\ results'.burn + results'.toTokenomics
                  = results.burn + results.toTokenomics + o.charge
        /\ o.result = "settled" => o.charge = StakeTerms(ActualSettlement(c))
        /\ o.result # "settled" =>
             results' = results /\ (o.result = "discarded" \/ o.charge = 0)
        /\ /\ o.result # "settled" /\ ProposersFollow
           /\ IsPriced(c) => StakeTerms(ActualSettlement(c)) <= cached[app]
           => rewards' = rewards

(* A step of Phase 2 does that.                                            *)
LEMMA SettleIs ==
    ASSUME StInv, SettleClaim
    PROVE  \E o : Settles(batch[at], o)
<1> DEFINE c == batch[at]
           app == c.session.app
           w == Processed(c)
           stake == cached[app]
<1>1. StTypes /\ PhaseOk /\ BudgetsOk /\ OpsOk /\ phase = "settle"
  BY DEF StInv, SettleClaim
<1>2. at \in DOMAIN batch
  BY <1>1, ClaimFacts DEF StTypes, SettleClaim
<1>3. /\ app \in Applications /\ c.kind \in Kinds /\ TokenomicsParams(params)
      /\ stake \in Nat /\ rewards \in Nat /\ results \in Ops /\ Cap[at] \in Nat
      /\ cached \in [Applications -> Nat] /\ params \in TokenomicsParamsSets
  BY <1>1, <1>2, ClaimFacts, CapFacts DEF StTypes
<1>4. results.toSupplier = results.fromSupplier
  BY <1>1 DEF OpsOk
<1>5. CASE c.kind \in {"expires", "faulty"}
  <2> DEFINE o == Outcome(IF c.kind = "expires" THEN "expired" ELSE "discarded", 0, 0)
  <2>1. outcomes' = Append(outcomes, o) /\ UNCHANGED <<cached, rewards, results>>
    BY <1>5 DEF SettleClaim
  <2>2. o \in Outcomes /\ o.charge = 0 /\ o.result # "settled"
    BY DEF Outcome, Outcomes
  <2> HIDE DEF o
  <2>3. cached' = [cached EXCEPT ![app] = cached[app] - o.charge]
    BY <1>3, <2>1, <2>2
  <2>4. o.charge <= cached[app] /\ o.charge <= Cap[at]
    BY <1>3, <2>2
  <2>5. /\ rewards' = rewards /\ rewards' \in Nat /\ rewards <= rewards'
        /\ results' = results /\ results' \in Ops /\ results'.toSupplier = results'.fromSupplier
    BY <1>3, <1>4, <2>1
  <2> HIDE DEF c
  <2>6. Settles(c, o)
    BY <2>1, <2>2, <2>3, <2>4, <2>5 DEF Settles
  <2> QED
    BY <2>6 DEF c
<1>6. CASE c.kind \notin {"expires", "faulty"}
  <2> DEFINE n == ActualSettlement(c)
             o == Outcome(IF w.ok THEN "settled" ELSE "discarded", IF w.ok THEN n ELSE 0,
                          stake - w.stake)
  <2>1. /\ cached' = [cached EXCEPT ![app] = w.stake] /\ rewards' = w.rewards
        /\ results' = IF w.ok THEN AddOps(results, w.ops) ELSE results
        /\ outcomes' = Append(outcomes, o)
    BY <1>6 DEF SettleClaim
  <2>2. IsPriced(c)
    BY <1>3, <1>6 DEF IsPriced, Kinds
  <2>3. n \in Nat /\ StakeTerms(n) <= Cap[at] /\ StakeTerms(n) \in Nat
    BY <1>1, <1>2, <1>3, <2>2, TakenFits, TermsGrow
  <2>4. /\ Balanced(w, stake, rewards) /\ stake - w.stake <= StakeTerms(n)
        /\ w.ok => stake - w.stake = StakeTerms(n)
        /\ /\ params.globalInflationPerClaim[1] = 0
              \/ ProposerFollows(params.mintEqualsBurnClaimDistribution)
           /\ StakeTerms(n) <= stake
           => w.ok \/ w.rewards = rewards
    BY <1>3, <2>3, ClaimIsBalanced
  <2>5. /\ w.stake \in Nat /\ w.rewards \in Nat /\ w.ops \in Ops /\ w.ok \in BOOLEAN
        /\ w.stake <= stake /\ rewards <= w.rewards
    BY <2>4 DEF Balanced, Work
  <2> HIDE DEF w, n
  <2>6. o \in Outcomes /\ o.charge = stake - w.stake /\ o.charge \in Nat
        /\ o.result = IF w.ok THEN "settled" ELSE "discarded"
    BY <1>3, <2>3, <2>5 DEF Outcome, Outcomes
  <2> HIDE DEF o
  <2>7. o.charge <= stake /\ o.charge <= Cap[at] /\ stake - o.charge = w.stake
    BY <1>3, <2>3, <2>4, <2>5, <2>6
  <2>8. ProposersFollow => \/ params.globalInflationPerClaim[1] = 0
                           \/ ProposerFollows(params.mintEqualsBurnClaimDistribution)
    BY <1>3 DEF ProposersFollow
  <2>9. CASE w.ok
    <3> DEFINE p == w.ops
    <3>1. results' = AddOps(results, p) /\ o.result = "settled"
      BY <2>1, <2>6, <2>9
    <3>2. /\ results' \in Ops /\ results'.mint = results.mint + p.mint
          /\ results'.toSupplier = results.toSupplier + p.toSupplier
          /\ results'.toTokenomics = results.toTokenomics + p.toTokenomics
          /\ results'.fromSupplier = results.fromSupplier + p.fromSupplier
          /\ results'.fromTokenomics = results.fromTokenomics + p.fromTokenomics
          /\ results'.burn = results.burn + p.burn
      BY <1>3, <2>5, <3>1, OpsAdd
    <3>3. /\ p.toSupplier = p.fromSupplier
          /\ p.mint + p.toTokenomics + rewards = p.toSupplier + p.fromTokenomics + w.rewards
          /\ p.burn + p.toTokenomics = stake - w.stake
      BY <2>4, <2>9 DEF Balanced
    <3>4. /\ p.mint \in Nat /\ p.toSupplier \in Nat /\ p.toTokenomics \in Nat
          /\ p.fromSupplier \in Nat /\ p.fromTokenomics \in Nat /\ p.burn \in Nat
      BY <2>5 DEF Ops
    <3>5. /\ results.mint \in Nat /\ results.toSupplier \in Nat /\ results.toTokenomics \in Nat
          /\ results.fromSupplier \in Nat /\ results.fromTokenomics \in Nat
          /\ results.burn \in Nat
      BY <1>3 DEF Ops
    <3> HIDE DEF p
    <3>6. results'.toSupplier = results'.fromSupplier
      BY <1>4, <3>2, <3>3
    <3>7. results'.mint + results'.toTokenomics + rewards
              + results.toSupplier + results.fromTokenomics
            = results'.toSupplier + results'.fromTokenomics + rewards'
              + results.mint + results.toTokenomics
      <4>1. results'.mint + results'.toTokenomics + rewards
              = results.mint + results.toTokenomics + (p.mint + p.toTokenomics + rewards)
        BY <1>3, <3>2, <3>4, <3>5
      <4>2. results'.toSupplier + results'.fromTokenomics + rewards'
              = results.toSupplier + results.fromTokenomics
                + (p.toSupplier + p.fromTokenomics + w.rewards)
        <5>1. rewards' = w.rewards /\ w.rewards \in Nat
          BY <2>1, <2>5
        <5>2. /\ results'.toSupplier = results.toSupplier + p.toSupplier
              /\ results'.fromTokenomics = results.fromTokenomics + p.fromTokenomics
          BY <3>2
        <5> QED
          BY <3>4, <3>5, <5>1, <5>2
      <4> DEFINE x == p.mint + p.toTokenomics + rewards
                 y == results'.mint + results'.toTokenomics + rewards
                 z == results'.toSupplier + results'.fromTokenomics + rewards'
      <4>3. x \in Nat /\ x = p.toSupplier + p.fromTokenomics + w.rewards
        BY <1>3, <3>3, <3>4
      <4> HIDE DEF x
      <4>4. /\ y = results.mint + results.toTokenomics + x
            /\ z = results.toSupplier + results.fromTokenomics + x
        BY <4>1, <4>2, <4>3 DEF x
      <4> HIDE DEF y, z
      <4>5. y + results.toSupplier + results.fromTokenomics
              = z + results.mint + results.toTokenomics
        BY <3>5, <4>3, <4>4
      <4> QED
        BY <4>5 DEF y, z
    <3>8. results'.burn + results'.toTokenomics
            = results.burn + results.toTokenomics + o.charge
      BY <2>6, <3>2, <3>3, <3>4, <3>5
    <3>9. o.charge = StakeTerms(ActualSettlement(c))
      BY <2>4, <2>6, <2>9 DEF n
    <3>10. Settles(c, o)
      BY <2>1, <2>5, <2>6, <2>7, <3>1, <3>2, <3>6, <3>7, <3>8, <3>9 DEF Settles
    <3> QED
      BY <3>10
  <2>10. CASE ~ w.ok
    <3>1. results' = results /\ o.result = "discarded"
      BY <2>1, <2>6, <2>10
    <3>2. ProposersFollow /\ (IsPriced(c) => StakeTerms(ActualSettlement(c)) <= stake)
            => rewards' = rewards
      BY <2>1, <2>2, <2>4, <2>8, <2>10 DEF n
    <3>3. Settles(c, o)
      BY <1>3, <1>4, <2>1, <2>5, <2>6, <2>7, <3>1, <3>2 DEF Settles
    <3> QED
      BY <3>3
  <2> QED
    BY <2>5, <2>9, <2>10
<1> QED
  BY <1>5, <1>6

(* Phase 2 keeps the invariant: each claim within its cap, each charge out *)
(* of the stake it belongs to, each operation paid for.                    *)
LEMMA SettleKeeps ==
    ASSUME StInv, SettleClaim
    PROVE  StInv'
<1> DEFINE c == batch[at]
           app == c.session.app
<1>1. /\ StTypes /\ PhaseOk /\ BudgetsOk /\ ChargesOk /\ PoolOk /\ OpsOk
      /\ phase = "settle" /\ at <= Len(batch) /\ at' = at + 1
      /\ UNCHANGED <<params, spendLimit, stakes, bank, phase, batch, numSuppliers, budgets>>
  BY DEF StInv, SettleClaim
<1>2. PICK o : Settles(c, o)
  BY SettleIs
<1>3. /\ DOMAIN batch = 1..Len(batch) /\ Len(batch) \in Nat /\ at \in Nat
      /\ Len(outcomes) = at - 1 /\ Len(outcomes) \in Nat /\ at \in DOMAIN batch
      /\ outcomes \in Seq(Outcomes)
  BY <1>1, ClaimFacts DEF StTypes, PhaseOk
<1>4. app \in Applications /\ cached \in [Applications -> Nat] /\ results \in Ops
  BY <1>1, <1>3, ClaimFacts DEF StTypes
<1>5. /\ o \in Outcomes /\ outcomes' = Append(outcomes, o) /\ o.charge \in Nat
      /\ o.charge <= cached[app] /\ o.charge <= Cap[at]
      /\ cached' = [cached EXCEPT ![app] = cached[app] - o.charge]
      /\ rewards' \in Nat /\ rewards <= rewards'
      /\ results' \in Ops /\ results'.toSupplier = results'.fromSupplier
  BY <1>2 DEF Settles, Outcomes
<1>6. o.result = "settled" =>
        /\ results'.mint + results'.toTokenomics + rewards
             + results.toSupplier + results.fromTokenomics
             = results'.toSupplier + results'.fromTokenomics + rewards'
               + results.mint + results.toTokenomics
        /\ results'.burn + results'.toTokenomics
             = results.burn + results.toTokenomics + o.charge
  BY <1>2 DEF Settles
<1>7. o.result # "settled" =>
        results' = results /\ (o.result = "discarded" \/ o.charge = 0)
  BY <1>2 DEF Settles
<1> HIDE DEF app
<1>8. cached[app] - o.charge \in Nat
  BY <1>4, <1>5
<1>9. cached' \in [Applications -> Nat]
  BY <1>4, <1>5, <1>8
<1>10. /\ outcomes' \in Seq(Outcomes) /\ Len(outcomes') = at
       /\ at' \in 1..(Len(batch) + 1) /\ at <= Len(batch)
  BY <1>1, <1>3, <1>5
<1>11. StTypes'
  BY <1>1, <1>5, <1>9, <1>10 DEF StTypes
<1>12. /\ Left' = Left /\ Excess' = Excess /\ Cap' = Cap /\ \A t : In(t)' = In(t)
  BY <1>1, CapsStay
<1>13. Len(outcomes') = at' - 1
  BY <1>1, <1>3, <1>10
<1>14. PhaseOk'
  BY <1>1, <1>12, <1>13 DEF PhaseOk
<1>15. BudgetsOk'
  BY <1>1, <1>12 DEF BudgetsOk, Seen
<1>16. PICK n : n = Len(outcomes) + 1
  OBVIOUS
<1>17. /\ DOMAIN outcomes' = DOMAIN outcomes \cup {n} /\ n \notin DOMAIN outcomes
       /\ outcomes'[n] = o /\ \A i \in DOMAIN outcomes : outcomes'[i] = outcomes[i]
  BY <1>1, <1>5, <1>16, OutcomeAdds
<1>18. ChargesGrow(n, o)
  BY <1>1, <1>5, <1>16, OutcomeAdds
<1>19. n = at
  BY <1>3, <1>16
<1>20. ChargesOk'
  <2>1. \A i \in DOMAIN outcomes' : outcomes'[i].charge <= Cap[i]
    BY <1>1, <1>5, <1>17, <1>19 DEF ChargesOk
  <2> QED
    BY <1>12, <2>1 DEF ChargesOk
<1>21. PoolOk'
  <2>1. Total(cached', Applications) = Total(cached, Applications) - o.charge
    <3>1. \A a \in Applications :
             cached[a] \in Int /\ cached'[a] \in Int /\ (a # app => cached'[a] = cached[a])
      BY <1>4, <1>5, <1>9
    <3>2. cached'[app] = cached[app] - o.charge
      BY <1>4, <1>5
    <3>3. Total(cached', Applications) = Total(cached, Applications) - cached[app] + cached'[app]
      BY <1>4, <3>1, SettlementAssumption, TotalChanges
    <3>4. Total(cached, Applications) \in Int /\ cached[app] \in Int /\ o.charge \in Int
      BY <1>4, <1>5, <3>1, SettlementAssumption, TotalTakes
    <3> QED
      BY <3>2, <3>3, <3>4
  <2>2. Total(cached, Applications) \in Int
    <3>1. \A a \in Applications : cached[a] \in Int
      BY <1>4
    <3> QED
      BY <3>1, SettlementAssumption, TotalTakes
  <2>3. /\ Total(Charges', DOMAIN outcomes') = Total(Charges, DOMAIN outcomes) + o.charge
        /\ Total(Charges, DOMAIN outcomes) \in Nat
    BY <1>17, <1>18 DEF ChargesGrow
  <2>4. /\ bank.application = Total(stakes, Applications)
        /\ bank.tokenomics = 0 /\ bank.supplier = 0
        /\ Total(cached, Applications) + Total(Charges, DOMAIN outcomes)
             = Total(stakes, Applications)
    BY <1>1 DEF PoolOk
  <2>5. Total(cached', Applications) + Total(Charges', DOMAIN outcomes')
          = Total(stakes, Applications)
    BY <1>5, <2>1, <2>2, <2>3, <2>4
  <2> QED
    BY <1>1, <2>4, <2>5 DEF PoolOk
<1>22. OpsOk'
  <2> DEFINE all == Total(Charges, DOMAIN outcomes)
             lost == Total(Charges, Discarded)
  <2>1. /\ results.mint \in Nat /\ results.toSupplier \in Nat /\ results.toTokenomics \in Nat
        /\ results.fromTokenomics \in Nat /\ results.burn \in Nat /\ rewards \in Nat
        /\ results'.mint \in Nat /\ results'.toSupplier \in Nat /\ results'.toTokenomics \in Nat
        /\ results'.fromTokenomics \in Nat /\ results'.burn \in Nat
        /\ rewards' \in Nat /\ o.charge \in Nat
    BY <1>1, <1>4, <1>5 DEF Ops, StTypes
  <2>2. /\ results.mint + results.toTokenomics
             <= results.toSupplier + results.fromTokenomics + rewards
        /\ results.burn + results.toTokenomics + lost = all
    BY <1>1 DEF OpsOk
  <2>3. /\ Total(Charges', DOMAIN outcomes') = all + o.charge
        /\ all \in Nat /\ lost \in Nat /\ Discarded \subseteq DOMAIN outcomes
        /\ Total(Charges', Discarded) = lost
        /\ Total(Charges', Discarded \cup {n}) = lost + o.charge
    BY <1>17, <1>18 DEF Discarded, ChargesGrow
  <2>4. Discarded' = IF o.result = "discarded" THEN Discarded \cup {n} ELSE Discarded
    BY <1>17 DEF Discarded
  <2> HIDE DEF all, lost
  <2>5. CASE o.result = "settled"
    <3>1. results'.mint + results'.toTokenomics
            <= results'.toSupplier + results'.fromTokenomics + rewards'
      <4> DEFINE x == results.mint + results.toTokenomics
                 y == results.toSupplier + results.fromTokenomics
                 z == results'.mint + results'.toTokenomics
                 v == results'.toSupplier + results'.fromTokenomics
      <4>1. z + rewards + results.toSupplier + results.fromTokenomics
              = v + rewards' + results.mint + results.toTokenomics
        BY <1>6, <2>5
      <4>2. x \in Nat /\ y \in Nat /\ z \in Nat /\ v \in Nat /\ x <= y + rewards
        BY <2>1, <2>2
      <4>3. PICK k \in Nat, m \in Nat : k = rewards /\ m = rewards'
        BY <2>1
      <4>4. z + rewards + y = v + rewards' + x
        <5> HIDE DEF z, v
        <5> QED
          BY <2>1, <4>1, <4>2
      <4> HIDE DEF x, y, z, v
      <4>5. z <= v + rewards'
        <5>1. z + k + y = v + m + x /\ x <= y + k
          BY <4>2, <4>4, <4>3
        <5>2. z <= v + m
          BY <4>2, <5>1
        <5> QED
          BY <4>3, <5>2
      <4> QED
        BY <4>5 DEF z, v
    <3>2. Total(Charges', Discarded') = lost
      BY <2>3, <2>4, <2>5
    <3>3. results'.burn + results'.toTokenomics + Total(Charges', Discarded')
            = Total(Charges', DOMAIN outcomes')
      <4>1. results'.burn + results'.toTokenomics
              = results.burn + results.toTokenomics + o.charge
        BY <1>6, <2>5
      <4> QED
        BY <2>1, <2>2, <2>3, <3>2, <4>1
    <3> QED
      BY <1>5, <3>1, <3>3 DEF OpsOk
  <2>6. CASE o.result # "settled"
    <3>1. results' = results /\ (o.result = "discarded" \/ o.charge = 0)
      BY <1>7, <2>6
    <3>2. results'.mint + results'.toTokenomics
            <= results'.toSupplier + results'.fromTokenomics + rewards'
      BY <1>5, <2>1, <2>2, <3>1
    <3>3. Total(Charges', Discarded') = lost + o.charge
      BY <1>5, <2>3, <2>4, <3>1
    <3>4. results'.burn + results'.toTokenomics + Total(Charges', Discarded')
            = Total(Charges', DOMAIN outcomes')
      <4>1. results'.burn = results.burn /\ results'.toTokenomics = results.toTokenomics
        BY <3>1
      <4> QED
        BY <2>1, <2>2, <2>3, <3>3, <4>1
    <3> QED
      BY <1>5, <3>2, <3>4 DEF OpsOk
  <2> QED
    BY <2>5, <2>6
<1> QED
  BY <1>11, <1>14, <1>15, <1>20, <1>21, <1>22 DEF StInv

(* The balances the flush goes through.                                    *)
LEMMA FlushIs ==
    ASSUME StTypes, PoolOk, phase # "done"
    PROVE  LET all == Total(stakes, Applications)
           IN  /\ DOMAIN AfterModToMod = {"application", "tokenomics", "supplier"}
               /\ DOMAIN AfterModToAcct = {"application", "tokenomics", "supplier"}
               /\ DOMAIN AfterBurns = {"application", "tokenomics", "supplier"}
               /\ AfterModToMod.application = all - results.toTokenomics
               /\ AfterModToMod.tokenomics
                    = results.mint - results.toSupplier + results.toTokenomics
               /\ AfterModToMod.supplier = results.toSupplier
               /\ AfterModToAcct.application = all - results.toTokenomics
               /\ AfterModToAcct.supplier = results.toSupplier - results.fromSupplier
               /\ AfterModToAcct.tokenomics
                    = results.mint - results.toSupplier + results.toTokenomics
                      - results.fromTokenomics - rewards
               /\ AfterBurns.application = all - results.toTokenomics - results.burn
               /\ AfterBurns.tokenomics = AfterModToAcct.tokenomics
               /\ AfterBurns.supplier = results.toSupplier - results.fromSupplier
<1> DEFINE all == Total(stakes, Applications)
           B == [application : Int, tokenomics : Int, supplier : Int]
<1>1. /\ bank \in B /\ bank.application = all /\ bank.tokenomics = 0 /\ bank.supplier = 0
      /\ all \in Int
  BY DEF StTypes, PoolOk
<1>2. /\ results.mint \in Nat /\ results.toSupplier \in Nat /\ results.toTokenomics \in Nat
      /\ results.fromSupplier \in Nat /\ results.fromTokenomics \in Nat
      /\ results.burn \in Nat /\ rewards \in Nat
  BY DEF StTypes, Ops
<1> HIDE DEF all
<1>3. /\ AfterMints \in B /\ AfterMints.application = all
      /\ AfterMints.tokenomics = results.mint /\ AfterMints.supplier = 0
  BY <1>1, <1>2 DEF AfterMints
<1>4. /\ AfterModToMod \in B
      /\ AfterModToMod.application = all - results.toTokenomics
      /\ AfterModToMod.tokenomics = results.mint - results.toSupplier + results.toTokenomics
      /\ AfterModToMod.supplier = results.toSupplier
  <2> DEFINE x == AfterMints
             t == results.mint - results.toSupplier + results.toTokenomics
             s == results.toSupplier
             a == all - results.toTokenomics
  <2>1. t \in Int /\ s \in Int /\ a \in Int
    BY <1>1, <1>2
  <2>2. AfterModToMod = [[[x EXCEPT !.tokenomics = t] EXCEPT !.supplier = s]
                           EXCEPT !.application = a]
    <3> DEFINE t0 == x.tokenomics - results.toSupplier + results.toTokenomics
               s0 == x.supplier + results.toSupplier
               a0 == x.application - results.toTokenomics
    <3>1. t0 = t /\ s0 = s /\ a0 = a
      BY <1>1, <1>2, <1>3
    <3>2. x \in B /\ AfterModToMod = [x EXCEPT !.tokenomics = t0, !.supplier = s0,
                                              !.application = a0]
      BY <1>3 DEF AfterModToMod
    <3> HIDE DEF x, t0, s0, a0, t, s, a
    <3> QED
      BY <3>1, <3>2
  <2> HIDE DEF x, t, s, a
  <2>3. /\ AfterModToMod \in B /\ AfterModToMod.application = a
        /\ AfterModToMod.tokenomics = t /\ AfterModToMod.supplier = s
    BY <1>3, <2>1, <2>2 DEF x
  <2> QED
    BY <2>3 DEF t, s, a
<1>5. /\ AfterModToAcct \in B
      /\ AfterModToAcct.application = all - results.toTokenomics
      /\ AfterModToAcct.tokenomics
            = results.mint - results.toSupplier + results.toTokenomics
              - results.fromTokenomics - rewards
      /\ AfterModToAcct.supplier = results.toSupplier - results.fromSupplier
  <2> DEFINE x == AfterModToMod
             t == results.mint - results.toSupplier + results.toTokenomics
                  - results.fromTokenomics - rewards
             s == results.toSupplier - results.fromSupplier
  <2>1. t \in Int /\ s \in Int
    BY <1>2
  <2>2. AfterModToAcct = [[x EXCEPT !.tokenomics = t] EXCEPT !.supplier = s]
    <3> DEFINE t0 == x.tokenomics - results.fromTokenomics - rewards
               s0 == x.supplier - results.fromSupplier
    <3>1. t0 = t /\ s0 = s
      BY <1>2, <1>4
    <3>2. x \in B /\ AfterModToAcct = [x EXCEPT !.tokenomics = t0, !.supplier = s0]
      BY <1>4 DEF AfterModToAcct
    <3> HIDE DEF x, t0, s0, t, s
    <3> QED
      BY <3>1, <3>2
  <2> HIDE DEF x, t, s
  <2>3. /\ AfterModToAcct \in B /\ AfterModToAcct.application = x.application
        /\ AfterModToAcct.tokenomics = t /\ AfterModToAcct.supplier = s
    BY <1>4, <2>1, <2>2 DEF x
  <2> QED
    BY <1>4, <2>3 DEF t, s, x
<1>6. /\ AfterBurns \in B
      /\ AfterBurns.application = all - results.toTokenomics - results.burn
      /\ AfterBurns.tokenomics = AfterModToAcct.tokenomics
      /\ AfterBurns.supplier = AfterModToAcct.supplier
  BY <1>1, <1>2, <1>5 DEF AfterBurns
<1> QED
  BY <1>4, <1>5, <1>6 DEF all

(* The flush executes the operations, or is refused and changes nothing.   *)
LEMMA ExecuteKeeps ==
    ASSUME StInv, ExecuteSettlement
    PROVE  StInv'
<1>1. /\ StTypes /\ PhaseOk /\ BudgetsOk /\ ChargesOk /\ PoolOk /\ OpsOk /\ phase = "settle"
      /\ UNCHANGED <<params, spendLimit, batch, at, numSuppliers, budgets, cached,
                     rewards, results, outcomes>>
  BY DEF StInv, ExecuteSettlement
<1>2. OpsOk'
  BY <1>1 DEF OpsOk, Charges, Discarded
<1>3. CASE SettlementExecutes
  <2> DEFINE all == Total(stakes, Applications)
             spent == Total(Charges, DOMAIN outcomes)
             lost == Total(Charges, Discarded)
             left == Total(cached, Applications)
  <2>1. stakes' = cached /\ bank' = AfterBurns /\ phase' = "done"
    BY <1>3 DEF ExecuteSettlement
  <2>2. /\ results.mint \in Nat /\ results.toSupplier \in Nat /\ results.toTokenomics \in Nat
        /\ results.fromSupplier \in Nat /\ results.fromTokenomics \in Nat
        /\ results.burn \in Nat /\ rewards \in Nat
    BY <1>1 DEF StTypes, Ops
  <2>3. /\ results.toSupplier = results.fromSupplier
        /\ results.mint + results.toTokenomics
             <= results.toSupplier + results.fromTokenomics + rewards
        /\ results.burn + results.toTokenomics + lost = spent
        /\ left + spent = all
    BY <1>1 DEF OpsOk, PoolOk
  <2>4. all \in Nat /\ spent \in Nat /\ lost \in Nat /\ left \in Nat
    <3>1. \A a \in Applications : stakes[a] \in Nat /\ cached[a] \in Nat
      BY <1>1 DEF StTypes
    <3>2. IsFiniteSet(DOMAIN outcomes) /\ \A i \in DOMAIN outcomes : Charges[i] \in Nat
      BY <1>1, OutcomeFacts
    <3>3. IsFiniteSet(Discarded) /\ \A i \in Discarded : Charges[i] \in Nat
      BY <3>2, FS_Subset DEF Discarded
    <3> QED
      BY <3>1, <3>2, <3>3, SettlementAssumption, TotalIsNat
  <2> HIDE DEF all, spent, lost, left
  <2>5. /\ AfterModToAcct.tokenomics
              = results.mint - results.toSupplier + results.toTokenomics
                - results.fromTokenomics - rewards
        /\ DOMAIN AfterModToMod = {"application", "tokenomics", "supplier"}
        /\ DOMAIN AfterBurns = {"application", "tokenomics", "supplier"}
        /\ AfterBurns.application = all - results.toTokenomics - results.burn
        /\ AfterBurns.tokenomics = AfterModToAcct.tokenomics
        /\ AfterBurns.supplier = results.toSupplier - results.fromSupplier
    BY <1>1, FlushIs DEF all
  <2>6. AfterBurns.tokenomics >= 0
    BY <1>3, <2>5 DEF SettlementExecutes, Covered
  <2>7. AfterBurns.tokenomics = 0
    <3> DEFINE x == results.mint + results.toTokenomics
               y == results.toSupplier + results.fromTokenomics + rewards
    <3>1. x \in Nat /\ y \in Nat /\ x <= y /\ AfterBurns.tokenomics = x - y
      BY <2>2, <2>3, <2>5
    <3> HIDE DEF x, y
    <3> QED
      BY <2>6, <3>1
  <2>8. AfterBurns.supplier = 0
    BY <2>2, <2>3, <2>5
  <2>9. AfterBurns.application = left + lost
    <3>1. results.toTokenomics + results.burn + lost = spent
      BY <2>2, <2>3, <2>4
    <3> DEFINE x == results.toTokenomics + results.burn
    <3>2. x \in Nat /\ AfterBurns.application = all - x /\ x + lost = spent
      BY <2>2, <2>4, <2>5, <3>1
    <3> HIDE DEF x
    <3> QED
      BY <2>3, <2>4, <3>2
  <2>10. bank' \in [application : Nat, tokenomics : Nat, supplier : Nat]
    <3>1. AfterBurns \in [application : Int, tokenomics : Int, supplier : Int]
      <4>1. bank \in [application : Int, tokenomics : Int, supplier : Int]
        BY <1>1 DEF StTypes
      <4>2. /\ AfterBurns.application \in Int /\ AfterBurns.tokenomics \in Int
            /\ AfterBurns.supplier \in Int
        BY <2>4, <2>7, <2>8, <2>9
      <4>3. \E a, t, s : AfterBurns = [[[bank EXCEPT !.application = a] EXCEPT !.tokenomics = t]
                                        EXCEPT !.supplier = s]
        <5>1. AfterBurns = [[[bank EXCEPT !.application = AfterBurns.application]
                               EXCEPT !.tokenomics = AfterBurns.tokenomics]
                               EXCEPT !.supplier = AfterBurns.supplier]
          BY <4>1, ZenonT(30) DEF AfterBurns, AfterModToAcct, AfterModToMod, AfterMints
        <5> QED
          BY <5>1
      <4> QED
        BY <4>1, <4>2, <4>3
    <3> QED
      BY <2>1, <2>4, <2>7, <2>8, <2>9, <3>1
  <2>11. StTypes'
    BY <1>1, <2>1, <2>10 DEF StTypes
  <2>12. PhaseOk'
    BY <1>1, <2>1 DEF PhaseOk
  <2>13. AppPoolIsExact'
    <3>1. Charges' = Charges /\ Discarded' = Discarded
      BY <1>1 DEF Charges, Discarded
    <3>2. bank'.application = Total(stakes', Applications) + Total(Charges', Discarded')
      BY <2>1, <2>9, <3>1 DEF left, lost
    <3> QED
      BY <3>2 DEF AppPoolIsExact, Discarded
  <2>14. PoolOk'
    BY <2>1, <2>7, <2>8, <2>13 DEF PoolOk
  <2> QED
    BY <1>2, <2>1, <2>11, <2>12, <2>14 DEF StInv, BudgetsOk, ChargesOk
<1>4. CASE ~ SettlementExecutes
  <2>1. phase' = "halted" /\ UNCHANGED <<stakes, bank>>
    BY <1>4 DEF ExecuteSettlement
  <2>2. /\ Left' = Left /\ Excess' = Excess /\ Cap' = Cap /\ \A t : In(t)' = In(t)
    BY <1>1, <2>1, CapsStay
  <2>3. StTypes'
    BY <1>1, <2>1 DEF StTypes
  <2>4. PhaseOk'
    BY <1>1, <2>1, <2>2 DEF PhaseOk
  <2>5. BudgetsOk'
    BY <1>1, <2>1, <2>2 DEF BudgetsOk, Seen
  <2>6. ChargesOk'
    BY <1>1, <2>1, <2>2 DEF ChargesOk
  <2>7. PoolOk'
    BY <1>1, <2>1 DEF PoolOk, Charges
  <2> QED
    BY <1>2, <2>3, <2>4, <2>5, <2>6, <2>7 DEF StInv
<1> QED
  BY <1>3, <1>4

(* At the first block of claims nothing is counted or settled.             *)
LEMMA StInitInv == StInit => StInv
<1> SUFFICES ASSUME StInit PROVE StInv
  OBVIOUS
<1>1. /\ params \in TokenomicsParamsSets /\ spendLimit \in [Applications -> SpendLimits]
      /\ stakes \in [Applications -> Stakes] /\ batch \in Batches
      /\ bank = [application |-> Total(stakes, Applications), tokenomics |-> 0, supplier |-> 0]
      /\ phase = "count" /\ at = 1
      /\ numSuppliers = [s \in Sessions |-> 0]
      /\ budgets = [s \in Sessions |-> [unused |-> 0, totalExcess |-> 0]]
      /\ cached = stakes /\ rewards = 0 /\ results = NoOps /\ outcomes = <<>>
  BY DEF StInit
<1>2. /\ spendLimit \in [Applications -> Nat] /\ stakes \in [Applications -> Nat]
      /\ batch \in Seq(Claim)
  BY <1>1, SettlementAssumption
<1>3. Total(stakes, Applications) \in Nat
  <2>1. \A a \in Applications : stakes[a] \in Nat
    BY <1>2
  <2> QED
    BY <2>1, SettlementAssumption, TotalIsNat
<1>4. bank \in [application : Nat, tokenomics : Nat, supplier : Nat]
  BY <1>1, <1>3
<1>5. results \in Ops
  BY <1>1 DEF NoOps, Ops
<1>6. at \in 1..(Len(batch) + 1) /\ outcomes \in Seq(Outcomes) /\ Len(outcomes) <= Len(batch)
  <2>1. Len(batch) \in Nat
    BY <1>2
  <2> QED
    BY <1>1, <2>1
<1>7. StTypes
  BY <1>1, <1>2, <1>4, <1>5, <1>6 DEF StTypes
<1>8. PhaseOk
  BY <1>1 DEF PhaseOk
<1>9. DOMAIN outcomes = {} /\ Discarded = {} /\ Total(Charges, {}) = 0
  BY <1>1, TotalOfNone DEF Discarded
<1>10. PoolOk
  BY <1>1, <1>3, <1>9 DEF PoolOk
<1>11. OpsOk
  BY <1>1, <1>9 DEF OpsOk, NoOps
<1> QED
  BY <1>1, <1>7, <1>8, <1>10, <1>11 DEF StInv, BudgetsOk, ChargesOk

(* Every step keeps it.                                                    *)
LEMMA StStepKeeps == StInv /\ [StNext]_stVars => StInv'
<1> SUFFICES ASSUME StInv, [StNext]_stVars
             PROVE  StInv'
  OBVIOUS
<1>1. CASE CountSuppliers
  BY <1>1, CountKeeps
<1>2. CASE AccumulateClaimBudget
  BY <1>2, AccumulateKeeps
<1>3. CASE BudgetsComplete
  BY <1>3, CompleteKeeps
<1>4. CASE SettleClaim
  BY <1>4, SettleKeeps
<1>5. CASE ExecuteSettlement
  BY <1>5, ExecuteKeeps
<1>6. CASE UNCHANGED stVars
  <2>1. /\ Left' = Left /\ Excess' = Excess /\ Cap' = Cap /\ \A t : In(t)' = In(t)
    BY <1>6, CapsStay DEF stVars
  <2>2. StTypes' /\ PhaseOk'
    BY <1>6, <2>1 DEF stVars, StInv, StTypes, PhaseOk
  <2>3. BudgetsOk' /\ ChargesOk'
    BY <1>6, <2>1 DEF stVars, StInv, BudgetsOk, Seen, ChargesOk
  <2>4. PoolOk' /\ OpsOk'
    BY <1>6 DEF stVars, StInv, PoolOk, AppPoolIsExact, Charges, OpsOk, Discarded
  <2> QED
    BY <2>2, <2>3, <2>4 DEF StInv
<1> QED
  BY <1>1, <1>2, <1>3, <1>4, <1>5, <1>6 DEF StNext

-----------------------------------------------------------------------------
(* Theorems. *)

(* The inductive invariant of a block's settlement.                        *)
THEOREM SettlementInvariance == StSpec => []StInv
BY StInitInv, StStepKeeps, PTL DEF StSpec

(* No stake, balance, budget, reward or charge is ever negative.           *)
THEOREM SettlementTypes == StSpec => []StTypeOK
<1>1. StInv => StTypeOK
  <2> SUFFICES ASSUME StInv PROVE StTypeOK
    OBVIOUS
  <2>1. StTypes
    BY DEF StInv
  <2>2. \A a \in Applications : stakes[a] \in Nat /\ cached[a] \in Nat
    BY <2>1 DEF StTypes
  <2>3. \A m \in DOMAIN bank : bank[m] \in Nat
    BY <2>1 DEF StTypes
  <2>4. \A s \in Sessions : budgets[s].unused \in Nat /\ budgets[s].totalExcess \in Nat
    BY <2>1 DEF StTypes
  <2>5. \A f \in DOMAIN results : results[f] \in Nat
    BY <2>1 DEF StTypes, Ops
  <2>6. \A i \in DOMAIN outcomes : outcomes[i].charge \in Nat
    BY <2>1, OutcomeFacts
  <2> QED
    BY <2>1, <2>2, <2>3, <2>4, <2>5, <2>6 DEF StTypeOK, StTypes
<1> QED
  BY <1>1, SettlementInvariance, PTL

(* The claims of a session never take more of the stake than the session's *)
(* budget, whatever is redistributed, rounded and charged for inflation.   *)
THEOREM BudgetsAreKept == StSpec => []SessionBudgetIsNeverExceeded
<1>1. StInv => SessionBudgetIsNeverExceeded
  <2> SUFFICES ASSUME StInv, phase # "done", NEW s \in Sessions
               PROVE  Charged(s) <= SessionBudget(s)
    BY DEF SessionBudgetIsNeverExceeded
  <2>1. CASE phase \in {"count", "budget"}
    <3>1. ClaimsOf(s) = {} /\ SessionBudget(s) \in Nat
      BY <2>1, BudgetIsOfStake DEF StInv, PhaseOk, ClaimsOf
    <3>2. Charged(s) = 0
      BY <3>1, TotalOfNone DEF Charged
    <3> QED
      BY <3>1, <3>2
  <2>2. CASE phase \in {"settle", "halted"}
    <3> DEFINE cap == Total(Cap, ClaimsOf(s))
    <3>1. /\ Charged(s) \in Nat /\ Charged(s) <= cap /\ cap <= SessionBudget(s)
          /\ SessionBudget(s) \in Nat
      BY <2>2, ChargesFit DEF StInv
    <3>2. cap \in Nat
      <4>1. IsFiniteSet(ClaimsOf(s)) /\ \A i \in ClaimsOf(s) : Cap[i] \in Nat
        BY <2>2, OutcomeFacts, CapFacts, FS_Subset DEF StInv, ClaimsOf
      <4> QED
        BY <4>1, TotalIsNat
    <3> HIDE DEF cap
    <3> QED
      BY <3>1, <3>2
  <2> QED
    BY <2>1, <2>2 DEF StInv, PhaseOk
<1> QED
  BY <1>1, SettlementInvariance, PTL

(* Every coin minted or reimbursed leaves the tokenomics and supplier      *)
(* modules in the flush that executes, whichever claims were discarded.    *)
THEOREM TransitIsEmptied == StSpec => []NothingStaysInTransit
<1>1. StInv => NothingStaysInTransit
  BY DEF StInv, PoolOk, NothingStaysInTransit
<1> QED
  BY <1>1, SettlementInvariance, PTL

(* The application module holds the stakes on record and, besides them,    *)
(* exactly what discarded claims took from a stake.                        *)
THEOREM PoolIsExact == StSpec => []AppPoolIsExact
<1>1. StInv => AppPoolIsExact
  BY DEF StInv, PoolOk, AppPoolIsExact
<1> QED
  BY <1>1, SettlementInvariance, PTL

-----------------------------------------------------------------------------
(* The flush. *)

(* Operations that are exactly paid for can be executed.                   *)
LEMMA FlushExecutes ==
    ASSUME StInv, phase = "settle",
           results.mint + results.toTokenomics
             = results.toSupplier + results.fromTokenomics + rewards
    PROVE  SettlementExecutes
<1> DEFINE all == Total(stakes, Applications)
           spent == Total(Charges, DOMAIN outcomes)
           lost == Total(Charges, Discarded)
           left == Total(cached, Applications)
<1>1. StTypes /\ PoolOk /\ OpsOk
  BY DEF StInv
<1>2. /\ results.mint \in Nat /\ results.toSupplier \in Nat /\ results.toTokenomics \in Nat
      /\ results.fromSupplier \in Nat /\ results.fromTokenomics \in Nat
      /\ results.burn \in Nat /\ rewards \in Nat
  BY <1>1 DEF StTypes, Ops
<1>3. all \in Nat /\ spent \in Nat /\ lost \in Nat /\ left \in Nat
  <2>1. \A a \in Applications : stakes[a] \in Nat /\ cached[a] \in Nat
    BY <1>1 DEF StTypes
  <2>2. IsFiniteSet(DOMAIN outcomes) /\ \A i \in DOMAIN outcomes : Charges[i] \in Nat
    BY <1>1, OutcomeFacts
  <2>3. IsFiniteSet(Discarded) /\ \A i \in Discarded : Charges[i] \in Nat
    BY <2>2, FS_Subset DEF Discarded
  <2> QED
    BY <2>1, <2>2, <2>3, SettlementAssumption, TotalIsNat
<1>4. /\ results.toSupplier = results.fromSupplier
      /\ results.burn + results.toTokenomics + lost = spent /\ left + spent = all
  BY <1>1 DEF OpsOk, PoolOk
<1> HIDE DEF all, spent, lost, left
<1>5. /\ DOMAIN AfterModToMod = {"application", "tokenomics", "supplier"}
      /\ DOMAIN AfterModToAcct = {"application", "tokenomics", "supplier"}
      /\ DOMAIN AfterBurns = {"application", "tokenomics", "supplier"}
      /\ AfterModToMod.application = all - results.toTokenomics
      /\ AfterModToMod.tokenomics = results.mint - results.toSupplier + results.toTokenomics
      /\ AfterModToMod.supplier = results.toSupplier
      /\ AfterModToAcct.application = all - results.toTokenomics
      /\ AfterModToAcct.tokenomics = results.mint - results.toSupplier + results.toTokenomics
           - results.fromTokenomics - rewards
      /\ AfterModToAcct.supplier = results.toSupplier - results.fromSupplier
      /\ AfterBurns.application = all - results.toTokenomics - results.burn
      /\ AfterBurns.tokenomics = AfterModToAcct.tokenomics
      /\ AfterBurns.supplier = results.toSupplier - results.fromSupplier
  BY <1>1, FlushIs DEF all
<1>6. all - results.toTokenomics >= 0 /\ all - results.toTokenomics - results.burn >= 0
  BY <1>2, <1>3, <1>4
<1>7. results.toSupplier - results.fromSupplier = 0 /\ results.toSupplier >= 0
  BY <1>2, <1>4
<1>8. /\ results.mint - results.toSupplier + results.toTokenomics >= 0
      /\ results.mint - results.toSupplier + results.toTokenomics
           - results.fromTokenomics - rewards = 0
  BY <1>2
<1>9. Covered(AfterModToMod)
  BY <1>5, <1>6, <1>7, <1>8 DEF Covered
<1>10. Covered(AfterModToAcct)
  BY <1>5, <1>6, <1>7, <1>8 DEF Covered
<1>11. Covered(AfterBurns)
  BY <1>5, <1>6, <1>7, <1>8 DEF Covered
<1> QED
  BY <1>9, <1>10, <1>11 DEF SettlementExecutes

(* When no two sessions share a stake, the stake of a claim suffices: what *)
(* is left of it is what the session's other claims have not taken.        *)
LEMMA StakeSuffices ==
    ASSUME StInv, Unhalted, phase = "settle", at \in DOMAIN batch, IsPriced(batch[at])
    PROVE  StakeTerms(ActualSettlement(batch[at])) <= cached[batch[at].session.app]
<1> DEFINE c == batch[at]
           s == c.session
           T == ClaimsOf(s)
           terms == StakeTerms(ActualSettlement(c))
           stake == stakes[s.app]
<1>1. StTypes /\ PhaseOk /\ BudgetsOk /\ ChargesOk
  BY DEF StInv
<1>2. /\ s \in Sessions /\ s.app \in Applications /\ TokenomicsParams(params)
      /\ stake \in Nat
  BY <1>1, ClaimFacts DEF StTypes
<1>3. terms <= Cap[at] /\ terms \in Nat
  BY <1>1, <1>2, TakenFits, TermsGrow
<1>4. PICK n : n = at
  OBVIOUS
<1>5. IsFiniteSet(In(s)) /\ In(s) \subseteq DOMAIN batch /\ Total(Cap, In(s)) <= SessionBudget(s)
  BY <1>1, <1>2, CapsFit
<1>6. /\ DOMAIN outcomes = 1..Len(outcomes) /\ Len(outcomes) = at - 1 /\ Len(outcomes) \in Nat
      /\ DOMAIN outcomes \subseteq DOMAIN batch
  BY <1>1, OutcomeFacts DEF PhaseOk
<1>7. at \notin T
  BY <1>6 DEF ClaimsOf
<1>8. T \subseteq In(s) /\ n \in In(s)
  BY <1>4, <1>6 DEF ClaimsOf, In
<1>9. \A i \in In(s) : Cap[i] \in Nat
  BY <1>1, <1>5, CapFacts
<1>10. Charged(s) \in Nat /\ Charged(s) <= Total(Cap, T)
  BY <1>1, <1>2, ChargesFit
<1>11. SessionBudget(s) \in Nat /\ SessionBudget(s) <= stake
  BY <1>1, <1>2, BudgetIsOfStake
<1>12. cached[s.app] = stake - Charged(s)
  BY <1>2 DEF Unhalted
<1> HIDE DEF s, T, terms, stake
<1>13. /\ Total(Cap, T \cup {n}) = Cap[n] + Total(Cap, T) /\ Total(Cap, T) \in Nat
       /\ IsFiniteSet(T \cup {n}) /\ T \cup {n} \subseteq In(s)
  <2>1. IsFiniteSet(T) /\ T \cup {n} \subseteq In(s) /\ n \notin T
    BY <1>4, <1>5, <1>7, <1>8, FS_Subset
  <2>2. /\ \A i \in T \cup {n} : Cap[i] \in Int
        /\ \A i \in T : Cap[i] \in Nat
    BY <1>9, <2>1
  <2>3. Total(Cap, T \cup {n}) = Cap[n] + Total(Cap, T)
    BY <2>1, <2>2, TotalAdds
  <2>4. Total(Cap, T) \in Nat
    BY <2>1, <2>2, TotalIsNat
  <2>5. IsFiniteSet(T \cup {n})
    BY <1>5, <2>1, FS_Subset
  <2> QED
    BY <2>1, <2>3, <2>4, <2>5
<1>14. Total(Cap, T \cup {n}) <= Total(Cap, In(s)) /\ Total(Cap, In(s)) \in Nat
  <2> DEFINE R == T \cup {n}
  <2>1. R \subseteq In(s) /\ IsFiniteSet(R)
    BY <1>13
  <2> HIDE DEF R
  <2>2. \A i \in In(s) : Cap[i] \in Int
    BY <1>9
  <2>3. Total(Cap, R) \in Int /\ Total(Cap, In(s)) = Total(Cap, R) + Total(Cap, In(s) \ R)
    BY <1>5, <2>1, <2>2, TotalSplits
  <2>4. IsFiniteSet(In(s) \ R) /\ \A i \in In(s) \ R : Cap[i] \in Nat
    BY <1>5, <1>9, FS_Subset
  <2>5. Total(Cap, In(s) \ R) \in Nat
    BY <2>4, TotalIsNat
  <2>6. Total(Cap, R) <= Total(Cap, In(s))
    BY <2>3, <2>5
  <2>7. Total(Cap, In(s)) \in Nat
    BY <1>5, <1>9, TotalIsNat
  <2> QED
    BY <2>6, <2>7 DEF R
<1>15. Cap[n] \in Nat /\ terms <= Cap[n]
  BY <1>3, <1>4, <1>8, <1>9
<1> DEFINE x == Total(Cap, T)
           y == Total(Cap, In(s))
           z == Cap[n]
<1>16. /\ x \in Nat /\ y \in Nat /\ z \in Nat /\ z + x <= y /\ y <= SessionBudget(s)
       /\ terms <= z /\ Charged(s) <= x
  BY <1>5, <1>10, <1>13, <1>14, <1>15
<1> HIDE DEF x, y, z
<1>17. stake \in Nat /\ terms \in Nat
  BY <1>2, <1>3
<1>18. terms <= stake - Charged(s)
  BY <1>10, <1>11, <1>16, <1>17
<1> QED
  BY <1>12, <1>18 DEF s, terms

(* Then no step lets the flush fail.                                       *)
LEMMA UnhaltedKeeps ==
    ASSUME OneSessionEach, ProposersFollow, StInv, Unhalted, [StNext]_stVars
    PROVE  Unhalted'
<1>1. CASE CountSuppliers \/ AccumulateClaimBudget \/ BudgetsComplete \/ UNCHANGED stVars
  <2>1. /\ UNCHANGED <<stakes, batch, cached, rewards, results, outcomes>>
        /\ phase # "done" /\ phase # "halted" => phase' # "halted"
        /\ phase' # "done" => phase # "done"
    BY <1>1 DEF CountSuppliers, AccumulateClaimBudget, BudgetsComplete, stVars
  <2>2. \A s : Charged(s)' = Charged(s)
    BY <2>1 DEF Charged, Charges, ClaimsOf
  <2> QED
    BY <2>1, <2>2 DEF Unhalted
<1>2. CASE SettleClaim
  <2> DEFINE c == batch[at]
             q == c.session
  <2>1. /\ StTypes /\ PhaseOk /\ phase = "settle" /\ at <= Len(batch)
        /\ UNCHANGED <<stakes, phase, batch>>
    BY <1>2 DEF SettleClaim, StInv
  <2>2. at \in DOMAIN batch
    BY <2>1, ClaimFacts DEF StTypes
  <2>3. /\ q \in Sessions /\ q.app \in Applications /\ cached \in [Applications -> Nat]
        /\ stakes \in [Applications -> Nat] /\ rewards \in Nat /\ results \in Ops
    BY <2>1, <2>2, ClaimFacts DEF StTypes
  <2>4. PICK o : Settles(c, o)
    BY <1>2, SettleIs
  <2>5. IsPriced(c) => StakeTerms(ActualSettlement(c)) <= cached[q.app]
    BY <2>1, <2>2, StakeSuffices
  <2>6. PICK n : n = Len(outcomes) + 1
    OBVIOUS
  <2>7. /\ o \in Outcomes /\ outcomes' = Append(outcomes, o) /\ o.charge \in Nat
        /\ cached' = [cached EXCEPT ![q.app] = cached[q.app] - o.charge]
        /\ rewards' \in Nat /\ results' \in Ops
    BY <2>4 DEF Settles, Outcomes
  <2>8. /\ DOMAIN outcomes' = DOMAIN outcomes \cup {n} /\ n \notin DOMAIN outcomes
        /\ ChargesGrow(n, o)
    BY <2>1, <2>6, <2>7, OutcomeAdds
  <2>9. n = at
    BY <2>1, <2>6 DEF PhaseOk, StTypes
  <2>10. ASSUME NEW s \in Sessions
         PROVE  cached'[s.app] = stakes[s.app] - Charged(s)'
    <3>1. /\ cached[s.app] = stakes[s.app] - Charged(s) /\ s.app \in Applications
          /\ stakes[s.app] \in Nat /\ cached[s.app] \in Nat
      BY <2>1, <2>3, SettlementAssumption DEF Unhalted
    <3>2. ClaimsOf(s) \in SUBSET DOMAIN outcomes
      BY DEF ClaimsOf
    <3>3. /\ Total(Charges, ClaimsOf(s)) \in Nat
          /\ Total(Charges', ClaimsOf(s)) = Total(Charges, ClaimsOf(s))
          /\ Total(Charges', ClaimsOf(s) \cup {n}) = Total(Charges, ClaimsOf(s)) + o.charge
      BY <2>8, <3>2 DEF ChargesGrow
    <3>4. CASE s = q
      <4>1. ClaimsOf(s)' = ClaimsOf(s) \cup {n}
        BY <2>1, <2>8, <2>9, <3>4 DEF ClaimsOf
      <4>2. Charged(s)' = Charged(s) + o.charge /\ Charged(s) \in Nat
        BY <3>3, <4>1 DEF Charged
      <4>3. cached'[s.app] = cached[s.app] - o.charge
        BY <2>3, <2>7, <3>4
      <4> HIDE DEF q
      <4> QED
        BY <2>7, <3>1, <4>2, <4>3
    <3>5. CASE s # q
      <4>1. s.app # q.app
        BY <2>3, <3>5 DEF OneSessionEach
      <4>2. ClaimsOf(s)' = ClaimsOf(s)
        BY <2>1, <2>8, <2>9, <3>5 DEF ClaimsOf
      <4>3. Charged(s)' = Charged(s)
        BY <3>3, <4>2 DEF Charged
      <4>4. cached'[s.app] = cached[s.app]
        BY <2>3, <2>7, <3>1, <4>1
      <4> QED
        BY <3>1, <4>3, <4>4
    <3> QED
      BY <3>4, <3>5
  <2>11. results'.mint + results'.toTokenomics
           = results'.toSupplier + results'.fromTokenomics + rewards'
    <3>1. results.mint + results.toTokenomics
            = results.toSupplier + results.fromTokenomics + rewards
      BY <2>1 DEF Unhalted
    <3>2. CASE o.result = "settled"
      <4> DEFINE x == results.mint + results.toTokenomics
                 y == results.toSupplier + results.fromTokenomics
                 z == results'.mint + results'.toTokenomics
                 v == results'.toSupplier + results'.fromTokenomics
      <4>1. results'.mint + results'.toTokenomics + rewards
                + results.toSupplier + results.fromTokenomics
              = results'.toSupplier + results'.fromTokenomics + rewards'
                + results.mint + results.toTokenomics
        BY <2>4, <3>2 DEF Settles
      <4>2. /\ results.mint \in Nat /\ results.toSupplier \in Nat
            /\ results.toTokenomics \in Nat /\ results.fromTokenomics \in Nat
            /\ results'.mint \in Nat /\ results'.toSupplier \in Nat
            /\ results'.toTokenomics \in Nat /\ results'.fromTokenomics \in Nat
        BY <2>3, <2>7 DEF Ops
      <4>3. x \in Nat /\ y \in Nat /\ z \in Nat /\ v \in Nat
        BY <4>2
      <4>4. PICK k \in Nat, m \in Nat : k = rewards /\ m = rewards'
        BY <2>3, <2>7
      <4>5. z + k + y = v + m + x /\ x = y + k
        <5>1. z + rewards + results.toSupplier + results.fromTokenomics
                = v + rewards' + results.mint + results.toTokenomics
          BY <4>1
        <5> HIDE DEF z, v
        <5>2. z + k + y = v + m + x
          BY <4>2, <4>3, <4>4, <5>1
        <5> QED
          BY <3>1, <4>4, <5>2
      <4> HIDE DEF x, y, z, v
      <4>6. z = v + m
        BY <4>3, <4>5
      <4> QED
        BY <4>4, <4>6 DEF z, v
    <3>3. CASE o.result # "settled"
      <4>1. results' = results /\ rewards' = rewards
        BY <2>4, <2>5, <3>3 DEF Settles
      <4> QED
        BY <3>1, <4>1
    <3> QED
      BY <3>2, <3>3
  <2> QED
    BY <2>1, <2>10, <2>11 DEF Unhalted
<1>3. CASE ExecuteSettlement
  <2>1. phase = "settle"
    BY <1>3 DEF ExecuteSettlement
  <2>2. SettlementExecutes
    BY <2>1, FlushExecutes DEF Unhalted
  <2>3. phase' = "done"
    BY <1>3, <2>2 DEF ExecuteSettlement
  <2> QED
    BY <2>3 DEF Unhalted
<1> QED
  BY <1>1, <1>2, <1>3 DEF StNext

(* A block whose applications each settle one session, under params that   *)
(* give proposers no more than suppliers of what is burnt, always executes *)
(* its operations: whatever claims fail, and wherever they fail.  Neither  *)
(* condition can be dropped: two services of an application, or a proposer *)
(* with the larger part, can halt the chain.                               *)
THEOREM NeverHalts ==
    ASSUME OneSessionEach, ProposersFollow
    PROVE  StSpec => []SettlementNeverHalts
<1>1. StInit => Unhalted
  <2> SUFFICES ASSUME StInit PROVE Unhalted
    OBVIOUS
  <2>1. /\ stakes \in [Applications -> Nat] /\ cached = stakes /\ outcomes = <<>>
        /\ rewards = 0 /\ results = NoOps /\ phase = "count"
    BY SettlementAssumption DEF StInit
  <2>2. \A s \in Sessions : Charged(s) = 0
    <3>1. \A s \in Sessions : ClaimsOf(s) = {}
      BY <2>1 DEF ClaimsOf
    <3> QED
      BY <3>1, TotalOfNone DEF Charged
  <2>3. \A s \in Sessions : cached[s.app] = stakes[s.app] - Charged(s)
    <3> TAKE s \in Sessions
    <3>1. s.app \in Applications
      BY SettlementAssumption
    <3>2. stakes[s.app] \in Nat
      BY <2>1, <3>1
    <3> QED
      BY <2>1, <2>2, <3>2
  <2> QED
    BY <2>1, <2>3 DEF Unhalted, NoOps
<1>2. StInv /\ Unhalted /\ [StNext]_stVars => Unhalted'
  BY UnhaltedKeeps
<1>3. Unhalted => SettlementNeverHalts
  BY DEF Unhalted, SettlementNeverHalts
<1> QED
  BY <1>1, <1>2, <1>3, SettlementInvariance, PTL DEF StSpec

-----------------------------------------------------------------------------
(* What is left unused is paid out. *)

(* What can be settled out of a part of the stake takes all of the part    *)
(* but, at most, the inflation of one unit.                                *)
LEMMA SettlesClose ==
    ASSUME TokenomicsParams(params), NEW part \in Nat
    PROVE  part <= StakeTerms(MaxSettlement(part)) + GlobalInflation(1)
<1> DEFINE q1 == params.globalInflationPerClaim[1]
           q2 == params.globalInflationPerClaim[2]
           m  == (part * q2) \div (q1 + q2)
           i  == (m * q1 + q2 - 1) \div q2
           g  == (1 * q1 + q2 - 1) \div q2
<1>1. q1 \in Nat /\ q2 \in Nat /\ q2 > 0
  BY DEF TokenomicsParams, IsRatio
<1>2. /\ MaxSettlement(part) = m /\ StakeTerms(m) = m + i
      /\ GlobalInflation(1) = g
  BY DEF MaxSettlement, GlobalInflation, CeilOf, StakeTerms
<1> HIDE DEF q1, q2
<1>3. part * q2 \in Nat /\ q1 + q2 \in Nat \ {0}
  BY <1>1, Z3
<1>4. m \in Nat /\ part * q2 < (q1 + q2) * m + (q1 + q2)
  BY <1>3, Rounding
<1> HIDE DEF m
<1>5. m * q1 \in Nat
  BY <1>1, <1>4, Z3
<1>6. m * q1 + q2 - 1 \in Nat /\ 1 * q1 + q2 - 1 \in Nat /\ q2 \in Nat \ {0}
  BY <1>1, <1>5
<1>7. i \in Nat /\ m * q1 + q2 - 1 < q2 * i + q2
  BY <1>6, Rounding
<1>8. g \in Nat /\ 1 * q1 + q2 - 1 < q2 * g + q2
  BY <1>6, Rounding
<1> HIDE DEF i, g
<1>9. q2 * i \in Nat /\ q2 * g \in Nat /\ q2 * m \in Nat
  BY <1>1, <1>4, <1>7, <1>8, Z3
<1>10. m * q1 <= q2 * i /\ q1 <= q2 * g
  BY <1>1, <1>5, <1>7, <1>8, <1>9
<1>11. (q1 + q2) * m = m * q1 + q2 * m
  BY <1>1, <1>4, Z3
<1>12. part * q2 < q2 * m + q2 * i + q2 * g + q2
  BY <1>1, <1>3, <1>4, <1>5, <1>9, <1>10, <1>11
<1>13. q2 * m + q2 * i + q2 * g + q2 = q2 * (m + i + g + 1)
  BY <1>1, <1>4, <1>7, <1>8, Z3
<1>14. part < m + i + g + 1
  <2> DEFINE k == m + i + g + 1
  <2>1. k \in Nat /\ part * q2 < q2 * k
    BY <1>4, <1>7, <1>8, <1>12, <1>13
  <2> HIDE DEF k
  <2>2. part < k
    BY <1>1, <2>1, Z3
  <2> QED
    BY <2>2 DEF k
<1> QED
  BY <1>2, <1>4, <1>7, <1>8, <1>14

(* Terms that reach, up to a factor, their shares of a whole, reach it     *)
(* together.                                                               *)
LEMMA SharesReach ==
    ASSUME NEW S, IsFiniteSet(S), NEW e, NEW x, NEW m \in Nat, NEW want \in Nat, m <= want,
           \A i \in S : e[i] \in Nat /\ x[i] \in Nat /\ m * e[i] <= want * x[i],
           Total(e, S) = want
    PROVE  m <= Total(x, S)
<1> DEFINE me == [i \in S |-> m * e[i]]
           wx == [i \in S |-> want * x[i]]
           t  == Total(x, S)
<1>1. \A i \in S : me[i] = m * e[i] /\ wx[i] = want * x[i]
  OBVIOUS
<1>2. \A i \in S : m * e[i] \in Int /\ want * x[i] \in Int
  BY Z3
<1> HIDE DEF me, wx
<1>3. Total(me, S) = m * want
  BY <1>1, TotalTimes
<1>4. Total(wx, S) = want * t
  BY <1>1, TotalTimes
<1>5. \A i \in S : me[i] \in Int /\ wx[i] \in Int /\ me[i] <= wx[i]
  BY <1>1, <1>2
<1>6. Total(me, S) <= Total(wx, S)
  BY <1>5, TotalIsMonotone
<1>7. t \in Nat
  BY TotalIsNat
<1> HIDE DEF t
<1>8. m * want <= want * t
  BY <1>3, <1>4, <1>6
<1>9. m <= t
  BY <1>7, <1>8, Z3
<1> QED
  BY <1>9 DEF t

(* The share of one claim: what it takes beyond its floor, were it not for *)
(* rounding, is at least its part of what can be paid out.                 *)
LEMMA ShareReached ==
    ASSUME NEW floor \in Nat, NEW e \in Nat, NEW left \in Nat, NEW want \in Nat \ {0},
           NEW m \in Nat, m <= left, m <= want, NEW g \in Nat, NEW most \in Nat,
           floor + e <= most, NEW charge \in Nat,
           \/ charge = floor + e
           \/ Min({floor + (left * e) \div want, most}) <= charge + g
    PROVE  /\ charge - floor + 1 + g \in Nat
           /\ m * e <= want * (charge - floor + 1 + g)
<1> DEFINE bonus == (left * e) \div want
<1>1. left * e \in Nat
  BY Z3
<1>2. bonus \in Nat /\ left * e < want * bonus + want
  BY <1>1, Rounding
<1>3. Min({floor + bonus, most}) = IF floor + bonus <= most THEN floor + bonus ELSE most
  BY <1>2, SmallerOfTwo
<1>4. charge = floor + e \/ floor + bonus <= charge + g \/ floor + e <= charge + g
  BY <1>2, <1>3
<1> HIDE DEF bonus
<1>5. CASE charge = floor + e \/ floor + e <= charge + g
  <2> DEFINE x == charge - floor + 1 + g
  <2>1. x \in Nat /\ e <= x
    BY <1>5
  <2> HIDE DEF x
  <2>2. m * e <= want * e
    BY Z3
  <2>3. want * e <= want * x
    BY <2>1, Z3
  <2>4. m * e \in Nat /\ want * e \in Nat /\ want * x \in Nat
    BY <2>1, Z3
  <2>5. m * e <= want * x
    BY <2>2, <2>3, <2>4
  <2> QED
    BY <2>1, <2>5 DEF x
<1>6. CASE floor + bonus <= charge + g
  <2> DEFINE x == charge - floor + 1 + g
  <2>1. x \in Nat /\ bonus + 1 <= x
    BY <1>2, <1>6
  <2> HIDE DEF x
  <2>2. m * e <= left * e
    BY Z3
  <2>3. want * (bonus + 1) <= want * x /\ want * (bonus + 1) = want * bonus + want
    BY <1>2, <2>1, Z3
  <2>4. m * e \in Nat /\ want * bonus \in Nat /\ want * x \in Nat
    BY <1>2, <2>1, Z3
  <2>5. m * e <= want * x
    BY <1>1, <1>2, <2>2, <2>3, <2>4
  <2> QED
    BY <2>1, <2>5 DEF x
<1> QED
  BY <1>4, <1>5, <1>6

(* What a claim is settled at does not move in Phase 2.                    *)
LEMMA PaidKeeps ==
    ASSUME StInv, PaidOk, [StNext]_stVars
    PROVE  PaidOk'
<1>1. CASE CountSuppliers \/ AccumulateClaimBudget \/ ExecuteSettlement
  <2>1. phase' # "settle"
    BY <1>1 DEF CountSuppliers, AccumulateClaimBudget, ExecuteSettlement
  <2> QED
    BY <2>1 DEF PaidOk
<1>2. CASE BudgetsComplete
  <2>1. outcomes' = <<>>
    BY <1>2 DEF BudgetsComplete, StInv, PhaseOk
  <2> QED
    BY <2>1 DEF PaidOk
<1>3. CASE SettleClaim \/ UNCHANGED stVars
  <2>1. UNCHANGED <<params, spendLimit, stakes, phase, batch, numSuppliers, budgets>>
    BY <1>3 DEF SettleClaim, stVars
  <2>2. \A c : StakeTerms(ActualSettlement(c))' = StakeTerms(ActualSettlement(c))
    BY <2>1 DEF ActualSettlement, MaxSettlement, MaxClaimable, Multiplier, SupplierFloor,
                SessionBudget, StakeTerms, GlobalInflation, CeilOf
  <2>3. CASE UNCHANGED stVars
    BY <2>1, <2>2, <2>3 DEF PaidOk, stVars
  <2>4. CASE SettleClaim
    <3>1. StTypes /\ phase = "settle" /\ Len(outcomes) + 1 = at
      BY <2>4 DEF SettleClaim, StInv, PhaseOk, StTypes
    <3>2. PICK o : Settles(batch[at], o)
      BY <2>4, SettleIs
    <3>3. /\ o \in Outcomes /\ outcomes' = Append(outcomes, o)
          /\ o.result = "settled" => o.charge = StakeTerms(ActualSettlement(batch[at]))
      BY <3>2 DEF Settles
    <3>4. PICK n : n = Len(outcomes) + 1
      OBVIOUS
    <3>5. /\ DOMAIN outcomes' = DOMAIN outcomes \cup {n}
          /\ outcomes'[n] = o /\ \A i \in DOMAIN outcomes : outcomes'[i] = outcomes[i]
      BY <3>1, <3>3, <3>4, OutcomeAdds
    <3>6. ASSUME NEW i \in DOMAIN outcomes', outcomes'[i].result = "settled"
          PROVE  outcomes'[i].charge = StakeTerms(ActualSettlement(batch[i]))
      <4>1. CASE i = n
        BY <3>1, <3>3, <3>4, <3>5, <3>6, <4>1
      <4>2. CASE i # n
        BY <3>1, <3>5, <3>6, <4>2 DEF PaidOk
      <4> QED
        BY <4>1, <4>2
    <3> QED
      BY <2>1, <2>2, <3>6 DEF PaidOk
  <2> QED
    BY <1>3, <2>3, <2>4
<1> QED
  BY <1>1, <1>2, <1>3 DEF StNext

(* When every claim has an outcome and none is unserved, the budget of a   *)
(* session is what its claims left and exceeded.                           *)
LEMMA LeftAndWanted ==
    ASSUME StInv, phase = "settle", at > Len(batch), NEW s \in Sessions,
           \A i \in ClaimsOf(s) : batch[i].kind # "unserved"
    PROVE  LET floor == SupplierFloor(s)
           IN  /\ Under(s) \subseteq In(s) /\ Over(s) \subseteq In(s)
               /\ \A i \in Over(s) : Excess[i] = StakeTerms(batch[i].amount) - floor
               /\ budgets[s].unused
                    = Total([i \in Under(s) |-> floor - StakeTerms(batch[i].amount)], Under(s))
               /\ budgets[s].totalExcess
                    = Total([i \in Over(s) |-> StakeTerms(batch[i].amount) - floor], Over(s))
<1> DEFINE floor == SupplierFloor(s)
           left == [i \in Under(s) |-> floor - StakeTerms(batch[i].amount)]
           want == [i \in Over(s) |-> StakeTerms(batch[i].amount) - floor]
<1>1. /\ StTypes /\ PhaseOk /\ BudgetsOk /\ Len(outcomes) = at - 1
  BY DEF StInv, PhaseOk
<1>2. DOMAIN outcomes = DOMAIN batch /\ IsFiniteSet(In(s)) /\ In(s) \subseteq DOMAIN batch
  <2>1. DOMAIN outcomes = 1..Len(outcomes) /\ DOMAIN batch = 1..Len(batch)
    BY <1>1, OutcomeFacts, ClaimFacts
  <2>2. Len(outcomes) = Len(batch)
    BY <1>1, OutcomeFacts, ClaimFacts DEF StTypes
  <2> QED
    BY <1>1, <2>1, <2>2, ClaimFacts, FS_Subset DEF In
<1>3. ClaimsOf(s) = In(s)
  BY <1>2 DEF ClaimsOf, In
<1>4. ASSUME NEW i \in In(s)
      PROVE  /\ FloorAt(i) = floor /\ TermsAt(i) = StakeTerms(batch[i].amount)
             /\ floor \in Nat /\ TermsAt(i) \in Nat /\ Left[i] \in Nat /\ Excess[i] \in Nat
             /\ i \in DOMAIN batch
             /\ IsPriced(batch[i]) <=> batch[i].kind = "settles"
  <2>1. i \in DOMAIN batch /\ FloorAt(i) = floor /\ TermsAt(i) = StakeTerms(batch[i].amount)
    BY <1>2 DEF In, FloorAt, TermsAt
  <2>2. /\ FloorAt(i) \in Nat /\ TermsAt(i) \in Nat /\ Left[i] \in Nat /\ Excess[i] \in Nat
    BY <1>1, <2>1, CapFacts
  <2>3. IsPriced(batch[i]) <=> batch[i].kind = "settles"
    BY <1>3 DEF IsPriced
  <2> HIDE DEF floor
  <2> QED
    BY <2>1, <2>2, <2>3
<1>5. Under(s) = {i \in In(s) : batch[i].kind = "settles" /\ TermsAt(i) < floor}
  BY <1>3, <1>4 DEF Under
<1>6. Over(s) = {i \in In(s) : batch[i].kind = "settles" /\ TermsAt(i) > floor}
  BY <1>3, <1>4 DEF Over
<1>7. /\ \A i \in Under(s) : Left[i] = floor - TermsAt(i)
      /\ \A i \in In(s) \ Under(s) : Left[i] = 0
  BY <1>4, <1>5 DEF Left
<1>8. /\ \A i \in Over(s) : Excess[i] = TermsAt(i) - floor
      /\ \A i \in In(s) \ Over(s) : Excess[i] = 0
  <2>1. ASSUME NEW i \in In(s)
        PROVE  Excess[i] = IF batch[i].kind = "settles" /\ ~ (TermsAt(i) < floor)
                           THEN TermsAt(i) - floor ELSE 0
    BY <1>4 DEF Excess
  <2> HIDE DEF floor
  <2>2. ASSUME NEW i \in Over(s)
        PROVE  Excess[i] = TermsAt(i) - floor
    <3>1. i \in In(s) /\ batch[i].kind = "settles" /\ TermsAt(i) > floor
      BY <1>6
    <3> QED
      BY <1>4, <2>1, <3>1
  <2>3. ASSUME NEW i \in In(s) \ Over(s)
        PROVE  Excess[i] = 0
    <3>1. batch[i].kind # "settles" \/ ~ (TermsAt(i) > floor)
      BY <1>6
    <3> QED
      BY <1>4, <2>1, <3>1
  <2> QED
    BY <2>2, <2>3
<1>9. /\ \A i \in Under(s) : left[i] = floor - TermsAt(i)
      /\ \A i \in Over(s) : want[i] = TermsAt(i) - floor
  BY <1>4, <1>5, <1>6
<1> HIDE DEF floor, left, want
<1>10. budgets[s].unused = Total(Left, In(s)) /\ budgets[s].totalExcess = Total(Excess, In(s))
  BY <1>1 DEF BudgetsOk, Seen
<1>11. /\ Under(s) \in SUBSET In(s) /\ IsFiniteSet(Under(s))
       /\ Over(s) \in SUBSET In(s) /\ IsFiniteSet(Over(s))
  BY <1>2, <1>5, <1>6, FS_Subset
<1>12. Total(Left, In(s)) = Total(left, Under(s))
  <2>1. Total(Left, In(s)) = Total(Left, Under(s))
    BY <1>2, <1>4, <1>7, <1>11, TotalOfSupport
  <2>2. \A i \in Under(s) : Left[i] \in Int /\ Left[i] = left[i]
    BY <1>4, <1>7, <1>9, <1>11
  <2> QED
    BY <1>11, <2>1, <2>2, TotalOfEquals
<1>13. Total(Excess, In(s)) = Total(want, Over(s))
  <2>1. Total(Excess, In(s)) = Total(Excess, Over(s))
    BY <1>2, <1>4, <1>8, <1>11, TotalOfSupport
  <2>2. \A i \in Over(s) : Excess[i] \in Int /\ Excess[i] = want[i]
    BY <1>4, <1>8, <1>9, <1>11
  <2> QED
    BY <1>11, <2>1, <2>2, TotalOfEquals
<1>14. \A i \in Over(s) : Excess[i] = StakeTerms(batch[i].amount) - floor
  BY <1>4, <1>8, <1>11
<1> QED
  BY <1>10, <1>11, <1>12, <1>13, <1>14 DEF floor, left, want

(* A claim over its floor that is settled, and that the multiplier does    *)
(* not hold back, takes its share of what is left.                         *)
LEMMA OverIsPaid ==
    ASSUME StInv, PaidOk, phase = "settle", Multiplier > 1,
           NEW i \in DOMAIN outcomes, outcomes[i].result = "settled",
           StakeTerms(batch[i].amount) > SupplierFloor(batch[i].session),
           StakeTerms(batch[i].amount) <= SupplierFloor(batch[i].session) * Multiplier,
           Excess[i] = StakeTerms(batch[i].amount) - SupplierFloor(batch[i].session),
           budgets[batch[i].session].totalExcess > 0,
           NEW m \in Nat, m <= budgets[batch[i].session].unused,
           m <= budgets[batch[i].session].totalExcess
    PROVE  LET floor == SupplierFloor(batch[i].session)
           IN  /\ floor \in Nat /\ Excess[i] \in Nat
               /\ Charges[i] - floor + RoundingLoss \in Nat
               /\ m * Excess[i] <= budgets[batch[i].session].totalExcess
                                     * (Charges[i] - floor + RoundingLoss)
<1> DEFINE c == batch[i]
           floor == SupplierFloor(c.session)
           e == StakeTerms(c.amount) - floor
           left == budgets[c.session].unused
           want == budgets[c.session].totalExcess
           most == floor * Multiplier
           cap == MaxClaimable(c)
           n == ActualSettlement(c)
           g == GlobalInflation(1)
           charge == Charges[i]
<1>1. StTypes /\ PhaseOk /\ i \in DOMAIN batch
  BY OutcomeFacts DEF StInv
<1>2. /\ c.session \in Sessions /\ c.amount \in Nat /\ TokenomicsParams(params)
      /\ params.overservicingBonusMultiplier \in Nat
  BY <1>1, ClaimFacts DEF TokenomicsParams
<1>3. floor \in Nat /\ StakeTerms(c.amount) \in Nat /\ Excess[i] \in Nat
  BY <1>1, CapFacts DEF FloorAt, TermsAt
<1>4. e \in Nat /\ e > 0 /\ floor + e = StakeTerms(c.amount) /\ Excess[i] = e
  BY <1>3
<1>5. left \in Nat /\ want \in Nat \ {0} /\ m <= left /\ m <= want
  BY <1>1, <1>2 DEF StTypes
<1>6. Multiplier \in Nat
  <2> DEFINE k == params.overservicingBonusMultiplier
  <2>1. k \in Nat /\ Multiplier = Max({1, k})
    BY <1>2 DEF Multiplier
  <2> HIDE DEF k
  <2>2. Max({1, k}) = IF 1 >= k THEN 1 ELSE k
    BY <2>1, SmallerOfTwo
  <2> QED
    BY <2>1, <2>2
<1>7. most \in Nat /\ floor + e <= most
  <2>1. floor * Multiplier \in Nat
    BY <1>3, <1>6, Z3
  <2> QED
    BY <1>4, <2>1
<1>8. cap = Min({floor + (left * e) \div want, most})
  <2>1. (IF Multiplier > 1 /\ want > 0 /\ e > 0 THEN (left * e) \div want ELSE 0)
          = (left * e) \div want
    BY <1>4, <1>5
  <2> QED
    BY <2>1 DEF MaxClaimable
<1>9. charge = StakeTerms(n)
  BY <1>1, OutcomeFacts DEF PaidOk
<1>10. n = Min({c.amount, MaxSettlement(cap)})
  BY DEF ActualSettlement
<1>11. g \in Nat /\ RoundingLoss = 1 + g
  BY <1>2, TermsGrow DEF RoundingLoss, StakeTerms
<1> HIDE DEF c, floor, e, left, want, most, cap, n, g, charge
<1>12. cap \in Nat
  <2>1. left * e \in Nat
    BY <1>4, <1>5, Z3
  <2>2. (left * e) \div want \in Nat
    BY <1>5, <2>1, Rounding
  <2> QED
    BY <1>3, <1>7, <1>8, <2>2, SmallerOfTwo
<1>13. MaxSettlement(cap) \in Nat /\ cap <= StakeTerms(MaxSettlement(cap)) + g
  BY <1>2, <1>12, SettlesWithin, SettlesClose DEF g
<1>14. n = c.amount \/ n = MaxSettlement(cap)
  BY <1>2, <1>10, <1>13, SmallerOfTwo
<1>15. n \in Nat /\ charge \in Nat
  BY <1>2, <1>9, <1>13, <1>14, TermsGrow
<1>16. charge = floor + e \/ cap <= charge + g
  BY <1>4, <1>9, <1>13, <1>14
<1>17. /\ charge - floor + 1 + g \in Nat
       /\ m * e <= want * (charge - floor + 1 + g)
  BY <1>3, <1>4, <1>5, <1>7, <1>8, <1>11, <1>15, <1>16, ShareReached
<1>18. charge - floor + 1 + g = charge - floor + RoundingLoss
  BY <1>3, <1>11, <1>15
<1> QED
  BY <1>3, <1>4, <1>17, <1>18 DEF c, floor, want, charge

(* What the claims of a session under their floors leave goes to those     *)
(* over theirs, up to rounding, whichever of the others expire.            *)
THEOREM UnusedBudgetGoesToOthers == StSpec => []UnusedBudgetIsPaidOut
<1>1. StInit => PaidOk
  BY DEF StInit, PaidOk
<1>2. StInv /\ PaidOk /\ [StNext]_stVars => PaidOk'
  BY PaidKeeps
<1>3. StInv /\ PaidOk => UnusedBudgetIsPaidOut
  <2> SUFFICES ASSUME StInv, PaidOk, NEW s \in Sessions, phase = "settle", at > Len(batch),
                      \A i \in ClaimsOf(s) : batch[i].kind # "unserved",
                      \A i \in Over(s) : outcomes[i].result = "settled",
                      Multiplier > 1,
                      \A i \in Over(s) :
                         StakeTerms(batch[i].amount) <= SupplierFloor(s) * Multiplier
               PROVE  LET floor == SupplierFloor(s)
                          left  == Total([i \in Under(s) |->
                                            floor - StakeTerms(batch[i].amount)], Under(s))
                          want  == Total([i \in Over(s) |->
                                            StakeTerms(batch[i].amount) - floor], Over(s))
                          got   == Total([i \in Over(s) |-> Charges[i] - floor], Over(s))
                      IN  got + RoundingLoss * Cardinality(Over(s)) >= Min({left, want})
    BY DEF UnusedBudgetIsPaidOut
  <2> DEFINE floor == SupplierFloor(s)
             S == Over(s)
             left == Total([i \in Under(s) |-> floor - StakeTerms(batch[i].amount)], Under(s))
             wanted == [i \in S |-> StakeTerms(batch[i].amount) - floor]
             want == Total(wanted, S)
             gained == [i \in S |-> Charges[i] - floor]
             losses == [i \in S |-> RoundingLoss]
             reached == [i \in S |-> Charges[i] - floor + RoundingLoss]
             k == RoundingLoss
             m == Min({left, want})
  <2>1. /\ StTypes /\ TokenomicsParams(params) /\ S \subseteq In(s)
        /\ \A i \in S : Excess[i] = StakeTerms(batch[i].amount) - floor
        /\ budgets[s].unused = left /\ budgets[s].totalExcess = want
    BY LeftAndWanted, ClaimFacts DEF StInv
  <2>2. left \in Nat /\ want \in Nat
    BY <2>1 DEF StTypes
  <2>3. m \in Nat /\ m <= left /\ m <= want
    <3> HIDE DEF left, want
    <3> QED
      BY <2>2, SmallerOfTwo
  <2>4. IsFiniteSet(S) /\ Cardinality(S) \in Nat /\ S \subseteq DOMAIN outcomes
        /\ \A i \in S : /\ batch[i].session = s /\ StakeTerms(batch[i].amount) > floor
                        /\ Charges[i] \in Nat
    <3>1. S \subseteq DOMAIN outcomes
      BY DEF Over, ClaimsOf
    <3> QED
      BY <2>1, <3>1, OutcomeFacts, FS_Subset, FS_CardinalityType DEF Over, ClaimsOf
  <2>5. k \in Nat
    BY <2>1, TermsGrow DEF RoundingLoss
  <2>6. want > 0 =>
          \A i \in S : /\ floor \in Nat /\ Excess[i] \in Nat /\ Charges[i] - floor + k \in Nat
                       /\ m * Excess[i] <= want * (Charges[i] - floor + k)
    <3> SUFFICES ASSUME want > 0, NEW i \in S
                 PROVE  /\ floor \in Nat /\ Excess[i] \in Nat /\ Charges[i] - floor + k \in Nat
                        /\ m * Excess[i] <= want * (Charges[i] - floor + k)
      OBVIOUS
    <3>1. i \in DOMAIN outcomes /\ batch[i].session = s
      BY <2>4
    <3>2. /\ StakeTerms(batch[i].amount) > SupplierFloor(batch[i].session)
          /\ StakeTerms(batch[i].amount) <= SupplierFloor(batch[i].session) * Multiplier
          /\ Excess[i] = StakeTerms(batch[i].amount) - SupplierFloor(batch[i].session)
          /\ outcomes[i].result = "settled"
      BY <2>1, <2>4, <3>1
    <3>3. /\ budgets[batch[i].session].totalExcess = want
          /\ budgets[batch[i].session].unused = left
      BY <2>1, <3>1
    <3> HIDE DEF left, want, m
    <3>4. LET f == SupplierFloor(batch[i].session)
          IN  /\ f \in Nat /\ Excess[i] \in Nat
              /\ Charges[i] - f + RoundingLoss \in Nat
              /\ m * Excess[i] <= budgets[batch[i].session].totalExcess
                                    * (Charges[i] - f + RoundingLoss)
      BY <2>3, <3>1, <3>2, <3>3, OverIsPaid
    <3> QED
      BY <3>1, <3>3, <3>4
  <2>7. \A i \in S : /\ wanted[i] = Excess[i] /\ gained[i] = Charges[i] - floor
                     /\ losses[i] = k /\ reached[i] = Charges[i] - floor + k
    BY <2>1
  <2>8. want = 0 => S = {}
    <3> SUFFICES ASSUME want = 0, NEW i \in S PROVE FALSE
      OBVIOUS
    <3>1. \A j \in S : wanted[j] \in Nat /\ wanted[j] > 0
      <4> SUFFICES ASSUME NEW j \in S PROVE wanted[j] \in Nat /\ wanted[j] > 0
        OBVIOUS
      <4>1. floor \in Nat /\ StakeTerms(batch[j].amount) \in Nat
        <5>1. j \in DOMAIN batch /\ batch[j].session = s
          BY <2>1 DEF In
        <5>2. FloorAt(j) \in Nat /\ TermsAt(j) \in Nat
          BY <5>1, CapFacts DEF StInv
        <5> QED
          BY <5>1, <5>2 DEF FloorAt, TermsAt
      <4>2. StakeTerms(batch[j].amount) > floor /\ wanted[j] = StakeTerms(batch[j].amount) - floor
        BY <2>4
      <4> HIDE DEF wanted, floor
      <4> QED
        BY <4>1, <4>2
    <3> HIDE DEF wanted, S
    <3>2. wanted[i] <= Total(wanted, S) /\ wanted[i] \in Nat /\ wanted[i] > 0
      BY <2>4, <3>1, TotalIsNat
    <3> QED
      BY <3>2
  <2> HIDE DEF floor, S, left, wanted, gained, losses, reached, k, m
  <2>9. CASE want = 0
    <3>0. S = {}
      BY <2>8, <2>9
    <3>1. Total(gained, S) = 0 /\ Cardinality(S) = 0 /\ k * 0 = 0
      BY <2>5, <3>0, TotalOfNone, FS_EmptySet
    <3>2. Total(gained, S) + k * Cardinality(S) >= m
      BY <2>3, <2>9, <3>1
    <3> QED
      BY <3>2 DEF floor, S, left, wanted, gained, k, m
  <2>10. CASE want # 0
    <3>1. \A i \in S : /\ floor \in Nat /\ Excess[i] \in Nat /\ Charges[i] - floor + k \in Nat
                       /\ m * Excess[i] <= want * (Charges[i] - floor + k)
      BY <2>2, <2>6, <2>10
    <3>2. \A i \in S : /\ wanted[i] \in Nat /\ reached[i] \in Nat
                       /\ m * wanted[i] <= want * reached[i]
      BY <2>7, <3>1
    <3>3. m <= Total(reached, S)
      BY <2>2, <2>3, <2>4, <3>2, SharesReach
    <3>4. Total(gained, S) = Total(reached, S) - Total(losses, S)
      <4>1. \A i \in S : /\ reached[i] \in Int /\ losses[i] \in Int
                         /\ gained[i] = reached[i] - losses[i]
        BY <2>4, <2>5, <2>7, <3>1
      <4> QED
        BY <2>4, <4>1, TotalOfDifferences
    <3>5. Total(losses, S) = k * Cardinality(S) /\ k * Cardinality(S) \in Nat
      <4>1. Total(losses, S) = k * Cardinality(S)
        BY <2>4, <2>5, <2>7, TotalOfConstant
      <4>2. k * Cardinality(S) \in Nat
        BY <2>4, <2>5, Z3
      <4> QED
        BY <4>1, <4>2
    <3>6. Total(reached, S) \in Nat
      BY <2>4, <3>2, TotalIsNat
    <3>7. Total(gained, S) + k * Cardinality(S) >= m
      BY <2>3, <3>3, <3>4, <3>5, <3>6
    <3> QED
      BY <3>7 DEF floor, S, left, wanted, gained, k, m
  <2> QED
    BY <2>9, <2>10
<1> QED
  BY <1>1, <1>2, <1>3, SettlementInvariance, PTL DEF StSpec
=============================================================================
