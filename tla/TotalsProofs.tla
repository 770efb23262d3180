---------------------------- MODULE TotalsProofs ----------------------------
(***************************************************************************)
(* What Total is worth to a proof: it does not depend on the order its     *)
(* terms are taken in, so a set may be split and a term changed.           *)
(***************************************************************************)
EXTENDS Totals, FiniteSetTheorems, WellFoundedInduction, TLAPS

(* Induction over a set of numbers. *)
LEMMA NatSetInduction ==
    ASSUME NEW A \in SUBSET Nat, 0 \in A, \A n \in A : n + 1 \in A
    PROVE  A = Nat
<1> DEFINE B == Nat \ A
           R == {ss \in Nat \X Nat : ss[1] < ss[2]}
<1> SUFFICES ASSUME B # {}
             PROVE  FALSE
  OBVIOUS
<1>1. IsWellFoundedOn(R, Nat)
  BY NatLessThanWellFounded, Zenon DEF OpToRel
<1>2. PICK n \in B : \A m \in B : ~ (<<m, n>> \in R)
  <2> B \subseteq Nat
    OBVIOUS
  <2> HIDE DEF R, B
  <2> QED
    BY <1>1, WFMin
<1>3. n # 0 /\ n - 1 \in Nat
  OBVIOUS
<1>4. n - 1 \notin B
  <2>1. <<n - 1, n>> \in R
    BY <1>3
  <2> HIDE DEF R
  <2> QED
    BY <1>2, <2>1
<1> QED
  BY <1>3, <1>4

(* Induction over the subsets of a finite set. *)
LEMMA SubsetInduction ==
    ASSUME NEW S, IsFiniteSet(S), NEW A \in SUBSET (SUBSET S), {} \in A,
           \A T \in A, x \in S : x \notin T => T \cup {x} \in A
    PROVE  A = SUBSET S
<1> DEFINE B == {n \in Nat : \A T \in SUBSET S : Cardinality(T) = n => T \in A}
<1>1. \A T \in SUBSET S : IsFiniteSet(T) /\ Cardinality(T) \in Nat
  BY FS_Subset, FS_CardinalityType
<1>2. 0 \in B
  BY <1>1, FS_EmptySet
<1>3. ASSUME NEW n \in Nat, n \in B
      PROVE  n + 1 \in B
  <2> SUFFICES ASSUME NEW T \in SUBSET S, Cardinality(T) = n + 1
               PROVE  T \in A
    OBVIOUS
  <2>1. T # {}
    <3> SUFFICES ASSUME T = {}
                 PROVE  FALSE
      OBVIOUS
    <3>1. Cardinality({}) = 0
      BY FS_EmptySet
    <3> QED
      BY <3>1
  <2>2. PICK x \in T : TRUE
    BY <2>1
  <2>3. Cardinality(T \ {x}) = n
    BY <1>1, FS_RemoveElement
  <2>4. T \ {x} \in A
    BY <1>3, <2>3
  <2> QED
    BY <2>4, (T \ {x}) \cup {x} = T
<1>4. B = Nat
  <2> B \in SUBSET Nat
    OBVIOUS
  <2> HIDE DEF B
  <2> QED
    BY <1>2, <1>3, NatSetInduction
<1> QED
  BY <1>1, <1>4

-----------------------------------------------------------------------------
(* The function the fold of a finite set is defined by. *)

Pick(s) == CHOOSE x \in s : TRUE

IsIter(g, f, S) ==
    g = [s \in SUBSET S |-> IF s = {} THEN 0 ELSE f[Pick(s)] + g[s \ {Pick(s)}]]

(* A total is the value of that function at the whole set.                 *)
LEMMA TotalIsIter ==
    ASSUME NEW f, NEW S
    PROVE  Total(f, S) = (CHOOSE g : IsIter(g, f, S))[S]
BY DEF Total, MapThenSumSet, MapThenFoldSet, IsIter, Pick

(* There is one: it is built up by the size of the subsets. *)
LEMMA IterExists ==
    ASSUME NEW f, NEW S, IsFiniteSet(S)
    PROVE  \E g : IsIter(g, f, S)
<1> DEFINE Up(n)    == {s \in SUBSET S : Cardinality(s) <= n}
           Ok(g, n) == g = [s \in Up(n) |->
                              IF s = {} THEN 0 ELSE f[Pick(s)] + g[s \ {Pick(s)}]]
           B        == {n \in Nat : \E g : Ok(g, n)}
<1>1. \A s \in SUBSET S : IsFiniteSet(s) /\ Cardinality(s) \in Nat
  BY FS_Subset, FS_CardinalityType
<1>2. 0 \in B
  <2>1. \A s \in Up(0) : s = {}
    BY <1>1, FS_EmptySet
  <2>2. Ok([s \in Up(0) |-> 0], 0)
    BY <2>1
  <2> QED
    BY <2>2
<1>3. ASSUME NEW n \in Nat, n \in B
      PROVE  n + 1 \in B
  <2>1. PICK g : Ok(g, n)
    BY <1>3
  <2> DEFINE h == [s \in Up(n + 1) |->
                     IF s = {} THEN 0 ELSE f[Pick(s)] + g[s \ {Pick(s)}]]
  <2>2. ASSUME NEW s \in Up(n)
        PROVE  s \in Up(n + 1) /\ h[s] = g[s]
    <3>1. s \in SUBSET S /\ Cardinality(s) <= n /\ Cardinality(s) \in Nat
      BY <1>1
    <3>2. s \in Up(n + 1)
      BY <3>1
    <3>3. g[s] = IF s = {} THEN 0 ELSE f[Pick(s)] + g[s \ {Pick(s)}]
      <4> HIDE DEF Up
      <4> QED
        BY <2>1
    <3> QED
      <4> HIDE DEF Up
      <4> QED
        BY <3>2, <3>3
  <2>3. ASSUME NEW s \in Up(n + 1), s # {}
        PROVE  s \ {Pick(s)} \in Up(n)
    <3>1. Pick(s) \in s
      BY <2>3 DEF Pick
    <3>2. Cardinality(s \ {Pick(s)}) = Cardinality(s) - 1
      BY <3>1, <1>1, FS_RemoveElement
    <3> QED
      BY <3>2, <1>1
  <2>4. Ok(h, n + 1)
    <3> HIDE DEF Up
    <3> SUFFICES ASSUME NEW s \in Up(n + 1), s # {}
                 PROVE  g[s \ {Pick(s)}] = h[s \ {Pick(s)}]
      OBVIOUS
    <3> HIDE DEF h
    <3> QED
      BY <2>2, <2>3
  <2> HIDE DEF Ok
  <2> QED
    BY <2>4
<1>4. B = Nat
  <2> B \in SUBSET Nat
    OBVIOUS
  <2> HIDE DEF B
  <2> QED
    BY <1>2, <1>3, NatSetInduction
<1>5. Cardinality(S) \in B
  BY <1>4, <1>1
<1>6. Up(Cardinality(S)) = SUBSET S
  BY <1>1, FS_Subset
<1> QED
  BY <1>5, <1>6 DEF IsIter

(* The iteration may take any element first. *)
LEMMA IterTakesAny ==
    ASSUME NEW f, NEW S, IsFiniteSet(S), \A x \in S : f[x] \in Int,
           NEW g, IsIter(g, f, S)
    PROVE  \A T \in SUBSET S :
              /\ g[T] \in Int
              /\ \A x \in T : g[T] = f[x] + g[T \ {x}]
<1> DEFINE Good(T) == g[T] \in Int /\ \A x \in T : g[T] = f[x] + g[T \ {x}]
           B == {n \in Nat : \A T \in SUBSET S : Cardinality(T) <= n => Good(T)}
<1>1. \A s \in SUBSET S : IsFiniteSet(s) /\ Cardinality(s) \in Nat
  BY FS_Subset, FS_CardinalityType
<1>2. g[{}] = 0
  BY DEF IsIter
<1>3. 0 \in B
  <2>1. \A T \in SUBSET S : Cardinality(T) <= 0 => T = {}
    BY <1>1, FS_EmptySet
  <2>2. Good({})
    BY <1>2
  <2> HIDE DEF Good
  <2> QED
    BY <2>1, <2>2
<1>4. ASSUME NEW n \in Nat, n \in B
      PROVE  n + 1 \in B
  <2> SUFFICES ASSUME NEW T \in SUBSET S, Cardinality(T) <= n + 1, T # {}
               PROVE  Good(T)
    <3>1. Good({})
      BY <1>2
    <3> HIDE DEF Good
    <3> QED
      BY <3>1
  <2> DEFINE c == Pick(T)
  <2>1. c \in T
    BY DEF Pick
  <2>2. g[T] = f[c] + g[T \ {c}]
    BY DEF IsIter
  <2> HIDE DEF c
  <2>3. ASSUME NEW y \in T
        PROVE  T \ {y} \in SUBSET S /\ Good(T \ {y})
    <3>1. Cardinality(T \ {y}) = Cardinality(T) - 1
      BY <1>1, FS_RemoveElement
    <3>2. Cardinality(T \ {y}) <= n
      BY <3>1, <1>1
    <3> HIDE DEF Good
    <3> QED
      BY <3>2, <1>4
  <2>4. g[T] \in Int
    <3>1. g[T \ {c}] \in Int /\ f[c] \in Int
      BY <2>1, <2>3
    <3> QED
      BY <3>1, <2>2
  <2>5. ASSUME NEW x \in T
        PROVE  g[T] = f[x] + g[T \ {x}]
    <3>1. CASE x = c
      BY <3>1, <2>2
    <3>2. CASE x # c
      <4>1. g[T \ {c}] = f[x] + g[(T \ {c}) \ {x}]
        BY <3>2, <2>1, <2>3
      <4>2. g[T \ {x}] = f[c] + g[(T \ {x}) \ {c}]
        BY <3>2, <2>1, <2>3
      <4>3. (T \ {x}) \ {c} = (T \ {c}) \ {x}
        OBVIOUS
      <4>4. g[(T \ {c}) \ {x}] \in Int
        <5>1. Good(T \ {c}) /\ g[T \ {c}] \in Int /\ f[x] \in Int
          BY <2>3, <2>1
        <5>2. (T \ {c}) \ {x} \in SUBSET S /\ Cardinality((T \ {c}) \ {x}) <= n
          <6>1. Cardinality(T \ {c}) = Cardinality(T) - 1
            BY <1>1, <2>1, FS_RemoveElement
          <6>2. Cardinality((T \ {c}) \ {x}) <= Cardinality(T \ {c})
            BY <1>1, FS_Subset
          <6> QED
            BY <6>1, <6>2, <1>1
        <5>3. Good((T \ {c}) \ {x})
          <6> HIDE DEF Good
          <6> QED
            BY <5>2, <1>4
        <5> QED
          BY <5>3
      <4>5. f[x] \in Int /\ f[c] \in Int
        BY <2>1
      <4>6. g[(T \ {x}) \ {c}] = g[(T \ {c}) \ {x}]
        BY <4>3
      <4> DEFINE rest == g[(T \ {c}) \ {x}]
      <4>7. rest \in Int /\ g[T \ {c}] = f[x] + rest /\ g[T \ {x}] = f[c] + rest
        BY <4>1, <4>2, <4>4, <4>6
      <4> HIDE DEF Good, B, rest
      <4> QED
        BY <4>5, <4>7, <2>2
    <3> QED
      BY <3>1, <3>2
  <2> QED
    BY <2>4, <2>5
<1>5. B = Nat
  <2> B \in SUBSET Nat
    OBVIOUS
  <2> HIDE DEF B
  <2> QED
    BY <1>3, <1>4, NatSetInduction
<1>6. ASSUME NEW T \in SUBSET S
      PROVE  Good(T)
  <2>1. Cardinality(T) \in B
    BY <1>1, <1>5
  <2> QED
    BY <2>1, <1>1
<1> QED
  BY <1>6

(* The iterations of a set and of a part of it agree. *)
LEMMA IterOfPart ==
    ASSUME NEW f, NEW S, IsFiniteSet(S), \A x \in S : f[x] \in Int,
           NEW P \in SUBSET S, NEW g, IsIter(g, f, S), NEW h, IsIter(h, f, P)
    PROVE  \A T \in SUBSET P : g[T] = h[T]
<1> DEFINE A == {T \in SUBSET P : g[T] = h[T]}
<1>1. IsFiniteSet(P)
  BY FS_Subset
<1>2. {} \in A
  <2>1. g[{}] = 0 /\ h[{}] = 0
    BY DEF IsIter
  <2> QED
    BY <2>1
<1>3. ASSUME NEW T \in A, NEW x \in P, x \notin T
      PROVE  T \cup {x} \in A
  <2> DEFINE U == T \cup {x}
  <2>1. U \in SUBSET S /\ U \in SUBSET P /\ x \in U /\ U \ {x} = T
    BY <1>3
  <2> HIDE DEF U
  <2>2. g[U] = f[x] + g[U \ {x}]
    BY <2>1, IterTakesAny
  <2>3. h[U] = f[x] + h[U \ {x}]
    BY <1>1, <2>1, IterTakesAny
  <2>4. g[T] = h[T]
    OBVIOUS
  <2>5. U \in A
    BY <2>1, <2>2, <2>3, <2>4
  <2> QED
    BY <2>5 DEF U
<1>4. A \in SUBSET (SUBSET P)
  OBVIOUS
<1>5. A = SUBSET P
  <2> HIDE DEF A
  <2> QED
    BY <1>1, <1>2, <1>3, <1>4, SubsetInduction
<1> QED
  BY <1>5

-----------------------------------------------------------------------------
(* What the other modules use of Total. *)

(* Any term may be taken first. *)
LEMMA TotalTakes ==
    ASSUME NEW f, NEW S, IsFiniteSet(S), \A x \in S : f[x] \in Int
    PROVE  /\ Total(f, S) \in Int
           /\ \A x \in S : Total(f, S) = f[x] + Total(f, S \ {x})
<1>1. \E i : IsIter(i, f, S)
  BY IterExists
<1>2. PICK g : IsIter(g, f, S) /\ Total(f, S) = g[S]
  BY <1>1, TotalIsIter
<1>3. ASSUME NEW x \in S
      PROVE  \E h : IsIter(h, f, S \ {x}) /\ Total(f, S \ {x}) = h[S \ {x}]
  <2>1. IsFiniteSet(S \ {x})
    BY FS_RemoveElement
  <2>2. \E i : IsIter(i, f, S \ {x})
    BY <2>1, IterExists
  <2> QED
    BY <2>2, TotalIsIter
<1>4. g[S] \in Int /\ \A x \in S : g[S] = f[x] + g[S \ {x}]
  <2>1. IsIter(g, f, S) /\ S \in SUBSET S
    BY <1>2
  <2>2. g[S] \in Int
    BY <2>1, IterTakesAny
  <2>3. ASSUME NEW x \in S
        PROVE  g[S] = f[x] + g[S \ {x}]
    BY <2>1, IterTakesAny
  <2> QED
    BY <2>2, <2>3
<1>5. ASSUME NEW x \in S
      PROVE  g[S \ {x}] = Total(f, S \ {x})
  <2>1. S \ {x} \in SUBSET S
    OBVIOUS
  <2>2. PICK h : IsIter(h, f, S \ {x}) /\ Total(f, S \ {x}) = h[S \ {x}]
    BY <1>3
  <2>3. \A T \in SUBSET (S \ {x}) : g[T] = h[T]
    BY <1>2, <2>1, <2>2, IterOfPart, SMTT(30)
  <2> QED
    BY <2>2, <2>3
<1> QED
  BY <1>2, <1>4, <1>5

(* The total over nothing is nothing.                                      *)
LEMMA TotalOfNone ==
    ASSUME NEW f
    PROVE  Total(f, {}) = 0
<1> DEFINE g == CHOOSE i : IsIter(i, f, {})
<1>1. IsIter(g, f, {})
  BY FS_EmptySet, IterExists
<1>2. Total(f, {}) = g[{}]
  BY TotalIsIter
<1> HIDE DEF g
<1>3. g[{}] = 0
  BY <1>1 DEF IsIter
<1> QED
  BY <1>2, <1>3

(* An element more adds its value.                                         *)
LEMMA TotalAdds ==
    ASSUME NEW f, NEW S, NEW x, IsFiniteSet(S), x \notin S,
           \A y \in S \cup {x} : f[y] \in Int
    PROVE  Total(f, S \cup {x}) = f[x] + Total(f, S)
<1> DEFINE U == S \cup {x}
<1>1. IsFiniteSet(U)
  BY FS_AddElement
<1>2. x \in U /\ U \ {x} = S /\ \A y \in U : f[y] \in Int
  OBVIOUS
<1> HIDE DEF U
<1>3. Total(f, U) = f[x] + Total(f, U \ {x})
  BY <1>1, <1>2, TotalTakes
<1> QED
  BY <1>2, <1>3 DEF U

(* The total of the parts. *)
LEMMA TotalSplits ==
    ASSUME NEW f, NEW S, IsFiniteSet(S), \A x \in S : f[x] \in Int,
           NEW T \in SUBSET S
    PROVE  /\ Total(f, T) \in Int /\ Total(f, S \ T) \in Int
           /\ Total(f, S) = Total(f, T) + Total(f, S \ T)
<1> DEFINE A == {P \in SUBSET S : Total(f, S) = Total(f, P) + Total(f, S \ P)}
<1>1. ASSUME NEW P \in SUBSET S
      PROVE  /\ IsFiniteSet(P) /\ Total(f, P) \in Int
             /\ \A x \in P : Total(f, P) = f[x] + Total(f, P \ {x})
  <2>1. IsFiniteSet(P) /\ \A x \in P : f[x] \in Int
    BY FS_Subset
  <2> QED
    BY <2>1, TotalTakes
<1>2. {} \in A
  <2>1. S \ {} = S /\ Total(f, {}) = 0 /\ Total(f, S) \in Int
    BY <1>1, TotalOfNone
  <2> QED
    BY <2>1
<1>3. ASSUME NEW P \in A, NEW x \in S, x \notin P
      PROVE  P \cup {x} \in A
  <2>1. Total(f, P \cup {x}) = f[x] + Total(f, P)
    <3>1. IsFiniteSet(P) /\ \A y \in P \cup {x} : f[y] \in Int
      BY <1>1
    <3> QED
      BY <3>1, <1>3, TotalAdds
  <2>2. Total(f, S \ P) = f[x] + Total(f, (S \ P) \ {x})
    BY <1>1, <1>3
  <2>3. (S \ P) \ {x} = S \ (P \cup {x})
    OBVIOUS
  <2>4. /\ Total(f, P) \in Int /\ Total(f, S \ (P \cup {x})) \in Int /\ f[x] \in Int
        /\ Total(f, S) = Total(f, P) + Total(f, S \ P)
    BY <1>1
  <2>5. Total(f, S) = Total(f, P \cup {x}) + Total(f, S \ (P \cup {x}))
    <3> DEFINE rest == Total(f, S \ (P \cup {x}))
    <3>1. rest \in Int /\ Total(f, S \ P) = f[x] + rest
      BY <2>2, <2>3, <2>4
    <3> HIDE DEF rest
    <3>2. Total(f, S) = Total(f, P \cup {x}) + rest
      BY <2>1, <2>4, <3>1
    <3> QED
      BY <3>2 DEF rest
  <2> QED
    BY <2>5
<1>4. A \in SUBSET (SUBSET S)
  OBVIOUS
<1>5. A = SUBSET S
  <2> HIDE DEF A
  <2> QED
    BY <1>2, <1>3, <1>4, SubsetInduction
<1>6. T \in A /\ S \ T \in SUBSET S
  BY <1>5
<1> QED
  BY <1>1, <1>6

(* Terms that are no larger have no larger a total. *)
LEMMA TotalIsMonotone ==
    ASSUME NEW f, NEW g, NEW S, IsFiniteSet(S),
           \A x \in S : f[x] \in Int /\ g[x] \in Int /\ f[x] <= g[x]
    PROVE  Total(f, S) <= Total(g, S)
<1> DEFINE A == {T \in SUBSET S : Total(f, T) <= Total(g, T)}
<1>1. ASSUME NEW T \in SUBSET S
      PROVE  IsFiniteSet(T) /\ Total(f, T) \in Int /\ Total(g, T) \in Int
  <2>1. IsFiniteSet(T) /\ \A x \in T : f[x] \in Int /\ g[x] \in Int
    BY FS_Subset
  <2> QED
    BY <2>1, TotalTakes
<1>2. {} \in A
  BY TotalOfNone
<1>3. ASSUME NEW T \in A, NEW x \in S, x \notin T
      PROVE  T \cup {x} \in A
  <2>1. IsFiniteSet(T) /\ \A y \in T \cup {x} : f[y] \in Int /\ g[y] \in Int
    BY <1>1
  <2>2. Total(f, T \cup {x}) = f[x] + Total(f, T)
    BY <2>1, <1>3, TotalAdds
  <2>3. Total(g, T \cup {x}) = g[x] + Total(g, T)
    BY <2>1, <1>3, TotalAdds
  <2>4. Total(f, T) <= Total(g, T) /\ Total(f, T) \in Int /\ Total(g, T) \in Int
    BY <1>1
  <2>5. Total(f, T \cup {x}) <= Total(g, T \cup {x})
    BY <2>1, <2>2, <2>3, <2>4
  <2> QED
    BY <2>5
<1>4. A \in SUBSET (SUBSET S)
  OBVIOUS
<1>5. A = SUBSET S
  <2> HIDE DEF A
  <2> QED
    BY <1>2, <1>3, <1>4, SubsetInduction
<1>6. S \in A
  BY <1>5
<1> QED
  BY <1>6

(* Equal values have equal totals.                                         *)
LEMMA TotalOfEquals ==
    ASSUME NEW f, NEW g, NEW S, IsFiniteSet(S),
           \A x \in S : f[x] \in Int /\ f[x] = g[x]
    PROVE  Total(f, S) = Total(g, S)
<1>1. \A x \in S : f[x] <= g[x] /\ g[x] <= f[x] /\ g[x] \in Int
  OBVIOUS
<1>2. Total(f, S) \in Int /\ Total(g, S) \in Int
  BY <1>1, TotalTakes
<1>3. Total(f, S) <= Total(g, S)
  BY <1>1, TotalIsMonotone
<1>4. Total(g, S) <= Total(f, S)
  BY <1>1, TotalIsMonotone
<1> QED
  BY <1>2, <1>3, <1>4

(* A total of naturals is a natural, and no less than any of them.         *)
LEMMA TotalIsNat ==
    ASSUME NEW f, NEW S, IsFiniteSet(S), \A x \in S : f[x] \in Nat
    PROVE  /\ Total(f, S) \in Nat
           /\ \A x \in S : f[x] <= Total(f, S)
<1> DEFINE A == {T \in SUBSET S : Total(f, T) \in Nat}
<1>1. {} \in A
  BY TotalOfNone
<1>2. ASSUME NEW T \in A, NEW x \in S, x \notin T
      PROVE  T \cup {x} \in A
  <2>1. IsFiniteSet(T) /\ \A y \in T \cup {x} : f[y] \in Int
    BY FS_Subset
  <2>2. Total(f, T \cup {x}) = f[x] + Total(f, T)
    BY <2>1, <1>2, TotalAdds
  <2>3. Total(f, T \cup {x}) \in Nat
    BY <2>2
  <2> QED
    BY <2>3
<1>3. A \in SUBSET (SUBSET S)
  OBVIOUS
<1>4. A = SUBSET S
  <2> HIDE DEF A
  <2> QED
    BY <1>1, <1>2, <1>3, SubsetInduction
<1>5. ASSUME NEW x \in S
      PROVE  f[x] <= Total(f, S)
  <2>1. S \ {x} \in A /\ Total(f, S) = f[x] + Total(f, S \ {x})
    BY <1>4, TotalTakes
  <2>2. Total(f, S \ {x}) \in Nat /\ f[x] \in Nat
    BY <2>1
  <2> HIDE DEF A
  <2> QED
    BY <2>1, <2>2
<1> QED
  BY <1>4, <1>5

(* One term changed. *)
LEMMA TotalChanges ==
    ASSUME NEW f, NEW g, NEW S, IsFiniteSet(S), NEW x \in S,
           \A y \in S : f[y] \in Int /\ g[y] \in Int /\ (y # x => g[y] = f[y])
    PROVE  Total(g, S) = Total(f, S) - f[x] + g[x]
<1>1. Total(f, S) = f[x] + Total(f, S \ {x}) /\ Total(g, S) = g[x] + Total(g, S \ {x})
  BY TotalTakes
<1>2. IsFiniteSet(S \ {x}) /\ \A y \in S \ {x} : f[y] \in Int /\ f[y] = g[y]
  BY FS_RemoveElement
<1>3. Total(f, S \ {x}) = Total(g, S \ {x})
  BY <1>2, TotalOfEquals
<1>4. Total(f, S \ {x}) \in Int
  BY <1>2, TotalTakes
<1> QED
  BY <1>1, <1>3, <1>4

(* Subtracting term by term. *)
LEMMA TotalOfDifferences ==
    ASSUME NEW f, NEW g, NEW h, NEW S, IsFiniteSet(S),
           \A x \in S : f[x] \in Int /\ g[x] \in Int /\ h[x] = f[x] - g[x]
    PROVE  Total(h, S) = Total(f, S) - Total(g, S)
<1> DEFINE A == {T \in SUBSET S : Total(h, T) = Total(f, T) - Total(g, T)}
<1>1. ASSUME NEW T \in SUBSET S
      PROVE  /\ IsFiniteSet(T) /\ \A x \in T : h[x] \in Int
             /\ Total(f, T) \in Int /\ Total(g, T) \in Int /\ Total(h, T) \in Int
  <2>1. IsFiniteSet(T) /\ \A x \in T : f[x] \in Int /\ g[x] \in Int /\ h[x] \in Int
    BY FS_Subset
  <2> QED
    BY <2>1, TotalTakes
<1>2. {} \in A
  BY TotalOfNone
<1>3. ASSUME NEW T \in A, NEW x \in S, x \notin T
      PROVE  T \cup {x} \in A
  <2>1. IsFiniteSet(T) /\ \A y \in T \cup {x} : f[y] \in Int /\ g[y] \in Int /\ h[y] \in Int
    BY <1>1
  <2>2. Total(f, T \cup {x}) = f[x] + Total(f, T)
    BY <2>1, <1>3, TotalAdds
  <2>3. Total(g, T \cup {x}) = g[x] + Total(g, T)
    BY <2>1, <1>3, TotalAdds
  <2>4. Total(h, T \cup {x}) = h[x] + Total(h, T)
    BY <2>1, <1>3, TotalAdds
  <2>5. Total(h, T) = Total(f, T) - Total(g, T) /\ T \in SUBSET S
    OBVIOUS
  <2>6. Total(f, T) \in Int /\ Total(g, T) \in Int
    BY <1>1
  <2>7. f[x] \in Int /\ g[x] \in Int /\ h[x] = f[x] - g[x]
    OBVIOUS
  <2>8. Total(h, T \cup {x}) = Total(f, T \cup {x}) - Total(g, T \cup {x})
    BY <2>2, <2>3, <2>4, <2>5, <2>6, <2>7
  <2> QED
    BY <2>8
<1>4. A \in SUBSET (SUBSET S)
  OBVIOUS
<1>5. A = SUBSET S
  <2> HIDE DEF A
  <2> QED
    BY <1>2, <1>3, <1>4, SubsetInduction
<1>6. S \in A
  BY <1>5
<1> QED
  BY <1>6

(* Terms of at most k each. *)
LEMMA TotalIsBounded ==
    ASSUME NEW f, NEW S, IsFiniteSet(S), NEW k \in Nat,
           \A x \in S : f[x] \in Nat /\ f[x] <= k
    PROVE  Total(f, S) <= k * Cardinality(S)
<1> DEFINE A == {T \in SUBSET S : Total(f, T) <= k * Cardinality(T)}
<1>1. {} \in A
  <2>1. Total(f, {}) = 0 /\ Cardinality({}) = 0 /\ k * 0 = 0
    BY TotalOfNone, FS_EmptySet
  <2> QED
    BY <2>1
<1>2. ASSUME NEW T \in A, NEW x \in S, x \notin T
      PROVE  T \cup {x} \in A
  <2>1. IsFiniteSet(T) /\ (\A y \in T \cup {x} : f[y] \in Int) /\ \A y \in T : f[y] \in Nat
    BY FS_Subset
  <2>2. Total(f, T \cup {x}) = f[x] + Total(f, T)
    BY <2>1, <1>2, TotalAdds
  <2>3. Cardinality(T) \in Nat /\ Cardinality(T \cup {x}) = Cardinality(T) + 1
    BY <2>1, <1>2, FS_AddElement, FS_CardinalityType
  <2>4. Total(f, T) \in Nat /\ Total(f, T) <= k * Cardinality(T)
    BY <2>1, TotalIsNat
  <2> DEFINE n == Cardinality(T)
  <2>5. n \in Nat /\ k * n \in Nat /\ k * (n + 1) = k * n + k
    BY <2>3, Z3
  <2> HIDE DEF n
  <2>6. k * Cardinality(T \cup {x}) = k * n + k
    BY <2>3, <2>5 DEF n
  <2>7. Total(f, T) <= k * n
    BY <2>4 DEF n
  <2>8. f[x] \in Nat /\ f[x] <= k
    OBVIOUS
  <2>9. Total(f, T \cup {x}) <= k * Cardinality(T \cup {x})
    BY <2>2, <2>4, <2>5, <2>6, <2>7, <2>8
  <2> QED
    BY <2>9
<1>3. A \in SUBSET (SUBSET S)
  OBVIOUS
<1>4. A = SUBSET S
  <2> HIDE DEF A
  <2> QED
    BY <1>1, <1>2, <1>3, SubsetInduction
<1>5. S \in A
  BY <1>4
<1> QED
  BY <1>5

(* Terms of k each.                                                        *)
LEMMA TotalOfConstant ==
    ASSUME NEW f, NEW S, IsFiniteSet(S), NEW k \in Nat, \A x \in S : f[x] = k
    PROVE  Total(f, S) = k * Cardinality(S)
<1> DEFINE A == {T \in SUBSET S : Total(f, T) = k * Cardinality(T)}
<1>1. {} \in A
  <2>1. Total(f, {}) = 0 /\ Cardinality({}) = 0 /\ k * 0 = 0
    BY TotalOfNone, FS_EmptySet
  <2> QED
    BY <2>1
<1>2. ASSUME NEW T \in A, NEW x \in S, x \notin T
      PROVE  T \cup {x} \in A
  <2>1. IsFiniteSet(T) /\ \A y \in T \cup {x} : f[y] \in Int
    BY FS_Subset
  <2>2. Total(f, T \cup {x}) = k + Total(f, T)
    BY <2>1, <1>2, TotalAdds
  <2>3. Cardinality(T) \in Nat /\ Cardinality(T \cup {x}) = Cardinality(T) + 1
    BY <2>1, <1>2, FS_AddElement, FS_CardinalityType
  <2>4. Total(f, T) = k * Cardinality(T)
    OBVIOUS
  <2> DEFINE n == Cardinality(T)
  <2>5. n \in Nat /\ k * n \in Nat /\ k * (n + 1) = k * n + k
    BY <2>3, Z3
  <2>6. Total(f, T) = k * n /\ Cardinality(T \cup {x}) = n + 1
    BY <2>3, <2>4
  <2> HIDE DEF n
  <2>7. Total(f, T \cup {x}) = k * (n + 1)
    BY <2>2, <2>5, <2>6
  <2>8. Total(f, T \cup {x}) = k * Cardinality(T \cup {x})
    BY <2>6, <2>7
  <2> QED
    BY <2>8
<1>3. A \in SUBSET (SUBSET S)
  OBVIOUS
<1>4. A = SUBSET S
  <2> HIDE DEF A
  <2> QED
    BY <1>1, <1>2, <1>3, SubsetInduction
<1>5. S \in A
  BY <1>4
<1> QED
  BY <1>5

(* Terms that are nothing can be left out.                                 *)
LEMMA TotalOfSupport ==
    ASSUME NEW f, NEW S, IsFiniteSet(S), NEW T \in SUBSET S,
           \A x \in S : f[x] \in Int, \A x \in S : x \notin T => f[x] = 0
    PROVE  Total(f, S) = Total(f, T)
<1>1. IsFiniteSet(S) /\ \A x \in S : f[x] \in Int
  OBVIOUS
<1>2. \A U \in SUBSET S : Total(f, S) = Total(f, U) + Total(f, S \ U) /\ Total(f, U) \in Int
  <2> SUFFICES ASSUME NEW U \in SUBSET S
               PROVE  Total(f, S) = Total(f, U) + Total(f, S \ U) /\ Total(f, U) \in Int
    OBVIOUS
  <2>1. \A x \in S : f[x] \in Int
    OBVIOUS
  <2>2. Total(f, U) \in Int
    BY <2>1, TotalSplits
  <2>3. Total(f, S) = Total(f, U) + Total(f, S \ U)
    BY <2>1, TotalSplits
  <2> QED
    BY <2>2, <2>3
<1>3. Total(f, S) = Total(f, T) + Total(f, S \ T) /\ Total(f, T) \in Int
  BY <1>2
<1>4. Total(f, S \ T) = 0
  <2>1. IsFiniteSet(S \ T) /\ Cardinality(S \ T) \in Nat
    BY FS_Subset, FS_CardinalityType
  <2>2. Total(f, S \ T) = 0 * Cardinality(S \ T)
    BY <2>1, TotalOfConstant
  <2> QED
    BY <2>1, <2>2
<1> QED
  BY <1>3, <1>4

(* Terms all multiplied by k.                                              *)
LEMMA TotalTimes ==
    ASSUME NEW f, NEW g, NEW S, IsFiniteSet(S), NEW k \in Nat,
           \A x \in S : f[x] \in Nat /\ g[x] = k * f[x]
    PROVE  Total(g, S) = k * Total(f, S)
<1> DEFINE A == {T \in SUBSET S : Total(g, T) = k * Total(f, T)}
<1>1. {} \in A
  <2>1. Total(f, {}) = 0 /\ Total(g, {}) = 0 /\ k * 0 = 0
    BY TotalOfNone
  <2> QED
    BY <2>1
<1>2. ASSUME NEW T \in A, NEW x \in S, x \notin T
      PROVE  T \cup {x} \in A
  <2>1. \A y \in S : f[y] \in Nat /\ g[y] \in Nat
    BY Z3
  <2>2. /\ IsFiniteSet(T) /\ (\A y \in T \cup {x} : f[y] \in Int /\ g[y] \in Int)
        /\ \A y \in T : f[y] \in Nat
    BY <2>1, FS_Subset
  <2>3. Total(f, T \cup {x}) = f[x] + Total(f, T)
    BY <2>2, <1>2, TotalAdds
  <2>4. Total(g, T \cup {x}) = g[x] + Total(g, T)
    BY <2>2, <1>2, TotalAdds
  <2>5. Total(f, T) \in Nat
    BY <2>2, TotalIsNat
  <2> DEFINE t == Total(f, T)
             y == f[x]
  <2>6. Total(g, T) = k * t /\ g[x] = k * y /\ y \in Nat /\ t \in Nat
    BY <2>5
  <2> HIDE DEF t, y
  <2>7. k * (y + t) = k * y + k * t
    BY <2>6, Z3
  <2>8. k * y \in Nat /\ k * t \in Nat
    BY <2>6, Z3
  <2>9. Total(g, T \cup {x}) = k * (y + t)
    BY <2>4, <2>6, <2>7, <2>8
  <2>10. Total(f, T \cup {x}) = y + t
    BY <2>3 DEF t, y
  <2> QED
    BY <2>9, <2>10
<1>3. A \in SUBSET (SUBSET S)
  OBVIOUS
<1>4. A = SUBSET S
  <2> HIDE DEF A
  <2> QED
    BY <1>1, <1>2, <1>3, SubsetInduction
<1>5. S \in A
  BY <1>4
<1> QED
  BY <1>5
=============================================================================
