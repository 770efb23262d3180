-------------------------- MODULE RelayMeterProofs --------------------------
(***************************************************************************)
(* What the relay meter guarantees for any requests, any maximum and any   *)
(* chain of blocks.  The argument is a balance: what all the meters ever   *)
(* created have consumed is the number of relays that were charged less    *)
(* the number that were given their cost back, no relay is charged twice,  *)
(* and none is both rewarded and given its cost back.                      *)
(***************************************************************************)
EXTENDS RelayMeter, TotalsProofs

Progress ==
    [stage : Stages, served : BOOLEAN, verified : BOOLEAN, meter : Nat, over : BOOLEAN,
     metered : BOOLEAN, rewarded : BOOLEAN, refunded : BOOLEAN]

(* Before its metering a relay has no charge; it is given one back only as *)
(* its goroutine ends, and not if it was rewarded.  n meters exist.        *)
ProgressOk(r, x, n) ==
    /\ x.stage \in {"none", "lookup", "create", "meter"} => ~ x.metered
    /\ x.stage = "backend" /\ ~ x.verified => ~ x.metered
    /\ x.stage = "meter" => x.meter \in 1..n
    /\ x.refunded => x.stage = "done" /\ ~ x.rewarded
    /\ x.rewarded => x.stage = "done" \/ r \in WsRelays
    /\ r \in WsRelays =>
          x.stage \in {"none", "lookup", "create", "meter", "done"} /\ ~ x.refunded

Metered == {r \in Relays : relays[r].metered}
Refunded == {r \in Relays : relays[r].refunded}

AllConsumed == Total(consumed, 1..Len(consumed))

(* The inductive invariant.  Finitely many relays have been charged at any *)
(* time, though any number may arrive.                                     *)
RmInv ==
    /\ relays \in [Relays -> Progress]
    /\ consumed \in Seq(Nat) /\ \A m \in 1..Len(consumed) : consumed[m] <= MaxRelays
    /\ registered \in 0..Len(consumed)
    /\ \A r \in Relays : ProgressOk(r, relays[r], Len(consumed))
    /\ IsFiniteSet(Metered) /\ IsFiniteSet(Refunded)
    /\ AllConsumed = Cardinality(Metered) - Cardinality(Refunded)

-----------------------------------------------------------------------------
(* The meters' sum as meters are added, charged and credited.              *)
LEMMA ConsumedAfter ==
    ASSUME NEW c \in Seq(Nat), NEW d \in Seq(Nat)
    PROVE  /\ Total(c, 1..Len(c)) \in Nat
           /\ d = Append(c, 0) => Total(d, 1..Len(d)) = Total(c, 1..Len(c))
           /\ \A m \in 1..Len(c) :
                 Len(d) = Len(c) /\ (\A i \in 1..Len(c) : i # m => d[i] = c[i])
                   => Total(d, 1..Len(d)) = Total(c, 1..Len(c)) - c[m] + d[m]
<1> DEFINE n == Len(c)
           S == 1..n
<1>1. n \in Nat /\ IsFiniteSet(S)
  BY FS_Interval
<1>2. \A i \in S : c[i] \in Nat /\ c[i] \in Int
  OBVIOUS
<1>3. Total(c, S) \in Nat
  BY <1>1, <1>2, TotalIsNat
<1>4. ASSUME d = Append(c, 0)
      PROVE  Total(d, 1..Len(d)) = Total(c, S)
  <2>1. Len(d) = n + 1 /\ d[n + 1] = 0 /\ \A i \in S : d[i] = c[i]
    BY <1>4
  <2>2. 1..(n + 1) = S \cup {n + 1} /\ n + 1 \notin S
    BY <1>1
  <2>3. \A i \in S \cup {n + 1} : d[i] \in Int
    BY <1>2, <2>1
  <2>4. \A i \in S : c[i] \in Int /\ c[i] = d[i]
    BY <1>2, <2>1
  <2> HIDE DEF S, n
  <2>5. Total(d, S \cup {n + 1}) = d[n + 1] + Total(d, S)
    BY <1>1, <2>2, <2>3, TotalAdds
  <2>6. Total(c, S) = Total(d, S)
    BY <1>1, <2>4, TotalOfEquals
  <2>7. 1..Len(d) = S \cup {n + 1} /\ d[n + 1] = 0
    BY <2>1, <2>2
  <2>8. Total(d, S \cup {n + 1}) = Total(c, S)
    BY <1>3, <2>5, <2>6, <2>7
  <2> QED
    BY <2>7, <2>8
<1>5. ASSUME NEW m \in S, Len(d) = n, \A i \in S : i # m => d[i] = c[i]
      PROVE  Total(d, 1..Len(d)) = Total(c, S) - c[m] + d[m]
  <2>1. PICK x : x = m
    OBVIOUS
  <2>2. PICK T : T = S
    OBVIOUS
  <2>3. /\ IsFiniteSet(T) /\ x \in T
        /\ \A i \in T : c[i] \in Int /\ d[i] \in Int /\ (i # x => d[i] = c[i])
    BY <1>1, <1>2, <1>5, <2>1, <2>2
  <2>4. Total(d, T) = Total(c, T) - c[x] + d[x]
    BY <2>3, TotalChanges, SMTT(30)
  <2>5. 1..Len(d) = S
    BY <1>5
  <2> QED
    BY <2>1, <2>2, <2>4, <2>5
<1> QED
  BY <1>3, <1>4, <1>5

(* A step of one relay.                                                    *)
LEMMA RelayStepKeeps ==
    ASSUME RmInv, NEW r \in Relays, NEW x \in Progress,
           relays' = [relays EXCEPT ![r] = x],
           consumed' \in Seq(Nat), Len(consumed) <= Len(consumed'),
           \A m \in 1..Len(consumed') : consumed'[m] <= MaxRelays,
           registered' \in 0..Len(consumed'),
           ProgressOk(r, x, Len(consumed')),
           relays[r].metered => x.metered, relays[r].refunded => x.refunded,
           AllConsumed' = AllConsumed + (IF x.metered /\ ~ relays[r].metered THEN 1 ELSE 0)
                                      - (IF x.refunded /\ ~ relays[r].refunded THEN 1 ELSE 0)
    PROVE  RmInv'
<1>1. /\ relays' \in [Relays -> Progress] /\ relays'[r] = x
      /\ \A q \in Relays \ {r} : relays'[q] = relays[q]
  BY DEF RmInv
<1>2. Len(consumed) \in Nat /\ Len(consumed') \in Nat
  BY DEF RmInv
<1>3. \A q \in Relays : ProgressOk(q, relays'[q], Len(consumed'))
  <2> SUFFICES ASSUME NEW q \in Relays, q # r
               PROVE  ProgressOk(q, relays[q], Len(consumed'))
    BY <1>1
  <2>1. ProgressOk(q, relays[q], Len(consumed)) /\ relays[q] \in Progress
    BY DEF RmInv
  <2> QED
    BY <1>2, <2>1 DEF ProgressOk, Progress
<1>4. /\ Metered' = IF x.metered THEN Metered \cup {r} ELSE Metered
      /\ Refunded' = IF x.refunded THEN Refunded \cup {r} ELSE Refunded
      /\ (r \in Metered <=> relays[r].metered) /\ (r \in Refunded <=> relays[r].refunded)
  BY <1>1 DEF Metered, Refunded
<1>5. /\ IsFiniteSet(Metered) /\ IsFiniteSet(Refunded)
      /\ AllConsumed = Cardinality(Metered) - Cardinality(Refunded)
  BY DEF RmInv
<1>6. Cardinality(Metered) \in Nat /\ Cardinality(Refunded) \in Nat
  BY <1>5, FS_CardinalityType
<1>7. /\ IsFiniteSet(Metered')
      /\ Cardinality(Metered')
           = Cardinality(Metered) + (IF x.metered /\ ~ relays[r].metered THEN 1 ELSE 0)
  <2>1. /\ IsFiniteSet(Metered \cup {r})
        /\ r \notin Metered => Cardinality(Metered \cup {r}) = Cardinality(Metered) + 1
    BY <1>5, FS_AddElement
  <2>2. CASE x.metered /\ ~ relays[r].metered
    BY <1>4, <2>1, <2>2
  <2>3. CASE ~ (x.metered /\ ~ relays[r].metered)
    <3>1. Metered' = Metered
      BY <1>4, <2>3
    <3> QED
      BY <1>5, <1>6, <2>3, <3>1
  <2> QED
    BY <2>2, <2>3
<1>8. /\ IsFiniteSet(Refunded')
      /\ Cardinality(Refunded')
           = Cardinality(Refunded) + (IF x.refunded /\ ~ relays[r].refunded THEN 1 ELSE 0)
  <2>1. /\ IsFiniteSet(Refunded \cup {r})
        /\ r \notin Refunded => Cardinality(Refunded \cup {r}) = Cardinality(Refunded) + 1
    BY <1>5, FS_AddElement
  <2>2. CASE x.refunded /\ ~ relays[r].refunded
    BY <1>4, <2>1, <2>2
  <2>3. CASE ~ (x.refunded /\ ~ relays[r].refunded)
    <3>1. Refunded' = Refunded
      BY <1>4, <2>3
    <3> QED
      BY <1>5, <1>6, <2>3, <3>1
  <2> QED
    BY <2>2, <2>3
<1> DEFINE charge == IF x.metered /\ ~ relays[r].metered THEN 1 ELSE 0
           credit == IF x.refunded /\ ~ relays[r].refunded THEN 1 ELSE 0
<1>9. AllConsumed' = Cardinality(Metered') - Cardinality(Refunded')
  <2>1. charge \in Nat /\ credit \in Nat /\ AllConsumed' = AllConsumed + charge - credit
    OBVIOUS
  <2>2. /\ Cardinality(Metered') = Cardinality(Metered) + charge
        /\ Cardinality(Refunded') = Cardinality(Refunded) + credit
    BY <1>7, <1>8
  <2> HIDE DEF charge, credit
  <2> QED
    BY <1>5, <1>6, <2>1, <2>2
<1> QED
  BY <1>1, <1>3, <1>7, <1>8, <1>9 DEF RmInv

(* A step of one relay that no meter takes part in.                        *)
LEMMA QuietStepKeeps ==
    ASSUME RmInv, NEW r \in Relays, NEW x \in Progress, Become(r, x),
           ProgressOk(r, x, Len(consumed)),
           x.metered = relays[r].metered, x.refunded = relays[r].refunded,
           UNCHANGED <<consumed, registered>>
    PROVE  RmInv'
<1> DEFINE y == IF x.stage \in {"refund", "done"}
                THEN [x EXCEPT !.served = FALSE, !.verified = FALSE, !.meter = 0, !.over = FALSE]
                ELSE x
<1>1. relays' = [relays EXCEPT ![r] = y]
  BY DEF Become
<1>2. /\ y \in Progress /\ y.stage = x.stage /\ y.metered = x.metered
      /\ y.refunded = x.refunded /\ y.rewarded = x.rewarded
      /\ (x.stage \in {"meter", "backend"} => y = x)
  BY DEF Progress
<1>3. ProgressOk(r, y, Len(consumed))
  BY <1>2 DEF ProgressOk
<1>4. AllConsumed' = AllConsumed /\ AllConsumed \in Nat
  BY ConsumedAfter DEF AllConsumed, RmInv
<1>5. Len(consumed) \in Nat
  BY DEF RmInv
<1> HIDE DEF y
<1>6. AllConsumed' = AllConsumed + (IF y.metered /\ ~ relays[r].metered THEN 1 ELSE 0)
                                 - (IF y.refunded /\ ~ relays[r].refunded THEN 1 ELSE 0)
  BY <1>2, <1>4
<1>7. /\ consumed' \in Seq(Nat) /\ consumed' = consumed
      /\ \A m \in 1..Len(consumed') : consumed'[m] <= MaxRelays
      /\ registered' \in 0..Len(consumed')
  BY DEF RmInv
<1>8. Len(consumed') = Len(consumed) /\ Len(consumed) <= Len(consumed')
  BY <1>5, <1>7
<1>9. ProgressOk(r, y, Len(consumed'))
  BY <1>3, <1>7
<1>10. relays[r].metered => y.metered
  BY <1>2
<1>11. relays[r].refunded => y.refunded
  BY <1>2
<1> QED
  BY <1>1, <1>2, <1>6, <1>7, <1>8, <1>9, <1>10, <1>11, RelayStepKeeps

(* The state of one relay.                                                 *)
LEMMA OneRelay ==
    ASSUME RmInv, NEW r \in Relays
    PROVE  /\ relays[r] \in Progress /\ ProgressOk(r, relays[r], Len(consumed))
           /\ consumed \in Seq(Nat) /\ Len(consumed) \in Nat
           /\ \A m \in 1..Len(consumed) : consumed[m] <= MaxRelays /\ consumed[m] \in Nat
           /\ registered \in 0..Len(consumed)
BY DEF RmInv

-----------------------------------------------------------------------------
(* Metering.                                                               *)

(* The stages metering leads to.                                           *)
LEMMA AfterMeteringIs ==
    ASSUME NEW r, NEW over
    PROVE  /\ AfterMetering(r, over) \in {"verify", "refund", "done"}
           /\ r \in WsRelays => AfterMetering(r, over) = "done"
BY DEF AfterMetering

(* Consuming a relay moves its meter and the relay's stage together.       *)
LEMMA MeteringKeeps ==
    ASSUME RmInv, NEW r \in Relays, Metering(r)
    PROVE  RmInv'
<1> DEFINE z == relays[r]
           n == Len(consumed)
<1>1. /\ z \in Progress /\ ProgressOk(r, z, n) /\ consumed \in Seq(Nat) /\ n \in Nat
      /\ \A m \in 1..n : consumed[m] <= MaxRelays /\ consumed[m] \in Nat
      /\ registered \in 0..n
  BY OneRelay
<1>2. CASE LookUp(r)
  <2> DEFINE x == [z EXCEPT !.stage = IF registered = 0 THEN "create" ELSE "meter",
                            !.meter = registered]
  <2>1. z.stage = "lookup" /\ Become(r, x) /\ UNCHANGED <<consumed, registered>>
    BY <1>2 DEF LookUp, At
  <2>2. /\ registered \in Nat
        /\ (IF registered = 0 THEN "create" ELSE "meter") \in Stages
    BY <1>1 DEF Stages
  <2>3. x \in Progress /\ x.metered = z.metered /\ x.refunded = z.refunded
    BY <1>1, <2>2 DEF Progress
  <2>4. ProgressOk(r, x, n)
    BY <1>1, <2>1 DEF ProgressOk, Progress
  <2> HIDE DEF x
  <2> QED
    BY <2>1, <2>3, <2>4, QuietStepKeeps
<1>3. CASE CreateMeter(r)
  <2> DEFINE x == [z EXCEPT !.stage = "meter", !.meter = Len(consumed')]
  <2>1. /\ z.stage = "create" /\ consumed' = Append(consumed, 0)
        /\ registered' = Len(consumed') /\ Become(r, x)
    BY <1>3 DEF CreateMeter, At
  <2>2. /\ consumed' \in Seq(Nat) /\ Len(consumed') = n + 1 /\ consumed'[n + 1] = 0
        /\ \A m \in 1..n : consumed'[m] = consumed[m]
    BY <1>1, <2>1
  <2>3. /\ x \in Progress /\ x.stage = "meter" /\ x.meter = n + 1 /\ x.metered = z.metered
        /\ x.refunded = z.refunded /\ x.rewarded = z.rewarded
    <3>1. Len(consumed') = n + 1 /\ n + 1 \in Nat /\ "meter" \in Stages
      BY <1>1, <2>2 DEF Stages
    <3> QED
      BY <1>1, <3>1 DEF Progress
  <2> HIDE DEF x
  <2>4. relays' = [relays EXCEPT ![r] = x]
    BY <2>1, <2>3 DEF Become
  <2>5. ProgressOk(r, x, Len(consumed'))
    BY <1>1, <2>1, <2>2, <2>3 DEF ProgressOk
  <2>6. \A m \in 1..Len(consumed') : consumed'[m] <= MaxRelays
    BY <1>1, <2>2, RelayMeterAssumption, SMTT(30)
  <2>7. AllConsumed' = AllConsumed /\ AllConsumed \in Nat
    BY <1>1, <2>1, <2>2, ConsumedAfter DEF AllConsumed
  <2>8. registered' \in 0..Len(consumed') /\ Len(consumed) <= Len(consumed')
    BY <1>1, <2>1, <2>2
  <2>9. AllConsumed' = AllConsumed + (IF x.metered /\ ~ relays[r].metered THEN 1 ELSE 0)
                                   - (IF x.refunded /\ ~ relays[r].refunded THEN 1 ELSE 0)
    BY <2>3, <2>7
  <2> QED
    BY <2>2, <2>3, <2>4, <2>5, <2>6, <2>8, <2>9, RelayStepKeeps
<1>4. CASE MeteringFails(r)
  <2> DEFINE next == AfterMetering(r, FALSE)
             x == [z EXCEPT !.stage = next]
  <2>1. z.stage \in {"create", "meter"} /\ Become(r, x) /\ UNCHANGED <<consumed, registered>>
    BY <1>4 DEF MeteringFails, Goto, At
  <2>2. next \in {"verify", "refund", "done"} /\ (r \in WsRelays => next = "done")
    BY AfterMeteringIs
  <2> HIDE DEF next
  <2>3. /\ x \in Progress /\ x.stage = next /\ x.metered = z.metered
        /\ x.refunded = z.refunded /\ x.rewarded = z.rewarded
    BY <1>1, <2>2 DEF Progress, Stages
  <2> HIDE DEF x
  <2>4. ProgressOk(r, x, n)
    BY <1>1, <2>1, <2>2, <2>3 DEF ProgressOk
  <2> QED
    BY <2>1, <2>3, <2>4, QuietStepKeeps
<1>5. CASE Meter(r)
  <2> DEFINE m == z.meter
             over == consumed[m] + 1 > MaxRelays
             next == AfterMetering(r, over)
             x == [z EXCEPT !.stage = next, !.over = over, !.metered = ~ over]
             y == IF x.stage \in {"refund", "done"}
                  THEN [x EXCEPT !.served = FALSE, !.verified = FALSE, !.meter = 0,
                                 !.over = FALSE]
                  ELSE x
  <2>1. /\ z.stage = "meter" /\ relays' = [relays EXCEPT ![r] = y]
        /\ consumed' = IF over THEN consumed ELSE [consumed EXCEPT ![m] = @ + 1]
        /\ registered' = registered
    BY <1>5 DEF Meter, At, Become
  <2>2. next \in {"verify", "refund", "done"} /\ (r \in WsRelays => next = "done")
    BY AfterMeteringIs
  <2>3. over \in BOOLEAN
    OBVIOUS
  <2>4. m \in 1..n /\ consumed[m] \in Nat
    BY <1>1, <2>1 DEF ProgressOk
  <2>5. /\ consumed' \in Seq(Nat) /\ Len(consumed') = n
        /\ \A i \in 1..n : i # m => consumed'[i] = consumed[i]
        /\ consumed'[m] = IF over THEN consumed[m] ELSE consumed[m] + 1
    BY <1>1, <2>1, <2>4
  <2>6. \A i \in 1..Len(consumed') : consumed'[i] <= MaxRelays
    <3>1. consumed'[m] <= MaxRelays
      BY <1>1, <2>4, <2>5, RelayMeterAssumption
    <3>2. \A i \in 1..n : i # m => consumed'[i] <= MaxRelays
      BY <1>1, <2>5
    <3> QED
      BY <2>5, <3>1, <3>2
  <2> HIDE DEF next, over
  <2>7. /\ y \in Progress /\ y.stage = next /\ y.metered = ~ over
        /\ y.refunded = z.refunded /\ y.rewarded = z.rewarded
    BY <1>1, <2>2, <2>3 DEF Progress, Stages
  <2> HIDE DEF x, y
  <2>8. ProgressOk(r, y, Len(consumed'))
    BY <1>1, <2>1, <2>2, <2>7 DEF ProgressOk
  <2>9. AllConsumed' = AllConsumed - consumed[m] + consumed'[m] /\ AllConsumed \in Nat
    BY <1>1, <2>4, <2>5, ConsumedAfter DEF AllConsumed
  <2>10. ~ z.metered
    BY <1>1, <2>1 DEF ProgressOk
  <2>11. AllConsumed' = AllConsumed + (IF y.metered /\ ~ relays[r].metered THEN 1 ELSE 0)
                                    - (IF y.refunded /\ ~ relays[r].refunded THEN 1 ELSE 0)
    <3>1. y.metered /\ ~ relays[r].metered <=> ~ over
      BY <2>7, <2>10
    <3>2. ~ (y.refunded /\ ~ relays[r].refunded)
      BY <2>7
    <3>3. CASE over
      <4>1. consumed'[m] = consumed[m]
        BY <2>5, <3>3
      <4> QED
        BY <2>4, <2>9, <3>1, <3>2, <3>3, <4>1
    <3>4. CASE ~ over
      <4>1. consumed'[m] = consumed[m] + 1
        BY <2>5, <3>4
      <4> QED
        BY <2>4, <2>9, <3>1, <3>2, <3>4, <4>1
    <3> QED
      BY <3>3, <3>4
  <2>12. registered' \in 0..Len(consumed') /\ Len(consumed) <= Len(consumed')
    BY <1>1, <2>1, <2>5
  <2>13. relays[r].metered => y.metered
    BY <2>10
  <2>14. relays[r].refunded => y.refunded
    BY <2>7
  <2> QED
    BY <2>1, <2>5, <2>6, <2>7, <2>8, <2>11, <2>12, <2>13, <2>14, RelayStepKeeps
<1> QED
  BY <1>2, <1>3, <1>4, <1>5 DEF Metering

-----------------------------------------------------------------------------
(* Serving.                                                                *)
LEMMA ServingKeeps ==
    ASSUME RmInv, NEW r \in Relays, Serving(r) \/ WsMessage(r)
    PROVE  RmInv'
<1> DEFINE z == relays[r]
           n == Len(consumed)
<1>1. /\ z \in Progress /\ ProgressOk(r, z, n) /\ consumed \in Seq(Nat) /\ n \in Nat
      /\ \A m \in 1..n : consumed[m] <= MaxRelays /\ consumed[m] \in Nat
      /\ registered \in 0..n
  BY OneRelay
<1>2. ASSUME NEW next \in Stages, Become(r, [z EXCEPT !.stage = next]),
             UNCHANGED <<consumed, registered>>,
             next # "meter", ~ z.refunded, r \notin WsRelays \/ next = "done",
             z.rewarded => next = "done", z.metered => next \in {"emit", "refund", "done"}
      PROVE  RmInv'
  <2> DEFINE x == [z EXCEPT !.stage = next]
  <2>1. /\ x \in Progress /\ x.stage = next /\ x.metered = z.metered
        /\ x.refunded = z.refunded /\ x.rewarded = z.rewarded
    BY <1>1 DEF Progress
  <2> HIDE DEF x
  <2>2. ProgressOk(r, x, n)
    BY <1>1, <1>2, <2>1 DEF ProgressOk
  <2>3. Become(r, x)
    BY <1>2 DEF x
  <2> QED
    BY <1>2, <2>1, <2>2, <2>3, QuietStepKeeps
<1>3. CASE Arrive(r)
  <2> DEFINE next == IF known \/ mode.eager THEN "lookup" ELSE "backend"
  <2>1. /\ r \notin WsRelays /\ z.stage = "none" /\ Become(r, [z EXCEPT !.stage = next])
        /\ UNCHANGED <<consumed, registered>> /\ next \in Stages /\ next # "meter"
    BY <1>3, RelayMeterAssumption DEF Arrive, At, Goto, Stages
  <2>2. ~ z.refunded /\ ~ z.rewarded /\ ~ z.metered
    BY <1>1, <2>1 DEF ProgressOk
  <2> HIDE DEF next
  <2> QED
    BY <1>2, <2>1, <2>2
<1>4. CASE Verified(r)
  <2> DEFINE next == IF z.served THEN "emit" ELSE "backend"
             x == [z EXCEPT !.verified = TRUE, !.stage = next]
  <2>1. z.stage = "verify" /\ Become(r, x) /\ UNCHANGED <<consumed, registered>>
    BY <1>4 DEF Verified, At
  <2>2. next \in {"emit", "backend"}
    OBVIOUS
  <2> HIDE DEF next
  <2>3. /\ x \in Progress /\ x.stage = next /\ x.metered = z.metered /\ x.verified
        /\ x.refunded = z.refunded /\ x.rewarded = z.rewarded
    BY <1>1, <2>2 DEF Progress, Stages
  <2> HIDE DEF x
  <2>4. ProgressOk(r, x, n)
    BY <1>1, <2>1, <2>2, <2>3 DEF ProgressOk
  <2> QED
    BY <2>1, <2>3, <2>4, QuietStepKeeps
<1>5. CASE Refused(r) \/ BackendFails(r) \/ Drop(r)
  <2>1. /\ z.stage \in {"verify", "backend", "emit"} /\ Become(r, [z EXCEPT !.stage = "refund"])
        /\ UNCHANGED <<consumed, registered>>
    BY <1>5 DEF Refused, BackendFails, Drop, At, Goto
  <2>2. ~ z.refunded /\ ~ z.rewarded /\ r \notin WsRelays
    BY <1>1, <2>1 DEF ProgressOk
  <2> QED
    BY <1>2, <2>1, <2>2 DEF Stages
<1>6. CASE Respond(r)
  <2> DEFINE next == IF z.verified THEN "emit" ELSE "lookup"
             x == [z EXCEPT !.served = TRUE, !.stage = next]
  <2>1. z.stage = "backend" /\ Become(r, x) /\ UNCHANGED <<consumed, registered>>
    BY <1>6 DEF Respond, At
  <2>2. next \in {"emit", "lookup"} /\ (next = "lookup" => ~ z.verified)
    OBVIOUS
  <2> HIDE DEF next
  <2>3. /\ x \in Progress /\ x.stage = next /\ x.metered = z.metered
        /\ x.refunded = z.refunded /\ x.rewarded = z.rewarded
    BY <1>1, <2>2 DEF Progress, Stages
  <2> HIDE DEF x
  <2>4. ProgressOk(r, x, n)
    BY <1>1, <2>1, <2>2, <2>3 DEF ProgressOk
  <2> QED
    BY <2>1, <2>3, <2>4, QuietStepKeeps
<1>7. CASE Emit(r) \/ WsMessage(r)
  <2> DEFINE next == IF Emit(r) THEN "done" ELSE "lookup"
             x == [z EXCEPT !.stage = next, !.rewarded = TRUE]
  <2>1. /\ Become(r, x) /\ UNCHANGED <<consumed, registered>>
        /\ (next = "done" => z.stage = "emit")
        /\ (next = "lookup" => z.stage = "none" /\ r \in WsRelays)
    BY <1>7 DEF Emit, WsMessage, At
  <2>2. next \in {"done", "lookup"}
    OBVIOUS
  <2> HIDE DEF next
  <2>3. /\ x \in Progress /\ x.stage = next /\ x.metered = z.metered
        /\ x.refunded = z.refunded /\ x.rewarded
    BY <1>1, <2>2 DEF Progress, Stages
  <2> HIDE DEF x
  <2>4. ProgressOk(r, x, n)
    BY <1>1, <2>1, <2>2, <2>3 DEF ProgressOk
  <2> QED
    BY <2>1, <2>3, <2>4, QuietStepKeeps
<1>8. CASE Refund(r)
  <2> DEFINE m == registered
             x == [z EXCEPT !.stage = "done", !.refunded = TRUE]
             y == [x EXCEPT !.served = FALSE, !.verified = FALSE, !.meter = 0,
                            !.over = FALSE]
  <2>1. /\ z.stage = "refund" /\ registered # 0 /\ consumed[m] > 0
        /\ consumed' = [consumed EXCEPT ![m] = @ - 1] /\ registered' = registered
        /\ Become(r, x)
    BY <1>8 DEF Refund, GivesBack, At
  <2>2. m \in 1..n /\ consumed[m] \in Nat
    BY <1>1, <2>1
  <2>3. /\ consumed' \in Seq(Nat) /\ Len(consumed') = n
        /\ \A i \in 1..n : i # m => consumed'[i] = consumed[i]
        /\ consumed'[m] = consumed[m] - 1 /\ consumed[m] - 1 \in Nat
    BY <1>1, <2>1, <2>2
  <2>4. x.stage = "done"
    BY <1>1 DEF Progress
  <2>5. relays' = [relays EXCEPT ![r] = y]
    BY <2>1, <2>4 DEF Become
  <2>6. /\ y \in Progress /\ y.stage = "done" /\ y.metered = z.metered
        /\ y.refunded /\ y.rewarded = z.rewarded
    BY <1>1 DEF Progress, Stages
  <2> HIDE DEF x, y
  <2>7. ~ z.refunded /\ ~ z.rewarded /\ r \notin WsRelays
    BY <1>1, <2>1 DEF ProgressOk
  <2>8. ProgressOk(r, y, Len(consumed'))
    BY <2>6, <2>7 DEF ProgressOk
  <2>9. \A i \in 1..Len(consumed') : consumed'[i] <= MaxRelays
    <3>1. consumed'[m] <= MaxRelays
      BY <1>1, <2>2, <2>3, RelayMeterAssumption
    <3>2. \A i \in 1..n : i # m => consumed'[i] <= MaxRelays
      BY <1>1, <2>3
    <3> QED
      BY <2>3, <3>1, <3>2
  <2>10. AllConsumed' = AllConsumed - consumed[m] + consumed'[m] /\ AllConsumed \in Nat
    BY <1>1, <2>2, <2>3, ConsumedAfter DEF AllConsumed
  <2>11. AllConsumed' = AllConsumed + (IF y.metered /\ ~ relays[r].metered THEN 1 ELSE 0)
                                    - (IF y.refunded /\ ~ relays[r].refunded THEN 1 ELSE 0)
    BY <2>2, <2>3, <2>6, <2>7, <2>10
  <2>12. registered' \in 0..Len(consumed') /\ Len(consumed) <= Len(consumed')
    BY <1>1, <2>1, <2>3
  <2> QED
    BY <2>3, <2>5, <2>6, <2>8, <2>9, <2>11, <2>12, RelayStepKeeps
<1>9. CASE NoRefund(r)
  <2>1. /\ z.stage = "refund" /\ Become(r, [z EXCEPT !.stage = "done"])
        /\ UNCHANGED <<consumed, registered>>
    BY <1>9 DEF NoRefund, At, Goto
  <2>2. ~ z.refunded
    BY <1>1, <2>1 DEF ProgressOk
  <2> QED
    BY <1>2, <2>1, <2>2 DEF Stages
<1> QED
  BY <1>3, <1>4, <1>5, <1>6, <1>7, <1>8, <1>9 DEF Serving

-----------------------------------------------------------------------------
(* Results. *)

(* At the start nothing has been served or metered.                        *)
LEMMA RmInitInv == RmInit => RmInv
<1> SUFFICES ASSUME RmInit
             PROVE  RmInv
  OBVIOUS
<1>1. /\ consumed = <<>> /\ registered = 0 /\ relays = [r \in Relays |-> NewRelay]
      /\ NewRelay.stage = "none" /\ ~ NewRelay.metered /\ ~ NewRelay.refunded
      /\ ~ NewRelay.rewarded /\ NewRelay \in Progress
  BY DEF RmInit, NewRelay, Progress, Stages
<1>2. Metered = {} /\ Refunded = {}
  BY <1>1 DEF Metered, Refunded
<1>3. AllConsumed = 0
  <2>1. 1..Len(consumed) = {}
    BY <1>1
  <2> QED
    BY <2>1, TotalOfNone DEF AllConsumed
<1>4. \A r \in Relays : ProgressOk(r, relays[r], Len(consumed))
  BY <1>1 DEF ProgressOk
<1>5. consumed \in Seq(Nat) /\ Len(consumed) = 0
  BY <1>1
<1> QED
  BY <1>1, <1>2, <1>3, <1>4, <1>5, FS_EmptySet DEF RmInv

(* Every step keeps the meters in balance.                                 *)
LEMMA RmStepKeeps == RmInv /\ [RmNext]_rmVars => RmInv'
<1> SUFFICES ASSUME RmInv, [RmNext]_rmVars
             PROVE  RmInv'
  OBVIOUS
<1>1. ASSUME UNCHANGED <<relays, consumed>>, registered' \in {0, registered}
      PROVE  RmInv'
  <2>1. UNCHANGED <<Metered, Refunded, AllConsumed>>
    BY <1>1 DEF Metered, Refunded, AllConsumed
  <2> QED
    BY <1>1, <2>1 DEF RmInv
<1>2. CASE NewBlock \/ PruneMeters \/ PruneKnownSessions \/ UNCHANGED rmVars
  BY <1>1, <1>2 DEF NewBlock, PruneMeters, PruneKnownSessions, rmVars
<1> QED
  BY <1>2, MeteringKeeps, ServingKeeps DEF RmNext

(* The balance of the meters holds through every interleaving of lookups,  *)
(* creations, charges, refunds and prunings.                               *)
THEOREM MetersBalance == RmSpec => []RmInv
BY RmInitInv, RmStepKeeps, PTL DEF RmSpec

(* Relays that consumed their cost go to the miner no more often than the  *)
(* meters allow, but for one relay each time a relay that no meter had     *)
(* charged is given its cost back.                                         *)
THEOREM RewardsFitMeters == RmSpec => []RewardedRelaysFitTheirMeters
<1>1. ASSUME RmInv
      PROVE  RewardedRelaysFitTheirMeters
  <2> DEFINE M == Metered
             F == Refunded
             R == {r \in Relays : relays[r].rewarded /\ relays[r].metered}
             G == {r \in Relays : relays[r].refunded /\ ~ relays[r].metered}
             n == Len(consumed)
  <2>1. IsFiniteSet(M) /\ IsFiniteSet(F) /\ AllConsumed = Cardinality(M) - Cardinality(F)
    BY <1>1 DEF RmInv
  <2>2. AllConsumed <= MaxRelays * n /\ AllConsumed \in Nat /\ MaxRelays * n \in Nat
    <3>1. /\ consumed \in Seq(Nat) /\ n \in Nat /\ MaxRelays \in Nat
          /\ \A m \in 1..n : consumed[m] \in Nat /\ consumed[m] <= MaxRelays
      BY <1>1, RelayMeterAssumption DEF RmInv
    <3>2. IsFiniteSet(1..n) /\ Cardinality(1..n) = n
      <4>1. 1 \in Int /\ n \in Int /\ n - 1 + 1 = n /\ (1 > n => n = 0)
        BY <3>1
      <4> HIDE DEF n
      <4>2. /\ IsFiniteSet(1..n)
            /\ Cardinality(1..n) = IF 1 > n THEN 0 ELSE n - 1 + 1
        BY <4>1, FS_Interval
      <4> QED
        BY <4>1, <4>2
    <3> HIDE DEF n
    <3>3. Total(consumed, 1..n) <= MaxRelays * n
      BY <3>1, <3>2, TotalIsBounded
    <3>4. MaxRelays * n \in Nat
      BY <3>1, Z3
    <3>5. Total(consumed, 1..n) \in Nat
      BY <3>1, ConsumedAfter DEF n
    <3> QED
      BY <3>3, <3>4, <3>5 DEF AllConsumed, n
  <2>3. /\ R \in SUBSET M /\ G \in SUBSET F /\ M \cap F \in SUBSET M
        /\ R \cap F = {} /\ F \ G = M \cap F
    BY <1>1 DEF RmInv, ProgressOk, Metered, Refunded
  <2> HIDE DEF M, F, R, G, n
  <2>4. /\ IsFiniteSet(R) /\ IsFiniteSet(G) /\ IsFiniteSet(M \cap F)
        /\ Cardinality(R) \in Nat /\ Cardinality(G) \in Nat /\ Cardinality(M \cap F) \in Nat
        /\ Cardinality(M) \in Nat /\ Cardinality(F) \in Nat
    BY <2>1, <2>3, FS_Subset, FS_CardinalityType
  <2>5. Cardinality(R) + Cardinality(M \cap F) <= Cardinality(M)
    <3>1. R \cap (M \cap F) = {} /\ R \cup (M \cap F) \in SUBSET M
      BY <2>3
    <3>2. Cardinality(R \cup (M \cap F)) = Cardinality(R) + Cardinality(M \cap F)
                                             - Cardinality(R \cap (M \cap F))
      BY <2>4, FS_Union
    <3>3. Cardinality(R \cap (M \cap F)) = 0
      BY <3>1, FS_EmptySet
    <3>4. Cardinality(R \cup (M \cap F)) <= Cardinality(M)
      BY <2>1, <3>1, FS_Subset
    <3> QED
      BY <2>4, <3>2, <3>3, <3>4
  <2>6. Cardinality(F) = Cardinality(G) + Cardinality(M \cap F)
    <3>1. F = G \cup (M \cap F) /\ G \cap (M \cap F) = {}
      BY <2>3
    <3>2. Cardinality(G \cup (M \cap F)) = Cardinality(G) + Cardinality(M \cap F)
                                             - Cardinality(G \cap (M \cap F))
      BY <2>4, FS_Union
    <3>3. Cardinality(G \cap (M \cap F)) = 0
      BY <3>1, FS_EmptySet
    <3>4. Cardinality(F) = Cardinality(G \cup (M \cap F))
      BY <3>1
    <3> QED
      BY <2>4, <3>2, <3>3, <3>4
  <2>7. Cardinality(R) <= MaxRelays * n + Cardinality(G)
    BY <2>1, <2>2, <2>4, <2>5, <2>6
  <2> QED
    BY <2>7 DEF RewardedRelaysFitTheirMeters, R, G, n
<1> QED
  BY <1>1, MetersBalance, PTL
=============================================================================
