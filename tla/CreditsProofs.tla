---------------------------- MODULE CreditsProofs ----------------------------
(***************************************************************************)
(* Prepayments and credits, for any number of credits, users, instalments  *)
(* and concurrent requests, any plan and any amount.                       *)
(* First what the operators of Prepayment make of a plan: the plan is seen *)
(* as a function from 1..n, its debt as a sum, and each walk over it by    *)
(* induction on the instalments, which is the minimality of a              *)
(* counterexample (SumTheorems). PrepaidPlan follows from these lemmas.    *)
(*                                                                         *)
(* Then Credits. ControlInv says which locks a transaction holds at which  *)
(* statement; it alone shows that OnlyPrepaymentsDeadlock. Judged says     *)
(* what each transaction has found out under its locks, and ScheduleOK     *)
(* what holds of every credit between the writes. CreditsInv, the          *)
(* conjunction, is inductive: a step that writes no row is one of          *)
(* QuietStep, one on an account of AccountStep, and one that writes a      *)
(* credit of CreditStep, which leaves a single schedule and the balance to *)
(* look at.                                                                *)
(***************************************************************************)
EXTENDS Credits, PrepaidPlan, SumTheorems, SequenceTheorems

----------------------------------------------------------------------------
(* Plans and prepayments.                                                  *)

(* A plan as the prover sees it: the amounts of n instalments.             *)
LEMMA PlanLength ==
    ASSUME NEW n \in Nat, NEW S, NEW plan \in [1..n -> S]
    PROVE  plan \in Seq(S) /\ Len(plan) = n /\ DOMAIN plan = 1..n
  OBVIOUS

(* The walk over the pending instalments adds up their amounts.            *)
LEMMA OutstandingIsSum ==
    ASSUME NEW n \in Nat, NEW plan \in [1..n -> Nat]
    PROVE  /\ Outstanding(plan) = SumFunctionOnSet(plan, 1..n)
           /\ Outstanding(plan) \in Nat
  <1> DEFINE D == 1..n
             Body(it) == [s \in SUBSET D |-> IF s = {} THEN 0
                              ELSE it[s \ {Max(s)}] + plan[Max(s)]]
             add == [i \in D |-> [y \in Int |-> y + plan[i]]]
  <1>1. DOMAIN plan = D /\ Summable(plan, D)
    BY FS_Interval DEF Summable
  <1>2. \A s \in SUBSET D : s # {} => Max(s) \in s
    BY LargestNumber
  <1>3. PICK it \in [SUBSET D -> Int] : \A s \in SUBSET D :
            it[s] = IF s = {} THEN 0 ELSE add[Max(s)][it[s \ {Max(s)}]]
    <2>1. \A i \in 1..n, y \in Int : add[i][y] \in Int
      OBVIOUS
    <2> HIDE DEF add
    <2>2. \E it \in [SUBSET (1..n) -> Int] : \A s \in SUBSET (1..n) :
              it[s] = IF s = {} THEN 0 ELSE add[Max(s)][it[s \ {Max(s)}]]
      <3>1. Walkable(n, Int, 0, add)
        BY <2>1 DEF Walkable
      <3>2. PICK it : Walked(it, n, Int, 0, add)
        BY <3>1, FoldOnMax
      <3>3. QED
        BY <3>2 DEF Walked
    <2>3. QED
      BY <2>2
  <1>4. it = Body(it)
    BY <1>2, <1>3
  <1> DEFINE walk == CHOOSE i : i = Body(i)
  <1>5. walk = Body(walk)
    BY <1>4, Zenon
  <1>6. Outstanding(plan) = walk[D]
    BY <1>1 DEF Outstanding, FoldLeft, MapThenFoldSet
  <1> HIDE DEF walk
  <1> DEFINE Bad == {s \in SUBSET D : walk[s] # SumFunctionOnSet(plan, s)}
  <1>7. ASSUME Bad # {}
        PROVE  FALSE
    <2>1. FiniteFamily(Bad, D)
      BY <1>1, <1>7, FS_Subset DEF FiniteFamily, Summable
    <2>2. PICK s \in Bad : \A u \in Bad : u \subseteq s => u = s
      <3> HIDE DEF Bad
      <3>1. QED
        BY <2>1, SmallestSet
    <2>3. s # {}
      BY <1>5, SumEmpty
    <2>4. Max(s) \in s /\ s \in SUBSET D
      BY <1>2, <2>3
    <2>5. walk[s \ {Max(s)}] = SumFunctionOnSet(plan, s \ {Max(s)})
      BY <2>2, <2>4
    <2>6. walk[s] = walk[s \ {Max(s)}] + plan[Max(s)]
      BY <1>5, <2>3, <2>4
    <2>7. Summable(plan, s) /\ Summable(plan, s \ {Max(s)})
      BY <1>1, <2>4, SummablePart
    <2>8. SumFunctionOnSet(plan, s) = plan[Max(s)] + SumFunctionOnSet(plan, s \ {Max(s)})
      BY <2>4, <2>7, SumRemove
    <2>9. SumFunctionOnSet(plan, s \ {Max(s)}) \in Int /\ plan[Max(s)] \in Int
      <3>1. SumFunctionOnSet(plan, s \ {Max(s)}) \in Int
        BY <2>7, SumInt
      <3>2. Max(s) \in 1..n
        BY <2>4
      <3>3. QED
        BY <3>1, <3>2
    <2>10. walk[s] # SumFunctionOnSet(plan, s)
      OBVIOUS
    <2>11. QED
      BY <2>5, <2>6, <2>8, <2>9, <2>10
  <1>8. walk[D] = SumFunctionOnSet(plan, D)
    BY <1>7
  <1>9. SumFunctionOnSet(plan, D) \in Nat
    BY <1>1, SumNat
  <1>10. QED
    BY <1>6, <1>8, <1>9

(* A plan whose amounts are differences has the difference of the ends     *)
(* outstanding.                                                            *)
LEMMA OutstandingTelescopes ==
    ASSUME NEW n \in Nat, NEW plan \in [1..n -> Nat],
           NEW h, \A i \in 0..n : h[i] \in Int, \A i \in 1..n : plan[i] = h[i] - h[i - 1]
    PROVE  Outstanding(plan) = h[n] - h[0]
  BY OutstandingIsSum, SumTelescope

(* The walk backwards of applyReduceTermPrepayment: what is left of the    *)
(* prepayment when it comes to each instalment.                            *)
Walk(left, plan, n, prepaid) ==
    \A i \in 1..n :
        left[i] = IF i = n THEN prepaid
                  ELSE IF left[i + 1] >= plan[i + 1] THEN left[i + 1] - plan[i + 1] ELSE 0

(* What the instalments from the first to the i-th add up to.              *)
Upto(plan, i) == SumFunctionOnSet(plan, 1..i)

(* These sums grow by one amount at a time.                                *)
LEMMA UptoStep ==
    ASSUME NEW n \in Nat, NEW plan \in [1..n -> Nat]
    PROVE  /\ Upto(plan, 0) = 0
           /\ \A i \in 0..n : Upto(plan, i) \in Nat
           /\ \A i \in 1..n : Upto(plan, i) = Upto(plan, i - 1) + plan[i]
  <1>1. Upto(plan, 0) = 0
    <2>1. 1..0 = {}
      OBVIOUS
    <2>2. QED
      BY <2>1, SumEmpty DEF Upto
  <1>2. ASSUME NEW i \in 0..n PROVE Summable(plan, 1..i) /\ Upto(plan, i) \in Nat
    <2>1. Summable(plan, 1..i)
      BY FS_Interval DEF Summable
    <2>2. \A j \in 1..i : plan[j] \in Nat
      OBVIOUS
    <2>3. QED
      BY <2>1, <2>2, SumNat DEF Upto
  <1>3. ASSUME NEW i \in 1..n PROVE Upto(plan, i) = Upto(plan, i - 1) + plan[i]
    <2>1. (1..i) \ {i} = 1..(i - 1) /\ i \in 1..i /\ i \in 0..n /\ i - 1 \in 0..n
      OBVIOUS
    <2>2. SumFunctionOnSet(plan, 1..i) = plan[i] + SumFunctionOnSet(plan, (1..i) \ {i})
      BY <1>2, <2>1, SumRemove
    <2>3. Upto(plan, i) = plan[i] + Upto(plan, i - 1) /\ plan[i] \in Nat /\ Upto(plan, i - 1) \in Nat
      BY <1>2, <2>1, <2>2 DEF Upto
    <2>4. QED
      BY <2>3
  <1>4. QED
    BY <1>1, <1>2, <1>3

(* ReduceTerm computes what the walk leaves over.                          *)
LEMMA ReduceTermWalks ==
    ASSUME NEW n \in Nat, NEW plan \in [1..n -> Nat], NEW prepaid \in Nat,
           prepaid <= Outstanding(plan)
    PROVE  \E left \in [1..n -> Nat] :
              /\ Walk(left, plan, n, prepaid)
              /\ \A i \in 1..n : left[i] <= Upto(plan, i)
              /\ ReduceTerm(plan, prepaid) =
                    [i \in 1..n |-> IF left[i] >= plan[i] THEN 0 ELSE plan[i] - left[i]]
  <1> DEFINE total == Upto(plan, n)
             Body(left) == [i \in 1..Len(plan) |->
                 IF i = Len(plan) THEN prepaid
                 ELSE IF left[i + 1] >= plan[i + 1] THEN left[i + 1] - plan[i + 1] ELSE 0]
             over == [i \in 1..n |-> IF prepaid >= total - Upto(plan, i)
                                     THEN prepaid - (total - Upto(plan, i)) ELSE 0]
  <1>a. Len(plan) = n
    BY PlanLength
  <1>0. prepaid <= total /\ total \in Nat
    BY OutstandingIsSum, UptoStep DEF Upto
  <1> HIDE DEF total
  <1>1. ASSUME NEW i \in 1..n, i # n
        PROVE  over[i] = IF over[i + 1] >= plan[i + 1] THEN over[i + 1] - plan[i + 1] ELSE 0
    <2>1. i + 1 \in 1..n /\ (i + 1) - 1 = i
      BY <1>1
    <2>2. Upto(plan, i + 1) = Upto(plan, i) + plan[i + 1]
      BY <2>1, UptoStep
    <2>3. Upto(plan, i) \in Nat /\ Upto(plan, i + 1) \in Nat /\ plan[i + 1] \in Nat
      BY <2>1, UptoStep
    <2>4. QED
      BY <1>0, <2>1, <2>2, <2>3, SMTT(30)
  <1>2. ASSUME n # 0 PROVE over[n] = prepaid
    BY <1>0, <1>2 DEF total
  <1>3. over = Body(over)
    <2> HIDE DEF over
    <2>1. \A i \in 1..n : over[i] = Body(over)[i]
      BY <1>1, <1>2, <1>a
    <2>2. over = [i \in 1..n |-> over[i]]
      BY DEF over
    <2>3. QED
      BY <2>1, <2>2, <1>a
  <1> HIDE DEF over
  <1> DEFINE left == CHOOSE l : l = Body(l)
  <1>4. left = Body(left)
    BY <1>3, Zenon
  <1>5. ReduceTerm(plan, prepaid) =
            [i \in 1..n |-> IF left[i] >= plan[i] THEN 0 ELSE plan[i] - left[i]]
    <2>1. ReduceTerm(plan, prepaid) =
              [i \in 1..Len(plan) |-> IF left[i] >= plan[i] THEN 0 ELSE plan[i] - left[i]]
      BY DEF ReduceTerm
    <2> HIDE DEF left
    <2>2. QED
      BY <2>1, <1>a
  <1> HIDE DEF left
  <1>6. Walk(left, plan, n, prepaid)
    BY <1>4, <1>a DEF Walk
  <1> DEFINE Small(i) == left[i] \in Nat /\ left[i] <= Upto(plan, i)
             Bad == {k \in 0..(n - 1) : ~Small(n - k)}
  <1>7. ASSUME Bad # {}
        PROVE  FALSE
    <2>1. PICK k \in Bad : \A m \in Bad : k <= m
      <3>1. Bad \in SUBSET Nat
        OBVIOUS
      <3> HIDE DEF Bad
      <3>2. QED
        BY <1>7, <3>1, SmallestNumber
    <2>2. k # 0
      <3>1. ASSUME k = 0 PROVE Small(n - k)
        <4>1. n - k = n /\ n \in 1..n
          BY <3>1
        <4>2. left[n] = prepaid
          BY <4>1, <1>6 DEF Walk
        <4>3. QED
          BY <4>1, <4>2, <1>0 DEF total
      <3>2. QED
        BY <3>1
    <2>3. k - 1 \in 0..(n - 1) /\ k - 1 \notin Bad
      <3>1. k \in Nat /\ k - 1 \in 0..(n - 1) /\ k - 1 < k
        BY <2>2
      <3> HIDE DEF Bad
      <3>2. QED
        BY <2>1, <3>1
    <2> DEFINE i == n - k
    <2>4. i \in 1..n /\ i # n /\ i + 1 \in 1..n /\ n - (k - 1) = i + 1 /\ (i + 1) - 1 = i
      BY <2>2
    <2>5. Small(i + 1) /\ ~Small(i)
      BY <2>3, <2>4
    <2> HIDE DEF i
    <2>6. left[i] = IF left[i + 1] >= plan[i + 1] THEN left[i + 1] - plan[i + 1] ELSE 0
      BY <1>6, <2>4 DEF Walk
    <2>7. Upto(plan, i + 1) = Upto(plan, i) + plan[i + 1]
      BY <2>4, UptoStep
    <2>8. Upto(plan, i) \in Nat /\ Upto(plan, i + 1) \in Nat /\ plan[i + 1] \in Nat
      BY <2>4, UptoStep, SMTT(30)
    <2>9. QED
      BY <2>5, <2>6, <2>7, <2>8
  <1>8. ASSUME NEW i \in 1..n PROVE Small(i)
    <2>1. n - i \in 0..(n - 1) /\ n - (n - i) = i
      OBVIOUS
    <2>2. n - i \notin Bad
      BY <1>7
    <2>3. QED
      BY <2>1, <2>2
  <1>9. left \in [1..n -> Nat]
    <2>1. left = [i \in 1..n |-> left[i]]
      BY <1>4, <1>a
    <2>2. QED
      BY <1>8, <2>1
  <1>10. QED
    BY <1>5, <1>6, <1>8, <1>9

(* Reducing the term lowers the debt by the prepayment.                    *)
LEMMA ReduceTermLowers ==
    ASSUME NEW n \in Nat, NEW plan \in [1..n -> Nat], NEW prepaid \in Nat,
           prepaid <= Outstanding(plan)
    PROVE  /\ ReduceTerm(plan, prepaid) \in [1..n -> Nat]
           /\ Outstanding(ReduceTerm(plan, prepaid)) = Outstanding(plan) - prepaid
  <1> DEFINE new == ReduceTerm(plan, prepaid)
  <1>1. PICK left \in [1..n -> Nat] :
            /\ Walk(left, plan, n, prepaid)
            /\ \A i \in 1..n : left[i] <= Upto(plan, i)
            /\ new = [i \in 1..n |-> IF left[i] >= plan[i] THEN 0 ELSE plan[i] - left[i]]
    BY ReduceTermWalks
  <1>2. new \in [1..n -> Nat]
    <2>1. ASSUME NEW i \in 1..n
          PROVE  (IF left[i] >= plan[i] THEN 0 ELSE plan[i] - left[i]) \in Nat
      OBVIOUS
    <2>2. QED
      BY <1>1, <2>1
  <1> HIDE DEF new
  <1> DEFINE h == [i \in 0..n |-> IF i = 0 THEN 0 ELSE Upto(plan, i) - left[i]]
  <1>3. ASSUME NEW i \in 0..n PROVE h[i] \in Int
    <2>1. Upto(plan, i) \in Int /\ (i # 0 => left[i] \in Int)
      BY UptoStep, SMTT(30)
    <2>2. QED
      BY <2>1
  <1>4. ASSUME NEW i \in 1..n PROVE new[i] = h[i] - h[i - 1]
    <2>0. i \in 0..n /\ i - 1 \in 0..n /\ i # 0
      OBVIOUS
    <2>1. /\ Upto(plan, i) = Upto(plan, i - 1) + plan[i]
          /\ Upto(plan, i) \in Nat /\ Upto(plan, i - 1) \in Nat
          /\ plan[i] \in Nat /\ left[i] \in Nat
      BY <2>0, UptoStep
    <2>2. new[i] = IF left[i] >= plan[i] THEN 0 ELSE plan[i] - left[i]
      BY <1>1
    <2>3. CASE i = 1
      <3>1. left[i] <= plan[i]
        <4>1. Upto(plan, 0) = 0 /\ i - 1 = 0
          BY <2>3, UptoStep
        <4>2. left[i] <= Upto(plan, i)
          BY <1>1
        <4>3. QED
          BY <4>1, <4>2, <2>1
      <3>2. h[i] = Upto(plan, i) - left[i] /\ h[i - 1] = 0 /\ Upto(plan, i) = plan[i]
        <4>1. Upto(plan, 0) = 0 /\ i - 1 = 0
          BY <2>3, UptoStep
        <4>2. QED
          BY <2>0, <2>1, <4>1
      <3> HIDE DEF h
      <3>3. new[i] = plan[i] - left[i]
        BY <3>1, <2>1, <2>2
      <3>4. QED
        BY <3>2, <3>3, <2>1
    <2>4. CASE i # 1
      <3>1. i - 1 \in 1..n /\ i - 1 # n /\ (i - 1) + 1 = i
        BY <2>4
      <3>2. left[i - 1] = IF left[i] >= plan[i] THEN left[i] - plan[i] ELSE 0
        BY <3>1, <1>1 DEF Walk
      <3>3. h[i] = Upto(plan, i) - left[i] /\ h[i - 1] = Upto(plan, i - 1) - left[i - 1]
        BY <2>0, <3>1
      <3> HIDE DEF h
      <3>4. QED
        BY <3>2, <3>3, <2>1, <2>2
    <2>5. QED
      BY <2>3, <2>4
  <1>5. Outstanding(new) = h[n] - h[0]
    <2> HIDE DEF h
    <2>1. QED
      BY <1>2, <1>3, <1>4, OutstandingTelescopes
  <1>6. Outstanding(plan) = Upto(plan, n) /\ Upto(plan, n) \in Nat
    BY OutstandingIsSum, UptoStep DEF Upto
  <1>7. n # 0 => left[n] = prepaid
    BY <1>1 DEF Walk
  <1>8. n = 0 => Upto(plan, n) = 0
    BY UptoStep
  <1>9. h[n] - h[0] = Upto(plan, n) - prepaid
    BY <1>6, <1>7, <1>8
  <1> HIDE DEF h
  <1>10. QED
    BY <1>2, <1>5, <1>6, <1>9 DEF new

(* Spreading what remains over all instalments loses no cent of it.        *)
LEMMA ReducePaymentKeeps ==
    ASSUME NEW n \in Nat, NEW plan \in [1..n -> Nat], NEW remaining \in Nat, n # 0
    PROVE  /\ ReducePayment(plan, remaining) \in [1..n -> Nat]
           /\ Outstanding(ReducePayment(plan, remaining)) = remaining
  <1> DEFINE new == ReducePayment(plan, remaining)
             q == remaining \div n
             r == remaining % n
             h == [i \in 0..n |-> i * q + IF i <= r THEN i ELSE r]
  <1>1. q \in Nat /\ r \in Nat /\ r < n /\ remaining = n * q + r
    OBVIOUS
  <1>2. new = [i \in 1..n |-> q + IF i <= r THEN 1 ELSE 0]
    BY PlanLength DEF ReducePayment
  <1> HIDE DEF new, q, r
  <1>3. new \in [1..n -> Nat]
    BY <1>1, <1>2
  <1>4. ASSUME NEW i \in 0..n PROVE h[i] \in Int
    <2>1. i * q \in Int
      BY <1>1
    <2>2. QED
      BY <1>1, <2>1
  <1>5. ASSUME NEW i \in 1..n PROVE new[i] = h[i] - h[i - 1]
    <2>1. i \in 0..n /\ i - 1 \in 0..n
      OBVIOUS
    <2>2. i * q = (i - 1) * q + q /\ (i - 1) * q \in Int
      BY <1>1
    <2>3. h[i] = i * q + (IF i <= r THEN i ELSE r)
          /\ h[i - 1] = (i - 1) * q + (IF i - 1 <= r THEN i - 1 ELSE r)
      BY <2>1
    <2>4. new[i] = q + IF i <= r THEN 1 ELSE 0
      BY <1>2
    <2> DEFINE t == (i - 1) * q
    <2> HIDE DEF h, t
    <2>5. h[i] = (t + q) + (IF i <= r THEN i ELSE r) /\ h[i - 1] = t + (IF i - 1 <= r THEN i - 1 ELSE r)
      BY <2>2, <2>3 DEF t
    <2>6. t \in Int
      BY <2>2 DEF t
    <2>7. QED
      BY <1>1, <2>4, <2>5, <2>6
  <1>6. h[n] = n * q + r /\ h[0] = 0
    BY <1>1
  <1> HIDE DEF h
  <1>7. Outstanding(new) = h[n] - h[0]
    BY <1>3, <1>4, <1>5, OutstandingTelescopes
  <1>8. Outstanding(new) = remaining
    <2>1. n * q \in Int
      BY <1>1
    <2>2. QED
      BY <1>1, <1>6, <1>7, <2>1
  <1>9. QED
    BY <1>3, <1>8 DEF new

(* filterPositivePendingPayments keeps the first k amounts when just these *)
(* are positive.                                                           *)
LEMMA UnpaidIsPrefix ==
    ASSUME NEW n \in Nat, NEW plan \in [1..n -> Nat], NEW k \in 0..n,
           \A i \in 1..n : plan[i] > 0 <=> i <= k
    PROVE  Unpaid(plan) = [i \in 1..k |-> plan[i]]
  <1> DEFINE D == 1..n
             Keep(kept, i) == IF plan[i] > 0 THEN Append(kept, plan[i]) ELSE kept
             Body(it) == [s \in SUBSET D |-> IF s = {} THEN <<>>
                              ELSE Keep(it[s \ {Max(s)}], Max(s))]
             keep == [i \in D |-> [y \in Seq(Nat) |-> Keep(y, i)]]
  <1>1. DOMAIN plan = D
    OBVIOUS
  <1>2. \A s \in SUBSET D : s # {} => Max(s) \in s
    BY LargestNumber
  <1>3. PICK it : Walked(it, n, Seq(Nat), <<>>, keep)
    <2>1. \A i \in 1..n, y \in Seq(Nat) : keep[i][y] \in Seq(Nat)
      OBVIOUS
    <2> HIDE DEF keep
    <2>2. Walkable(n, Seq(Nat), <<>>, keep)
      BY <2>1 DEF Walkable
    <2>3. QED
      BY <2>2, FoldOnMax
  <1>4. it = Body(it)
    <2>1. it \in [SUBSET D -> Seq(Nat)]
      BY <1>3 DEF Walked
    <2>2. ASSUME NEW s \in SUBSET D
          PROVE  it[s] = IF s = {} THEN <<>> ELSE Keep(it[s \ {Max(s)}], Max(s))
      <3>1. it[s] = IF s = {} THEN <<>> ELSE keep[Max(s)][it[s \ {Max(s)}]]
        <4> HIDE DEF keep
        <4>1. QED
          BY <1>3 DEF Walked
      <3>2. CASE s # {}
        <4>1. Max(s) \in D /\ it[s \ {Max(s)}] \in Seq(Nat)
          BY <1>2, <2>1, <3>2
        <4>2. keep[Max(s)][it[s \ {Max(s)}]] = Keep(it[s \ {Max(s)}], Max(s))
          BY <4>1
        <4> HIDE DEF keep, Keep
        <4>3. QED
          BY <3>1, <3>2, <4>2
      <3>3. QED
        BY <3>1, <3>2
    <2> HIDE DEF Keep, D
    <2>3. QED
      BY <2>1, <2>2
  <1> DEFINE walk == CHOOSE i : i = Body(i)
  <1>5. walk = Body(walk)
    BY <1>4, Zenon
  <1>6. Unpaid(plan) = walk[D]
    BY <1>1 DEF Unpaid, FoldLeft, MapThenFoldSet
  <1> HIDE DEF walk
  <1> DEFINE Least(m) == IF m <= k THEN m ELSE k
             Kept(m) == walk[1..m] = [i \in 1..Least(m) |-> plan[i]]
             Bad == {m \in 0..n : ~Kept(m)}
  <1>7. ASSUME Bad # {}
        PROVE  FALSE
    <2>1. PICK m \in Bad : \A l \in Bad : m <= l
      <3>1. Bad \in SUBSET Nat
        OBVIOUS
      <3> HIDE DEF Bad
      <3>2. QED
        BY <1>7, <3>1, SmallestNumber
    <2>2. m # 0
      <3>1. 1..0 = {} /\ Least(0) = 0
        OBVIOUS
      <3>2. walk[{}] = <<>>
        BY <1>5
      <3>3. Kept(0)
        <4>1. [i \in 1..0 |-> plan[i]] = <<>>
          BY <3>1
        <4>2. QED
          BY <3>1, <3>2, <4>1
      <3>4. QED
        BY <3>3
    <2>3. m \in 1..n /\ m - 1 \in 0..n /\ ~Kept(m)
      BY <2>2
    <2>4. Kept(m - 1)
      <3>1. m - 1 < m /\ m - 1 \notin Bad
        <4>1. m - 1 < m /\ m \in Nat
          BY <2>3
        <4> HIDE DEF Bad
        <4>2. QED
          BY <2>1, <2>3, <4>1
      <3> HIDE DEF Kept
      <3>2. QED
        BY <2>3, <3>1
    <2>5. walk[1..m] = Keep(walk[1..(m - 1)], m)
      <3>1. (1..m) \in SUBSET D /\ 1..m # {} /\ Max(1..m) = m /\ (1..m) \ {m} = 1..(m - 1)
        BY <2>3, LastFirst
      <3> HIDE DEF Keep, D
      <3>2. walk[1..m] = Keep(walk[(1..m) \ {Max(1..m)}], Max(1..m))
        BY <1>5, <3>1
      <3>3. QED
        BY <3>1, <3>2
    <2>6. CASE m <= k
      <3>1. Least(m) = m /\ Least(m - 1) = m - 1 /\ plan[m] > 0 /\ plan[m] \in Nat
        BY <2>3, <2>6
      <3> DEFINE before == [i \in 1..(m - 1) |-> plan[i]]
                 after == [i \in 1..m |-> plan[i]]
      <3>2. walk[1..m] = Append(before, plan[m])
        BY <2>4, <2>5, <3>1
      <3>3. Append(before, plan[m]) = after
        <4>1. before \in Seq(Nat) /\ Len(before) = m - 1 /\ after \in Seq(Nat) /\ Len(after) = m
          BY <2>3
        <4>2. Append(before, plan[m]) \in Seq(Nat) /\ Len(Append(before, plan[m])) = m
          BY <2>3, <3>1, <4>1
        <4>3. \A i \in 1..m : Append(before, plan[m])[i] = after[i]
          BY <2>3, <3>1, <4>1
        <4>4. QED
          BY <4>1, <4>2, <4>3, SeqEqual
      <3>4. QED
        BY <2>3, <3>1, <3>2, <3>3
    <2>7. CASE ~(m <= k)
      <3>1. Least(m) = k /\ Least(m - 1) = k /\ ~(plan[m] > 0)
        BY <2>3, <2>7
      <3>2. QED
        BY <2>3, <2>4, <2>5, <3>1
    <2>8. QED
      BY <2>6, <2>7
  <1>8. Kept(n) /\ Least(n) = k
    <2>1. n \in 0..n /\ n \notin Bad
      <3>1. n \in 0..n
        OBVIOUS
      <3> HIDE DEF Bad
      <3>2. QED
        BY <1>7, <3>1
    <2>2. Kept(n)
      <3> HIDE DEF Kept
      <3>1. QED
        BY <2>1
    <2>3. QED
      BY <2>2
  <1>9. QED
    BY <1>6, <1>8

(* All of the debt is in the instalments that are kept.                    *)
LEMMA UnpaidOwesAll ==
    ASSUME NEW n \in Nat, NEW plan \in [1..n -> Nat], NEW k \in 0..n,
           \A i \in 1..n : plan[i] > 0 <=> i <= k
    PROVE  Outstanding(Unpaid(plan)) = Outstanding(plan)
  <1> DEFINE kept == [i \in 1..k |-> plan[i]]
  <1>0. 1..k \subseteq 1..n /\ k \in Nat
    OBVIOUS
  <1>1. Unpaid(plan) = kept /\ kept \in [1..k -> Nat]
    <2>1. Unpaid(plan) = kept
      BY UnpaidIsPrefix
    <2>2. QED
      BY <1>0, <2>1
  <1> HIDE DEF kept
  <1>2. Summable(plan, 1..n) /\ Summable(plan, 1..k)
    BY FS_Interval DEF Summable
  <1>3. (1..n) \cap (1..k) = 1..k
    OBVIOUS
  <1>4. SumFunctionOnSet(plan, (1..n) \ (1..k)) = 0
    <2> DEFINE rest == (1..n) \ (1..k)
    <2>1. \A i \in rest : plan[i] = 0
      OBVIOUS
    <2>2. IsFiniteSet(rest) /\ Cardinality(rest) \in Nat
      BY <1>2, FS_Difference, FS_CardinalityType DEF Summable
    <2>3. SumFunctionOnSet(plan, rest) = 0 * Cardinality(rest)
      <3> HIDE DEF rest
      <3>1. QED
        BY <2>1, <2>2, SumConst
    <2> HIDE DEF rest
    <2>4. SumFunctionOnSet(plan, rest) = 0
      BY <2>2, <2>3
    <2>5. QED
      BY <2>4 DEF rest
  <1>5. SumFunctionOnSet(plan, 1..n) = SumFunctionOnSet(plan, 1..k)
    <2>1. SumFunctionOnSet(plan, 1..n) =
              SumFunctionOnSet(plan, (1..n) \cap (1..k)) + SumFunctionOnSet(plan, (1..n) \ (1..k))
      BY <1>2, SumSplit
    <2>2. SumFunctionOnSet(plan, 1..k) \in Int
      BY <1>2, SumInt
    <2>3. SumFunctionOnSet(plan, (1..n) \cap (1..k)) = SumFunctionOnSet(plan, 1..k)
      BY <1>3
    <2> DEFINE whole == SumFunctionOnSet(plan, 1..n)
               kept1 == SumFunctionOnSet(plan, 1..k)
    <2>4. whole = kept1 + 0 /\ kept1 \in Int
      BY <1>4, <2>1, <2>2, <2>3
    <2> HIDE DEF whole, kept1
    <2>5. whole = kept1
      BY <2>4
    <2>6. QED
      BY <2>5 DEF whole, kept1
  <1>6. SumFunctionOnSet(kept, 1..k) = SumFunctionOnSet(plan, 1..k)
    BY <1>2, SumSame DEF kept
  <1>7. QED
    BY <1>1, <1>5, <1>6, OutstandingIsSum

(* Which instalments a reduce_term leaves: the first ones.                 *)
LEMMA ReduceTermCutsTheEnd ==
    ASSUME NEW n \in Nat, NEW plan \in [1..n -> Nat \ {0}], NEW prepaid \in Nat,
           prepaid <= Outstanding(plan)
    PROVE  \E k \in 0..n :
              /\ \A i \in 1..n : ReduceTerm(plan, prepaid)[i] > 0 <=> i <= k
              /\ \A i \in 1..(k - 1) : ReduceTerm(plan, prepaid)[i] = plan[i]
              /\ \A i \in 1..n : ReduceTerm(plan, prepaid)[i] <= plan[i]
  <1> DEFINE new == ReduceTerm(plan, prepaid)
  <1>0. plan \in [1..n -> Nat]
    OBVIOUS
  <1>1. PICK left \in [1..n -> Nat] :
            /\ Walk(left, plan, n, prepaid)
            /\ \A i \in 1..n : left[i] <= Upto(plan, i)
            /\ new = [i \in 1..n |-> IF left[i] >= plan[i] THEN 0 ELSE plan[i] - left[i]]
    BY <1>0, ReduceTermWalks, ZenonT(30)
  <1>2. ASSUME NEW i \in 1..n
        PROVE  /\ new[i] = IF left[i] >= plan[i] THEN 0 ELSE plan[i] - left[i]
               /\ plan[i] \in Nat \ {0} /\ left[i] \in Nat
    BY <1>1
  <1> HIDE DEF new
  <1>3. ASSUME NEW i \in 1..n, i # 1, ~(left[i] >= plan[i])
        PROVE  left[i - 1] = 0
    <2>1. i - 1 \in 1..n /\ i - 1 # n /\ (i - 1) + 1 = i
      BY <1>3
    <2>2. QED
      BY <1>1, <1>3, <2>1 DEF Walk
  <1> DEFINE Bad == {m \in 1..n : ~(left[m] >= plan[m])}
  <1>4. CASE Bad = {}
    <2>1. \A i \in 1..n : new[i] = 0
      BY <1>2, <1>4
    <2>2. \A i \in 1..n : new[i] > 0 <=> i <= 0
      BY <2>1
    <2>3. \A i \in 1..n : new[i] <= plan[i]
      BY <2>1
    <2>4. 0 \in 0..n /\ \A i \in 1..(0 - 1) : new[i] = plan[i]
      OBVIOUS
    <2>5. QED
      BY <2>2, <2>3, <2>4 DEF new
  <1>5. CASE Bad # {}
    <2>1. PICK k \in Bad : \A m \in Bad : m <= k
      <3>1. Bad \in SUBSET (1..n)
        OBVIOUS
      <3>2. Max(Bad) \in Bad /\ \A m \in Bad : m <= Max(Bad)
        <4> HIDE DEF Bad
        <4>1. QED
          BY <1>5, <3>1, LargestNumber
      <3>3. QED
        BY <3>2
    <2> DEFINE Below == {k - m : m \in {l \in 1..(k - 1) : left[l] # 0}}
    <2>2. ASSUME Below # {}
          PROVE  FALSE
      <3>1. PICK d \in Below : \A e \in Below : d <= e
        <4>1. Below \in SUBSET Nat
          OBVIOUS
        <4> HIDE DEF Below
        <4>2. QED
          BY <2>2, <4>1, SmallestNumber
      <3>2. PICK m \in 1..(k - 1) : left[m] # 0 /\ d = k - m
        OBVIOUS
      <3>3. m + 1 \in 1..n /\ m + 1 # 1 /\ (m + 1) - 1 = m /\ m + 1 \in 1..k
        <4>1. k \in 1..n /\ m \in 1..(k - 1)
          OBVIOUS
        <4> HIDE DEF Bad, Below
        <4>2. QED
          BY <4>1
      <3>4. ~(left[m + 1] >= plan[m + 1])
        <4>1. CASE m + 1 = k
          BY <4>1
        <4>2. CASE m + 1 # k
          <5>1. m + 1 \in 1..(k - 1) /\ k - (m + 1) < k - m
            BY <3>3, <4>2
          <5>2. k - (m + 1) \notin Below
            <6> HIDE DEF Below
            <6>1. QED
              BY <3>1, <3>2, <5>1
          <5>3. left[m + 1] = 0
            BY <5>1, <5>2
          <5>4. QED
            BY <5>3, <3>3, <1>2
        <4>3. QED
          BY <4>1, <4>2
      <3>5. QED
        BY <1>3, <3>2, <3>3, <3>4
    <2>3. \A i \in 1..(k - 1) : left[i] = 0
      BY <2>2
    <2>4. ASSUME NEW i \in 1..n PROVE new[i] > 0 <=> i <= k
      <3>1. CASE i < k
        <4>1. i \in 1..(k - 1)
          BY <3>1
        <4>2. QED
          BY <1>2, <2>3, <3>1, <4>1
      <3>2. CASE i = k
        BY <1>2, <3>2
      <3>3. CASE i > k
        <4>1. i \notin Bad
          BY <2>1, <3>3
        <4>2. QED
          BY <1>2, <3>3, <4>1
      <3>4. QED
        BY <3>1, <3>2, <3>3
    <2>5. ASSUME NEW i \in 1..(k - 1) PROVE new[i] = plan[i]
      <3>1. i \in 1..n
        OBVIOUS
      <3>2. QED
        BY <1>2, <2>3, <3>1
    <2>6. ASSUME NEW i \in 1..n PROVE new[i] <= plan[i]
      <3>1. /\ new[i] = IF left[i] >= plan[i] THEN 0 ELSE plan[i] - left[i]
            /\ plan[i] \in Nat \ {0} /\ left[i] \in Nat
        BY <1>2
      <3>2. QED
        BY <3>1
    <2>7. k \in 0..n
      OBVIOUS
    <2>8. QED
      BY <2>4, <2>5, <2>6, <2>7 DEF new
  <1>6. QED
    BY <1>4, <1>5

----------------------------------------------------------------------------
(* The history of one plan (PrepaidPlan).                                  *)

(* A plan of positive amounts that do not rise.                            *)
LevelPlan(plan) ==
    \E n \in Nat :
        /\ plan \in [1..n -> Nat \ {0}]
        /\ \A i \in 2..n : plan[i] <= plan[i - 1]

(* Paying the first instalment lowers the debt by its amount.              *)
LEMMA OutstandingOfTail ==
    ASSUME NEW n \in Nat, n # 0, NEW plan \in [1..n -> Nat]
    PROVE  /\ Tail(plan) = [i \in 1..(n - 1) |-> plan[i + 1]]
           /\ Tail(plan) \in [1..(n - 1) -> Nat]
           /\ Outstanding(Tail(plan)) = Outstanding(plan) - plan[1]
  <1> DEFINE rest == [i \in 1..(n - 1) |-> plan[i + 1]]
             h == [i \in 0..(n - 1) |-> Upto(plan, i + 1)]
  <1>1. n - 1 \in Nat /\ \A i \in 1..(n - 1) : i + 1 \in 1..n
    OBVIOUS
  <1>2. rest \in [1..(n - 1) -> Nat]
    BY <1>1
  <1>3. Tail(plan) = rest
    <2>1. /\ plan \in Seq(Nat) /\ Len(plan) = n /\ plan # <<>>
          /\ rest \in Seq(Nat) /\ Len(rest) = n - 1
      BY <1>1, <1>2, PlanLength
    <2>2. /\ Tail(plan) \in Seq(Nat) /\ Len(Tail(plan)) = n - 1
          /\ \A i \in 1..(n - 1) : Tail(plan)[i] = plan[i + 1]
      BY <2>1
    <2> QED
      BY <2>1, <2>2, SeqEqual
  <1> HIDE DEF rest
  <1>4. \A i \in 0..(n - 1) : h[i] \in Int
    <2>1. \A i \in 0..(n - 1) : i + 1 \in 0..n
      OBVIOUS
    <2> QED
      BY <2>1, UptoStep
  <1>5. \A i \in 1..(n - 1) : rest[i] = h[i] - h[i - 1]
    <2> SUFFICES ASSUME NEW i \in 1..(n - 1)
                 PROVE  rest[i] = h[i] - h[i - 1]
      OBVIOUS
    <2>1. i + 1 \in 1..n /\ (i + 1) - 1 = i /\ i \in 0..n /\ i - 1 \in 0..(n - 1)
          /\ (i - 1) + 1 = i /\ i \in 0..(n - 1) /\ i + 1 \in 0..n
      OBVIOUS
    <2>2. /\ Upto(plan, i + 1) = Upto(plan, i) + plan[i + 1]
          /\ Upto(plan, i) \in Nat /\ Upto(plan, i + 1) \in Nat
      BY <2>1, UptoStep
    <2>3. h[i] = Upto(plan, i + 1) /\ h[i - 1] = Upto(plan, i) /\ rest[i] = plan[i + 1]
      BY <2>1 DEF rest
    <2>4. plan[i + 1] \in Nat
      BY <2>1
    <2> HIDE DEF h
    <2> QED
      BY <2>2, <2>3, <2>4
  <1>6. h[n - 1] = Upto(plan, n) /\ h[0] = plan[1]
    <2>1. 1 \in 1..n /\ n - 1 \in 0..(n - 1) /\ 0 \in 0..(n - 1) /\ (n - 1) + 1 = n
      OBVIOUS
    <2>2. Upto(plan, 1) = Upto(plan, 0) + plan[1] /\ Upto(plan, 0) = 0 /\ plan[1] \in Nat
      <3>1. Upto(plan, 1) = Upto(plan, 1 - 1) + plan[1]
        BY <2>1, UptoStep
      <3> QED
        BY <2>1, <3>1, UptoStep
    <2> QED
      BY <2>1, <2>2
  <1> HIDE DEF h
  <1>7. Outstanding(rest) = h[n - 1] - h[0]
    BY <1>1, <1>2, <1>4, <1>5, OutstandingTelescopes
  <1>8. Outstanding(plan) = Upto(plan, n)
    BY OutstandingIsSum DEF Upto
  <1> QED
    BY <1>2, <1>3, <1>6, <1>7, <1>8 DEF rest

(* Positive instalments are all unpaid.                                    *)
LEMMA AllUnpaid ==
    ASSUME NEW n \in Nat, NEW plan \in [1..n -> Nat \ {0}]
    PROVE  /\ Unpaid(plan) = plan
           /\ NewMonthlyPayment(plan) = IF n = 0 THEN 0 ELSE plan[1]
  <1>1. plan \in [1..n -> Nat] /\ n \in 0..n /\ \A i \in 1..n : plan[i] > 0 <=> i <= n
    OBVIOUS
  <1>2. Unpaid(plan) = [i \in 1..n |-> plan[i]]
    BY <1>1, UnpaidIsPrefix
  <1>3. Unpaid(plan) = plan
    BY <1>2
  <1>4. plan \in Seq(Nat) /\ Len(plan) = n
    BY <1>1, PlanLength
  <1>5. (plan = <<>> <=> n = 0) /\ (n # 0 => Head(plan) = plan[1])
    BY <1>4
  <1> QED
    BY <1>3, <1>5 DEF NewMonthlyPayment

(* The inductive invariant: the amounts do not rise.                       *)
PlanInv == LevelPlan(instalments) /\ DebtFallsByThePrepayment /\ PlanStaysLevel

(* The plan that was agreed is level.                                      *)
LEMMA PlanStarts == PlanInit => PlanInv
  <1> SUFFICES ASSUME PlanInit
               PROVE  PlanInv
    OBVIOUS
  <1>1. PICK n \in 1..MaxTerm, a \in 1..MaxMonthly : instalments = [i \in 1..n |-> a]
    BY DEF PlanInit
  <1>2. n \in Nat /\ a \in Nat \ {0}
    BY PlanAssumption
  <1>3. /\ instalments \in [1..n -> Nat \ {0}] /\ instalments \in [1..n -> Nat]
        /\ \A i \in 1..n : instalments[i] = a
    BY <1>1, <1>2
  <1>4. \A i \in 2..n : i \in 1..n /\ i - 1 \in 1..n
    BY <1>2
  <1>5. LevelPlan(instalments)
    BY <1>2, <1>3, <1>4 DEF LevelPlan
  <1>6. Len(instalments) = n
    BY <1>2, <1>3, PlanLength
  <1>7. Outstanding(instalments) \in Nat
    BY <1>2, <1>3, OutstandingIsSum
  <1>8. latest.before = instalments /\ latest.amount = 0 /\ latest.mode = "none"
    BY DEF PlanInit
  <1>9. DebtFallsByThePrepayment
    BY <1>7, <1>8 DEF DebtFallsByThePrepayment
  <1>10. PlanStaysLevel
    <2>1. ASSUME NEW i \in 1..n
          PROVE  instalments[i] > 0 /\ (i > 1 => instalments[i] <= instalments[i - 1])
      <3>1. i > 1 => i - 1 \in 1..n
        BY <1>2
      <3> QED
        BY <1>2, <1>3, <3>1
    <2> QED
      BY <1>6, <1>8, <2>1 DEF PlanStaysLevel
  <1> QED
    BY <1>5, <1>9, <1>10 DEF PlanInv

(* What a level plan is: PlanStaysLevel's first conjunct.                  *)
LEMMA LevelIsLevel ==
    ASSUME NEW n \in Nat, NEW plan \in [1..n -> Nat \ {0}],
           \A i \in 2..n : plan[i] <= plan[i - 1]
    PROVE  /\ LevelPlan(plan) /\ Len(plan) = n
           /\ \A i \in 1..Len(plan) : plan[i] > 0 /\ (i > 1 => plan[i] <= plan[i - 1])
  <1>1. Len(plan) = n
    BY PlanLength
  <1>2. LevelPlan(plan)
    BY DEF LevelPlan
  <1>3. \A i \in 1..n : plan[i] > 0 /\ (i > 1 => i \in 2..n)
    OBVIOUS
  <1> QED
    BY <1>1, <1>2, <1>3

(* A reduce_term cuts the plan at its end and lowers the last amount left. *)
LEMMA ByTermKeeps ==
    ASSUME PlanInv, NEW paid \in Nat, paid < Outstanding(instalments), ByTerm(paid)
    PROVE  PlanInv'
  <1>1. PICK n \in Nat : /\ instalments \in [1..n -> Nat \ {0}]
                         /\ \A i \in 2..n : instalments[i] <= instalments[i - 1]
    BY DEF PlanInv, LevelPlan
  <1> DEFINE old == instalments
             new == ReduceTerm(instalments, paid)
  <1>2. old \in [1..n -> Nat] /\ Outstanding(old) \in Nat /\ paid <= Outstanding(old)
    <2>1. instalments \in [1..n -> Nat]
      BY <1>1
    <2>2. Outstanding(instalments) \in Nat
      BY <2>1, OutstandingIsSum
    <2> QED
      BY <2>1, <2>2
  <1>3. /\ new \in [1..n -> Nat]
        /\ Outstanding(new) = Outstanding(old) - paid
    BY <1>2, ReduceTermLowers
  <1>4. PICK k \in 0..n :
            /\ \A i \in 1..n : new[i] > 0 <=> i <= k
            /\ \A i \in 1..(k - 1) : new[i] = old[i]
            /\ \A i \in 1..n : new[i] <= old[i]
    BY <1>1, <1>2, ReduceTermCutsTheEnd
  <1> HIDE DEF new
  <1> DEFINE kept == [i \in 1..k |-> new[i]]
  <1>5. instalments' = kept
    <2>1. Unpaid(new) = kept
      BY <1>3, <1>4, UnpaidIsPrefix
    <2> QED
      BY <2>1 DEF ByTerm, new
  <1>6. Outstanding(kept) = Outstanding(old) - paid
    <2>1. Unpaid(new) = kept
      BY <1>3, <1>4, UnpaidIsPrefix
    <2>2. Outstanding(Unpaid(new)) = Outstanding(new)
      BY <1>3, <1>4, UnpaidOwesAll
    <2> QED
      BY <1>3, <2>1, <2>2
  <1>7. k \in Nat /\ k <= n /\ \A i \in 1..k : i \in 1..n
    OBVIOUS
  <1>8. kept \in [1..k -> Nat \ {0}]
    BY <1>3, <1>4, <1>7
  <1>9. ASSUME NEW i \in 2..k
        PROVE  kept[i] <= kept[i - 1]
    <2>1. i \in 1..n /\ i \in 2..n /\ i - 1 \in 1..(k - 1) /\ i - 1 \in 1..k /\ i \in 1..k /\ i - 1 \in 1..n
      BY <1>7
    <2>2. new[i] <= old[i] /\ new[i - 1] = old[i - 1] /\ old[i] <= old[i - 1]
      BY <1>1, <1>4, <2>1
    <2>3. new[i] \in Nat /\ old[i] \in Nat /\ old[i - 1] \in Nat
      BY <1>2, <1>3, <2>1
    <2>4. kept[i] = new[i] /\ kept[i - 1] = new[i - 1]
      BY <2>1
    <2> QED
      BY <2>2, <2>3, <2>4
  <1>a. ASSUME NEW i \in 1..k
        PROVE  kept[i] = new[i] /\ (i # k => kept[i] = old[i]) /\ kept[i] <= old[i]
    <2>1. i \in 1..n /\ (i # k => i \in 1..(k - 1))
      BY <1>7
    <2> QED
      BY <1>4, <2>1
  <1> HIDE DEF kept
  <1>10. /\ LevelPlan(kept) /\ Len(kept) = k
         /\ \A i \in 1..Len(kept) : kept[i] > 0 /\ (i > 1 => kept[i] <= kept[i - 1])
    BY <1>7, <1>8, <1>9, LevelIsLevel
  <1>11. Len(old) = n
    BY <1>2, PlanLength
  <1>12. /\ NewMonthlyPayment(kept) = IF k = 0 THEN 0 ELSE kept[1]
         /\ NewMonthlyPayment(old) = IF n = 0 THEN 0 ELSE old[1]
    BY <1>1, <1>7, <1>8, AllUnpaid
  <1>13. NewMonthlyPayment(kept) <= NewMonthlyPayment(old)
    <2>1. CASE k = 0
      <3>1. n # 0 => old[1] \in Nat
        BY <1>2
      <3> QED
        BY <2>1, <3>1, <1>12
    <2>2. CASE k # 0
      <3>1. 1 \in 1..k /\ n # 0
        BY <2>2, <1>7
      <3> QED
        BY <2>2, <3>1, <1>12, <1>a
    <2> QED
      BY <2>1, <2>2
  <1>14. \A i \in 1..(k - 1) : kept[i] = old[i]
    <2>1. \A i \in 1..(k - 1) : i \in 1..k /\ i # k
      BY <1>7
    <2> QED
      BY <1>a, <2>1
  <1>15. latest' = [mode |-> "reduce_term", before |-> old, amount |-> paid]
    BY DEF ByTerm
  <1>16. latest'.mode = "reduce_term" /\ latest'.before = old /\ latest'.amount = paid
    BY <1>15
  <1>17. DebtFallsByThePrepayment'
    BY <1>5, <1>6, <1>16 DEF DebtFallsByThePrepayment
  <1>18. PlanStaysLevel'
    <2>1. Len(kept) <= Len(old)
      BY <1>7, <1>10, <1>11
    <2>2. \A i \in 1..Len(kept) - 1 : kept[i] = old[i]
      BY <1>10, <1>14
    <2> QED
      BY <1>5, <1>10, <1>13, <1>16, <2>1, <2>2 DEF PlanStaysLevel
  <1> QED
    BY <1>5, <1>10, <1>17, <1>18 DEF PlanInv

(* A reduce_payment spreads what is left, the first instalments taking the *)
(* extra cents.                                                            *)
LEMMA ByPaymentKeeps ==
    ASSUME PlanInv, NEW paid \in Nat, paid < Outstanding(instalments), ByPayment(paid)
    PROVE  PlanInv'
  <1>1. PICK n \in Nat : instalments \in [1..n -> Nat]
    BY DEF PlanInv, LevelPlan
  <1> DEFINE old == instalments
             remaining == Outstanding(instalments) - paid
             new == ReducePayment(old, remaining)
  <1>2. remaining \in Nat /\ Outstanding(old) \in Nat
    BY <1>1, OutstandingIsSum
  <1>3. Len(old) = n /\ n # 0 /\ remaining >= n
    <2>1. Len(old) = n
      BY <1>1, PlanLength
    <2>2. old # <<>> /\ remaining >= Len(old)
      BY DEF ByPayment, CanReducePayment
    <2>3. n # 0
      BY <1>1, <2>2
    <2> QED
      BY <2>1, <2>2, <2>3
  <1>4. instalments' = new /\ latest'.mode = "reduce_payment"
        /\ latest'.before = old /\ latest'.amount = paid
    BY DEF ByPayment
  <1>5. new \in [1..n -> Nat] /\ Outstanding(new) = remaining
    <2> HIDE DEF remaining
    <2> QED
      BY <1>1, <1>2, <1>3, ReducePaymentKeeps
  <1>6. DebtFallsByThePrepayment'
    <2> HIDE DEF new
    <2> QED
      BY <1>2, <1>4, <1>5 DEF DebtFallsByThePrepayment
  <1> DEFINE q == remaining \div n
             r == remaining % n
  <1>7. new = [i \in 1..n |-> q + IF i <= r THEN 1 ELSE 0]
    BY <1>3 DEF ReducePayment
  <1>8. q \in Nat \ {0} /\ r \in Nat
    <2> HIDE DEF remaining
    <2> QED
      BY <1>2, <1>3
  <1> HIDE DEF q, r, new, remaining
  <1>9. new \in [1..n -> Nat \ {0}]
    BY <1>7, <1>8
  <1>10. \A i \in 2..n : new[i] <= new[i - 1]
    <2> SUFFICES ASSUME NEW i \in 2..n
                 PROVE  new[i] <= new[i - 1]
      OBVIOUS
    <2>1. i \in 1..n /\ i - 1 \in 1..n /\ i \in Nat
      OBVIOUS
    <2>2. new[i] = (q + IF i <= r THEN 1 ELSE 0) /\ new[i - 1] = (q + IF i - 1 <= r THEN 1 ELSE 0)
      BY <1>7, <2>1
    <2> QED
      BY <1>8, <2>1, <2>2
  <1>11. /\ LevelPlan(new)
         /\ \A i \in 1..Len(new) : new[i] > 0 /\ (i > 1 => new[i] <= new[i - 1])
    BY <1>9, <1>10, LevelIsLevel
  <1>12. PlanStaysLevel'
    BY <1>4, <1>11 DEF PlanStaysLevel
  <1> QED
    BY <1>4, <1>6, <1>11, <1>12 DEF PlanInv

(* Paying the first instalment leaves the rest as it was.                  *)
LEMMA PayFirstKeeps ==
    ASSUME PlanInv, PayFirst
    PROVE  PlanInv'
  <1>1. PICK n \in Nat : /\ instalments \in [1..n -> Nat \ {0}]
                         /\ \A i \in 2..n : instalments[i] <= instalments[i - 1]
    BY DEF PlanInv, LevelPlan
  <1> DEFINE old == instalments
             new == [i \in 1..(n - 1) |-> old[i + 1]]
  <1>2. old \in [1..n -> Nat] /\ n # 0
    <2>1. old # <<>>
      BY DEF PayFirst
    <2> QED
      BY <1>1, <2>1
  <1>3. Tail(old) = new /\ Outstanding(Tail(old)) = Outstanding(old) - old[1]
    BY <1>2, OutstandingOfTail
  <1>4. /\ instalments' = new /\ latest'.mode = "payment"
        /\ latest'.before = old /\ latest'.amount = old[1]
    BY <1>3 DEF PayFirst
  <1>5. n - 1 \in Nat /\ \A i \in 1..(n - 1) : i + 1 \in 1..n
    BY <1>2
  <1>6. new \in [1..(n - 1) -> Nat \ {0}]
    BY <1>1, <1>5
  <1>7. \A i \in 2..(n - 1) : new[i] <= new[i - 1]
    <2> SUFFICES ASSUME NEW i \in 2..(n - 1)
                 PROVE  new[i] <= new[i - 1]
      OBVIOUS
    <2>1. /\ i + 1 \in 2..n /\ i \in 1..(n - 1) /\ i - 1 \in 1..(n - 1)
          /\ (i + 1) - 1 = i /\ (i - 1) + 1 = i
      OBVIOUS
    <2> QED
      BY <1>1, <2>1
  <1> HIDE DEF new
  <1>8. /\ LevelPlan(new)
        /\ \A i \in 1..Len(new) : new[i] > 0 /\ (i > 1 => new[i] <= new[i - 1])
    BY <1>5, <1>6, <1>7, LevelIsLevel
  <1>9. DebtFallsByThePrepayment'
    BY <1>3, <1>4 DEF DebtFallsByThePrepayment
  <1>10. PlanStaysLevel'
    BY <1>4, <1>8 DEF PlanStaysLevel
  <1> QED
    BY <1>4, <1>8, <1>9, <1>10 DEF PlanInv

(* The invariant holds of every plan, whatever was prepaid before.         *)
LEMMA PlanInvariant == PlanSpec => []PlanInv
  <1>1. PlanInv /\ [PlanNext]_planVars => PlanInv'
    <2> SUFFICES ASSUME PlanInv, [PlanNext]_planVars
                 PROVE  PlanInv'
      OBVIOUS
    <2>1. ASSUME NEW paid \in 1..MaxTerm * MaxMonthly, paid < Outstanding(instalments), ByTerm(paid)
          PROVE  PlanInv'
      <3>1. paid \in Nat
        OBVIOUS
      <3> QED
        BY <2>1, <3>1, ByTermKeeps
    <2>2. ASSUME NEW paid \in 1..MaxTerm * MaxMonthly, paid < Outstanding(instalments), ByPayment(paid)
          PROVE  PlanInv'
      <3>1. paid \in Nat
        OBVIOUS
      <3> QED
        BY <2>2, <3>1, ByPaymentKeeps
    <2>3. CASE PayFirst
      BY <2>3, PayFirstKeeps
    <2>4. CASE UNCHANGED planVars
      BY <2>4 DEF planVars, PlanInv, LevelPlan, DebtFallsByThePrepayment, PlanStaysLevel
    <2> QED
      BY <2>1, <2>2, <2>3, <2>4 DEF PlanNext
  <1> QED
    BY <1>1, PlanStarts, PTL DEF PlanSpec

(* Whatever was prepaid before, a prepayment in either mode lowers what is *)
(* outstanding by exactly its amount: rounding and the walk over the       *)
(* instalments neither lose nor invent a cent, for every plan and every    *)
(* amount (applyReduceTermPrepayment, applyReducePaymentPrepayment).       *)
THEOREM PrepaymentsLowerTheDebt == PlanSpec => []DebtFallsByThePrepayment
  <1>1. PlanInv => DebtFallsByThePrepayment
    BY DEF PlanInv
  <1> QED
    BY <1>1, PlanInvariant, PTL

(* No history of prepayments makes an instalment of nothing or one larger  *)
(* than the one before it, and a reduce_term keeps every instalment it     *)
(* leaves as it was, but for the last (applyReduceTermPrepayment).         *)
THEOREM PlansStayLevel == PlanSpec => []PlanStaysLevel
  <1>1. PlanInv => PlanStaysLevel
    BY DEF PlanInv
  <1> QED
    BY <1>1, PlanInvariant, PTL

----------------------------------------------------------------------------
(* Credits: rows and instalments.                                          *)

(* An instalment belongs to the credit it names.                           *)
LEMMA InstalmentFacts ==
    /\ \A x \in Instalments : x[1] \in Credits /\ x \in InstalmentsOf(x[1])
    /\ \A c \in Credits : /\ InstalmentsOf(c) \subseteq Instalments
                          /\ \A x \in InstalmentsOf(c) : x[1] = c
  <1>1. ASSUME NEW x \in Instalments PROVE x[1] \in Credits /\ x \in InstalmentsOf(x[1])
    <2>1. PICK c \in Credits : x \in {<<c, i>> : i \in 1..Term[c]}
      BY DEF Instalments
    <2>2. PICK i \in 1..Term[c] : x = <<c, i>>
      BY <2>1
    <2>3. QED
      BY <2>2 DEF InstalmentsOf
  <1>2. ASSUME NEW c \in Credits
        PROVE  InstalmentsOf(c) \subseteq Instalments /\ \A x \in InstalmentsOf(c) : x[1] = c
    BY DEF Instalments, InstalmentsOf
  <1>3. QED
    BY <1>1, <1>2

(* A credit has as many instalments as its term says.                      *)
LEMMA InstalmentsCounted ==
    ASSUME NEW c \in Credits
    PROVE  IsFiniteSet(InstalmentsOf(c)) /\ Cardinality(InstalmentsOf(c)) = Term[c]
  <1> DEFINE number == [i \in 1..Term[c] |-> <<c, i>>]
  <1>1. Term[c] \in Nat
    BY CreditsAssumption
  <1>2. number \in Bijection(1..Term[c], InstalmentsOf(c))
    BY DEF Bijection, Injection, Surjection, IsInjective, InstalmentsOf
  <1> HIDE DEF number
  <1>3. QED
    BY <1>1, <1>2, FS_Interval, FS_Bijection DEF ExistsBijection

(* Locks are on rows of the table that the name of the lock says.          *)
LEMMA RowFacts ==
    /\ \A u \in Users : User(u) \in Rows /\ User(u).table = "user"
    /\ \A a \in Accounts : AccountRow(a) \in Rows /\ AccountRow(a).table = "account"
    /\ \A c \in Credits : CreditRow(c) \in Rows /\ CreditRow(c).table = "credit"
    /\ \A x \in Instalments : ScheduleRow(x) \in Rows /\ ScheduleRow(x).table = "instalment"
  BY DEF User, AccountRow, CreditRow, ScheduleRow, Rows

(* Different rows have different locks.                                    *)
LEMMA SameRow ==
    /\ \A c, d : CreditRow(c) = CreditRow(d) => c = d
    /\ \A a, b : AccountRow(a) = AccountRow(b) => a = b
    /\ \A u, v : User(u) = User(v) => u = v
    /\ \A x, y : ScheduleRow(x) = ScheduleRow(y) => x = y
  BY DEF User, AccountRow, CreditRow, ScheduleRow

(* A credit is on an account and the account has an owner.                 *)
LEMMA Owners ==
    ASSUME NEW c \in Credits
    PROVE  Account[c] \in Accounts /\ Borrower(c) \in Users
  BY CreditsAssumption DEF Borrower

----------------------------------------------------------------------------
(* Statements and locks: which rows a transaction holds at each statement. *)

(* Programme counters, jobs and locks.                                     *)
ControlTypes ==
    /\ pc \in [Processes -> {"idle", "lockUser", "lockAccount", "assess", "issue", "lockCredit",
                             "lockPending", "prepay", "lockInstalment", "charge"}]
    /\ job \in [Processes -> Jobs]
    /\ lock \in [Rows -> Processes \cup {Free}]

(* Where a transaction holds which lock.                                   *)
UserHeld(p)    == job[p].kind = "issue" /\ pc[p] \in {"lockAccount", "assess", "issue"}
AccountHeld(p) == pc[p] \in {"assess", "issue", "lockPending", "prepay", "charge"}
CreditHeld(p)  == /\ job[p].kind \in {"prepay", "charge"}
                  /\ pc[p] \in {"lockAccount", "lockPending", "prepay", "charge"}
InstalmentHeld(p) ==
    \/ (job[p].kind = "charge" /\ pc[p] \in {"lockCredit", "lockAccount", "charge"})
    \/ pc[p] = "prepay"

(* The statement a transaction has reached belongs to its job.             *)
Underway(p) ==
    \/ (pc[p] = "idle" /\ job[p] = NoJob)
    \/ (pc[p] \in {"lockUser", "lockAccount", "assess", "issue"} /\ job[p].kind = "issue")
    \/ (pc[p] \in {"lockCredit", "lockAccount", "lockPending", "prepay"} /\ job[p].kind = "prepay")
    \/ (/\ pc[p] \in {"lockInstalment", "lockCredit", "lockAccount", "charge"}
        /\ job[p].kind = "charge" /\ job[p].instalment[1] = job[p].credit)

(* It holds the locks of its own credit, and no other.                     *)
LocksTaken(p) ==
    /\ UserHeld(p) => lock[User(Borrower(job[p].credit))] = p
    /\ AccountHeld(p) => lock[AccountRow(Account[job[p].credit])] = p
    /\ CreditHeld(p) => lock[CreditRow(job[p].credit)] = p

LocksOnly(p) ==
    \A r \in Rows : lock[r] = p =>
        /\ r.table = "user" => UserHeld(p)
        /\ r.table = "account" => AccountHeld(p)
        /\ r.table = "credit" => CreditHeld(p)
        /\ r.table = "instalment" => InstalmentHeld(p)

Orderly(p) == Underway(p) /\ LocksTaken(p) /\ LocksOnly(p)

ControlInv == ControlTypes /\ \A p \in Processes : Orderly(p)

(* A job in progress is about one of the credits.                          *)
LEMMA JobFacts ==
    ASSUME ControlTypes, NEW p \in Processes, Underway(p), pc[p] # "idle"
    PROVE  /\ job[p].credit \in Credits
           /\ job[p].kind \in {"issue", "prepay", "charge"}
           /\ job[p].kind = "prepay" => job[p].amount \in Nat \ {0}
           /\ job[p].kind = "charge" => job[p].instalment \in InstalmentsOf(job[p].credit)
           /\ job[p].kind = "charge" => job[p].instalment \in Instalments
           /\ Account[job[p].credit] \in Accounts /\ Borrower(job[p].credit) \in Users
  <1>1. job[p] \in Jobs
    BY DEF ControlTypes
  <1>2. /\ job[p].credit \in Credits
        /\ job[p].kind \in {"issue", "prepay", "charge"}
        /\ job[p].kind = "prepay" => job[p].amount \in Nat \ {0}
        /\ job[p].kind = "charge" => job[p].instalment \in Instalments
    BY <1>1 DEF Jobs, NoJob, Underway
  <1>3. job[p].kind = "charge" => job[p].instalment[1] = job[p].credit
    BY DEF Underway
  <1>4. QED
    BY <1>2, <1>3, InstalmentFacts, Owners

(* At first no transaction runs and no row is locked.                      *)
LEMMA ControlStart == Init => ControlInv
  <1> SUFFICES ASSUME Init PROVE ControlInv
    OBVIOUS
  <1>1. ControlTypes
    BY DEF Init, ControlTypes, Jobs
  <1>2. ASSUME NEW p \in Processes PROVE Orderly(p)
    <2>1. pc[p] = "idle" /\ job[p] = NoJob /\ \A r \in Rows : lock[r] # p
      BY CreditsAssumption DEF Init
    <2>2. QED
      BY <2>1 DEF Orderly, Underway, LocksTaken, LocksOnly, UserHeld, AccountHeld, CreditHeld,
                  NoJob
  <1>3. QED
    BY <1>1, <1>2 DEF ControlInv

(* A transaction that stands still keeps its locks and gets no other.      *)
Standing(q) ==
    /\ pc'[q] = pc[q] /\ job'[q] = job[q]
    /\ \A r \in Rows : lock'[r] = q <=> lock[r] = q

(* Whoever stands still stays in order.                                    *)
LEMMA StandingOrderly ==
    ASSUME ControlTypes, NEW q \in Processes, Orderly(q), Standing(q)
    PROVE  Orderly(q)'
  <1>1. Underway(q)'
    BY DEF Orderly, Underway, Standing
  <1>2. /\ UserHeld(q)' <=> UserHeld(q)
        /\ AccountHeld(q)' <=> AccountHeld(q)
        /\ CreditHeld(q)' <=> CreditHeld(q)
        /\ InstalmentHeld(q)' <=> InstalmentHeld(q)
    BY DEF Standing, UserHeld, AccountHeld, CreditHeld, InstalmentHeld
  <1>3. LocksOnly(q)'
    BY <1>2 DEF Orderly, LocksOnly, Standing
  <1>4. LocksTaken(q)'
    <2>1. CASE pc[q] = "idle"
      BY <1>2, <2>1 DEF LocksTaken, UserHeld, AccountHeld, CreditHeld
    <2>2. CASE pc[q] # "idle"
      <3>1. /\ job[q].credit \in Credits /\ Account[job[q].credit] \in Accounts
            /\ Borrower(job[q].credit) \in Users
        BY <2>2, JobFacts DEF Orderly
      <3>2. QED
        BY <1>2, <3>1, RowFacts DEF Orderly, LocksTaken, Standing, Borrower
    <2>3. QED
      BY <2>1, <2>2
  <1>5. QED
    BY <1>1, <1>3, <1>4 DEF Orderly

(* Commit and rollback.                                                    *)
Ends(p) ==
    /\ pc' = [pc EXCEPT ![p] = "idle"]
    /\ job' = [job EXCEPT ![p] = NoJob]
    /\ lock' = [r \in Rows |-> IF lock[r] = p THEN Free ELSE lock[r]]

(* A transaction that ends lets go of its locks only.                      *)
LEMMA EndControl ==
    ASSUME ControlInv, NEW p \in Processes, Ends(p)
    PROVE  ControlInv' /\ \A q \in Processes \ {p} : Standing(q)
  <1>1. ControlTypes'
    BY DEF ControlInv, ControlTypes, Ends, Jobs
  <1>2. Orderly(p)'
    <2>1. pc'[p] = "idle" /\ job'[p] = NoJob /\ \A r \in Rows : lock'[r] # p
      BY CreditsAssumption DEF Ends, ControlInv, ControlTypes
    <2>2. QED
      BY <2>1 DEF Orderly, Underway, LocksTaken, LocksOnly, UserHeld, AccountHeld, CreditHeld,
                  NoJob
  <1>3. ASSUME NEW q \in Processes \ {p} PROVE Standing(q)
    BY CreditsAssumption DEF Ends, Standing, ControlInv, ControlTypes
  <1>4. QED
    BY <1>1, <1>2, <1>3, StandingOrderly DEF ControlInv

(* The statement after the one a transaction has reached.                  *)
LEMMA NextStatement ==
    ASSUME NEW p \in Processes
    PROVE  /\ job[p].kind = "issue" =>
                 /\ pc[p] = "lockUser" => Method(job[p].kind)[pc[p]] = "lockAccount"
                 /\ pc[p] = "lockAccount" => Method(job[p].kind)[pc[p]] = "assess"
                 /\ pc[p] = "assess" => Method(job[p].kind)[pc[p]] = "issue"
           /\ job[p].kind = "prepay" =>
                 /\ pc[p] = "lockCredit" => Method(job[p].kind)[pc[p]] = "lockAccount"
                 /\ pc[p] = "lockAccount" => Method(job[p].kind)[pc[p]] = "lockPending"
                 /\ pc[p] = "lockPending" => Method(job[p].kind)[pc[p]] = "prepay"
           /\ job[p].kind = "charge" =>
                 /\ pc[p] = "lockInstalment" => Method(job[p].kind)[pc[p]] = "lockCredit"
                 /\ pc[p] = "lockCredit" => Method(job[p].kind)[pc[p]] = "lockAccount"
                 /\ pc[p] = "lockAccount" => Method(job[p].kind)[pc[p]] = "charge"
  BY DEF Method, CreateWithScheduleAndIssue, Prepay, ProcessPayment

(* A statement that locks rows and goes on.                                *)
Proceeds(p, rows) ==
    /\ \A r \in rows : lock[r] = Free
    /\ Then(p)
    /\ lock' = [r \in Rows |-> IF r \in rows THEN p ELSE lock[r]]
    /\ job' = job

(* A statement that finds its rows free keeps the others in order.         *)
LEMMA ProceedControl ==
    ASSUME ControlInv, NEW p \in Processes, NEW rows, Proceeds(p, rows),
           pc'[p] \in {"idle", "lockUser", "lockAccount", "assess", "issue", "lockCredit",
                       "lockPending", "prepay", "lockInstalment", "charge"},
           Orderly(p)'
    PROVE  ControlInv' /\ \A q \in Processes \ {p} : Standing(q)
  <1>1. ControlTypes'
    BY DEF ControlInv, ControlTypes, Proceeds, Then
  <1>2. ASSUME NEW q \in Processes \ {p} PROVE Standing(q)
    BY CreditsAssumption DEF Proceeds, Then, Standing, ControlInv, ControlTypes
  <1>3. QED
    BY <1>1, <1>2, StandingOrderly DEF ControlInv

(* A transaction begins without a lock.                                    *)
LEMMA StartControl ==
    ASSUME ControlInv, NEW p \in Processes, NEW j \in Jobs \ {NoJob}, Start(p, j),
           j.kind = "charge" => j.instalment[1] = j.credit
    PROVE  ControlInv' /\ \A q \in Processes \ {p} : Standing(q)
  <1>1. j.kind \in {"issue", "prepay", "charge"}
    BY DEF Jobs, NoJob
  <1>2. Method(j.kind).start = IF j.kind = "issue" THEN "lockUser"
                               ELSE IF j.kind = "prepay" THEN "lockCredit" ELSE "lockInstalment"
    BY <1>1 DEF Method, CreateWithScheduleAndIssue, Prepay, ProcessPayment
  <1>3. /\ pc'[p] = Method(j.kind).start /\ job'[p] = j /\ lock' = lock
    BY DEF Start, ControlInv, ControlTypes
  <1>4. ControlTypes'
    BY <1>1, <1>2 DEF Start, ControlInv, ControlTypes
  <1>5. \A r \in Rows : lock[r] # p
    <2>1. pc[p] = "idle" /\ job[p] = NoJob
      BY DEF Start, ControlInv, Orderly, Underway
    <2>2. \A r \in Rows : r.table \in {"user", "account", "credit", "instalment"}
      BY DEF Rows
    <2>3. QED
      BY <2>1, <2>2 DEF ControlInv, Orderly, LocksOnly, UserHeld, AccountHeld, CreditHeld,
                        InstalmentHeld, NoJob
  <1>6. Orderly(p)'
    <2>1. Underway(p)'
      BY <1>1, <1>2, <1>3 DEF Underway
    <2>2. LocksTaken(p)' /\ LocksOnly(p)'
      BY <1>1, <1>2, <1>3, <1>5 DEF LocksTaken, LocksOnly, UserHeld, AccountHeld, CreditHeld
    <2>3. QED
      BY <2>1, <2>2 DEF Orderly
  <1>7. ASSUME NEW q \in Processes \ {p} PROVE Standing(q)
    BY <1>3 DEF Start, Standing, ControlInv, ControlTypes
  <1>8. QED
    BY <1>4, <1>6, <1>7, StandingOrderly DEF ControlInv

(* Each statement keeps the control invariant, and whoever does not take   *)
(* the step stands still.                                                  *)
Others(p) == \A q \in Processes \ {p} : Standing(q)

(* A statement waits, aborts or goes on; only the last needs an argument.  *)
LEMMA LockControl ==
    ASSUME ControlInv, NEW p \in Processes, NEW rows, NEW verdict \in BOOLEAN,
           Lock(p, rows, verdict),
           Proceeds(p, rows) => ControlInv' /\ Others(p)
    PROVE  ControlInv' /\ Others(p)
  <1>1. CASE Proceeds(p, rows)
    BY <1>1
  <1>2. CASE Ends(p)
    BY <1>2, EndControl DEF Others
  <1>3. Proceeds(p, rows) \/ Ends(p)
    BY DEF Lock, Abort, End, Proceeds, Ends
  <1>4. QED
    BY <1>1, <1>2, <1>3

(* What a statement that goes on changes.                                  *)
LEMMA ProceedFacts ==
    ASSUME ControlInv, NEW p \in Processes, NEW rows, Proceeds(p, rows)
    PROVE  /\ pc'[p] = Method(job[p].kind)[pc[p]]
           /\ job'[p] = job[p]
           /\ \A r \in Rows : r \in rows => lock'[r] = p
           /\ \A r \in Rows : lock[r] = p => lock'[r] = p
           /\ \A r \in Rows : lock'[r] = p => lock[r] = p \/ r \in rows
  BY DEF Proceeds, Then, ControlInv, ControlTypes

(* The advisory lock of the user, before everything else                   *)
(* (lockUserCreditIssue).                                                  *)
LEMMA LockUserControl ==
    ASSUME ControlInv, NEW p \in Processes, LockUser(p)
    PROVE  ControlInv' /\ Others(p)
  <1> DEFINE rows == {User(Borrower(job[p].credit))}
  <1>1. Lock(p, rows, TRUE) /\ pc[p] = "lockUser"
    BY DEF LockUser
  <1>2. Underway(p) /\ LocksTaken(p) /\ LocksOnly(p) /\ ControlTypes
    BY DEF ControlInv, Orderly
  <1>3. job[p].kind = "issue"
    BY <1>1, <1>2 DEF Underway
  <1>4. Borrower(job[p].credit) \in Users
    BY <1>1, <1>2, JobFacts
  <1>5. ASSUME Proceeds(p, rows) PROVE ControlInv' /\ Others(p)
    <2>1. pc'[p] = "lockAccount" /\ job'[p] = job[p]
      BY <1>1, <1>3, <1>5, ProceedFacts, NextStatement
    <2>2. Underway(p)'
      BY <1>3, <2>1 DEF Underway
    <2>3. LocksTaken(p)'
      BY <1>3, <1>4, <1>5, <2>1, ProceedFacts, RowFacts
         DEF LocksTaken, UserHeld, AccountHeld, CreditHeld, Borrower
    <2>4. \A r \in rows : r.table = "user"
      BY <1>4, RowFacts
    <2>5. LocksOnly(p)'
      <3>1. ASSUME NEW r \in Rows, lock'[r] = p, lock[r] = p
            PROVE  r.table \notin {"account", "credit", "instalment"}
        BY <1>1, <1>2, <1>3, <3>1 DEF LocksOnly, AccountHeld, CreditHeld, InstalmentHeld
      <3>2. UserHeld(p)'
        BY <1>3, <2>1 DEF UserHeld
      <3>3. QED
        BY <1>5, <2>4, <3>1, <3>2, ProceedFacts DEF LocksOnly
    <2>6. QED
      BY <1>5, <2>1, <2>2, <2>3, <2>5, ProceedControl DEF Orderly, Others
  <1>6. QED
    BY <1>1, <1>5, LockControl

(* The account: second of an application, third of a charge.               *)
LEMMA LockAccountControl ==
    ASSUME ControlInv, NEW p \in Processes, LockAccount(p)
    PROVE  ControlInv' /\ Others(p)
  <1> DEFINE a == Account[job[p].credit]
             rows == {AccountRow(a)}
  <1>1. Lock(p, rows, Available(a)) /\ pc[p] = "lockAccount"
    BY DEF LockAccount
  <1>2. Underway(p) /\ LocksTaken(p) /\ LocksOnly(p) /\ ControlTypes
    BY DEF ControlInv, Orderly
  <1>3. job[p].kind \in {"issue", "prepay", "charge"} /\ a \in Accounts
        /\ job[p].credit \in Credits /\ Borrower(job[p].credit) \in Users
    BY <1>1, <1>2, JobFacts
  <1>5. ASSUME Proceeds(p, rows) PROVE ControlInv' /\ Others(p)
    <2>1. /\ pc'[p] = CASE job[p].kind = "issue" -> "assess"
                        [] job[p].kind = "prepay" -> "lockPending"
                        [] job[p].kind = "charge" -> "charge"
          /\ job'[p] = job[p]
      BY <1>1, <1>3, <1>5, ProceedFacts, NextStatement
    <2>2. Underway(p)'
      BY <1>1, <1>2, <2>1 DEF Underway
    <2>3. LocksTaken(p)'
      <3>1. job[p].kind = "issue" => lock[User(Borrower(job[p].credit))] = p
        BY <1>1, <1>2 DEF LocksTaken, UserHeld
      <3>2. job[p].kind \in {"prepay", "charge"} => lock[CreditRow(job[p].credit)] = p
        BY <1>1, <1>2 DEF LocksTaken, CreditHeld
      <3>3. lock'[AccountRow(a)] = p
        BY <1>3, <1>5, ProceedFacts, RowFacts
      <3>4. job[p].kind = "issue" => lock'[User(Borrower(job[p].credit))] = p
        BY <1>3, <1>5, <3>1, ProceedFacts, RowFacts
      <3>5. job[p].kind \in {"prepay", "charge"} => lock'[CreditRow(job[p].credit)] = p
        BY <1>3, <1>5, <3>2, ProceedFacts, RowFacts
      <3>6. QED
        BY <2>1, <3>3, <3>4, <3>5 DEF LocksTaken, UserHeld, AccountHeld, CreditHeld, Borrower
    <2>4. \A r \in rows : r.table = "account"
      BY <1>3, RowFacts
    <2>5. LocksOnly(p)'
      <3>1. AccountHeld(p)'
        BY <1>3, <2>1 DEF AccountHeld
      <3>2. /\ UserHeld(p) => UserHeld(p)'
            /\ CreditHeld(p) => CreditHeld(p)'
            /\ InstalmentHeld(p) => InstalmentHeld(p)' \/ job[p].kind = "prepay"
        BY <1>1, <2>1 DEF UserHeld, CreditHeld, InstalmentHeld
      <3>3. job[p].kind = "prepay" => ~InstalmentHeld(p)
        BY <1>1 DEF InstalmentHeld
      <3>4. QED
        BY <1>2, <1>5, <2>4, <3>1, <3>2, <3>3, ProceedFacts DEF LocksOnly
    <2>6. pc'[p] \in {"assess", "lockPending", "charge"}
      BY <1>3, <2>1
    <2>7. QED
      BY <1>5, <2>6, <2>2, <2>3, <2>5, ProceedControl DEF Orderly, Others
  <1>6. Available(a) \in BOOLEAN
    BY DEF Available
  <1>7. QED
    BY <1>1, <1>5, <1>6, LockControl

(* The policy is checked with both rows locked.                            *)
LEMMA AssessControl ==
    ASSUME ControlInv, NEW p \in Processes, Assess(p)
    PROVE  ControlInv' /\ Others(p)
  <1>1. Lock(p, {}, Eligible(job[p].credit)) /\ pc[p] = "assess"
    BY DEF Assess
  <1>2. Underway(p) /\ LocksTaken(p) /\ LocksOnly(p) /\ ControlTypes
    BY DEF ControlInv, Orderly
  <1>3. job[p].kind = "issue" /\ Borrower(job[p].credit) \in Users
        /\ job[p].credit \in Credits /\ Account[job[p].credit] \in Accounts
    BY <1>1, <1>2, JobFacts DEF Underway
  <1>5. ASSUME Proceeds(p, {}) PROVE ControlInv' /\ Others(p)
    <2>1. pc'[p] = "issue" /\ job'[p] = job[p]
      BY <1>1, <1>3, <1>5, ProceedFacts, NextStatement
    <2>2. Underway(p)'
      BY <1>3, <2>1 DEF Underway
    <2>3. LocksTaken(p)'
      <3>1. /\ lock[User(Borrower(job[p].credit))] = p
            /\ lock[AccountRow(Account[job[p].credit])] = p
        BY <1>1, <1>2, <1>3 DEF LocksTaken, UserHeld, AccountHeld
      <3>2. /\ lock'[User(Borrower(job[p].credit))] = p
            /\ lock'[AccountRow(Account[job[p].credit])] = p
        BY <1>3, <1>5, <3>1, ProceedFacts, RowFacts
      <3>3. QED
        BY <1>3, <2>1, <3>2 DEF LocksTaken, UserHeld, AccountHeld, CreditHeld, Borrower
    <2>5. LocksOnly(p)'
      <3>1. UserHeld(p)' /\ AccountHeld(p)' /\ ~CreditHeld(p) /\ ~InstalmentHeld(p)
        BY <1>1, <1>3, <2>1 DEF UserHeld, AccountHeld, CreditHeld, InstalmentHeld
      <3>2. QED
        BY <1>2, <1>5, <3>1, ProceedFacts DEF LocksOnly
    <2>6. QED
      BY <1>5, <2>1, <2>2, <2>3, <2>5, ProceedControl DEF Orderly, Others
  <1>6. Eligible(job[p].credit) \in BOOLEAN
    BY DEF Eligible
  <1>7. QED
    BY <1>1, <1>5, <1>6, LockControl

(* The instalment that a charge begins with.                               *)
LEMMA LockInstalmentControl ==
    ASSUME ControlInv, NEW p \in Processes, LockInstalment(p)
    PROVE  ControlInv' /\ Others(p)
  <1> DEFINE rows == {ScheduleRow(job[p].instalment)}
  <1>1. Lock(p, rows, TRUE) /\ pc[p] = "lockInstalment"
    BY DEF LockInstalment
  <1>2. Underway(p) /\ LocksTaken(p) /\ LocksOnly(p) /\ ControlTypes
    BY DEF ControlInv, Orderly
  <1>3. job[p].kind = "charge" /\ job[p].instalment[1] = job[p].credit
    BY <1>1, <1>2 DEF Underway
  <1>4. job[p].instalment \in Instalments
    BY <1>1, <1>2, <1>3, JobFacts
  <1>5. ASSUME Proceeds(p, rows) PROVE ControlInv' /\ Others(p)
    <2>1. pc'[p] = "lockCredit" /\ job'[p] = job[p]
      BY <1>1, <1>3, <1>5, ProceedFacts, NextStatement
    <2>2. Underway(p)'
      BY <1>3, <2>1 DEF Underway
    <2>3. LocksTaken(p)'
      BY <1>3, <2>1 DEF LocksTaken, UserHeld, AccountHeld, CreditHeld
    <2>4. \A r \in rows : r.table = "instalment"
      BY <1>4, RowFacts
    <2>5. LocksOnly(p)'
      <3>1. InstalmentHeld(p)'
        BY <1>3, <2>1 DEF InstalmentHeld
      <3>2. ~UserHeld(p) /\ ~AccountHeld(p) /\ ~CreditHeld(p)
        BY <1>1 DEF UserHeld, AccountHeld, CreditHeld
      <3>3. QED
        BY <1>2, <1>5, <2>4, <3>1, <3>2, ProceedFacts DEF LocksOnly
    <2>6. QED
      BY <1>5, <2>1, <2>2, <2>3, <2>5, ProceedControl DEF Orderly, Others
  <1>6. QED
    BY <1>1, <1>5, LockControl

(* The credit: first of a prepayment, second of a charge.                  *)
LEMMA LockCreditControl ==
    ASSUME ControlInv, NEW p \in Processes, LockCredit(p)
    PROVE  ControlInv' /\ Others(p)
  <1> DEFINE rows == {CreditRow(job[p].credit)}
  <1>1. PICK verdict \in BOOLEAN : Lock(p, rows, verdict)
    <2>1. \/ Lock(p, rows, status[job[p].credit] = "active")
          \/ Lock(p, rows, state[job[p].instalment] \in {"pending", "overdue"})
      BY DEF LockCredit
    <2>2. /\ (status[job[p].credit] = "active") \in BOOLEAN
          /\ (state[job[p].instalment] \in {"pending", "overdue"}) \in BOOLEAN
      OBVIOUS
    <2> HIDE DEF rows
    <2>3. QED
      BY <2>1, <2>2
  <1>a. pc[p] = "lockCredit"
    BY DEF LockCredit
  <1>2. Underway(p) /\ LocksTaken(p) /\ LocksOnly(p) /\ ControlTypes
    BY DEF ControlInv, Orderly
  <1>3. \/ job[p].kind = "prepay"
        \/ (job[p].kind = "charge" /\ job[p].instalment[1] = job[p].credit)
    BY <1>a, <1>2 DEF Underway
  <1>4. job[p].credit \in Credits
    BY <1>a, <1>2, JobFacts
  <1>5. ASSUME Proceeds(p, rows) PROVE ControlInv' /\ Others(p)
    <2>1. pc'[p] = "lockAccount" /\ job'[p] = job[p]
      BY <1>a, <1>3, <1>5, ProceedFacts, NextStatement
    <2>2. Underway(p)'
      BY <1>3, <2>1 DEF Underway
    <2>3. LocksTaken(p)'
      BY <1>3, <1>4, <1>5, <2>1, ProceedFacts, RowFacts
         DEF LocksTaken, UserHeld, AccountHeld, CreditHeld
    <2>4. \A r \in rows : r.table = "credit"
      BY <1>4, RowFacts
    <2>5. LocksOnly(p)'
      <3>1. CreditHeld(p)'
        BY <1>3, <2>1 DEF CreditHeld
      <3>2. /\ ~UserHeld(p) /\ ~AccountHeld(p)
            /\ InstalmentHeld(p) => InstalmentHeld(p)'
        BY <1>a, <1>3, <2>1 DEF UserHeld, AccountHeld, InstalmentHeld
      <3>3. QED
        BY <1>2, <1>5, <2>4, <3>1, <3>2, ProceedFacts DEF LocksOnly
    <2>6. QED
      BY <1>5, <2>1, <2>2, <2>3, <2>5, ProceedControl DEF Orderly, Others
  <1>6. QED
    BY <1>1, <1>5, LockControl

(* All pending instalments of a credit, the last locks of a prepayment.    *)
LEMMA LockPendingControl ==
    ASSUME ControlInv, NEW p \in Processes, LockPending(p)
    PROVE  ControlInv' /\ Others(p)
  <1> DEFINE rows == {ScheduleRow(x) : x \in PendingOf(job[p].credit)}
  <1>1. PICK verdict \in BOOLEAN : Lock(p, rows, verdict)
    BY DEF LockPending
  <1>a. pc[p] = "lockPending"
    BY DEF LockPending
  <1>2. Underway(p) /\ LocksTaken(p) /\ LocksOnly(p) /\ ControlTypes
    BY DEF ControlInv, Orderly
  <1>3. job[p].kind = "prepay" /\ job[p].credit \in Credits
        /\ Account[job[p].credit] \in Accounts
    BY <1>a, <1>2, JobFacts DEF Underway
  <1>5. ASSUME Proceeds(p, rows) PROVE ControlInv' /\ Others(p)
    <2>1. pc'[p] = "prepay" /\ job'[p] = job[p]
      BY <1>a, <1>3, <1>5, ProceedFacts, NextStatement
    <2>2. Underway(p)'
      BY <1>3, <2>1 DEF Underway
    <2>3. LocksTaken(p)'
      <3>1. /\ lock[CreditRow(job[p].credit)] = p
            /\ lock[AccountRow(Account[job[p].credit])] = p
        BY <1>a, <1>2, <1>3 DEF LocksTaken, CreditHeld, AccountHeld
      <3>2. /\ lock'[CreditRow(job[p].credit)] = p
            /\ lock'[AccountRow(Account[job[p].credit])] = p
        BY <1>3, <1>5, <3>1, ProceedFacts, RowFacts
      <3>3. QED
        BY <1>3, <2>1, <3>2 DEF LocksTaken, UserHeld, AccountHeld, CreditHeld
    <2>4. \A r \in rows : r.table = "instalment"
      BY DEF ScheduleRow
    <2>5. LocksOnly(p)'
      <3>1. CreditHeld(p)' /\ AccountHeld(p)' /\ InstalmentHeld(p)' /\ ~UserHeld(p)
        BY <1>3, <1>a, <2>1 DEF CreditHeld, AccountHeld, InstalmentHeld, UserHeld
      <3>3. QED
        BY <1>2, <1>5, <2>4, <3>1, ProceedFacts DEF LocksOnly
    <2>6. QED
      BY <1>5, <2>1, <2>2, <2>3, <2>5, ProceedControl DEF Orderly, Others
  <1>6. QED
    BY <1>1, <1>5, LockControl

(* What the instalments in the order of their dates are.                   *)
LEMMA InTurnOrders ==
    ASSUME NEW S \in SUBSET Instalments, IsFiniteSet(S)
    PROVE  InOrder(InTurn(S), Turn, S)
  <1>1. PICK s : InOrder(s, Turn, S)
    BY CreditsAssumption, OrderExists
  <1>2. s \in [1..Cardinality(S) -> S]
        /\ \A i, j \in 1..Cardinality(S) : i < j => Turn[s[i]] < Turn[s[j]]
    BY <1>1 DEF InOrder
  <1>3. QED
    BY <1>2 DEF InTurn, InOrder

(* Finitely many credits have finitely many instalments.                   *)
LEMMA InstalmentsFinite == IsFiniteSet(Instalments)
  <1> DEFINE T == {InstalmentsOf(c) : c \in Credits}
  <1>1. IsFiniteSet(T)
    <2> DEFINE f == [c \in Credits |-> InstalmentsOf(c)]
    <2>1. f \in Surjection(Credits, T)
      BY DEF Surjection
    <2> HIDE DEF f, T
    <2>2. QED
      BY <2>1, CreditsAssumption, FS_Surjection
  <1>2. \A S \in T : IsFiniteSet(S)
    BY InstalmentsCounted
  <1>3. UNION T = Instalments
    BY DEF Instalments, InstalmentsOf
  <1> HIDE DEF T
  <1>4. QED
    BY <1>1, <1>2, <1>3, FS_UNION

(* The scheduler reads instalments and locks nothing.                      *)
LEMMA FindControl ==
    ASSUME FindDuePayments
    PROVE  /\ batch' \in Seq(Instalments)
           /\ UNCHANGED <<accountVars, creditVars, today, pc, job, lock, faults>>
  <1> DEFINE due == InTurn(DueRows)
             last == Min({Len(due), BatchLimit})
  <1>1. DueRows \in SUBSET Instalments /\ IsFiniteSet(DueRows)
    BY InstalmentsFinite, FS_Subset DEF DueRows
  <1>2. due \in [1..Cardinality(DueRows) -> DueRows] /\ Cardinality(DueRows) \in Nat
    BY <1>1, InTurnOrders, FS_CardinalityType DEF InOrder
  <1>3. due \in Seq(Instalments) /\ Len(due) = Cardinality(DueRows)
    <2>1. due \in [1..Cardinality(DueRows) -> Instalments]
      BY <1>1, <1>2
    <2> HIDE DEF due
    <2>2. QED
      BY <1>2, <2>1, PlanLength
  <1>4. last \in 0..Len(due)
    <2>1. Len(due) \in Nat /\ BatchLimit \in Nat
      BY <1>2, <1>3, CreditsAssumption
    <2> HIDE DEF due
    <2>2. \E m \in {Len(due), BatchLimit} : \A x \in {Len(due), BatchLimit} : m <= x
      BY <2>1
    <2>3. last \in {Len(due), BatchLimit} /\ last <= Len(due)
      BY <2>2 DEF Min
    <2>4. QED
      BY <2>1, <2>3
  <1>5. SubSeq(due, 1, last) \in Seq(Instalments)
    <2> HIDE DEF due, last
    <2>1. QED
      BY <1>3, <1>4
  <1>6. QED
    BY <1>5 DEF FindDuePayments

(* A request begins: an application for a credit nobody applies for yet,   *)
(* or a prepayment.                                                        *)
LEMMA SubmitControl ==
    ASSUME ControlInv, NEW p \in Requests, Submit(p)
    PROVE  /\ ControlInv' /\ Others(p)
           /\ UNCHANGED <<accountVars, creditVars, today, faults, batch>>
           /\ pc'[p] \in {"lockUser", "lockCredit"} /\ pc[p] = "idle"
           /\ job'[p].kind \in {"issue", "prepay"}
           /\ job'[p].kind = "issue" =>
                 /\ pc'[p] = "lockUser"
                 /\ status[job'[p].credit] = "absent"
                 /\ \A q \in Requests \ {p} :
                        job[q].kind = "issue" => job[q].credit # job'[p].credit
           /\ job'[p].kind = "prepay" => pc'[p] = "lockCredit"
  <1>0. p \in Processes
    BY DEF Processes
  <1>1. ASSUME NEW c \in Credits, CreateCredit(p, c)
        PROVE  /\ ControlInv' /\ Others(p)
               /\ UNCHANGED <<accountVars, creditVars, today, faults, batch>>
               /\ pc'[p] = "lockUser" /\ pc[p] = "idle"
               /\ job'[p] = [kind |-> "issue", credit |-> c]
    <2> DEFINE j == [kind |-> "issue", credit |-> c]
    <2>1. Start(p, j) /\ batch' = batch
      BY <1>1 DEF CreateCredit
    <2>2. j \in Jobs \ {NoJob} /\ j.kind = "issue" /\ Method(j.kind).start = "lockUser"
      BY DEF Jobs, NoJob, Method, CreateWithScheduleAndIssue
    <2>3. job'[p] = j /\ pc'[p] = "lockUser" /\ pc[p] = "idle"
          /\ UNCHANGED <<accountVars, creditVars, today, faults>>
      BY <1>0, <2>1, <2>2 DEF Start, ControlInv, ControlTypes
    <2> HIDE DEF j
    <2>4. ControlInv' /\ Others(p)
      BY <1>0, <2>1, <2>2, StartControl DEF Others
    <2>5. QED
      BY <2>1, <2>3, <2>4 DEF j
  <1>2. ASSUME NEW o \in Prepayments, PrepayCredit(p, o)
        PROVE  /\ ControlInv' /\ Others(p)
               /\ UNCHANGED <<accountVars, creditVars, today, faults, batch>>
               /\ pc'[p] = "lockCredit" /\ pc[p] = "idle" /\ job'[p].kind = "prepay"
    <2> DEFINE j == [kind |-> "prepay", credit |-> o.credit,
                     amount |-> o.amount, mode |-> o.mode]
    <2>1. Start(p, j) /\ batch' = batch
      BY <1>2 DEF PrepayCredit
    <2>2. o.credit \in Credits /\ o.amount \in Nat \ {0} /\ o.mode \in Modes
      BY CreditsAssumption
    <2>3. j \in Jobs \ {NoJob} /\ j.kind = "prepay" /\ Method(j.kind).start = "lockCredit"
      BY <2>2 DEF Jobs, NoJob, Method, Prepay
    <2>4. job'[p] = j /\ pc'[p] = "lockCredit" /\ pc[p] = "idle"
          /\ UNCHANGED <<accountVars, creditVars, today, faults>>
      BY <1>0, <2>1, <2>3 DEF Start, ControlInv, ControlTypes
    <2> HIDE DEF j
    <2>5. ControlInv' /\ Others(p)
      BY <1>0, <2>1, <2>3, StartControl DEF Others
    <2>6. QED
      BY <2>1, <2>3, <2>4, <2>5
  <1>3. CASE \E c \in Credits : CreateCredit(p, c)
    <2>1. PICK c \in Credits : CreateCredit(p, c)
      BY <1>3
    <2>2. /\ status[c] = "absent"
          /\ \A q \in Requests \ {p} : job[q].kind = "issue" => job[q].credit # c
      BY <2>1 DEF CreateCredit
    <2>3. /\ ControlInv' /\ Others(p)
          /\ UNCHANGED <<accountVars, creditVars, today, faults, batch>>
          /\ pc'[p] = "lockUser" /\ pc[p] = "idle"
          /\ job'[p] = [kind |-> "issue", credit |-> c]
      BY <1>1, <2>1
    <2>4. job'[p].kind = "issue" /\ job'[p].credit = c
      BY <2>3
    <2>5. /\ status[job'[p].credit] = "absent"
          /\ \A q \in Requests \ {p} :
                 job[q].kind = "issue" => job[q].credit # job'[p].credit
      BY <2>2, <2>4
    <2>6. QED
      BY <2>3, <2>4, <2>5
  <1>4. CASE \E o \in Prepayments : PrepayCredit(p, o)
    BY <1>2, <1>4
  <1>5. QED
    BY <1>3, <1>4 DEF Submit

(* The scheduler takes the next instalment of its batch.                   *)
LEMMA ProcessNextControl ==
    ASSUME ControlInv, batch \in Seq(Instalments), ProcessNext
    PROVE  /\ ControlInv' /\ Others(Scheduler)
           /\ UNCHANGED <<accountVars, creditVars, today, faults>>
           /\ batch' \in Seq(Instalments)
           /\ pc'[Scheduler] = "lockInstalment" /\ pc[Scheduler] = "idle"
           /\ job'[Scheduler].kind = "charge"
  <1> DEFINE j == [kind |-> "charge", credit |-> Head(batch)[1], instalment |-> Head(batch)]
  <1>0. Scheduler \in Processes
    BY DEF Processes
  <1>1. Start(Scheduler, j) /\ batch' = Tail(batch) /\ batch # <<>>
    BY DEF ProcessNext
  <1>2. Head(batch) \in Instalments /\ Tail(batch) \in Seq(Instalments)
    BY <1>1
  <1>3. j \in Jobs \ {NoJob} /\ j.kind = "charge" /\ Method(j.kind).start = "lockInstalment"
        /\ j.instalment[1] = j.credit
    BY <1>2, InstalmentFacts DEF Jobs, NoJob, Method, ProcessPayment
  <1>4. job'[Scheduler] = j /\ pc'[Scheduler] = "lockInstalment" /\ pc[Scheduler] = "idle"
        /\ UNCHANGED <<accountVars, creditVars, today, faults>>
    BY <1>0, <1>1, <1>3 DEF Start, ControlInv, ControlTypes
  <1> HIDE DEF j
  <1>5. ControlInv' /\ Others(Scheduler)
    BY <1>0, <1>1, <1>3, StartControl DEF Others
  <1>6. QED
    BY <1>1, <1>2, <1>3, <1>4, <1>5

(* Sets of transactions that wait for each other.                          *)
LEMMA OnlyPrepaymentsCircle == ControlInv => OnlyPrepaymentsDeadlock
  <1> SUFFICES ASSUME ControlInv,
                      NEW S \in (SUBSET Processes) \ {{}},
                      \A p \in S : \E q \in S : WaitsFor(p, q),
                      \A p \in S : pc[p] # "lockPending"
               PROVE  FALSE
    BY DEF OnlyPrepaymentsDeadlock
  <1>1. ASSUME NEW p \in S
        PROVE  \E q \in S : \E r \in Wanted(p) : lock[r] = q
    BY DEF WaitsFor
  <1>2. ASSUME NEW p \in S, NEW r \in Rows, NEW q \in S, lock[r] = q
        PROVE  LocksOnly(q) /\ Underway(q) /\ q \in Processes
    BY DEF ControlInv, Orderly
  <1>3. ASSUME NEW p \in S, pc[p] # "idle"
        PROVE  /\ AccountRow(Account[job[p].credit]) \in Rows
               /\ User(Borrower(job[p].credit)) \in Rows /\ CreditRow(job[p].credit) \in Rows
               /\ job[p].kind = "charge" => ScheduleRow(job[p].instalment) \in Rows
    <2>1. p \in Processes /\ Underway(p) /\ ControlTypes
      BY DEF ControlInv, Orderly
    <2>2. QED
      BY <1>3, <2>1, JobFacts, RowFacts
  <1>4. \A p \in S : pc[p] # "lockAccount"
    <2> SUFFICES ASSUME NEW p \in S, pc[p] = "lockAccount" PROVE FALSE
      OBVIOUS
    <2>1. Wanted(p) = {AccountRow(Account[job[p].credit])}
      BY DEF Wanted
    <2>2. PICK q \in S : lock[AccountRow(Account[job[p].credit])] = q
      BY <1>1, <2>1
    <2>3. AccountHeld(q)
      BY <1>2, <1>3, <2>2 DEF LocksOnly, AccountRow
    <2>4. Wanted(q) = {}
      BY <2>3 DEF AccountHeld, Wanted
    <2>5. QED
      BY <1>1, <2>4
  <1>5. \A p \in S : pc[p] # "lockUser"
    <2> SUFFICES ASSUME NEW p \in S, pc[p] = "lockUser" PROVE FALSE
      OBVIOUS
    <2>1. Wanted(p) = {User(Borrower(job[p].credit))}
      BY DEF Wanted
    <2>2. PICK q \in S : lock[User(Borrower(job[p].credit))] = q
      BY <1>1, <2>1
    <2>3. UserHeld(q)
      BY <1>2, <1>3, <2>2 DEF LocksOnly, User
    <2>4. Wanted(q) = {}
      BY <1>4, <2>3 DEF UserHeld, Wanted
    <2>5. QED
      BY <1>1, <2>4
  <1>6. \A p \in S : pc[p] # "lockCredit"
    <2> SUFFICES ASSUME NEW p \in S, pc[p] = "lockCredit" PROVE FALSE
      OBVIOUS
    <2>1. Wanted(p) = {CreditRow(job[p].credit)}
      BY DEF Wanted
    <2>2. PICK q \in S : lock[CreditRow(job[p].credit)] = q
      BY <1>1, <2>1
    <2>3. CreditHeld(q)
      BY <1>2, <1>3, <2>2 DEF LocksOnly, CreditRow
    <2>4. Wanted(q) = {}
      BY <1>4, <2>3 DEF CreditHeld, Wanted
    <2>5. QED
      BY <1>1, <2>4
  <1>7. \A p \in S : pc[p] # "lockInstalment"
    <2> SUFFICES ASSUME NEW p \in S, pc[p] = "lockInstalment" PROVE FALSE
      OBVIOUS
    <2>1. Wanted(p) = {ScheduleRow(job[p].instalment)} /\ job[p].kind = "charge"
      BY DEF Wanted, ControlInv, Orderly, Underway
    <2>2. PICK q \in S : lock[ScheduleRow(job[p].instalment)] = q
      BY <1>1, <2>1
    <2>3. InstalmentHeld(q)
      BY <1>2, <1>3, <2>1, <2>2 DEF LocksOnly, ScheduleRow
    <2>4. Wanted(q) = {}
      BY <1>4, <1>6, <2>3 DEF InstalmentHeld, Wanted
    <2>5. QED
      BY <1>1, <2>4
  <1>8. PICK p \in S : TRUE
    OBVIOUS
  <1>9. Wanted(p) = {}
    BY <1>4, <1>5, <1>6, <1>7 DEF Wanted
  <1>10. QED
    BY <1>1, <1>9

----------------------------------------------------------------------------
(* Rows of the tables: what a transaction has found out, and what holds of *)
(* each credit and its schedule.                                           *)

(* The columns of the tables.                                              *)
DataTypes ==
    /\ balance \in [Accounts -> Nat]
    /\ closed \in [Accounts -> BOOLEAN]
    /\ blocked \in [Accounts -> BOOLEAN]
    /\ status \in [Credits -> {"absent", "active", "overdue", "closed"}]
    /\ principal \in [Credits -> Nat]
    /\ monthly \in [Credits -> Nat \ {0}]
    /\ state \in [Instalments -> {"absent", "pending", "overdue", "paid"}]
    /\ amount \in [Instalments -> Nat \ {0}]
    /\ penalty \in [Instalments -> Nat]
    /\ charged \in [Credits -> Nat]
    /\ net \in [Accounts -> Int]

(* The date, the batch of the scheduler, the faults.                       *)
OtherTypes ==
    /\ today \in 0..Horizon
    /\ batch \in Seq(Instalments)
    /\ faults \in 0..MaxFaults

(* The three type predicates say what TypeOK says.                         *)
LEMMA Types == TypeOK <=> DataTypes /\ ControlTypes /\ OtherTypes
  BY DEF TypeOK, DataTypes, ControlTypes, OtherTypes

(* What a transaction on credit c has found out.                           *)
Found(p, c) ==
    /\ job[p].kind = "issue" => status[c] = "absent"
    /\ pc[p] \in {"assess", "issue"} => ~closed[Account[c]]
    /\ pc[p] = "issue" /\ "active" \in Checks =>
           Cardinality(LiveCredits(Borrower(c))) < MaxActive
    /\ job[p].kind = "prepay" /\ CreditHeld(p) => status[c] = "active"
    /\ pc[p] = "prepay" => PendingOf(c) # {} /\ job[p].amount <= Outstanding(Plan(c))
    /\ job[p].kind = "charge" /\ CreditHeld(p) =>
           state[job[p].instalment] \in {"pending", "overdue"}

(* A transaction has found out what its next write relies on.              *)
Judged(p) == \A c \in Credits : pc[p] # "idle" /\ job[p].credit = c => Found(p, c)

(* A credit is applied for once, and never by the scheduler.               *)
DistinctApplications ==
    /\ \A p, q \in Processes :
          p # q /\ job[p].kind = "issue" /\ job[q].kind = "issue" => job[p].credit # job[q].credit
    /\ job[Scheduler].kind # "issue"

(* The instalments that are still owed.                                    *)
UnpaidOf(c) == {x \in InstalmentsOf(c) : state[x] # "paid"}

(* What was charged and what is unpaid make up what was agreed.            *)
Accounted(c) ==
    charged[c] + SumFunctionOnSet(amount, UnpaidOf(c)) =
        Monthly[c] * Term[c] + SumFunctionOnSet(penalty, InstalmentsOf(c) \ UnpaidOf(c))

(* An instalment and its credit agree.                                     *)
InstalmentOK(x, c) ==
    /\ state[x] = "absent" <=> status[c] = "absent"
    /\ state[x] = "absent" => amount[x] = Monthly[c]
    /\ state[x] \in {"absent", "pending"} => penalty[x] = 0
    /\ state[x] = "overdue" => status[c] = "overdue"

(* What holds of the schedule of a credit.                                 *)
ScheduleOK(c) ==
    /\ \A x \in InstalmentsOf(c) : InstalmentOK(x, c)
    /\ status[c] = "absent" => charged[c] = 0
    /\ status[c] # "absent" => (status[c] = "closed" <=> UnpaidOf(c) = {})
    /\ status[c] # "absent" => Accounted(c)

(* A step that does not write a credit or its schedule.                    *)
Untouched(c) ==
    /\ status'[c] = status[c] /\ charged'[c] = charged[c]
    /\ \A x \in InstalmentsOf(c) :
          state'[x] = state[x] /\ amount'[x] = amount[x] /\ penalty'[x] = penalty[x]

(* What findPendingCreditPaymentsForUpdate returns: every pending          *)
(* instalment, once.                                                       *)
LEMMA PendingFacts ==
    ASSUME NEW c \in Credits
    PROVE  /\ PendingOf(c) \in SUBSET Instalments /\ PendingOf(c) \subseteq InstalmentsOf(c)
           /\ IsFiniteSet(PendingOf(c)) /\ Cardinality(PendingOf(c)) \in Nat
           /\ InOrder(PendingSeq(c), Turn, PendingOf(c))
           /\ PendingSeq(c) \in [1..Cardinality(PendingOf(c)) -> PendingOf(c)]
           /\ Len(PendingSeq(c)) = Cardinality(PendingOf(c))
           /\ \A i, j \in 1..Len(PendingSeq(c)) : PendingSeq(c)[i] = PendingSeq(c)[j] => i = j
           /\ {PendingSeq(c)[i] : i \in 1..Len(PendingSeq(c))} = PendingOf(c)
           /\ PendingOf(c) # {} => Len(PendingSeq(c)) # 0
  <1> DEFINE n == Cardinality(PendingOf(c))
  <1>1. PendingOf(c) \in SUBSET Instalments /\ PendingOf(c) \subseteq InstalmentsOf(c)
    BY InstalmentFacts DEF PendingOf
  <1>2. IsFiniteSet(PendingOf(c)) /\ n \in Nat
    BY <1>1, InstalmentsFinite, FS_Subset, FS_CardinalityType
  <1>3. InOrder(PendingSeq(c), Turn, PendingOf(c))
    BY <1>1, <1>2, InTurnOrders DEF PendingSeq
  <1>4. PendingSeq(c) \in [1..n -> PendingOf(c)]
    BY <1>3 DEF InOrder
  <1>5. Len(PendingSeq(c)) = n
    BY <1>2, <1>4, PlanLength
  <1>6. \A x \in PendingOf(c) : Turn[x] \in Nat
    BY <1>1, CreditsAssumption
  <1>7. /\ \A i, j \in 1..n : PendingSeq(c)[i] = PendingSeq(c)[j] => i = j
        /\ {PendingSeq(c)[i] : i \in 1..n} = PendingOf(c)
    BY <1>2, <1>3, <1>6, OrderIsOneToOne
  <1>8. PendingOf(c) # {} => n # 0
    BY <1>2, FS_EmptySet
  <1>9. QED
    BY <1>1, <1>2, <1>3, <1>4, <1>5, <1>7, <1>8

(* Nobody else changes what a prepayment has found outstanding.            *)
LEMMA UntouchedPlan ==
    ASSUME NEW c \in Credits, Untouched(c)
    PROVE  /\ PendingOf(c)' = PendingOf(c)
           /\ Plan(c)' = Plan(c)
           /\ Outstanding(Plan(c))' = Outstanding(Plan(c))
  <1>1. PendingOf(c)' = PendingOf(c)
    BY DEF PendingOf, Untouched
  <1>2. PendingSeq(c)' = PendingSeq(c)
    BY <1>1 DEF PendingSeq, InTurn
  <1>3. \A i \in 1..Len(PendingSeq(c)) : PendingSeq(c)[i] \in InstalmentsOf(c)
    BY PendingFacts
  <1>4. \A i \in 1..Len(PendingSeq(c)) : amount'[PendingSeq(c)[i]] = amount[PendingSeq(c)[i]]
    BY <1>3 DEF Untouched
  <1>5. Plan(c)' = Plan(c)
    BY <1>2, <1>4 DEF Plan
  <1>6. QED
    BY <1>1, <1>5

(* A schedule nobody writes keeps what holds of it.                        *)
LEMMA UntouchedSchedule ==
    ASSUME NEW c \in Credits, DataTypes, Untouched(c), ScheduleOK(c)
    PROVE  ScheduleOK(c)'
  <1>1. UnpaidOf(c)' = UnpaidOf(c)
    BY DEF UnpaidOf, Untouched
  <1>2. \A x \in InstalmentsOf(c) : InstalmentOK(x, c)'
    BY DEF ScheduleOK, InstalmentOK, Untouched
  <1>3. Accounted(c) => Accounted(c)'
    <2>1. UnpaidOf(c) \subseteq InstalmentsOf(c)
      BY DEF UnpaidOf
    <2>2. Summable(amount, UnpaidOf(c)) /\ Summable(penalty, InstalmentsOf(c) \ UnpaidOf(c))
      BY <2>1, InstalmentsCounted, InstalmentFacts, FS_Subset DEF Summable, DataTypes
    <2>3. /\ SumFunctionOnSet(amount', UnpaidOf(c)) = SumFunctionOnSet(amount, UnpaidOf(c))
          /\ SumFunctionOnSet(penalty', InstalmentsOf(c) \ UnpaidOf(c)) =
                 SumFunctionOnSet(penalty, InstalmentsOf(c) \ UnpaidOf(c))
      BY <2>1, <2>2, SumSame DEF Untouched
    <2>4. charged'[c] = charged[c]
      BY DEF Untouched
    <2>5. QED
      BY <1>1, <2>3, <2>4 DEF Accounted
  <1>4. QED
    BY <1>1, <1>2, <1>3 DEF ScheduleOK, Untouched

(* A transaction that stands still keeps what it has found out, if what    *)
(* changes is not on the rows it has locked.                               *)
Undisturbed(q, c) ==
    /\ Untouched(c) \/ (~CreditHeld(q) /\ job[q].kind # "issue")
    /\ lock[AccountRow(Account[c])] = q => closed'[Account[c]] = closed[Account[c]]
    /\ lock[User(Borrower(c))] = q =>
           LiveCredits(Borrower(c))' \subseteq LiveCredits(Borrower(c))

(* A user has finitely many credits.                                       *)
LEMMA LiveFinite ==
    ASSUME NEW u
    PROVE  IsFiniteSet(LiveCredits(u)) /\ Cardinality(LiveCredits(u)) \in Nat
  <1>1. LiveCredits(u) \in SUBSET Credits
    BY DEF LiveCredits
  <1>2. QED
    BY <1>1, CreditsAssumption, FS_Subset, FS_CardinalityType

(* What a transaction has found out stays true while it stands still.      *)
LEMMA JudgedKept ==
    ASSUME ControlTypes, NEW q \in Processes, Orderly(q), Standing(q), Judged(q),
           \A c \in Credits : pc[q] # "idle" /\ job[q].credit = c => Undisturbed(q, c)
    PROVE  Judged(q)'
  <1> SUFFICES ASSUME NEW c \in Credits, pc'[q] # "idle", job'[q].credit = c
               PROVE  Found(q, c)'
    BY DEF Judged
  <1>1. pc[q] # "idle" /\ job[q].credit = c /\ pc'[q] = pc[q] /\ job'[q] = job[q]
    BY DEF Standing
  <1>2. Found(q, c) /\ Undisturbed(q, c)
    BY <1>1 DEF Judged
  <1>3. CreditHeld(q)' <=> CreditHeld(q)
    BY <1>1 DEF CreditHeld
  <1>4. Underway(q) /\ LocksTaken(q)
    BY DEF Orderly
  <1>5. pc[q] \in {"assess", "issue"} => job[q].kind = "issue"
    BY <1>4 DEF Underway
  <1>6. pc[q] = "prepay" => CreditHeld(q) /\ job[q].kind = "prepay"
    BY <1>4 DEF Underway, CreditHeld
  <1>7. (job'[q].kind = "issue" => status'[c] = "absent")
    BY <1>1, <1>2 DEF Found, Undisturbed, Untouched
  <1>8. (pc'[q] \in {"assess", "issue"} => ~closed'[Account[c]])
    <2> SUFFICES ASSUME pc'[q] \in {"assess", "issue"} PROVE ~closed'[Account[c]]
      OBVIOUS
    <2>1. lock[AccountRow(Account[c])] = q
      BY <1>1, <1>4 DEF LocksTaken, AccountHeld
    <2>2. QED
      BY <1>1, <1>2, <2>1 DEF Found, Undisturbed
  <1>9. (pc[q] = "issue" /\ "active" \in Checks =>
             Cardinality(LiveCredits(Borrower(c))') < MaxActive)
    <2> SUFFICES ASSUME pc[q] = "issue", "active" \in Checks
                 PROVE  Cardinality(LiveCredits(Borrower(c))') < MaxActive
      OBVIOUS
    <2>1. lock[User(Borrower(c))] = q
      BY <1>1, <1>4, <1>5 DEF LocksTaken, UserHeld
    <2>2. LiveCredits(Borrower(c))' \subseteq LiveCredits(Borrower(c))
      BY <1>2, <2>1 DEF Undisturbed
    <2>3. /\ Cardinality(LiveCredits(Borrower(c))') <= Cardinality(LiveCredits(Borrower(c)))
          /\ Cardinality(LiveCredits(Borrower(c))') \in Nat
      BY <2>2, LiveFinite, FS_Subset, FS_CardinalityType
    <2>4. Cardinality(LiveCredits(Borrower(c))) < MaxActive
      BY <1>2 DEF Found
    <2>5. QED
      BY <2>3, <2>4, LiveFinite, CreditsAssumption
  <1>10. (job'[q].kind = "prepay" /\ CreditHeld(q) => status'[c] = "active")
    BY <1>1, <1>2 DEF Found, Undisturbed, Untouched
  <1>11. (pc[q] = "prepay" =>
             PendingOf(c)' # {} /\ job[q].amount <= Outstanding(Plan(c))')
    <2> SUFFICES ASSUME pc[q] = "prepay"
                 PROVE  PendingOf(c)' # {} /\ job[q].amount <= Outstanding(Plan(c))'
      OBVIOUS
    <2>1. Untouched(c)
      BY <1>2, <1>6 DEF Undisturbed
    <2>2. QED
      BY <1>2, <2>1, UntouchedPlan DEF Found
  <1>12. (job[q].kind = "charge" /\ CreditHeld(q) =>
             state'[job[q].instalment] \in {"pending", "overdue"})
    <2> SUFFICES ASSUME job[q].kind = "charge", CreditHeld(q)
                 PROVE  state'[job[q].instalment] \in {"pending", "overdue"}
      OBVIOUS
    <2>1. Untouched(c)
      BY <1>2 DEF Undisturbed
    <2>2. job[q].instalment \in InstalmentsOf(c)
      BY <1>1, <1>4, JobFacts
    <2>3. QED
      BY <1>2, <2>1, <2>2 DEF Found, Untouched
  <1>13. QED
    BY <1>1, <1>3, <1>7, <1>8, <1>9, <1>10, <1>11, <1>12 DEF Found

----------------------------------------------------------------------------
(* The inductive invariant. *)

(* ScheduleOK gives DebtAccountedFor, ClosedMeansPaid and                  *)
(* OverdueShowsOnCredit; none of these is inductive without the locks      *)
(* (ControlInv) and what each transaction has found out under them         *)
(* (Judged): that a charge finds an unpaid instalment of a live credit,    *)
(* that a prepayment finds an active credit and the amounts it reduces,    *)
(* that an application is below the limit.                                 *)
CreditsInv ==
    /\ DataTypes /\ OtherTypes /\ ControlInv
    /\ \A p \in Processes : Judged(p)
    /\ DistinctApplications
    /\ \A c \in Credits : ScheduleOK(c)
    /\ BalanceMatchesTransactions
    /\ ClosedAccountOwesNothing
    /\ ActiveCreditsLimited

(* All that the runs check follows from the invariant.                     *)
LEMMA InvImplies ==
    ASSUME CreditsInv
    PROVE  /\ TypeOK
           /\ ActiveCreditsLimited /\ DebtAccountedFor /\ BalanceMatchesTransactions
           /\ ClosedMeansPaid /\ OverdueShowsOnCredit /\ ClosedAccountOwesNothing
           /\ OnlyPrepaymentsDeadlock
  <1>1. TypeOK
    BY Types DEF CreditsInv, ControlInv
  <1>2. \A c \in Credits : ScheduleOK(c)
    BY DEF CreditsInv
  <1>3. DebtAccountedFor
    BY <1>2 DEF ScheduleOK, DebtAccountedFor, Accounted, UnpaidOf
  <1>4. ClosedMeansPaid
    BY <1>2 DEF ScheduleOK, ClosedMeansPaid, UnpaidOf
  <1>5. OverdueShowsOnCredit
    BY <1>2, InstalmentFacts DEF ScheduleOK, InstalmentOK, OverdueShowsOnCredit
  <1>6. OnlyPrepaymentsDeadlock
    BY OnlyPrepaymentsCircle DEF CreditsInv
  <1>7. QED
    BY <1>1, <1>3, <1>4, <1>5, <1>6 DEF CreditsInv

(* The invariant holds at first, with some credits issued already.         *)
LEMMA CreditsStart == Init => CreditsInv
  <1> SUFFICES ASSUME Init PROVE CreditsInv
    OBVIOUS
  <1> USE CreditsAssumption
  <1>1. \A a \in Accounts : /\ {c \in Issued : Account[c] = a} \in SUBSET Credits
                            /\ Summable(Principal, {c \in Issued : Account[c] = a})
    <2> SUFFICES ASSUME NEW a \in Accounts
                 PROVE  /\ {c \in Issued : Account[c] = a} \in SUBSET Credits
                        /\ Summable(Principal, {c \in Issued : Account[c] = a})
      OBVIOUS
    <2>1. {c \in Issued : Account[c] = a} \in SUBSET Credits
      OBVIOUS
    <2>2. \A c \in Credits : Principal[c] \in Int
      OBVIOUS
    <2>3. QED
      BY <2>1, <2>2, FS_Subset DEF Summable
  <1>2. DataTypes
    <2> DEFINE Lent(a) == SumFunctionOnSet(Principal, {c \in Issued : Account[c] = a})
    <2>1. \A a \in Accounts : Lent(a) \in Int
      BY <1>1, SumInt
    <2>a. net = [a \in Accounts |-> Opening[a] - Lent(a)]
      BY DEF Init
    <2> HIDE DEF Lent
    <2>2. net \in [Accounts -> Int]
      BY <2>1, <2>a
    <2>3. \A x \in Instalments : x[1] \in Credits
      BY InstalmentFacts
    <2>4. amount \in [Instalments -> Nat \ {0}]
      BY <2>3 DEF Init
    <2>5. /\ status \in [Credits -> {"absent", "active", "overdue", "closed"}]
          /\ state \in [Instalments -> {"absent", "pending", "overdue", "paid"}]
      BY DEF Init
    <2>6. /\ balance \in [Accounts -> Nat] /\ closed \in [Accounts -> BOOLEAN]
          /\ blocked \in [Accounts -> BOOLEAN]
      BY DEF Init
    <2>7. /\ principal \in [Credits -> Nat] /\ monthly \in [Credits -> Nat \ {0}]
          /\ penalty \in [Instalments -> Nat] /\ charged \in [Credits -> Nat]
      BY DEF Init
    <2>8. QED
      BY <2>2, <2>4, <2>5, <2>6, <2>7 DEF DataTypes
  <1>3. OtherTypes
    BY DEF Init, OtherTypes
  <1>4. ControlInv
    BY ControlStart
  <1>5. (\A p \in Processes : Judged(p)) /\ DistinctApplications
    BY DEF Init, Judged, DistinctApplications, NoJob, Processes
  <1>6. ASSUME NEW c \in Credits PROVE ScheduleOK(c)
    <2>1. \A x \in InstalmentsOf(c) : /\ x \in Instalments /\ x[1] = c
                                      /\ amount[x] = Monthly[c] /\ penalty[x] = 0
                                      /\ state[x] = IF c \in Issued THEN "pending" ELSE "absent"
      BY InstalmentFacts DEF Init
    <2>2. status[c] = (IF c \in Issued THEN "active" ELSE "absent") /\ charged[c] = 0
      BY DEF Init
    <2>3. UnpaidOf(c) = InstalmentsOf(c) /\ InstalmentsOf(c) \ UnpaidOf(c) = {}
      BY <2>1 DEF UnpaidOf
    <2>4. SumFunctionOnSet(amount, InstalmentsOf(c)) = Monthly[c] * Term[c]
      <3>1. Monthly[c] \in Int /\ \A x \in InstalmentsOf(c) : amount[x] = Monthly[c]
        BY <2>1
      <3>2. SumFunctionOnSet(amount, InstalmentsOf(c)) =
                Monthly[c] * Cardinality(InstalmentsOf(c))
        BY <3>1, InstalmentsCounted, SumConst
      <3>3. QED
        BY <3>2, InstalmentsCounted
    <2>5. Accounted(c)
      <3>1. Monthly[c] \in Nat /\ Term[c] \in Nat
        OBVIOUS
      <3>2. 0 + Monthly[c] * Term[c] = Monthly[c] * Term[c] + 0
        BY <3>1, Z3
      <3>3. SumFunctionOnSet(penalty, {}) = 0
        BY SumEmpty
      <3>4. charged[c] + SumFunctionOnSet(amount, UnpaidOf(c)) = 0 + Monthly[c] * Term[c]
        BY <2>2, <2>3, <2>4
      <3>5. SumFunctionOnSet(penalty, InstalmentsOf(c) \ UnpaidOf(c)) = 0
        BY <2>3, <3>3
      <3>6. QED
        BY <3>2, <3>4, <3>5, Zenon DEF Accounted
    <2>6. InstalmentsOf(c) # {}
      <3>1. <<c, 1>> \in InstalmentsOf(c)
        BY DEF InstalmentsOf
      <3>2. QED
        BY <3>1
    <2>7. \A x \in InstalmentsOf(c) : InstalmentOK(x, c)
      BY <2>1, <2>2 DEF InstalmentOK
    <2>8. QED
      BY <2>2, <2>3, <2>5, <2>6, <2>7 DEF ScheduleOK
  <1>7. BalanceMatchesTransactions
    <2> SUFFICES ASSUME NEW a \in Accounts
                 PROVE  balance[a] = net[a] + SumFunctionOnSet(
                            [c \in Credits |-> Principal[c] - charged[c]],
                            {c \in Credits : Account[c] = a /\ status[c] # "absent"})
      BY DEF BalanceMatchesTransactions
    <2> DEFINE L == {c \in Issued : Account[c] = a}
               f == [c \in Credits |-> Principal[c] - charged[c]]
    <2>1. {c \in Credits : Account[c] = a /\ status[c] # "absent"} = L
      BY DEF Init
    <2>2. \A c \in L : f[c] = Principal[c]
      BY DEF Init
    <2>3. Summable(Principal, L)
      BY <1>1
    <2>4. net[a] = Opening[a] - SumFunctionOnSet(Principal, L) /\ balance[a] = Opening[a]
      BY DEF Init
    <2> HIDE DEF L, f
    <2>5. SumFunctionOnSet(f, L) = SumFunctionOnSet(Principal, L)
      BY <2>2, <2>3, SumSame
    <2>6. SumFunctionOnSet(Principal, L) \in Int
      BY <2>3, SumInt
    <2>7. balance[a] = net[a] + SumFunctionOnSet(f, L)
      BY <2>4, <2>5, <2>6
    <2>8. QED
      BY <2>1, <2>7 DEF f
  <1>8. ClosedAccountOwesNothing
    BY DEF Init, ClosedAccountOwesNothing
  <1>9. ActiveCreditsLimited
    <2>1. \A u \in Users : LiveCredits(u) = {c \in Issued : Owner[Account[c]] = u}
      BY DEF Init, LiveCredits, Borrower
    <2>2. QED
      BY <2>1, CreditsAssumption DEF ActiveCreditsLimited
  <1>10. QED
    BY <1>2, <1>3, <1>4, <1>5, <1>6, <1>7, <1>8, <1>9 DEF CreditsInv

----------------------------------------------------------------------------
(* Steps that write no row. *)

(* Only the request that begins an application could disturb the others.   *)
LEMMA DistinctKept ==
    ASSUME DistinctApplications, NEW p \in Processes, Others(p),
           job'[p] = job[p] \/ job'[p].kind # "issue"
    PROVE  DistinctApplications'
  <1>1. \A q \in Processes \ {p} : job'[q] = job[q]
    BY DEF Others, Standing
  <1>2. Scheduler \in Processes
    BY DEF Processes
  <1>3. QED
    BY <1>1, <1>2 DEF DistinctApplications

(* A step that writes no row has to be looked at for its own transaction   *)
(* only.                                                                   *)
LEMMA QuietStep ==
    ASSUME CreditsInv, UNCHANGED <<accountVars, creditVars>>,
           NEW p \in Processes, ControlInv', Others(p), OtherTypes', Judged(p)',
           DistinctApplications'
    PROVE  CreditsInv'
  <1>1. /\ balance' = balance /\ closed' = closed /\ blocked' = blocked /\ net' = net
        /\ status' = status /\ principal' = principal /\ monthly' = monthly
        /\ state' = state /\ amount' = amount /\ penalty' = penalty /\ charged' = charged
    BY DEF accountVars, creditVars
  <1>2. DataTypes'
    BY <1>1 DEF CreditsInv, DataTypes
  <1>3. ASSUME NEW q \in Processes \ {p} PROVE Judged(q)'
    <2>1. \A c \in Credits : Undisturbed(q, c)
      BY <1>1 DEF Undisturbed, Untouched, LiveCredits, Borrower
    <2>2. QED
      BY <2>1, JudgedKept DEF CreditsInv, ControlInv, Others
  <1>4. ASSUME NEW c \in Credits PROVE ScheduleOK(c)'
    <2>1. Untouched(c)
      BY <1>1 DEF Untouched
    <2>2. QED
      BY <2>1, UntouchedSchedule DEF CreditsInv
  <1>5. BalanceMatchesTransactions'
    BY <1>1 DEF CreditsInv, BalanceMatchesTransactions
  <1>6. ClosedAccountOwesNothing'
    BY <1>1 DEF CreditsInv, ClosedAccountOwesNothing
  <1>7. ActiveCreditsLimited'
    BY <1>1 DEF CreditsInv, ActiveCreditsLimited, LiveCredits, Borrower
  <1>8. QED
    BY <1>2, <1>3, <1>4, <1>5, <1>6, <1>7 DEF CreditsInv

(* A rollback, or a commit without a write.                                *)
LEMMA EndsQuietly ==
    ASSUME CreditsInv, NEW p \in Processes, Ends(p), UNCHANGED <<accountVars, creditVars>>,
           OtherTypes'
    PROVE  CreditsInv'
  <1>1. ControlInv' /\ Others(p)
    BY EndControl DEF CreditsInv, Others
  <1>2. pc'[p] = "idle" /\ job'[p] = NoJob
    BY DEF Ends, CreditsInv, ControlInv, ControlTypes
  <1>3. Judged(p)'
    BY <1>2 DEF Judged
  <1>4. DistinctApplications'
    BY <1>1, <1>2, DistinctKept DEF CreditsInv, NoJob
  <1>5. QED
    BY <1>1, <1>3, <1>4, QuietStep

LEMMA OthersUnchanged ==
    ASSUME OtherTypes, UNCHANGED <<today, batch, faults>>
    PROVE  OtherTypes'
  BY DEF OtherTypes

(* A refusal, a deadlock that PostgreSQL breaks, or a lost connection.     *)
LEMMA AbortKeeps ==
    ASSUME CreditsInv, NEW p \in Processes, Abort(p)
    PROVE  CreditsInv'
  <1>1. Ends(p) /\ UNCHANGED <<accountVars, creditVars>> /\ UNCHANGED <<today, batch, faults>>
    BY DEF Abort, End, Ends
  <1>2. OtherTypes'
    BY <1>1, OthersUnchanged DEF CreditsInv
  <1>3. QED
    BY <1>1, <1>2, EndsQuietly

(* A statement that locks rows: what its transaction finds out is the      *)
(* verdict.                                                                *)
LEMMA LockKeeps ==
    ASSUME CreditsInv, NEW p \in Processes, NEW rows, NEW verdict \in BOOLEAN,
           Lock(p, rows, verdict), ControlInv', Others(p),
           ASSUME verdict, Proceeds(p, rows), UNCHANGED <<accountVars, creditVars>>,
                  NEW c \in Credits, pc[p] # "idle", job[p].credit = c, job'[p] = job[p],
                  Found(p, c)
           PROVE  Found(p, c)',
           pc[p] # "idle"
    PROVE  CreditsInv'
  <1>1. CASE Abort(p)
    BY <1>1, AbortKeeps
  <1>2. CASE ~Abort(p)
    <2>1. /\ verdict /\ Proceeds(p, rows)
          /\ UNCHANGED <<accountVars, creditVars>> /\ UNCHANGED <<today, batch, faults>>
      BY <1>2 DEF Lock, Proceeds
    <2>2. job' = job
      BY <2>1 DEF Proceeds
    <2>3. Judged(p)'
      <3> SUFFICES ASSUME NEW c \in Credits, pc'[p] # "idle", job'[p].credit = c
                   PROVE  Found(p, c)'
        BY DEF Judged
      <3>1. job'[p] = job[p] /\ job[p].credit = c
        BY <2>2
      <3>2. Found(p, c)
        BY <3>1 DEF CreditsInv, Judged
      <3>3. QED
        BY <2>1, <3>1, <3>2
    <2>4. OtherTypes'
      BY <2>1, OthersUnchanged DEF CreditsInv
    <2>5. DistinctApplications'
      BY <2>2, DistinctKept DEF CreditsInv
    <2>6. QED
      BY <2>1, <2>3, <2>4, <2>5, QuietStep
  <1>3. QED
    BY <1>1, <1>2

LEMMA RowsUnchanged ==
    ASSUME UNCHANGED <<accountVars, creditVars>>
    PROVE  /\ balance' = balance /\ closed' = closed /\ blocked' = blocked /\ net' = net
           /\ status' = status /\ principal' = principal /\ monthly' = monthly
           /\ state' = state /\ amount' = amount /\ penalty' = penalty /\ charged' = charged
  BY DEF accountVars, creditVars

LEMMA LockUserKeeps ==
    ASSUME CreditsInv, NEW p \in Processes, LockUser(p)
    PROVE  CreditsInv'
  <1> DEFINE rows == {User(Borrower(job[p].credit))}
  <1>1. Lock(p, rows, TRUE) /\ pc[p] = "lockUser"
    BY DEF LockUser
  <1>2. ControlInv /\ ControlInv' /\ Others(p)
    BY LockUserControl DEF CreditsInv
  <1>3. job[p].kind = "issue"
    BY <1>1, <1>2 DEF ControlInv, Orderly, Underway
  <1> HIDE DEF rows
  <1>4. ASSUME Proceeds(p, rows), UNCHANGED <<accountVars, creditVars>>,
               NEW c \in Credits, pc[p] # "idle", job[p].credit = c, job'[p] = job[p],
               Found(p, c)
        PROVE  Found(p, c)'
    <2>1. pc'[p] = "lockAccount"
      BY <1>1, <1>2, <1>3, <1>4, ProceedFacts, NextStatement
    <2>2. status' = status
      BY <1>4, RowsUnchanged
    <2>3. QED
      BY <1>3, <1>4, <2>1, <2>2 DEF Found
  <1>5. QED
    BY <1>1, <1>2, <1>4, LockKeeps

LEMMA LockAccountKeeps ==
    ASSUME CreditsInv, NEW p \in Processes, LockAccount(p)
    PROVE  CreditsInv'
  <1> DEFINE a == Account[job[p].credit]
             rows == {AccountRow(a)}
             verdict == Available(a)
  <1>1. Lock(p, rows, verdict) /\ pc[p] = "lockAccount" /\ verdict \in BOOLEAN
    BY DEF LockAccount, Available
  <1>2. ControlInv /\ ControlInv' /\ Others(p)
    BY LockAccountControl DEF CreditsInv
  <1>3. job[p].kind \in {"issue", "prepay", "charge"}
    BY <1>1, <1>2 DEF ControlInv, Orderly, Underway
  <1> HIDE DEF rows
  <1>4. ASSUME verdict, Proceeds(p, rows), UNCHANGED <<accountVars, creditVars>>,
               NEW c \in Credits, pc[p] # "idle", job[p].credit = c, job'[p] = job[p],
               Found(p, c)
        PROVE  Found(p, c)'
    <2>1. pc'[p] = CASE job[p].kind = "issue" -> "assess"
                     [] job[p].kind = "prepay" -> "lockPending"
                     [] job[p].kind = "charge" -> "charge"
      BY <1>1, <1>2, <1>3, <1>4, ProceedFacts, NextStatement
    <2>2. pc'[p] \notin {"issue", "prepay"}
      BY <1>3, <2>1
    <2>3. status' = status /\ closed' = closed /\ state' = state
      BY <1>4, RowsUnchanged
    <2>4. ~closed[Account[c]]
      BY <1>4 DEF Available
    <2>5. job[p].kind \in {"prepay", "charge"} => CreditHeld(p)
      BY <1>1 DEF CreditHeld
    <2>6. QED
      BY <1>4, <2>2, <2>3, <2>4, <2>5 DEF Found
  <1> HIDE DEF verdict
  <1>5. QED
    BY <1>1, <1>2, <1>4, LockKeeps

LEMMA AssessKeeps ==
    ASSUME CreditsInv, NEW p \in Processes, Assess(p)
    PROVE  CreditsInv'
  <1> DEFINE verdict == Eligible(job[p].credit)
             rows == {}
  <1>1. Lock(p, rows, verdict) /\ pc[p] = "assess" /\ verdict \in BOOLEAN
    BY DEF Assess, Eligible
  <1>2. ControlInv /\ ControlInv' /\ Others(p)
    BY AssessControl DEF CreditsInv
  <1>3. job[p].kind = "issue"
    BY <1>1, <1>2 DEF ControlInv, Orderly, Underway
  <1> HIDE DEF rows
  <1>4. ASSUME verdict, Proceeds(p, rows), UNCHANGED <<accountVars, creditVars>>,
               NEW c \in Credits, pc[p] # "idle", job[p].credit = c, job'[p] = job[p],
               Found(p, c)
        PROVE  Found(p, c)'
    <2>1. pc'[p] = "issue"
      BY <1>1, <1>2, <1>3, <1>4, ProceedFacts, NextStatement
    <2>2. status' = status /\ closed' = closed
      BY <1>4, RowsUnchanged
    <2>3. "active" \in Checks => Cardinality(LiveCredits(Borrower(c))) < MaxActive
      BY <1>4 DEF Eligible
    <2>4. LiveCredits(Borrower(c))' = LiveCredits(Borrower(c))
      BY <2>2 DEF LiveCredits, Borrower
    <2>5. "active" \in Checks => Cardinality(LiveCredits(Borrower(c)))' < MaxActive
      BY <2>3, <2>4
    <2>6. ~closed[Account[c]] /\ status[c] = "absent"
      BY <1>1, <1>3, <1>4 DEF Found
    <2>7. QED
      BY <1>3, <1>4, <2>1, <2>2, <2>5, <2>6 DEF Found
  <1> HIDE DEF verdict
  <1>5. QED
    BY <1>1, <1>2, <1>4, LockKeeps

LEMMA LockInstalmentKeeps ==
    ASSUME CreditsInv, NEW p \in Processes, LockInstalment(p)
    PROVE  CreditsInv'
  <1> DEFINE rows == {ScheduleRow(job[p].instalment)}
  <1>1. Lock(p, rows, TRUE) /\ pc[p] = "lockInstalment"
    BY DEF LockInstalment
  <1>2. ControlInv /\ ControlInv' /\ Others(p)
    BY LockInstalmentControl DEF CreditsInv
  <1>3. job[p].kind = "charge"
    BY <1>1, <1>2 DEF ControlInv, Orderly, Underway
  <1> HIDE DEF rows
  <1>4. ASSUME Proceeds(p, rows), UNCHANGED <<accountVars, creditVars>>,
               NEW c \in Credits, pc[p] # "idle", job[p].credit = c, job'[p] = job[p],
               Found(p, c)
        PROVE  Found(p, c)'
    <2>1. pc'[p] = "lockCredit"
      BY <1>1, <1>2, <1>3, <1>4, ProceedFacts, NextStatement
    <2>2. QED
      BY <1>3, <1>4, <2>1 DEF Found, CreditHeld
  <1>5. QED
    BY <1>1, <1>2, <1>4, LockKeeps

LEMMA LockCreditKeeps ==
    ASSUME CreditsInv, NEW p \in Processes, LockCredit(p)
    PROVE  CreditsInv'
  <1> DEFINE rows == {CreditRow(job[p].credit)}
             verdict == IF job[p].kind = "prepay" THEN status[job[p].credit] = "active"
                        ELSE state[job[p].instalment] \in {"pending", "overdue"}
  <1>0. pc[p] = "lockCredit" /\ verdict \in BOOLEAN
    <2>1. CASE job[p].kind = "prepay"
      BY <2>1 DEF LockCredit
    <2>2. CASE job[p].kind # "prepay"
      BY <2>2 DEF LockCredit
    <2>3. QED
      BY <2>1, <2>2
  <1>2. ControlInv /\ ControlInv' /\ Others(p)
    BY LockCreditControl DEF CreditsInv
  <1>3. job[p].kind \in {"prepay", "charge"}
    BY <1>0, <1>2 DEF ControlInv, Orderly, Underway
  <1>1. Lock(p, rows, verdict)
    <2>1. CASE job[p].kind = "prepay"
      BY <2>1 DEF LockCredit
    <2>2. CASE job[p].kind = "charge"
      BY <2>2 DEF LockCredit
    <2>3. QED
      BY <1>3, <2>1, <2>2
  <1> HIDE DEF rows
  <1>4. ASSUME verdict, Proceeds(p, rows), UNCHANGED <<accountVars, creditVars>>,
               NEW c \in Credits, pc[p] # "idle", job[p].credit = c, job'[p] = job[p],
               Found(p, c)
        PROVE  Found(p, c)'
    <2>1. pc'[p] = "lockAccount"
      BY <1>0, <1>2, <1>3, <1>4, ProceedFacts, NextStatement
    <2>2. status' = status /\ state' = state
      BY <1>4, RowsUnchanged
    <2>3. QED
      BY <1>3, <1>4, <2>1, <2>2 DEF Found, CreditHeld
  <1> HIDE DEF verdict
  <1>5. QED
    BY <1>0, <1>1, <1>2, <1>4, LockKeeps

LEMMA LockPendingKeeps ==
    ASSUME CreditsInv, NEW p \in Processes, LockPending(p)
    PROVE  CreditsInv'
  <1> DEFINE rows == {ScheduleRow(x) : x \in PendingOf(job[p].credit)}
             verdict == /\ \A x \in InstalmentsOf(job[p].credit) : state[x] # "overdue"
                        /\ PendingOf(job[p].credit) # {}
                        /\ job[p].amount <= Outstanding(Plan(job[p].credit))
  <1>1. Lock(p, rows, verdict) /\ pc[p] = "lockPending" /\ verdict \in BOOLEAN
    BY DEF LockPending
  <1>2. ControlInv /\ ControlInv' /\ Others(p)
    BY LockPendingControl DEF CreditsInv
  <1>3. job[p].kind = "prepay"
    BY <1>1, <1>2 DEF ControlInv, Orderly, Underway
  <1> HIDE DEF rows
  <1>4. ASSUME verdict, Proceeds(p, rows), UNCHANGED <<accountVars, creditVars>>,
               NEW c \in Credits, pc[p] # "idle", job[p].credit = c, job'[p] = job[p],
               Found(p, c)
        PROVE  Found(p, c)'
    <2>1. pc'[p] = "prepay"
      BY <1>1, <1>2, <1>3, <1>4, ProceedFacts, NextStatement
    <2>2. status' = status /\ state' = state /\ amount' = amount /\ charged' = charged
          /\ penalty' = penalty
      BY <1>4, RowsUnchanged
    <2>3. Untouched(c)
      BY <2>2 DEF Untouched
    <2>4. PendingOf(c)' # {} /\ job[p].amount <= Outstanding(Plan(c))'
      BY <1>4, <2>3, UntouchedPlan
    <2>5. status[c] = "active"
      BY <1>1, <1>3, <1>4 DEF Found, CreditHeld
    <2>6. QED
      BY <1>3, <1>4, <2>1, <2>2, <2>4, <2>5 DEF Found
  <1> HIDE DEF verdict
  <1>5. QED
    BY <1>1, <1>2, <1>4, LockKeeps

(* Requests and the scheduler begin a transaction.                         *)
LEMMA SubmitKeeps ==
    ASSUME CreditsInv, NEW p \in Requests, Submit(p)
    PROVE  CreditsInv'
  <1>0. p \in Processes
    BY DEF Processes
  <1>1. /\ ControlInv' /\ Others(p)
        /\ UNCHANGED <<accountVars, creditVars>> /\ UNCHANGED <<today, batch, faults>>
        /\ pc'[p] \in {"lockUser", "lockCredit"}
        /\ job'[p].kind \in {"issue", "prepay"}
    BY SubmitControl DEF CreditsInv
  <1>2. job'[p].kind = "issue" =>
            /\ pc'[p] = "lockUser"
            /\ status[job'[p].credit] = "absent"
            /\ \A q \in Requests \ {p} :
                   job[q].kind = "issue" => job[q].credit # job'[p].credit
    BY SubmitControl DEF CreditsInv
  <1>3. Judged(p)'
    <2>1. status' = status
      BY <1>1, RowsUnchanged
    <2>2. QED
      BY <1>1, <1>2, <2>1 DEF Judged, Found, CreditHeld
  <1>4. DistinctApplications'
    <2>1. \A q \in Processes \ {p} : job'[q] = job[q]
      BY <1>1 DEF Others, Standing
    <2>2. job[Scheduler].kind # "issue" /\ Scheduler \in Processes \ {p}
      BY CreditsAssumption DEF CreditsInv, DistinctApplications, Processes
    <2>3. \A q \in Processes \ {p} :
              job[q].kind = "issue" /\ job'[p].kind = "issue" => job[q].credit # job'[p].credit
      BY <1>2, <2>2 DEF Processes
    <2>4. QED
      BY <2>1, <2>2, <2>3 DEF CreditsInv, DistinctApplications
  <1>5. OtherTypes'
    BY <1>1, OthersUnchanged DEF CreditsInv
  <1>6. QED
    BY <1>0, <1>1, <1>3, <1>4, <1>5, QuietStep

LEMMA ProcessNextKeeps ==
    ASSUME CreditsInv, ProcessNext
    PROVE  CreditsInv'
  <1>0. Scheduler \in Processes /\ batch \in Seq(Instalments)
    BY DEF Processes, CreditsInv, OtherTypes
  <1>1. /\ ControlInv' /\ Others(Scheduler)
        /\ UNCHANGED <<accountVars, creditVars>> /\ UNCHANGED <<today, faults>>
        /\ batch' \in Seq(Instalments)
        /\ pc'[Scheduler] = "lockInstalment"
        /\ job'[Scheduler].kind = "charge"
    BY <1>0, ProcessNextControl DEF CreditsInv
  <1>2. Judged(Scheduler)'
    BY <1>1 DEF Judged, Found, CreditHeld
  <1>3. DistinctApplications'
    BY <1>0, <1>1, DistinctKept DEF CreditsInv
  <1>4. OtherTypes'
    BY <1>1 DEF CreditsInv, OtherTypes
  <1>5. QED
    BY <1>0, <1>1, <1>2, <1>3, <1>4, QuietStep

(* Steps of no transaction at all.                                         *)
LEMMA NobodyMoves ==
    ASSUME CreditsInv, UNCHANGED <<pc, job, lock>>
    PROVE  /\ ControlInv' /\ DistinctApplications'
           /\ \A q \in Processes : Standing(q)
  <1>1. \A q \in Processes : Standing(q)
    BY DEF Standing
  <1>2. ControlTypes'
    BY DEF CreditsInv, ControlInv, ControlTypes
  <1>3. \A q \in Processes : Orderly(q)'
    BY <1>1, StandingOrderly DEF CreditsInv, ControlInv
  <1>4. DistinctApplications'
    BY DEF CreditsInv, DistinctApplications
  <1>5. QED
    BY <1>1, <1>2, <1>3, <1>4 DEF ControlInv

LEMMA IdleStep ==
    ASSUME CreditsInv, UNCHANGED <<accountVars, creditVars>>, UNCHANGED <<pc, job, lock>>,
           OtherTypes'
    PROVE  CreditsInv'
  <1>1. ControlInv' /\ DistinctApplications' /\ Scheduler \in Processes
        /\ \A q \in Processes : Standing(q)
    BY NobodyMoves DEF Processes
  <1>2. Others(Scheduler)
    BY <1>1 DEF Others
  <1>3. \A c \in Credits : Undisturbed(Scheduler, c)
    BY RowsUnchanged DEF Undisturbed, Untouched, LiveCredits, Borrower
  <1>4. Judged(Scheduler)'
    BY <1>1, <1>3, JudgedKept DEF CreditsInv, ControlInv
  <1>5. QED
    BY <1>1, <1>2, <1>4, QuietStep

LEMMA FindKeeps ==
    ASSUME CreditsInv, FindDuePayments
    PROVE  CreditsInv'
  <1>1. /\ batch' \in Seq(Instalments)
        /\ UNCHANGED <<accountVars, creditVars>> /\ UNCHANGED <<pc, job, lock>>
        /\ UNCHANGED <<today, faults>>
    BY FindControl
  <1>2. OtherTypes'
    BY <1>1 DEF CreditsInv, OtherTypes
  <1>3. QED
    BY <1>1, <1>2, IdleStep

LEMMA NextDayKeeps ==
    ASSUME CreditsInv, NextDay
    PROVE  CreditsInv'
  <1>1. /\ today' = today + 1 /\ today < Horizon
        /\ UNCHANGED <<accountVars, creditVars>>
        /\ UNCHANGED <<pc, job, lock>> /\ UNCHANGED <<batch, faults>>
    BY DEF NextDay, processVars
  <1>2. OtherTypes'
    BY <1>1, CreditsAssumption DEF CreditsInv, OtherTypes
  <1>3. QED
    BY <1>1, <1>2, IdleStep

LEMMA FaultKeeps ==
    ASSUME CreditsInv, SchedulerFault
    PROVE  CreditsInv'
  <1>0. Scheduler \in Processes
    BY DEF Processes
  <1>1. Ends(Scheduler) /\ UNCHANGED <<accountVars, creditVars>>
    BY DEF SchedulerFault, Ends
  <1>2. batch' \in Seq(Instalments)
    <2>1. batch' \in {batch, <<>>} /\ batch \in Seq(Instalments)
      BY DEF SchedulerFault, CreditsInv, OtherTypes
    <2>2. <<>> \in Seq(Instalments)
      OBVIOUS
    <2>3. QED
      BY <2>1, <2>2
  <1>3. faults' \in 0..MaxFaults /\ today' \in 0..Horizon
    BY CreditsAssumption DEF SchedulerFault, CreditsInv, OtherTypes
  <1>4. QED
    BY <1>0, <1>1, <1>2, <1>3, EndsQuietly DEF OtherTypes

(* Other operations on the accounts, which wait for nobody's lock.         *)
LEMMA AccountStep ==
    ASSUME CreditsInv, UNCHANGED creditVars, UNCHANGED processVars, UNCHANGED today,
           DataTypes', BalanceMatchesTransactions', ClosedAccountOwesNothing',
           \A a \in Accounts : lock[AccountRow(a)] # Free => closed'[a] = closed[a]
    PROVE  CreditsInv'
  <1>1. /\ status' = status /\ state' = state /\ amount' = amount
        /\ penalty' = penalty /\ charged' = charged
    BY DEF creditVars
  <1>2. UNCHANGED <<pc, job, lock>> /\ UNCHANGED <<today, batch, faults>>
    BY DEF processVars
  <1>3. ControlInv' /\ DistinctApplications' /\ \A q \in Processes : Standing(q)
    BY <1>2, NobodyMoves
  <1>4. OtherTypes'
    BY <1>2, OthersUnchanged DEF CreditsInv
  <1>5. \A c \in Credits : Untouched(c)
    BY <1>1 DEF Untouched
  <1>6. \A u : LiveCredits(u)' = LiveCredits(u)
    BY <1>1 DEF LiveCredits, Borrower
  <1>7. ASSUME NEW q \in Processes PROVE Judged(q)'
    <2>1. ASSUME NEW c \in Credits PROVE Undisturbed(q, c)
      <3>1. Account[c] \in Accounts
        BY Owners
      <3>2. lock[AccountRow(Account[c])] = q => closed'[Account[c]] = closed[Account[c]]
        BY <3>1, CreditsAssumption
      <3>3. QED
        BY <1>5, <1>6, <3>2 DEF Undisturbed
    <2>2. QED
      BY <1>3, <2>1, JudgedKept DEF CreditsInv, ControlInv
  <1>8. \A c \in Credits : ScheduleOK(c)'
    BY <1>5, UntouchedSchedule DEF CreditsInv
  <1>9. ActiveCreditsLimited'
    BY <1>6 DEF CreditsInv, ActiveCreditsLimited
  <1>10. QED
    BY <1>3, <1>4, <1>7, <1>8, <1>9 DEF CreditsInv

(* What the credits on an account add to its balance.                      *)
Repaid(ch) == [c \in Credits |-> Principal[c] - ch[c]]
Given(st, a) == {c \in Credits : Account[c] = a /\ st[c] # "absent"}

LEMMA BalanceIs ==
    /\ BalanceMatchesTransactions <=>
           \A a \in Accounts : balance[a] = net[a] + SumFunctionOnSet(Repaid(charged), Given(status, a))
    /\ BalanceMatchesTransactions' <=>
           \A a \in Accounts :
               balance'[a] = net'[a] + SumFunctionOnSet(Repaid(charged'), Given(status', a))
  BY DEF BalanceMatchesTransactions, Repaid, Given

LEMMA RepaidSummable ==
    ASSUME DataTypes, NEW a
    PROVE  /\ Summable(Repaid(charged), Given(status, a))
           /\ SumFunctionOnSet(Repaid(charged), Given(status, a)) \in Int
  <1>1. Given(status, a) \in SUBSET Credits /\ IsFiniteSet(Credits)
    BY CreditsAssumption DEF Given
  <1>2. \A c \in Credits : Repaid(charged)[c] \in Int
    BY CreditsAssumption DEF Repaid, DataTypes
  <1>3. Summable(Repaid(charged), Given(status, a))
    BY <1>1, <1>2, FS_Subset DEF Summable
  <1>4. QED
    BY <1>3, SumInt

(* The balance of one account and what its transactions add up to move     *)
(* together.                                                               *)
LEMMA MovedTogether ==
    ASSUME CreditsInv, UNCHANGED creditVars, NEW a \in Accounts, NEW n \in Int,
           balance' = [balance EXCEPT ![a] = @ + n], net' = [net EXCEPT ![a] = @ + n]
    PROVE  BalanceMatchesTransactions'
  <1>1. charged' = charged /\ status' = status
    BY DEF creditVars
  <1>2. ASSUME NEW b \in Accounts
        PROVE  balance'[b] = net'[b] + SumFunctionOnSet(Repaid(charged'), Given(status', b))
    <2> DEFINE owed == SumFunctionOnSet(Repaid(charged), Given(status, b))
    <2>1. balance[b] = net[b] + owed
      BY BalanceIs DEF CreditsInv
    <2>2. owed \in Int
      BY RepaidSummable DEF CreditsInv
    <2>3. balance[b] \in Int /\ net[b] \in Int /\ balance \in [Accounts -> Nat]
          /\ net \in [Accounts -> Int]
      BY DEF CreditsInv, DataTypes
    <2>4. SumFunctionOnSet(Repaid(charged'), Given(status', b)) = owed
      BY <1>1
    <2> HIDE DEF owed
    <2>5. balance'[b] = net'[b] + owed
      BY <2>1, <2>2, <2>3
    <2>6. QED
      BY <2>4, <2>5
  <1>3. QED
    BY <1>2, BalanceIs

LEMMA DepositKeeps ==
    ASSUME CreditsInv, NEW a \in Accounts, NEW n \in Amounts, Deposit(a, n)
    PROVE  CreditsInv'
  <1>1. /\ balance' = [balance EXCEPT ![a] = @ + n]
        /\ net' = [net EXCEPT ![a] = @ + n]
        /\ closed' = closed /\ blocked' = blocked
        /\ UNCHANGED creditVars /\ UNCHANGED processVars /\ UNCHANGED today
    BY DEF Deposit
  <1>2. n \in Nat
    BY CreditsAssumption
  <1>3. DataTypes'
    BY <1>1, <1>2 DEF CreditsInv, DataTypes, creditVars
  <1>4. BalanceMatchesTransactions'
    <2>1. n \in Int
      BY <1>2
    <2>2. QED
      BY <1>1, <2>1, MovedTogether
  <1>5. ClosedAccountOwesNothing'
    BY <1>1 DEF CreditsInv, ClosedAccountOwesNothing, creditVars
  <1>6. QED
    BY <1>1, <1>3, <1>4, <1>5, AccountStep

LEMMA WithdrawKeeps ==
    ASSUME CreditsInv, NEW a \in Accounts, NEW n \in Amounts, Withdraw(a, n)
    PROVE  CreditsInv'
  <1>1. /\ balance' = [balance EXCEPT ![a] = @ - n]
        /\ net' = [net EXCEPT ![a] = @ - n]
        /\ balance[a] >= n
        /\ closed' = closed /\ blocked' = blocked
        /\ UNCHANGED creditVars /\ UNCHANGED processVars /\ UNCHANGED today
    BY DEF Withdraw
  <1>2. n \in Nat /\ balance \in [Accounts -> Nat] /\ net \in [Accounts -> Int]
    BY CreditsAssumption DEF CreditsInv, DataTypes
  <1>3. DataTypes'
    <2>1. balance' \in [Accounts -> Nat] /\ net' \in [Accounts -> Int]
      BY <1>1, <1>2
    <2>2. QED
      BY <1>1, <2>1 DEF CreditsInv, DataTypes, creditVars
  <1>4. BalanceMatchesTransactions'
    <2>1. /\ balance' = [balance EXCEPT ![a] = @ + (-n)]
          /\ net' = [net EXCEPT ![a] = @ + (-n)] /\ -n \in Int
      <3>1. balance[a] \in Int /\ net[a] \in Int /\ n \in Int
        BY <1>2
      <3>2. balance[a] - n = balance[a] + (-n) /\ net[a] - n = net[a] + (-n) /\ -n \in Int
        BY <3>1
      <3>3. QED
        BY <1>1, <3>2
    <2>2. QED
      BY <1>1, <2>1, MovedTogether
  <1>5. ClosedAccountOwesNothing'
    BY <1>1 DEF CreditsInv, ClosedAccountOwesNothing, creditVars
  <1>6. QED
    BY <1>1, <1>3, <1>4, <1>5, AccountStep

LEMMA BlockKeeps ==
    ASSUME CreditsInv, NEW a \in Accounts, SetAccountBlocked(a)
    PROVE  CreditsInv'
  <1>1. /\ blocked' = [blocked EXCEPT ![a] = ~@]
        /\ balance' = balance /\ net' = net /\ closed' = closed
        /\ UNCHANGED creditVars /\ UNCHANGED processVars /\ UNCHANGED today
    BY DEF SetAccountBlocked
  <1>2. blocked' \in [Accounts -> BOOLEAN]
    BY <1>1 DEF CreditsInv, DataTypes
  <1>3. DataTypes'
    BY <1>1, <1>2 DEF CreditsInv, DataTypes, creditVars
  <1>4. BalanceMatchesTransactions'
    BY <1>1 DEF CreditsInv, BalanceMatchesTransactions, creditVars
  <1>5. ClosedAccountOwesNothing'
    BY <1>1 DEF CreditsInv, ClosedAccountOwesNothing, creditVars
  <1>6. QED
    BY <1>1, <1>3, <1>4, <1>5, AccountStep

(* An account is closed only without a live credit, and no application has *)
(* got past its lock.                                                      *)
LEMMA CloseKeeps ==
    ASSUME CreditsInv, NEW a \in Accounts, CloseAccount(a)
    PROVE  CreditsInv'
  <1>1. /\ closed' = [closed EXCEPT ![a] = TRUE]
        /\ balance' = balance /\ net' = net /\ blocked' = blocked
        /\ lock[AccountRow(a)] = Free /\ ~HasBlockingCredit(a)
        /\ UNCHANGED creditVars /\ UNCHANGED processVars /\ UNCHANGED today
    BY DEF CloseAccount, Unlocked
  <1>2. DataTypes'
    BY <1>1 DEF CreditsInv, DataTypes, creditVars
  <1>3. BalanceMatchesTransactions'
    BY <1>1 DEF CreditsInv, BalanceMatchesTransactions, creditVars
  <1>4. closed \in [Accounts -> BOOLEAN]
    BY DEF CreditsInv, DataTypes
  <1>5. ClosedAccountOwesNothing'
    <2> SUFFICES ASSUME NEW c \in Credits, closed'[Account[c]]
                 PROVE  status'[c] \in {"absent", "closed"}
      BY DEF ClosedAccountOwesNothing
    <2>1. status'[c] = status[c]
          /\ status[c] \in {"absent", "active", "overdue", "closed"}
      BY <1>1 DEF creditVars, CreditsInv, DataTypes
    <2>2. CASE Account[c] = a
      BY <1>1, <2>1, <2>2 DEF HasBlockingCredit
    <2>3. CASE Account[c] # a
      <3>1. closed[Account[c]]
        BY <1>1, <1>4, <2>3, Owners
      <3>2. QED
        BY <2>1, <3>1 DEF CreditsInv, ClosedAccountOwesNothing
    <2>4. QED
      BY <2>2, <2>3
  <1>6. \A b \in Accounts : lock[AccountRow(b)] # Free => closed'[b] = closed[b]
    BY <1>1, <1>4
  <1>7. QED
    BY <1>1, <1>2, <1>3, <1>5, <1>6, AccountStep

----------------------------------------------------------------------------
(* Steps that write the rows of one credit. *)

(* A credit that is locked for a prepayment or a charge is not paid off.   *)
LEMMA LockedIsLive ==
    ASSUME CreditsInv, NEW q \in Processes, NEW c \in Credits,
           CreditHeld(q), job[q].credit = c
    PROVE  status[c] \in {"active", "overdue"}
  <1>1. pc[q] # "idle" /\ job[q].kind \in {"prepay", "charge"}
    BY DEF CreditHeld
  <1>2. Found(q, c)
    BY <1>1 DEF CreditsInv, Judged
  <1>3. CASE job[q].kind = "prepay"
    BY <1>2, <1>3 DEF Found
  <1>4. CASE job[q].kind = "charge"
    <2> DEFINE x == job[q].instalment
    <2>1. ControlTypes /\ Underway(q)
      BY DEF CreditsInv, ControlInv, Orderly
    <2>2. x \in InstalmentsOf(c)
      BY <1>1, <1>4, <2>1, JobFacts
    <2>3. state[x] \in {"pending", "overdue"}
      BY <1>2, <1>4 DEF Found
    <2>4. x \in UnpaidOf(c) /\ InstalmentOK(x, c) /\ ScheduleOK(c)
      BY <2>2, <2>3 DEF UnpaidOf, CreditsInv, ScheduleOK
    <2>5. status[c] # "absent" /\ status[c] # "closed"
      BY <2>3, <2>4 DEF ScheduleOK, InstalmentOK
    <2>6. QED
      BY <2>5 DEF CreditsInv, DataTypes
  <1>5. QED
    BY <1>1, <1>3, <1>4

(* What each credit adds to the balance of its account.                    *)
Share(st, ch, c) == IF st[c] = "absent" THEN 0 ELSE Principal[c] - ch[c]
Shares(st, ch) == [c \in Credits |-> Share(st, ch, c)]
On(a) == {c \in Credits : Account[c] = a}

(* The sum over the credits of an account that were issued is the sum of   *)
(* the shares of all of them.                                              *)
LEMMA SharesAddUp ==
    ASSUME NEW st, NEW ch \in [Credits -> Nat], NEW a
    PROVE  SumFunctionOnSet(Repaid(ch), Given(st, a)) = SumFunctionOnSet(Shares(st, ch), On(a))
  <1> DEFINE f == Repaid(ch)
             g == Shares(st, ch)
             A == {c \in Credits : st[c] # "absent"}
             S == On(a)
             L == Given(st, a)
  <1>1. IsFiniteSet(S) /\ IsFiniteSet(L) /\ IsFiniteSet(S \ A)
    <2>1. S \in SUBSET Credits /\ L \in SUBSET Credits /\ S \ A \in SUBSET Credits
      BY DEF On, Given
    <2>2. QED
      BY <2>1, CreditsAssumption, FS_Subset
  <1>2. S \cap A = L
    BY DEF On, Given
  <1>3. \A c \in Credits : f[c] \in Int /\ g[c] \in Int
    BY CreditsAssumption DEF Share, Shares, Repaid
  <1>4. Summable(g, S) /\ Summable(f, L)
    BY <1>1, <1>3 DEF Summable, On, Given
  <1>5. \A c \in S \ A : g[c] = 0
    BY DEF Share, Shares, On
  <1>6. \A c \in L : g[c] = f[c]
    BY DEF Share, Shares, Repaid, Given
  <1> HIDE DEF f, g, A, S, L
  <1>7. SumFunctionOnSet(g, S) = SumFunctionOnSet(g, L) + SumFunctionOnSet(g, S \ A)
    BY <1>2, <1>4, SumSplit
  <1>8. SumFunctionOnSet(g, S \ A) = 0 * Cardinality(S \ A)
    BY <1>1, <1>5, SumConst
  <1>9. Cardinality(S \ A) \in Nat
    BY <1>1, FS_CardinalityType
  <1>10. SumFunctionOnSet(g, L) = SumFunctionOnSet(f, L)
    BY <1>4, <1>6, SumSame
  <1>11. SumFunctionOnSet(f, L) \in Int
    BY <1>4, SumInt
  <1>12. SumFunctionOnSet(f, L) = SumFunctionOnSet(g, S)
    BY <1>7, <1>8, <1>9, <1>10, <1>11
  <1>13. QED
    BY <1>12 DEF f, g, S, L

(* The balance moves by what one credit adds to it.                        *)
LEMMA ShareMoves ==
    ASSUME CreditsInv, NEW c \in Credits, NEW n \in Int,
           net' = net, balance' = [balance EXCEPT ![Account[c]] = @ + n],
           charged' \in [Credits -> Nat],
           \A d \in Credits \ {c} : status'[d] = status[d] /\ charged'[d] = charged[d],
           Share(status', charged', c) = Share(status, charged, c) + n
    PROVE  BalanceMatchesTransactions'
  <1> DEFINE f == Shares(status, charged)
             g == Shares(status', charged')
  <1>1. charged \in [Credits -> Nat] /\ balance \in [Accounts -> Nat] /\ net \in [Accounts -> Int]
    BY DEF CreditsInv, DataTypes
  <1>2. \A d \in Credits : f[d] \in Int /\ g[d] \in Int
    BY <1>1, CreditsAssumption DEF Share, Shares
  <1>3. \A d \in Credits \ {c} : g[d] = f[d]
    BY DEF Share, Shares
  <1>4. g[c] = f[c] + n
    BY DEF Shares
  <1>5. ASSUME NEW a \in Accounts
        PROVE  /\ Summable(f, On(a)) /\ balance[a] = net[a] + SumFunctionOnSet(f, On(a))
               /\ SumFunctionOnSet(Repaid(charged'), Given(status', a)) = SumFunctionOnSet(g, On(a))
    <2>1. On(a) \in SUBSET Credits
      BY DEF On
    <2>2. Summable(f, On(a))
      <3> HIDE DEF f, g
      <3>1. QED
        BY <1>2, <2>1, CreditsAssumption, FS_Subset DEF Summable
    <2>3. SumFunctionOnSet(Repaid(charged), Given(status, a)) = SumFunctionOnSet(f, On(a))
      BY <1>1, SharesAddUp
    <2>4. SumFunctionOnSet(Repaid(charged'), Given(status', a)) = SumFunctionOnSet(g, On(a))
      BY SharesAddUp
    <2>5. balance[a] = net[a] + SumFunctionOnSet(Repaid(charged), Given(status, a))
      BY BalanceIs DEF CreditsInv
    <2>6. QED
      BY <2>2, <2>3, <2>4, <2>5
  <1>6. c \in On(Account[c]) /\ \A a : a # Account[c] => c \notin On(a)
    BY DEF On
  <1>7. \A a : On(a) \subseteq Credits
    BY DEF On
  <1> HIDE DEF f, g
  <1>8. ASSUME NEW a \in Accounts
        PROVE  balance'[a] = net'[a] + SumFunctionOnSet(Repaid(charged'), Given(status', a))
    <2>1. Summable(f, On(a)) /\ SumFunctionOnSet(f, On(a)) \in Int
      BY <1>5, SumInt
    <2>2. CASE a = Account[c]
      <3>1. SumFunctionOnSet(g, On(a)) = SumFunctionOnSet(f, On(a)) + g[c] - f[c]
        <4>1. \A d \in On(a) \ {c} : g[d] = f[d]
          BY <1>3, <1>7
        <4>2. DiffersAt(f, g, On(a), c)
          BY <1>2, <1>6, <2>2, <4>1 DEF DiffersAt
        <4>3. QED
          BY <2>1, <4>2, SumChange
      <3>2. f[c] \in Int /\ g[c] \in Int
        BY <1>2
      <3>3. balance'[a] = balance[a] + n /\ net'[a] = net[a]
        BY <1>1, <2>2
      <3>4. balance[a] = net[a] + SumFunctionOnSet(f, On(a)) /\ balance[a] \in Int /\ net[a] \in Int
        BY <1>1, <1>5
      <3>5. SumFunctionOnSet(g, On(a)) = SumFunctionOnSet(f, On(a)) + n
        BY <1>4, <2>1, <3>1, <3>2
      <3>6. balance'[a] = net'[a] + SumFunctionOnSet(g, On(a))
        BY <2>1, <3>3, <3>4, <3>5
      <3>7. QED
        BY <1>5, <3>6
    <2>3. CASE a # Account[c]
      <3>1. SumFunctionOnSet(g, On(a)) = SumFunctionOnSet(f, On(a))
        <4>1. \A d \in On(a) : g[d] = f[d]
          BY <1>3, <1>6, <1>7, <2>3
        <4>2. QED
          BY <2>1, <4>1, SumSame
      <3>2. balance'[a] = balance[a] /\ net'[a] = net[a]
        BY <1>1, <2>3
      <3>3. QED
        BY <1>5, <3>1, <3>2
    <2>4. QED
      BY <2>2, <2>3
  <1>9. QED
    BY <1>8, BalanceIs

(* A step that writes one credit, holding its row or just inserting it,    *)
(* keeps the invariant once the schedule and the balance are right again:  *)
(* no other credit is touched, and no other transaction has found out      *)
(* anything about this one.                                                *)
LEMMA CreditStep ==
    ASSUME CreditsInv, NEW p \in Processes, NEW c \in Credits,
           pc[p] # "idle", job[p].credit = c, CreditHeld(p) \/ pc[p] = "issue",
           End(p), closed' = closed,
           DataTypes', BalanceMatchesTransactions', ScheduleOK(c)',
           \A d \in Credits \ {c} : Untouched(d),
           status'[c] \in {"active", "overdue"} =>
               pc[p] = "issue" \/ status[c] \in {"active", "overdue"}
    PROVE  CreditsInv'
  <1>1. Ends(p) /\ UNCHANGED <<today, batch, faults>>
    BY DEF End, Ends
  <1>2. ControlInv' /\ Others(p) /\ ControlInv
    BY <1>1, EndControl DEF CreditsInv, Others
  <1>3. OtherTypes'
    BY <1>1, OthersUnchanged DEF CreditsInv
  <1>4. pc'[p] = "idle" /\ job'[p] = NoJob
    BY <1>1, <1>2 DEF Ends, ControlInv, ControlTypes
  <1>5. DistinctApplications'
    BY <1>2, <1>4, DistinctKept DEF CreditsInv, NoJob
  <1>6. \A d \in Credits : ScheduleOK(d)'
    BY UntouchedSchedule DEF CreditsInv
  <1>7. Found(p, c) /\ LocksTaken(p) /\ Underway(p)
    BY <1>2 DEF CreditsInv, Judged, ControlInv, Orderly
  <1>8. pc[p] = "issue" => /\ job[p].kind = "issue" /\ status[c] = "absent"
                           /\ ~closed[Account[c]]
                           /\ lock[User(Borrower(c))] = p
                           /\ "active" \in Checks =>
                                  Cardinality(LiveCredits(Borrower(c))) < MaxActive
    BY <1>7 DEF Found, Underway, LocksTaken, UserHeld
  <1>9. CreditHeld(p) => lock[CreditRow(c)] = p /\ status[c] \in {"active", "overdue"}
    BY <1>7, LockedIsLive DEF LocksTaken
  <1>10. /\ \A u \in Users : (pc[p] = "issue" => u # Borrower(c)) =>
                LiveCredits(u)' \subseteq LiveCredits(u)
         /\ LiveCredits(Borrower(c))' \subseteq LiveCredits(Borrower(c)) \cup {c}
    <2>1. \A d \in Credits \ {c} : status'[d] = status[d]
      BY DEF Untouched
    <2>2. QED
      BY <2>1 DEF LiveCredits, Borrower
  <1>11. ASSUME NEW q \in Processes \ {p} PROVE Judged(q)'
    <2>1. ASSUME NEW d \in Credits, pc[q] # "idle", job[q].credit = d
          PROVE  Undisturbed(q, d)
      <3>1. Untouched(d) \/ (~CreditHeld(q) /\ job[q].kind # "issue")
        <4>1. CASE d # c
          BY <4>1
        <4>2. CASE d = c
          <5>1. CreditHeld(q) => lock[CreditRow(c)] = q
            BY <1>2, <2>1, <4>2 DEF ControlInv, Orderly, LocksTaken
          <5>2. CreditHeld(q) => status[c] \in {"active", "overdue"}
            BY <2>1, <4>2, LockedIsLive
          <5>3. job[q].kind = "issue" => status[c] = "absent" /\ job[p].kind # "issue"
            BY <2>1, <4>2 DEF CreditsInv, Judged, Found, DistinctApplications
          <5>4. QED
            BY <1>8, <1>9, <5>1, <5>2, <5>3
        <4>3. QED
          BY <4>1, <4>2
      <3>2. lock[User(Borrower(d))] = q => LiveCredits(Borrower(d))' \subseteq LiveCredits(Borrower(d))
        <4>1. Borrower(d) \in Users
          BY Owners
        <4>2. lock[User(Borrower(d))] = q /\ pc[p] = "issue" => Borrower(d) # Borrower(c)
          BY <1>8
        <4>3. QED
          BY <1>10, <4>1, <4>2
      <3>3. QED
        BY <3>1, <3>2 DEF Undisturbed
    <2>2. QED
      BY <1>2, <2>1, JudgedKept DEF CreditsInv, ControlInv, Others
  <1>12. Judged(p)'
    BY <1>4 DEF Judged
  <1>13. ActiveCreditsLimited'
    <2> SUFFICES ASSUME "active" \in Checks, NEW u \in Users
                 PROVE  Cardinality(LiveCredits(u)') <= MaxActive
      BY DEF ActiveCreditsLimited
    <2>0. /\ Cardinality(LiveCredits(u)) <= MaxActive
          /\ Cardinality(LiveCredits(u)) \in Nat /\ IsFiniteSet(LiveCredits(u)) /\ MaxActive \in Nat
      BY LiveFinite, CreditsAssumption DEF CreditsInv, ActiveCreditsLimited
    <2>1. CASE pc[p] = "issue" => u # Borrower(c)
      <3>1. LiveCredits(u)' \subseteq LiveCredits(u)
        BY <1>10, <2>1
      <3>2. Cardinality(LiveCredits(u)') <= Cardinality(LiveCredits(u))
            /\ Cardinality(LiveCredits(u)') \in Nat
        BY <2>0, <3>1, FS_Subset, FS_CardinalityType
      <3>3. QED
        BY <2>0, <3>2
    <2>2. CASE pc[p] = "issue" /\ u = Borrower(c)
      <3>1. Cardinality(LiveCredits(u)) < MaxActive
        BY <1>8, <2>2
      <3>2. IsFiniteSet(LiveCredits(u) \cup {c})
            /\ Cardinality(LiveCredits(u) \cup {c}) <= Cardinality(LiveCredits(u)) + 1
        <4>1. /\ IsFiniteSet(LiveCredits(u) \cup {c})
              /\ Cardinality(LiveCredits(u) \cup {c}) =
                     IF c \in LiveCredits(u) THEN Cardinality(LiveCredits(u))
                     ELSE Cardinality(LiveCredits(u)) + 1
          BY <2>0, FS_AddElement
        <4>2. QED
          BY <2>0, <4>1
      <3>3. Cardinality(LiveCredits(u)') <= Cardinality(LiveCredits(u) \cup {c})
            /\ Cardinality(LiveCredits(u)') \in Nat /\ Cardinality(LiveCredits(u) \cup {c}) \in Nat
        BY <1>10, <2>2, <3>2, FS_Subset, FS_CardinalityType
      <3>4. QED
        BY <2>0, <3>1, <3>2, <3>3
    <2>3. QED
      BY <2>1, <2>2
  <1>14. ClosedAccountOwesNothing'
    <2> SUFFICES ASSUME NEW d \in Credits, closed'[Account[d]]
                 PROVE  status'[d] \in {"absent", "closed"}
      BY DEF ClosedAccountOwesNothing
    <2>1. status[d] \in {"absent", "closed"}
      BY DEF CreditsInv, ClosedAccountOwesNothing
    <2>2. CASE d # c
      BY <2>1, <2>2 DEF Untouched
    <2>3. CASE d = c
      <3>1. status'[c] \notin {"active", "overdue"}
        BY <1>8, <2>1, <2>3
      <3>2. QED
        BY <2>3, <3>1 DEF DataTypes
    <2>4. QED
      BY <2>2, <2>3
  <1>15. QED
    BY <1>2, <1>3, <1>5, <1>6, <1>11, <1>12, <1>13, <1>14 DEF CreditsInv

(* The credit is inserted with its schedule, and its principal is paid     *)
(* out.                                                                    *)
LEMMA IssueKeeps ==
    ASSUME CreditsInv, NEW p \in Processes, IssueCredit(p), NEW c, c = job[p].credit
    PROVE  CreditsInv'
  <1>1. /\ pc[p] = "issue" /\ End(p)
        /\ status' = [status EXCEPT ![c] = "active"]
        /\ state' = [x \in Instalments |-> IF x[1] = c THEN "pending" ELSE state[x]]
        /\ balance' = [balance EXCEPT ![Account[c]] = @ + Principal[c]]
        /\ closed' = closed /\ blocked' = blocked /\ net' = net
        /\ principal' = principal /\ monthly' = monthly /\ amount' = amount
        /\ penalty' = penalty /\ charged' = charged
    BY DEF IssueCredit
  <1>2. ControlTypes /\ Underway(p) /\ DataTypes
    BY DEF CreditsInv, ControlInv, Orderly
  <1>3. c \in Credits /\ Account[c] \in Accounts
    BY <1>1, <1>2, JobFacts
  <1>4. Found(p, c) /\ ScheduleOK(c)
    BY <1>1, <1>3 DEF CreditsInv, Judged
  <1>5. job[p].kind = "issue" /\ status[c] = "absent"
    BY <1>1, <1>2, <1>4 DEF Underway, Found
  <1>6. charged[c] = 0 /\ Principal[c] \in Nat /\ Monthly[c] \in Nat /\ Term[c] \in Nat
    BY <1>3, <1>4, <1>5, CreditsAssumption DEF ScheduleOK
  <1>7. \A x \in InstalmentsOf(c) :
            /\ x \in Instalments /\ x[1] = c /\ amount[x] = Monthly[c] /\ penalty[x] = 0
            /\ state'[x] = "pending"
    BY <1>1, <1>3, <1>4, <1>5, InstalmentFacts DEF ScheduleOK, InstalmentOK
  <1>8. DataTypes'
    <2>1. balance' \in [Accounts -> Nat]
      BY <1>1, <1>2, <1>3, <1>6 DEF DataTypes
    <2>2. status' \in [Credits -> {"absent", "active", "overdue", "closed"}]
      BY <1>1, <1>2 DEF DataTypes
    <2>3. state' \in [Instalments -> {"absent", "pending", "overdue", "paid"}]
      BY <1>1, <1>2 DEF DataTypes
    <2>4. QED
      BY <1>1, <1>2, <2>1, <2>2, <2>3 DEF DataTypes
  <1>9. ASSUME NEW d \in Credits \ {c} PROVE Untouched(d)
    <2>1. \A x \in InstalmentsOf(d) : x \in Instalments /\ x[1] = d
      BY InstalmentFacts
    <2>2. QED
      BY <1>1, <1>2, <2>1 DEF Untouched, DataTypes
  <1>10. status'[c] = "active"
    BY <1>1, <1>2, <1>3 DEF DataTypes
  <1>11. ScheduleOK(c)'
    <2>1. UnpaidOf(c)' = InstalmentsOf(c)
      BY <1>7 DEF UnpaidOf
    <2>2. InstalmentsOf(c) # {}
      <3>1. <<c, 1>> \in InstalmentsOf(c)
        BY <1>3, CreditsAssumption DEF InstalmentsOf
      <3>2. QED
        BY <3>1
    <2>3. SumFunctionOnSet(amount, InstalmentsOf(c)) = Monthly[c] * Term[c]
      <3>1. Monthly[c] \in Int /\ \A x \in InstalmentsOf(c) : amount[x] = Monthly[c]
        BY <1>6, <1>7
      <3>2. SumFunctionOnSet(amount, InstalmentsOf(c)) =
                Monthly[c] * Cardinality(InstalmentsOf(c))
        BY <1>3, <3>1, InstalmentsCounted, SumConst
      <3>3. QED
        BY <1>3, <3>2, InstalmentsCounted
    <2>4. InstalmentsOf(c) \ UnpaidOf(c)' = {} /\ SumFunctionOnSet(penalty, {}) = 0
      BY <2>1, SumEmpty
    <2>5. 0 + Monthly[c] * Term[c] = Monthly[c] * Term[c] + 0
      BY <1>6, Z3
    <2>6. charged'[c] + SumFunctionOnSet(amount', UnpaidOf(c)') = 0 + Monthly[c] * Term[c]
      BY <1>1, <1>6, <2>1, <2>3
    <2>7. SumFunctionOnSet(penalty', InstalmentsOf(c) \ UnpaidOf(c)') = 0
      BY <1>1, <2>4
    <2>8. Accounted(c)'
      BY <2>5, <2>6, <2>7, Zenon DEF Accounted
    <2>9. \A x \in InstalmentsOf(c) : InstalmentOK(x, c)'
      BY <1>1, <1>7, <1>10 DEF InstalmentOK
    <2>10. QED
      BY <1>10, <2>1, <2>2, <2>8, <2>9 DEF ScheduleOK
  <1>12. BalanceMatchesTransactions'
    <2>1. Share(status', charged', c) = Share(status, charged, c) + Principal[c]
      BY <1>1, <1>5, <1>6, <1>10 DEF Share
    <2>2. \A d \in Credits \ {c} : status'[d] = status[d] /\ charged'[d] = charged[d]
      BY <1>9 DEF Untouched
    <2>3. charged' \in [Credits -> Nat] /\ Principal[c] \in Int
      BY <1>1, <1>2, <1>6 DEF DataTypes
    <2>4. QED
      BY <1>1, <1>3, <2>1, <2>2, <2>3, ShareMoves
  <1>13. QED
    BY <1>1, <1>3, <1>8, <1>9, <1>11, <1>12, CreditStep

(* What the scheduler finds when it comes to charge an instalment.         *)
LEMMA ChargeFinds ==
    ASSUME CreditsInv, NEW p \in Processes, pc[p] = "charge"
    PROVE  /\ job[p].credit \in Credits /\ Account[job[p].credit] \in Accounts
           /\ job[p].instalment \in InstalmentsOf(job[p].credit)
           /\ job[p].instalment \in Instalments
           /\ state[job[p].instalment] \in {"pending", "overdue"}
           /\ CreditHeld(p) /\ ScheduleOK(job[p].credit)
           /\ InstalmentOK(job[p].instalment, job[p].credit)
           /\ status[job[p].credit] \in {"active", "overdue"}
           /\ DataTypes
  <1> DEFINE c == job[p].credit
             x == job[p].instalment
  <1>1. ControlTypes /\ Underway(p) /\ DataTypes
    BY DEF CreditsInv, ControlInv, Orderly
  <1>2. job[p].kind = "charge"
    BY <1>1 DEF Underway
  <1>3. c \in Credits /\ Account[c] \in Accounts /\ x \in InstalmentsOf(c) /\ x \in Instalments
    BY <1>1, <1>2, JobFacts
  <1>4. CreditHeld(p)
    BY <1>2 DEF CreditHeld
  <1>5. Found(p, c) /\ ScheduleOK(c)
    BY <1>3 DEF CreditsInv, Judged
  <1>6. state[x] \in {"pending", "overdue"}
    BY <1>2, <1>4, <1>5 DEF Found
  <1>7. InstalmentOK(x, c)
    BY <1>3, <1>5 DEF ScheduleOK
  <1>8. status[c] \in {"active", "overdue"}
    BY <1>3, <1>4, LockedIsLive
  <1>9. QED
    BY <1>1, <1>3, <1>4, <1>5, <1>6, <1>7, <1>8

(* The sums of a schedule, as integers.                                    *)
LEMMA ScheduleSums ==
    ASSUME NEW c \in Credits, NEW f \in [Instalments -> Nat],
           NEW S \in SUBSET InstalmentsOf(c)
    PROVE  Summable(f, S) /\ SumFunctionOnSet(f, S) \in Int /\ IsFiniteSet(S)
  <1>1. IsFiniteSet(S) /\ S \subseteq Instalments
    BY InstalmentsCounted, InstalmentFacts, FS_Subset
  <1>2. Summable(f, S)
    BY <1>1 DEF Summable
  <1>3. QED
    BY <1>1, <1>2, SumInt

(* The account has enough: the instalment and its penalty are charged, and *)
(* the last one closes the credit.                                         *)
LEMMA PayKeeps ==
    ASSUME CreditsInv, NEW p \in Processes, pc[p] = "charge",
           NEW x, NEW c, x = job[p].instalment, c = job[p].credit,
           balance[Account[c]] >= DueAmount(x), PayInstalment(x, c, Account[c]), End(p)
    PROVE  CreditsInv'
  <1>1. /\ c \in Credits /\ Account[c] \in Accounts
        /\ x \in InstalmentsOf(c) /\ x \in Instalments
        /\ state[x] \in {"pending", "overdue"} /\ CreditHeld(p)
        /\ ScheduleOK(c) /\ InstalmentOK(x, c)
        /\ status[c] \in {"active", "overdue"}
        /\ DataTypes
    BY ChargeFinds
  <1>2. /\ state' = [state EXCEPT ![x] = "paid"]
        /\ status' = [status EXCEPT ![c] = IF FullyPaid(c, x) THEN "closed" ELSE @]
        /\ balance' = [balance EXCEPT ![Account[c]] = @ - DueAmount(x)]
        /\ charged' = [charged EXCEPT ![c] = @ + amount[x] + penalty[x]]
        /\ closed' = closed /\ blocked' = blocked /\ net' = net
        /\ principal' = principal /\ monthly' = monthly /\ amount' = amount
        /\ penalty' = penalty
    BY DEF PayInstalment
  <1>3. /\ amount[x] \in Nat /\ penalty[x] \in Nat
        /\ amount \in [Instalments -> Nat] /\ penalty \in [Instalments -> Nat]
        /\ charged[c] \in Nat /\ balance[Account[c]] \in Nat /\ Principal[c] \in Nat
        /\ Monthly[c] \in Nat /\ Term[c] \in Nat
    BY <1>1, CreditsAssumption DEF DataTypes
  <1>4. DueAmount(x) = amount[x] + penalty[x]
    BY <1>1, <1>3 DEF DueAmount, InstalmentOK
  <1>5. DataTypes'
    <2>1. balance' \in [Accounts -> Nat]
      BY <1>1, <1>2, <1>3, <1>4 DEF DataTypes
    <2>2. charged' \in [Credits -> Nat]
      BY <1>1, <1>2, <1>3 DEF DataTypes
    <2>3. status' \in [Credits -> {"absent", "active", "overdue", "closed"}]
      BY <1>1, <1>2 DEF DataTypes
    <2>4. state' \in [Instalments -> {"absent", "pending", "overdue", "paid"}]
      BY <1>1, <1>2 DEF DataTypes
    <2>5. QED
      BY <1>1, <1>2, <2>1, <2>2, <2>3, <2>4 DEF DataTypes
  <1>6. ASSUME NEW d \in Credits \ {c} PROVE Untouched(d)
    <2>1. \A y \in InstalmentsOf(d) : y \in Instalments /\ y # x
      BY <1>1, InstalmentFacts
    <2>2. QED
      BY <1>1, <1>2, <2>1 DEF Untouched, DataTypes
  <1>7. /\ state'[x] = "paid" /\ \A y \in InstalmentsOf(c) \ {x} : state'[y] = state[y]
        /\ status'[c] = IF FullyPaid(c, x) THEN "closed" ELSE status[c]
        /\ charged'[c] = charged[c] + amount[x] + penalty[x]
    BY <1>1, <1>2, InstalmentFacts DEF DataTypes
  <1>8. ScheduleOK(c)'
    <2>1. UnpaidOf(c)' = UnpaidOf(c) \ {x} /\ x \in UnpaidOf(c)
      BY <1>1, <1>7 DEF UnpaidOf
    <2>2. FullyPaid(c, x) <=> UnpaidOf(c)' = {}
      BY <1>7, <2>1 DEF FullyPaid, UnpaidOf
    <2> DEFINE paid == InstalmentsOf(c) \ UnpaidOf(c)
               before == SumFunctionOnSet(amount, UnpaidOf(c))
               after == SumFunctionOnSet(amount, UnpaidOf(c) \ {x})
               fines == SumFunctionOnSet(penalty, paid)
               total == Monthly[c] * Term[c]
    <2>3. /\ UnpaidOf(c) \in SUBSET InstalmentsOf(c)
          /\ UnpaidOf(c) \ {x} \in SUBSET InstalmentsOf(c)
          /\ paid \in SUBSET InstalmentsOf(c) /\ x \notin paid
          /\ InstalmentsOf(c) \ UnpaidOf(c)' = paid \cup {x}
      BY <1>1, <2>1 DEF UnpaidOf
    <2>4. before = amount[x] + after /\ before \in Int /\ after \in Int
      BY <1>1, <1>3, <2>1, <2>3, ScheduleSums, SumRemove
    <2>5. SumFunctionOnSet(penalty, paid \cup {x}) = penalty[x] + fines /\ fines \in Int
      <3>1. Summable(penalty, paid) /\ penalty[x] \in Int
        BY <1>1, <1>3, <2>3, ScheduleSums
      <3>2. fines \in Int
        BY <1>1, <1>3, <2>3, ScheduleSums
      <3> HIDE DEF paid
      <3>3. QED
        BY <2>3, <3>1, <3>2, SumAdd
    <2>6. charged[c] + before = total + fines /\ total \in Int
      <3>1. charged[c] + before = total + fines
        BY <1>1 DEF ScheduleOK, Accounted
      <3>2. total \in Int
        BY <1>3
      <3>3. QED
        BY <3>1, <3>2
    <2>7. charged'[c] + SumFunctionOnSet(amount', UnpaidOf(c)') =
              (charged[c] + amount[x] + penalty[x]) + after
      BY <1>2, <1>7, <2>1
    <2>8. SumFunctionOnSet(penalty', InstalmentsOf(c) \ UnpaidOf(c)') = penalty[x] + fines
      BY <1>2, <2>3, <2>5
    <2>9. (charged[c] + amount[x] + penalty[x]) + after = total + (penalty[x] + fines)
      <3> HIDE DEF before, after, fines, total
      <3>1. QED
        BY <1>3, <2>4, <2>5, <2>6
    <2>10. Accounted(c)'
      BY <2>7, <2>8, <2>9 DEF Accounted
    <2>11. ASSUME NEW y \in InstalmentsOf(c) PROVE InstalmentOK(y, c)'
      <3>1. CASE y = x
        BY <1>1, <1>7, <3>1 DEF InstalmentOK
      <3>2. CASE y # x
        <4>1. InstalmentOK(y, c) /\ state'[y] = state[y] /\ amount' = amount /\ penalty' = penalty
          BY <1>1, <1>2, <1>7, <3>2 DEF ScheduleOK
        <4>2. FullyPaid(c, x) => state[y] = "paid"
          BY <3>2 DEF FullyPaid
        <4>3. QED
          BY <1>1, <1>7, <4>1, <4>2 DEF InstalmentOK
      <3>3. QED
        BY <3>1, <3>2
    <2>12. QED
      BY <1>1, <1>7, <2>2, <2>10, <2>11 DEF ScheduleOK
  <1>9. BalanceMatchesTransactions'
    <2> DEFINE n == -DueAmount(x)
    <2>1. n \in Int /\ balance' = [balance EXCEPT ![Account[c]] = @ + n]
      <3>1. DueAmount(x) \in Int
        BY <1>3, <1>4
      <3>2. n \in Int /\ balance[Account[c]] - DueAmount(x) = balance[Account[c]] + n
        BY <1>3, <3>1
      <3>3. QED
        BY <1>2, <3>2
    <2>2. Share(status', charged', c) = Share(status, charged, c) + n
      BY <1>1, <1>3, <1>4, <1>7 DEF Share
    <2>3. \A d \in Credits \ {c} : status'[d] = status[d] /\ charged'[d] = charged[d]
      BY <1>6 DEF Untouched
    <2>4. charged' \in [Credits -> Nat]
      BY <1>5 DEF DataTypes
    <2> HIDE DEF n
    <2>5. QED
      BY <1>1, <1>2, <2>1, <2>2, <2>3, <2>4, ShareMoves
  <1>10. QED
    BY <1>1, <1>2, <1>5, <1>6, <1>8, <1>9, CreditStep

(* It has not: the instalment is overdue and a penalty is added, once.     *)
LEMMA MarkKeeps ==
    ASSUME CreditsInv, NEW p \in Processes, pc[p] = "charge",
           NEW x, NEW c, x = job[p].instalment, c = job[p].credit,
           MarkOverdue(x, c), End(p)
    PROVE  CreditsInv'
  <1>1. /\ c \in Credits /\ Account[c] \in Accounts
        /\ x \in InstalmentsOf(c) /\ x \in Instalments
        /\ state[x] \in {"pending", "overdue"} /\ CreditHeld(p)
        /\ ScheduleOK(c) /\ InstalmentOK(x, c)
        /\ status[c] \in {"active", "overdue"}
        /\ DataTypes
    BY ChargeFinds
  <1>2. /\ state' = [state EXCEPT ![x] = "overdue"]
        /\ penalty' = [penalty EXCEPT ![x] = IF @ > 0 THEN @ ELSE Tenth(amount[x])]
        /\ status' = [status EXCEPT ![c] = "overdue"]
        /\ balance' = balance /\ closed' = closed /\ blocked' = blocked /\ net' = net
        /\ principal' = principal /\ monthly' = monthly /\ amount' = amount
        /\ charged' = charged
    BY DEF MarkOverdue, accountVars
  <1>3. DataTypes'
    <2>1. penalty' \in [Instalments -> Nat]
      <3>1. Tenth(amount[x]) \in Nat
        <4>1. amount[x] \in Nat
          BY <1>1 DEF DataTypes
        <4>2. QED
          BY <4>1 DEF Tenth
      <3>2. QED
        BY <1>1, <1>2, <3>1 DEF DataTypes
    <2>2. status' \in [Credits -> {"absent", "active", "overdue", "closed"}]
      BY <1>1, <1>2 DEF DataTypes
    <2>3. state' \in [Instalments -> {"absent", "pending", "overdue", "paid"}]
      BY <1>1, <1>2 DEF DataTypes
    <2>4. QED
      BY <1>1, <1>2, <2>1, <2>2, <2>3 DEF DataTypes
  <1>4. ASSUME NEW d \in Credits \ {c} PROVE Untouched(d)
    <2>1. \A y \in InstalmentsOf(d) : y \in Instalments /\ y # x
      BY <1>1, InstalmentFacts
    <2>2. QED
      BY <1>1, <1>2, <2>1 DEF Untouched, DataTypes
  <1>5. /\ state'[x] = "overdue" /\ status'[c] = "overdue"
        /\ \A y \in InstalmentsOf(c) \ {x} : state'[y] = state[y] /\ penalty'[y] = penalty[y]
    BY <1>1, <1>2, InstalmentFacts DEF DataTypes
  <1>6. ScheduleOK(c)'
    <2>1. UnpaidOf(c)' = UnpaidOf(c) /\ x \in UnpaidOf(c)
      BY <1>1, <1>5 DEF UnpaidOf
    <2>2. SumFunctionOnSet(penalty', InstalmentsOf(c) \ UnpaidOf(c)) =
              SumFunctionOnSet(penalty, InstalmentsOf(c) \ UnpaidOf(c))
      <3>1. Summable(penalty, InstalmentsOf(c) \ UnpaidOf(c))
        <4>1. penalty \in [Instalments -> Nat]
          BY <1>1 DEF DataTypes
        <4>2. QED
          BY <1>1, <4>1, ScheduleSums
      <3>2. \A y \in InstalmentsOf(c) \ UnpaidOf(c) : penalty'[y] = penalty[y]
        BY <1>5, <2>1
      <3>3. QED
        BY <3>1, <3>2, SumSame
    <2>3. Accounted(c)
      BY <1>1 DEF ScheduleOK
    <2>4. Accounted(c)'
      BY <1>2, <2>1, <2>2, <2>3 DEF Accounted
    <2>5. ASSUME NEW y \in InstalmentsOf(c) PROVE InstalmentOK(y, c)'
      <3>1. CASE y = x
        BY <1>1, <1>5, <3>1 DEF InstalmentOK
      <3>2. CASE y # x
        <4>1. /\ InstalmentOK(y, c) /\ state'[y] = state[y] /\ amount' = amount
              /\ penalty'[y] = penalty[y]
          BY <1>1, <1>2, <1>5, <3>2 DEF ScheduleOK
        <4>2. QED
          BY <1>1, <1>5, <4>1 DEF InstalmentOK
      <3>3. QED
        BY <3>1, <3>2
    <2>6. QED
      BY <1>5, <2>1, <2>4, <2>5 DEF ScheduleOK
  <1>7. BalanceMatchesTransactions'
    <2>1. Share(status', charged', c) = Share(status, charged, c) + 0
      <3>1. charged[c] \in Int /\ Principal[c] \in Int
        BY <1>1, CreditsAssumption DEF DataTypes
      <3>2. QED
        BY <1>1, <1>2, <1>5, <3>1 DEF Share
    <2>2. \A d \in Credits \ {c} : status'[d] = status[d] /\ charged'[d] = charged[d]
      BY <1>4 DEF Untouched
    <2>3. balance' = [balance EXCEPT ![Account[c]] = @ + 0]
      BY <1>1, <1>2 DEF DataTypes
    <2>4. charged' \in [Credits -> Nat] /\ 0 \in Int
      BY <1>3 DEF DataTypes
    <2>5. QED
      BY <1>1, <1>2, <2>1, <2>2, <2>3, <2>4, ShareMoves
  <1>8. QED
    BY <1>1, <1>2, <1>3, <1>4, <1>6, <1>7, CreditStep

LEMMA ChargeKeeps ==
    ASSUME CreditsInv, NEW p \in Processes, Charge(p)
    PROVE  CreditsInv'
  <1> DEFINE x == job[p].instalment
             c == job[p].credit
  <1>1. pc[p] = "charge" /\ End(p)
    BY DEF Charge
  <1>2. CASE balance[Account[c]] >= DueAmount(x) /\ PayInstalment(x, c, Account[c])
    BY <1>1, <1>2, PayKeeps
  <1>3. CASE MarkOverdue(x, c)
    BY <1>1, <1>3, MarkKeeps
  <1>4. CASE UNCHANGED <<accountVars, creditVars>>
    BY <1>1, <1>4, AbortKeeps DEF Abort
  <1>5. QED
    BY <1>2, <1>3, <1>4 DEF Charge

(* The plan of a credit lists the amounts of its pending instalments.      *)
LEMMA PlanFacts ==
    ASSUME DataTypes, NEW c \in Credits, NEW n, n = Len(PendingSeq(c))
    PROVE  /\ n \in Nat
           /\ Plan(c) \in [1..n -> Nat \ {0}]
           /\ Len(Plan(c)) = n
           /\ Outstanding(Plan(c)) = SumFunctionOnSet(amount, PendingOf(c))
           /\ Outstanding(Plan(c)) \in Nat
  <1> DEFINE s == PendingSeq(c)
             R == PendingOf(c)
  <1>1. /\ n \in Nat /\ R \in SUBSET Instalments /\ IsFiniteSet(R)
        /\ s \in [1..n -> R]
        /\ \A i, j \in 1..n : s[i] = s[j] => i = j
        /\ {s[i] : i \in 1..n} = R
    BY PendingFacts
  <1>2. amount \in [Instalments -> Nat \ {0}]
    BY DEF DataTypes
  <1>3. Plan(c) = [i \in 1..n |-> amount[s[i]]]
    BY DEF Plan
  <1> HIDE DEF s, R
  <1>4. Plan(c) \in [1..n -> Nat \ {0}]
    BY <1>1, <1>2, <1>3
  <1>5. Len(Plan(c)) = n
    BY <1>1, <1>4, PlanLength
  <1>6. Plan(c) \in [1..n -> Nat]
    BY <1>4
  <1>7. Outstanding(Plan(c)) = SumFunctionOnSet(Plan(c), 1..n) /\ Outstanding(Plan(c)) \in Nat
    BY <1>1, <1>6, OutstandingIsSum
  <1>8. SumFunctionOnSet(Plan(c), 1..n) = SumFunctionOnSet(amount, R)
    <2>1. \A y \in R : amount[y] \in Int
      BY <1>1, <1>2
    <2>2. Lists(s, 1..n, R, Plan(c), amount)
      BY <1>1, <1>3, <2>1 DEF Lists
    <2>3. QED
      BY <1>1, <2>2, FS_Interval, SumReindex
  <1>9. Outstanding(Plan(c)) = SumFunctionOnSet(amount, R)
    BY <1>1, <1>3, <1>7, <1>8
  <1>10. QED
    BY <1>1, <1>4, <1>5, <1>7, <1>9 DEF R

(* What a prepayment finds when it comes to write.                         *)
LEMMA PrepayFinds ==
    ASSUME CreditsInv, NEW p \in Processes, pc[p] = "prepay", NEW c, c = job[p].credit
    PROVE  /\ c \in Credits /\ Account[c] \in Accounts
           /\ job[p].amount \in Nat \ {0}
           /\ CreditHeld(p) /\ ScheduleOK(c) /\ DataTypes
           /\ status[c] = "active" /\ PendingOf(c) # {}
           /\ UnpaidOf(c) = PendingOf(c)
           /\ job[p].amount <= Outstanding(Plan(c))
  <1>1. ControlTypes /\ Underway(p) /\ DataTypes
    BY DEF CreditsInv, ControlInv, Orderly
  <1>2. job[p].kind = "prepay"
    BY <1>1 DEF Underway
  <1>3. c \in Credits /\ Account[c] \in Accounts /\ job[p].amount \in Nat \ {0}
    BY <1>1, <1>2, JobFacts
  <1>4. CreditHeld(p)
    BY <1>2 DEF CreditHeld
  <1>5. Found(p, c) /\ ScheduleOK(c)
    BY <1>3 DEF CreditsInv, Judged
  <1>6. status[c] = "active" /\ PendingOf(c) # {} /\ job[p].amount <= Outstanding(Plan(c))
    BY <1>2, <1>4, <1>5 DEF Found
  <1>7. UnpaidOf(c) = PendingOf(c)
    <2>1. ASSUME NEW x \in InstalmentsOf(c) PROVE state[x] # "paid" <=> state[x] = "pending"
      <3>1. InstalmentOK(x, c) /\ x \in Instalments
        BY <1>3, <1>5, InstalmentFacts DEF ScheduleOK
      <3>2. state[x] \in {"absent", "pending", "overdue", "paid"}
        BY <1>1, <3>1 DEF DataTypes
      <3>3. QED
        BY <1>6, <3>1, <3>2 DEF InstalmentOK
    <2>2. QED
      BY <2>1 DEF UnpaidOf, PendingOf
  <1>8. QED
    BY <1>1, <1>3, <1>4, <1>5, <1>6, <1>7

(* The instalments G that a prepayment pays off carry no penalty, and the  *)
(* debt falls by what is paid.                                             *)
LEMMA PrepaidDebt ==
    ASSUME DataTypes, NEW c \in Credits, ScheduleOK(c), status[c] # "absent",
           UnpaidOf(c) = PendingOf(c),
           NEW paid \in Nat, NEW G \in SUBSET PendingOf(c),
           UnpaidOf(c)' = PendingOf(c) \ G,
           penalty' = penalty, charged'[c] = charged[c] + paid,
           SumFunctionOnSet(amount', PendingOf(c) \ G) = Outstanding(Plan(c)) - paid
    PROVE  Accounted(c)'
  <1> DEFINE I == InstalmentsOf(c)
             R == PendingOf(c)
             total == Monthly[c] * Term[c]
             debt == Outstanding(Plan(c))
             fines == SumFunctionOnSet(penalty, I \ R)
  <1>1. debt = SumFunctionOnSet(amount, R) /\ debt \in Nat
    BY PlanFacts
  <1>2. charged[c] + debt = total + fines
    BY <1>1 DEF ScheduleOK, Accounted
  <1>3. R \subseteq I /\ penalty \in [Instalments -> Nat] /\ charged[c] \in Nat
    BY PendingFacts DEF DataTypes
  <1>4. \A x \in G : penalty[x] = 0
    BY <1>3 DEF ScheduleOK, InstalmentOK, PendingOf
  <1>5. SumFunctionOnSet(penalty, I \ (R \ G)) = fines
    <2> DEFINE A == I \ R
               B == I \ (R \ G)
    <2>1. B \cap A = A /\ B \ A = G /\ B \in SUBSET I /\ G \in SUBSET I /\ A \in SUBSET I
      BY <1>3
    <2> HIDE DEF A, B, I, R, fines
    <2>2. Summable(penalty, B) /\ SumFunctionOnSet(penalty, A) \in Int /\ IsFiniteSet(G)
      BY <1>3, <2>1, ScheduleSums DEF I
    <2>3. SumFunctionOnSet(penalty, B) = SumFunctionOnSet(penalty, A) + SumFunctionOnSet(penalty, G)
      <3>1. SumFunctionOnSet(penalty, B) =
                SumFunctionOnSet(penalty, B \cap A) + SumFunctionOnSet(penalty, B \ A)
        BY <2>2, SumSplit
      <3>2. QED
        BY <2>1, <3>1
    <2>4. SumFunctionOnSet(penalty, G) = 0 * Cardinality(G) /\ Cardinality(G) \in Nat
      BY <1>4, <2>2, SumConst, FS_CardinalityType
    <2>5. SumFunctionOnSet(penalty, B) = SumFunctionOnSet(penalty, A)
      BY <2>2, <2>3, <2>4
    <2>6. QED
      BY <2>5 DEF A, B, fines
  <1>6. fines \in Int /\ total \in Int
    <2>1. I \ R \in SUBSET I
      OBVIOUS
    <2>2. fines \in Int
      <3> HIDE DEF R
      <3>1. QED
        BY <1>3, <2>1, ScheduleSums
    <2>3. Monthly[c] \in Int /\ Term[c] \in Int
      BY CreditsAssumption
    <2>4. QED
      BY <2>2, <2>3
  <1>7. (charged[c] + paid) + (debt - paid) = total + fines
    <2> HIDE DEF debt, total, fines
    <2>1. QED
      BY <1>1, <1>2, <1>3, <1>6
  <1>8. charged'[c] + SumFunctionOnSet(amount', UnpaidOf(c)') =
            (charged[c] + paid) + (debt - paid)
    OBVIOUS
  <1>9. SumFunctionOnSet(penalty', I \ UnpaidOf(c)') = fines
    BY <1>5
  <1>10. QED
    BY <1>7, <1>8, <1>9 DEF Accounted

(* The rest of a prepayment of paid by p, which pays the instalments G off *)
(* and gives the others new amounts.                                       *)
Prepaid(p, c, paid, G, st) ==
    /\ pc[p] = "prepay" /\ c = job[p].credit
    /\ paid = job[p].amount /\ balance[Account[c]] >= paid /\ End(p)
    /\ closed' = closed /\ blocked' = blocked /\ net' = net /\ penalty' = penalty
    /\ balance' = [balance EXCEPT ![Account[c]] = @ - paid]
    /\ charged' = [charged EXCEPT ![c] = @ + paid]
    /\ G \in SUBSET PendingOf(c) /\ UnpaidOf(c)' = PendingOf(c) \ G
    /\ SumFunctionOnSet(amount', PendingOf(c) \ G) = Outstanding(Plan(c)) - paid
    /\ st \in {"active", "closed"} /\ status' = [status EXCEPT ![c] = st]
    /\ st = "closed" <=> PendingOf(c) \ G = {}
    /\ state' = [x \in Instalments |-> IF x \in G THEN "paid" ELSE state[x]]
    /\ principal' \in [Credits -> Nat] /\ monthly' \in [Credits -> Nat \ {0}]
    /\ amount' \in [Instalments -> Nat \ {0}]
    /\ \A x \in Instalments \ PendingOf(c) : amount'[x] = amount[x]

(* Such a step keeps the invariant, whatever the new amounts are.          *)
LEMMA PrepayStep ==
    ASSUME CreditsInv, NEW p \in Processes, NEW c, NEW paid, NEW G, NEW st,
           Prepaid(p, c, paid, G, st)
    PROVE  CreditsInv'
  <1> USE DEF Prepaid
  <1>1. /\ c \in Credits /\ Account[c] \in Accounts
        /\ job[p].amount \in Nat \ {0} /\ paid \in Nat
        /\ CreditHeld(p) /\ ScheduleOK(c) /\ DataTypes
        /\ status[c] = "active"
        /\ UnpaidOf(c) = PendingOf(c)
    BY PrepayFinds
  <1>2. /\ balance[Account[c]] \in Nat /\ charged[c] \in Nat /\ Principal[c] \in Nat
    BY <1>1, CreditsAssumption DEF DataTypes
  <1>3. DataTypes'
    <2>1. balance' \in [Accounts -> Nat]
      BY <1>1, <1>2 DEF DataTypes
    <2>2. charged' \in [Credits -> Nat]
      BY <1>1, <1>2 DEF DataTypes
    <2>3. status' \in [Credits -> {"absent", "active", "overdue", "closed"}]
      BY <1>1 DEF DataTypes
    <2>4. state' \in [Instalments -> {"absent", "pending", "overdue", "paid"}]
      BY <1>1 DEF DataTypes
    <2>5. QED
      BY <1>1, <2>1, <2>2, <2>3, <2>4 DEF DataTypes
  <1>4. status'[c] = st /\ charged'[c] = charged[c] + paid
    BY <1>1 DEF DataTypes
  <1>5. PendingOf(c) \subseteq InstalmentsOf(c)
    BY <1>1, PendingFacts
  <1>6. ASSUME NEW d \in Credits \ {c} PROVE Untouched(d)
    <2>1. \A y \in InstalmentsOf(d) : y \in Instalments /\ y \notin PendingOf(c)
      BY <1>1, <1>5, InstalmentFacts
    <2>2. \A y \in InstalmentsOf(d) : state'[y] = state[y] /\ amount'[y] = amount[y]
      BY <2>1
    <2>3. status'[d] = status[d] /\ charged'[d] = charged[d]
      BY <1>1 DEF DataTypes
    <2>4. QED
      BY <2>2, <2>3 DEF Untouched
  <1>7. Accounted(c)'
    BY <1>1, <1>4, PrepaidDebt
  <1>8. ScheduleOK(c)'
    <2>1. ASSUME NEW x \in InstalmentsOf(c) PROVE InstalmentOK(x, c)'
      <3>1. InstalmentOK(x, c) /\ x \in Instalments
        BY <1>1, InstalmentFacts DEF ScheduleOK
      <3>2. state'[x] = "paid" \/ state'[x] = state[x]
        BY <3>1
      <3>3. state[x] \notin {"absent", "overdue"}
        BY <1>1, <3>1 DEF InstalmentOK
      <3>4. state'[x] \notin {"absent", "overdue"} /\ (state'[x] = "pending" => state[x] = "pending")
        BY <3>2, <3>3
      <3>5. status'[c] # "absent"
        BY <1>4
      <3>6. penalty'[x] = penalty[x]
        OBVIOUS
      <3>7. QED
        BY <3>1, <3>4, <3>5, <3>6 DEF InstalmentOK
    <2>2. status'[c] # "absent" /\ (status'[c] = "closed" <=> UnpaidOf(c)' = {})
      BY <1>4
    <2>3. QED
      BY <1>7, <2>1, <2>2 DEF ScheduleOK
  <1>9. BalanceMatchesTransactions'
    <2> DEFINE n == -paid
    <2>1. n \in Int /\ balance' = [balance EXCEPT ![Account[c]] = @ + n]
      <3>1. n \in Int /\ balance[Account[c]] - paid = balance[Account[c]] + n
        BY <1>1, <1>2
      <3>2. QED
        BY <3>1
    <2>2. Share(status', charged', c) = Share(status, charged, c) + n
      <3>1. Principal[c] - (charged[c] + paid) = (Principal[c] - charged[c]) + n
        BY <1>1, <1>2
      <3>2. status[c] # "absent" /\ status'[c] # "absent"
        BY <1>1, <1>4
      <3>3. QED
        BY <1>4, <3>1, <3>2 DEF Share
    <2>3. \A d \in Credits \ {c} : status'[d] = status[d] /\ charged'[d] = charged[d]
      BY <1>6 DEF Untouched
    <2>4. charged' \in [Credits -> Nat] /\ net' = net
      BY <1>3 DEF DataTypes
    <2> HIDE DEF n
    <2>5. QED
      BY <1>1, <2>1, <2>2, <2>3, <2>4, ShareMoves
  <1>10. QED
    BY <1>1, <1>3, <1>6, <1>8, <1>9, CreditStep

(* A plan of n amounts of which some are left to pay: those from the first *)
(* to some other.                                                          *)
Reduced(new, n, left) ==
    /\ n \in Nat /\ new \in [1..n -> Nat]
    /\ Outstanding(new) = left
    /\ \E k \in 1..n : \A i \in 1..n : new[i] > 0 <=> i <= k

(* A debt is left in some instalment.                                      *)
LEMMA SomethingLeft ==
    ASSUME NEW n \in Nat, NEW new \in [1..n -> Nat], Outstanding(new) # 0,
           NEW k \in 0..n, \A i \in 1..n : new[i] > 0 <=> i <= k
    PROVE  k \in 1..n
  <1>1. ASSUME k = 0 PROVE FALSE
    <2>1. \A i \in 1..n : new[i] = 0
      <3> SUFFICES ASSUME NEW i \in 1..n PROVE new[i] = 0
        OBVIOUS
      <3>1. new[i] \in Nat /\ ~(i <= 0)
        OBVIOUS
      <3>2. QED
        BY <1>1, <3>1
    <2>2. IsFiniteSet(1..n) /\ Cardinality(1..n) = n
      BY FS_Interval
    <2>3. SumFunctionOnSet(new, 1..n) = 0 * Cardinality(1..n)
      BY <2>1, <2>2, SumConst
    <2>4. Outstanding(new) = SumFunctionOnSet(new, 1..n)
      BY OutstandingIsSum
    <2>5. Outstanding(new) = 0 * n
      BY <2>2, <2>3, <2>4
    <2>6. QED
      BY <2>5
  <1>2. QED
    BY <1>1

(* Both modes reduce a plan in this sense.                                 *)
LEMMA TermReduced ==
    ASSUME NEW n \in Nat, NEW plan \in [1..n -> Nat \ {0}], NEW paid \in Nat,
           paid <= Outstanding(plan), Outstanding(plan) - paid # 0
    PROVE  Reduced(ReduceTerm(plan, paid), n, Outstanding(plan) - paid)
  <1> DEFINE new == ReduceTerm(plan, paid)
  <1>1. plan \in [1..n -> Nat]
    OBVIOUS
  <1>2. new \in [1..n -> Nat] /\ Outstanding(new) = Outstanding(plan) - paid
    BY <1>1, ReduceTermLowers
  <1>3. PICK k \in 0..n : \A i \in 1..n : new[i] > 0 <=> i <= k
    BY ReduceTermCutsTheEnd
  <1> HIDE DEF new
  <1>4. k \in 1..n
    BY <1>2, <1>3, SomethingLeft
  <1>5. QED
    BY <1>2, <1>3, <1>4 DEF Reduced, new

LEMMA PaymentReduced ==
    ASSUME NEW n \in Nat, NEW plan \in [1..n -> Nat \ {0}], NEW left \in Nat,
           CanReducePayment(plan, left)
    PROVE  Reduced(ReducePayment(plan, left), n, left)
  <1> DEFINE new == ReducePayment(plan, left)
  <1>1. plan \in [1..n -> Nat] /\ Len(plan) = n /\ n # 0 /\ left >= n
    <2>1. plan \in [1..n -> Nat]
      OBVIOUS
    <2>2. Len(plan) = n
      BY PlanLength
    <2>3. n # 0
      <3>1. n = 0 => plan = <<>>
        BY <2>2
      <3>2. QED
        BY <3>1 DEF CanReducePayment
    <2>4. QED
      BY <2>1, <2>2, <2>3 DEF CanReducePayment
  <1>2. new \in [1..n -> Nat] /\ Outstanding(new) = left
    BY <1>1, ReducePaymentKeeps
  <1>3. left \div n >= 1
    <2>1. left = n * (left \div n) + (left % n) /\ (left % n) \in 0..(n - 1) /\ left \div n \in Nat
      BY <1>1
    <2>2. ASSUME left \div n = 0 PROVE FALSE
      <3>1. n * (left \div n) = 0
        BY <2>2
      <3>2. QED
        BY <1>1, <2>1, <3>1
    <2>3. QED
      BY <2>1, <2>2
  <1>4. \A i \in 1..n : new[i] > 0 <=> i <= n
    <2> SUFFICES ASSUME NEW i \in 1..n PROVE new[i] > 0 /\ i <= n
      OBVIOUS
    <2>1. new[i] = left \div n + IF i <= left % n THEN 1 ELSE 0
      BY <1>1 DEF ReducePayment
    <2>2. left \div n \in Int
      BY <1>1
    <2>3. QED
      BY <1>3, <2>1, <2>2
  <1>5. n \in 1..n
    BY <1>1
  <1> HIDE DEF new
  <1>6. QED
    BY <1>2, <1>4, <1>5 DEF Reduced, new

(* The amount the credit row shows stays positive.                         *)
LEMMA MonthlyStays ==
    ASSUME NEW n, NEW new, NEW left, Reduced(new, n, left)
    PROVE  NewMonthlyPayment(new) \in Nat \ {0}
  <1>1. n \in Nat /\ new \in [1..n -> Nat]
    BY DEF Reduced
  <1>2. PICK k \in 1..n : \A i \in 1..n : new[i] > 0 <=> i <= k
    BY DEF Reduced
  <1> DEFINE kept == [i \in 1..k |-> new[i]]
  <1>3. k \in 0..n /\ k \in Nat /\ 1 \in 1..k /\ 1 \in 1..n
    BY <1>1
  <1>4. Unpaid(new) = kept
    BY <1>1, <1>2, <1>3, UnpaidIsPrefix
  <1>5. kept \in [1..k -> Nat]
    BY <1>1
  <1>6. kept \in Seq(Nat) /\ Len(kept) = k
    <2> HIDE DEF kept
    <2>1. QED
      BY <1>3, <1>5, PlanLength
  <1>7. kept # <<>>
    <2> HIDE DEF kept
    <2>1. Len(<<>>) = 0
      OBVIOUS
    <2>2. QED
      BY <1>3, <1>6, <2>1
  <1>8. Head(kept) = kept[1]
    <2> HIDE DEF kept
    <2>1. QED
      BY <1>6, <1>7
  <1>9. kept[1] = new[1] /\ new[1] > 0 /\ new[1] \in Nat
    BY <1>1, <1>2, <1>3
  <1>10. QED
    BY <1>4, <1>7, <1>8, <1>9 DEF NewMonthlyPayment

(* The whole debt is paid.                                                 *)
LEMMA PayOffKeeps ==
    ASSUME CreditsInv, NEW p \in Processes, pc[p] = "prepay", NEW c, c = job[p].credit,
           NEW paid, paid = job[p].amount, balance[Account[c]] >= paid, End(p),
           closed' = closed /\ blocked' = blocked /\ net' = net /\ penalty' = penalty,
           balance' = [balance EXCEPT ![Account[c]] = @ - paid],
           charged' = [charged EXCEPT ![c] = @ + paid],
           Outstanding(Plan(c)) - paid = 0, PayOff(c)
    PROVE  CreditsInv'
  <1>1. /\ c \in Credits /\ ScheduleOK(c) /\ DataTypes /\ UnpaidOf(c) = PendingOf(c)
    BY PrepayFinds
  <1>2. /\ state' = [x \in Instalments |-> IF x \in PendingOf(c) THEN "paid" ELSE state[x]]
        /\ status' = [status EXCEPT ![c] = "closed"]
        /\ principal' = [principal EXCEPT ![c] = 0]
        /\ amount' = amount /\ monthly' = monthly
    BY DEF PayOff
  <1>3. /\ principal' \in [Credits -> Nat] /\ monthly' \in [Credits -> Nat \ {0}]
        /\ amount' \in [Instalments -> Nat \ {0}]
    BY <1>1, <1>2 DEF DataTypes
  <1> DEFINE G == PendingOf(c)
  <1>4. G \in SUBSET PendingOf(c) /\ PendingOf(c) \ G = {}
    OBVIOUS
  <1>5. UnpaidOf(c)' = PendingOf(c) \ G
    <2>1. \A x \in InstalmentsOf(c) : x \in Instalments /\ (x \notin PendingOf(c) => state[x] = "paid")
      BY <1>1, InstalmentFacts DEF UnpaidOf
    <2>2. \A x \in InstalmentsOf(c) : state'[x] = "paid"
      BY <1>2, <2>1
    <2>3. UnpaidOf(c)' = {}
      BY <2>2 DEF UnpaidOf
    <2>4. QED
      BY <1>4, <2>3
  <1>6. SumFunctionOnSet(amount', PendingOf(c) \ G) = Outstanding(Plan(c)) - paid
    BY <1>4, SumEmpty
  <1>7. \A x \in Instalments \ PendingOf(c) : amount'[x] = amount[x]
    BY <1>2
  <1>8. state' = [x \in Instalments |-> IF x \in G THEN "paid" ELSE state[x]]
    BY <1>2
  <1> HIDE DEF G
  <1>9. Prepaid(p, c, paid, G, "closed")
    BY <1>2, <1>3, <1>4, <1>5, <1>6, <1>7, <1>8 DEF Prepaid
  <1>10. QED
    BY <1>9, PrepayStep

(* The plan is reduced.                                                    *)
LEMMA RescheduleKeeps ==
    ASSUME CreditsInv, NEW p \in Processes, pc[p] = "prepay", NEW c, c = job[p].credit,
           NEW paid, paid = job[p].amount, balance[Account[c]] >= paid, End(p),
           closed' = closed /\ blocked' = blocked /\ net' = net /\ penalty' = penalty,
           balance' = [balance EXCEPT ![Account[c]] = @ - paid],
           charged' = [charged EXCEPT ![c] = @ + paid],
           NEW new, Reduced(new, Len(PendingSeq(c)), Outstanding(Plan(c)) - paid),
           Reschedule(c, new)
    PROVE  CreditsInv'
  <1>1. /\ c \in Credits /\ ScheduleOK(c) /\ DataTypes /\ UnpaidOf(c) = PendingOf(c)
    BY PrepayFinds
  <1> DEFINE s == PendingSeq(c)
             R == PendingOf(c)
             n == Len(s)
             At(x) == CHOOSE i \in 1..Len(s) : s[i] = x
             Gone(x) == x \in R /\ new[At(x)] = 0
             G == {x \in R : new[At(x)] = 0}
             val == [x \in R |-> new[At(x)]]
             left == Outstanding(Plan(c)) - paid
  <1>2. /\ state' = [x \in Instalments |-> IF Gone(x) THEN "paid" ELSE state[x]]
        /\ amount' = [x \in Instalments |-> IF x \in R /\ ~Gone(x) THEN new[At(x)] ELSE amount[x]]
        /\ monthly' = [monthly EXCEPT ![c] = NewMonthlyPayment(new)]
        /\ principal' = [principal EXCEPT ![c] = Outstanding(new)]
        /\ status' = [status EXCEPT ![c] = "active"]
    BY DEF Reschedule
  <1>3. /\ n \in Nat /\ R \in SUBSET Instalments /\ R \subseteq InstalmentsOf(c) /\ IsFiniteSet(R)
        /\ s \in [1..n -> R]
        /\ \A i, j \in 1..n : s[i] = s[j] => i = j
        /\ R = {s[i] : i \in 1..n}
    BY <1>1, PendingFacts
  <1>4. new \in [1..n -> Nat] /\ Outstanding(new) = left
    BY DEF Reduced
  <1>5. PICK k \in 1..n : \A i \in 1..n : new[i] > 0 <=> i <= k
    BY DEF Reduced
  <1>6. \A i \in 1..n : At(s[i]) = i
    <2> HIDE DEF s
    <2> SUFFICES ASSUME NEW i \in 1..n PROVE At(s[i]) = i
      OBVIOUS
    <2>1. \E j \in 1..Len(s) : s[j] = s[i]
      OBVIOUS
    <2>2. At(s[i]) \in 1..n /\ s[At(s[i])] = s[i]
      BY <2>1
    <2>3. QED
      BY <1>3, <2>2
  <1>7. \A x \in R : At(x) \in 1..n /\ s[At(x)] = x
    <2> HIDE DEF At, s, R
    <2>1. QED
      BY <1>3, <1>6
  <1>8. Outstanding(new) \in Nat /\ Outstanding(new) = SumFunctionOnSet(new, 1..n)
    BY <1>3, <1>4, OutstandingIsSum
  <1> HIDE DEF At
  <1>9. val \in [R -> Nat]
    <2> HIDE DEF R, s
    <2>1. QED
      BY <1>4, <1>7
  <1>10. SumFunctionOnSet(new, 1..n) = SumFunctionOnSet(val, R)
    <2>1. Lists(s, 1..n, R, new, val)
      <3> HIDE DEF s, R
      <3>1. \A i \in 1..n : s[i] \in R /\ new[i] = val[s[i]]
        BY <1>3, <1>6
      <3>2. \A y \in R : val[y] \in Int
        BY <1>9
      <3> HIDE DEF val
      <3>3. QED
        BY <1>3, <3>1, <3>2 DEF Lists
    <2>2. IsFiniteSet(1..n)
      <3>1. \A m \in Nat : IsFiniteSet(1..m)
        BY FS_Interval
      <3>2. n \in Nat
        BY <1>3
      <3> HIDE DEF n
      <3>3. QED
        BY <3>1, <3>2
    <2> HIDE DEF s, R, val
    <2>3. QED
      BY <2>1, <2>2, SumReindex
  <1>11. G \in SUBSET R /\ \A x \in Instalments : Gone(x) <=> x \in G
    OBVIOUS
  <1>12. SumFunctionOnSet(val, R) = SumFunctionOnSet(amount', R \ G)
    <2> HIDE DEF R, s
    <2>1. \A x \in R \ G : amount'[x] = val[x]
      BY <1>2, <1>3
    <2>2. \A x \in G : val[x] = 0
      OBVIOUS
    <2>3. G \in SUBSET R /\ R \cap G = G
      OBVIOUS
    <2> HIDE DEF val, G
    <2>4. Summable(val, R) /\ Summable(val, R \ G) /\ IsFiniteSet(G)
      BY <1>3, <1>9, <2>3, FS_Subset DEF Summable
    <2>5. SumFunctionOnSet(val, R) =
              SumFunctionOnSet(val, R \cap G) + SumFunctionOnSet(val, R \ G)
      BY <2>4, SumSplit
    <2>6. SumFunctionOnSet(val, G) = 0 * Cardinality(G) /\ Cardinality(G) \in Nat
      BY <2>2, <2>4, SumConst, FS_CardinalityType
    <2>7. SumFunctionOnSet(amount', R \ G) = SumFunctionOnSet(val, R \ G)
      BY <2>1, <2>4, SumSame
    <2>8. SumFunctionOnSet(val, R \ G) \in Int
      BY <2>4, SumInt
    <2>9. SumFunctionOnSet(val, G) = 0
      BY <2>6
    <2>10. SumFunctionOnSet(val, R) = 0 + SumFunctionOnSet(val, R \ G)
      BY <2>3, <2>5, <2>9
    <2>11. SumFunctionOnSet(val, R) = SumFunctionOnSet(val, R \ G)
      BY <2>8, <2>10
    <2>12. QED
      BY <2>7, <2>11
  <1>13. SumFunctionOnSet(amount', PendingOf(c) \ G) = Outstanding(Plan(c)) - paid
    <2> HIDE DEF val, G, s
    <2>1. QED
      BY <1>4, <1>8, <1>10, <1>12
  <1>14. /\ principal' \in [Credits -> Nat] /\ monthly' \in [Credits -> Nat \ {0}]
         /\ amount' \in [Instalments -> Nat \ {0}]
    <2>1. principal' \in [Credits -> Nat]
      BY <1>1, <1>2, <1>8 DEF DataTypes
    <2>2. NewMonthlyPayment(new) \in Nat \ {0}
      BY MonthlyStays
    <2>3. monthly' \in [Credits -> Nat \ {0}]
      BY <1>1, <1>2, <2>2 DEF DataTypes
    <2>4. \A x \in R : new[At(x)] \in Nat
      <3> HIDE DEF R, s
      <3>1. QED
        BY <1>4, <1>7
    <2>5. amount \in [Instalments -> Nat \ {0}]
      BY <1>1 DEF DataTypes
    <2>6. amount' \in [Instalments -> Nat \ {0}]
      <3> HIDE DEF R, s
      <3>1. QED
        BY <1>2, <2>4, <2>5
    <2>7. QED
      BY <2>1, <2>3, <2>6
  <1>15. PendingOf(c) \ G # {}
    <2> HIDE DEF R, s
    <2>1. s[k] \in R /\ At(s[k]) = k /\ new[k] > 0 /\ new[k] \in Nat
      BY <1>3, <1>4, <1>5, <1>6
    <2>2. s[k] \in R \ G
      BY <2>1
    <2>3. QED
      BY <2>2 DEF R
  <1>16. state' = [x \in Instalments |-> IF x \in G THEN "paid" ELSE state[x]]
    <2> HIDE DEF R, s
    <2>1. QED
      BY <1>2
  <1>17. \A x \in Instalments \ PendingOf(c) : amount'[x] = amount[x]
    BY <1>2
  <1>18. G \in SUBSET PendingOf(c)
    BY <1>11
  <1> HIDE DEF G, val
  <1>19. UnpaidOf(c)' = PendingOf(c) \ G
    <2>1. \A x \in InstalmentsOf(c) : x \in Instalments /\ (state[x] # "paid" <=> x \in PendingOf(c))
      BY <1>1, InstalmentFacts DEF UnpaidOf
    <2>2. \A x \in InstalmentsOf(c) : state'[x] # "paid" <=> x \in PendingOf(c) \ G
      BY <1>16, <2>1
    <2>3. PendingOf(c) \subseteq InstalmentsOf(c)
      BY <1>3
    <2>4. QED
      BY <2>2, <2>3 DEF UnpaidOf
  <1>20. Prepaid(p, c, paid, G, "active")
    <2>1. PendingOf(c) \ G # {} /\ status' = [status EXCEPT ![c] = "active"]
      BY <1>2, <1>15
    <2> HIDE DEF s, R
    <2>2. QED
      BY <1>13, <1>14, <1>16, <1>17, <1>18, <1>19, <2>1 DEF Prepaid
  <1>21. QED
    BY <1>20, PrepayStep

(* A prepayment pays off everything, or reduces the plan in either mode.   *)
LEMMA PayAheadKeeps ==
    ASSUME CreditsInv, NEW p \in Processes, PayAhead(p)
    PROVE  CreditsInv'
  <1> SUFFICES ASSUME NEW c, c = job[p].credit, NEW paid, paid = job[p].amount
               PROVE  CreditsInv'
    OBVIOUS
  <1> DEFINE a == Account[c]
             left == Outstanding(Plan(c)) - paid
             New == IF job[p].mode = "reduce_term" THEN ReduceTerm(Plan(c), paid)
                    ELSE ReducePayment(Plan(c), left)
  <1>1. /\ pc[p] = "prepay"
        /\ \/ /\ balance[a] >= paid
              /\ \/ left = 0
                 \/ job[p].mode = "reduce_term"
                 \/ (job[p].mode = "reduce_payment" /\ CanReducePayment(Plan(c), left))
              /\ IF left = 0 THEN PayOff(c) ELSE Reschedule(c, New)
              /\ balance' = [balance EXCEPT ![a] = @ - paid]
              /\ charged' = [charged EXCEPT ![c] = @ + paid]
              /\ UNCHANGED <<closed, blocked, net, penalty>>
              /\ End(p)
           \/ Abort(p)
    BY DEF PayAhead
  <1>2. CASE Abort(p)
    BY <1>2, AbortKeeps
  <1>3. CASE ~Abort(p)
    <2>1. /\ balance[a] >= paid /\ End(p)
          /\ balance' = [balance EXCEPT ![a] = @ - paid]
          /\ charged' = [charged EXCEPT ![c] = @ + paid]
          /\ closed' = closed /\ blocked' = blocked /\ net' = net /\ penalty' = penalty
      BY <1>1, <1>3
    <2>2. CASE left = 0
      <3>1. PayOff(c)
        BY <1>1, <1>3, <2>2
      <3>2. QED
        BY <1>1, <2>1, <2>2, <3>1, PayOffKeeps
    <2>3. CASE left # 0
      <3>1. Reschedule(c, New)
        BY <1>1, <1>3, <2>3
      <3>2. /\ c \in Credits /\ DataTypes /\ paid \in Nat /\ paid <= Outstanding(Plan(c))
        BY <1>1, PrepayFinds
      <3> DEFINE n == Len(PendingSeq(c))
      <3>3. n \in Nat /\ Plan(c) \in [1..n -> Nat \ {0}] /\ Outstanding(Plan(c)) \in Nat
        BY <3>2, PlanFacts
      <3>4. Reduced(New, n, left)
        <4> HIDE DEF n
        <4>1. CASE job[p].mode = "reduce_term"
          BY <2>3, <3>2, <3>3, <4>1, TermReduced
        <4>2. CASE job[p].mode # "reduce_term"
          <5>1. CanReducePayment(Plan(c), left) /\ left \in Nat
            BY <1>1, <1>3, <2>3, <3>2, <3>3, <4>2
          <5>2. QED
            BY <3>3, <4>2, <5>1, PaymentReduced
        <4>3. QED
          BY <4>1, <4>2
      <3> HIDE DEF New
      <3>5. QED
        BY <1>1, <2>1, <3>1, <3>4, RescheduleKeeps
    <2>4. QED
      BY <2>2, <2>3
  <1>4. QED
    BY <1>2, <1>3

LEMMA StatementKeeps ==
    ASSUME CreditsInv, NEW p \in Processes, Statement(p)
    PROVE  CreditsInv'
  <1>1. CASE LockUser(p)
    BY <1>1, LockUserKeeps
  <1>2. CASE LockAccount(p)
    BY <1>2, LockAccountKeeps
  <1>3. CASE Assess(p)
    BY <1>3, AssessKeeps
  <1>4. CASE IssueCredit(p)
    BY <1>4, IssueKeeps
  <1>5. CASE LockInstalment(p)
    BY <1>5, LockInstalmentKeeps
  <1>6. CASE LockCredit(p)
    BY <1>6, LockCreditKeeps
  <1>7. CASE LockPending(p)
    BY <1>7, LockPendingKeeps
  <1>8. CASE PayAhead(p)
    BY <1>8, PayAheadKeeps
  <1>9. CASE Charge(p)
    BY <1>9, ChargeKeeps
  <1>10. QED
    BY <1>1, <1>2, <1>3, <1>4, <1>5, <1>6, <1>7, <1>8, <1>9 DEF Statement

LEMMA StutterKeeps ==
    ASSUME CreditsInv, UNCHANGED vars
    PROVE  CreditsInv'
  <1>1. /\ UNCHANGED <<accountVars, creditVars>>
        /\ UNCHANGED <<pc, job, lock>> /\ UNCHANGED <<today, batch, faults>>
    BY DEF vars, processVars
  <1>2. OtherTypes'
    BY <1>1, OthersUnchanged DEF CreditsInv
  <1>3. QED
    BY <1>1, <1>2, IdleStep

(* Every step keeps the invariant.                                         *)
LEMMA CreditsNext == CreditsInv /\ [Next]_vars => CreditsInv'
  <1> SUFFICES ASSUME CreditsInv, [Next]_vars PROVE CreditsInv'
    OBVIOUS
  <1>1. ASSUME NEW p \in Requests, Submit(p) \/ Statement(p) \/ Fail(p)
        PROVE  CreditsInv'
    <2>1. p \in Processes
      BY DEF Processes
    <2>2. CASE Submit(p)
      BY <2>2, SubmitKeeps
    <2>3. CASE Statement(p)
      BY <2>1, <2>3, StatementKeeps
    <2>4. CASE Fail(p)
      BY <2>1, <2>4, AbortKeeps DEF Fail
    <2>5. QED
      BY <1>1, <2>2, <2>3, <2>4
  <1>2. CASE SchedulerStep
    <2>1. Scheduler \in Processes
      BY DEF Processes
    <2>2. CASE FindDuePayments
      BY <2>2, FindKeeps
    <2>3. CASE ProcessNext
      BY <2>3, ProcessNextKeeps
    <2>4. CASE Statement(Scheduler)
      BY <2>1, <2>4, StatementKeeps
    <2>5. QED
      BY <1>2, <2>2, <2>3, <2>4 DEF SchedulerStep
  <1>3. CASE SchedulerFault
    BY <1>3, FaultKeeps
  <1>4. ASSUME NEW a \in Accounts,
               \/ \E n \in Amounts : Deposit(a, n) \/ Withdraw(a, n)
               \/ SetAccountBlocked(a) \/ CloseAccount(a)
        PROVE  CreditsInv'
    BY <1>4, DepositKeeps, WithdrawKeeps, BlockKeeps, CloseKeeps
  <1>5. CASE NextDay
    BY <1>5, NextDayKeeps
  <1>6. CASE UNCHANGED vars
    BY <1>6, StutterKeeps
  <1>7. QED
    BY <1>1, <1>2, <1>3, <1>4, <1>5, <1>6 DEF Next

(* The invariant holds in every behaviour.                                 *)
LEMMA CreditsInvariant == Spec => []CreditsInv
  <1>1. Init => CreditsInv
    BY CreditsStart
  <1>2. CreditsInv /\ [Next]_vars => CreditsInv'
    BY CreditsNext
  <1>3. QED
    BY <1>1, <1>2, PTL DEF Spec

----------------------------------------------------------------------------
(* The theorems.                                                           *)

(* Every variable has its type; in particular no balance, no amount and no *)
(* monthly payment ever leaves its range, whatever the plan is reduced to. *)
THEOREM CreditsTyping == Spec => []TypeOK
  <1>1. CreditsInv => TypeOK
    BY InvImplies
  <1>2. QED
    BY <1>1, CreditsInvariant, PTL

(* However many applications of a user are assessed at once, he never      *)
(* holds more unpaid credits than the policy allows: the advisory lock     *)
(* lasts from the check to the insert (lockUserCreditIssue,                *)
(* IssueWithTransaction).                                                  *)
THEOREM CreditsStayLimited == Spec => []ActiveCreditsLimited
  <1>1. CreditsInv => ActiveCreditsLimited
    BY InvImplies
  <1>2. QED
    BY <1>1, CreditsInvariant, PTL

(* Whatever prepayments, charges and penalties run into each other, what a *)
(* credit has been charged and what is still unpaid make up its agreed     *)
(* schedule and the penalties it paid, to the cent (Prepay,                *)
(* ProcessPayment).                                                        *)
THEOREM DebtIsAccountedFor == Spec => []DebtAccountedFor
  <1>1. CreditsInv => DebtAccountedFor
    BY InvImplies
  <1>2. QED
    BY <1>1, CreditsInvariant, PTL

(* The balance of every account is what its transactions add up to: no     *)
(* update of Prepay, ProcessPayment or IssueWithTransaction overwrites     *)
(* another.                                                                *)
THEOREM BalancesMatch == Spec => []BalanceMatchesTransactions
  <1>1. CreditsInv => BalanceMatchesTransactions
    BY InvImplies
  <1>2. QED
    BY <1>1, CreditsInvariant, PTL

(* A credit is closed when and only when all of its instalments are paid,  *)
(* by a prepayment or by the scheduler (closeCreditAfterPrepayment,        *)
(* closeCreditIfPaid).                                                     *)
THEOREM ClosedIsPaid == Spec => []ClosedMeansPaid
  <1>1. CreditsInv => ClosedMeansPaid
    BY InvImplies
  <1>2. QED
    BY <1>1, CreditsInvariant, PTL

(* While an instalment is overdue its credit is: a prepayment cannot make  *)
(* the credit active again behind the scheduler (markPaymentOverdue,       *)
(* updateCreditPaymentPlan).                                               *)
THEOREM OverdueIsShown == Spec => []OverdueShowsOnCredit
  <1>1. CreditsInv => OverdueShowsOnCredit
    BY InvImplies
  <1>2. QED
    BY <1>1, CreditsInvariant, PTL

(* Closing an account and issuing a credit to it cannot cross: a closed    *)
(* account has no credit left to charge (CloseAccount, lockCreditAccount). *)
THEOREM ClosedOwesNothing == Spec => []ClosedAccountOwesNothing
  <1>1. CreditsInv => ClosedAccountOwesNothing
    BY InvImplies
  <1>2. QED
    BY <1>1, CreditsInvariant, PTL

(* Whichever transactions wait for each other, one of them is a prepayment *)
(* about to lock the instalments of its credit: PostgreSQL has no other    *)
(* circle to break (findPendingCreditPaymentsForUpdate).                   *)
THEOREM DeadlocksNeedPrepayment == Spec => []OnlyPrepaymentsDeadlock
  <1>1. CreditsInv => OnlyPrepaymentsDeadlock
    BY InvImplies
  <1>2. QED
    BY <1>1, CreditsInvariant, PTL
============================================================================
