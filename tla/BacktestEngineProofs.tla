------------------------ MODULE BacktestEngineProofs ------------------------
(***************************************************************************)
(* The engine and its ledger for any market, orders, plans, corporate      *)
(* actions, costs and initial cash.  First what the operators of the       *)
(* ledger do: sums, lots, the reduction of lots and the rounding of        *)
(* splits, by induction over the positions of a sequence; then what each   *)
(* kind of event does to the money and the shares; then the inductive      *)
(* invariant EngineInv with one lemma per action; then the properties; and *)
(* last the report, the drawdown of one pass over a curve of any length    *)
(* against the worst fall between any two of its points.                   *)
(***************************************************************************)
EXTENDS BacktestEngine, FiniteSetTheorems, WellFoundedInduction, TLAPS

-----------------------------------------------------------------------------
(* Recursion over the positions of a sequence                              *)

\* What holds of 0, and of k when it holds of k - 1, holds up to n.
LEMMA Climb ==
    ASSUME NEW n \in Nat, NEW T, 0 \in T, \A k \in 1..n : k - 1 \in T => k \in T
    PROVE  0..n \subseteq T
  <1> SUFFICES ASSUME NEW b \in 0..n, b \notin T PROVE FALSE
    OBVIOUS
  <1> DEFINE Bad == {k \in 0..n : k \notin T}
             Below(k) == 0..k
             Family == {Below(k) : k \in Bad}
  <1>1. \A k \in 0..n : Below(k) \subseteq 0..n /\ \A j \in 0..n : j < k => Below(j) # Below(k) /\ Below(j) \subseteq Below(k)
    <2>1. ASSUME NEW k \in 0..n, NEW j \in 0..n, j < k PROVE k \in Below(k) /\ k \notin Below(j) /\ Below(j) \subseteq Below(k)
      BY <2>1
    <2>2. \A k \in 0..n : Below(k) \subseteq 0..n
      OBVIOUS
    <2> HIDE DEF Below
    <2> QED
      BY <2>1, <2>2
  <1>2. IsFiniteSet(0..n)
    BY FS_Interval
  <1> HIDE DEF Below
  <1>3. IsWellFoundedOn(StrictSubsetOrdering(0..n), FiniteSubsetsOf(0..n))
    BY FS_StrictSubsetOrderingWellFounded
  <1>4. Family \subseteq FiniteSubsetsOf(0..n) /\ Family # {}
    BY <1>1, <1>2, FS_Subset DEF FiniteSubsetsOf
  <1>5. PICK S \in Family : \A U \in Family : <<U, S>> \notin StrictSubsetOrdering(0..n)
    BY <1>3, <1>4, WFMin
  <1>6. PICK k \in Bad : S = Below(k)
    OBVIOUS
  <1>7. k # 0 /\ k - 1 \in 0..n /\ k \in 1..n /\ k - 1 < k
    OBVIOUS
  <1>8. k - 1 \in Bad
    BY <1>7
  <1>9. <<Below(k - 1), Below(k)>> \in StrictSubsetOrdering(0..n)
    BY <1>1, <1>7 DEF StrictSubsetOrdering
  <1> QED
    BY <1>5, <1>6, <1>8, <1>9

\* f goes from base to element n of a sequence by a step from each to the next.
IsClimb(f, n, A, base, step) ==
    /\ f \in [0..n -> A]
    /\ f[0] = base
    /\ \A k \in 1..n : f[k] = step[k][f[k - 1]]

\* What is defined by such steps exists.
LEMMA RecursionExists ==
    ASSUME NEW n \in Nat, NEW A, NEW base \in A, NEW step \in [1..n -> [A -> A]]
    PROVE  \E f : IsClimb(f, n, A, base, step)
  <1> DEFINE Upto(m, f) == IsClimb(f, m, A, base, step)
             T == {m \in 0..n : \E f : Upto(m, f)}
  <1> USE DEF IsClimb
  <1>1. 0 \in T
    <2>1. Upto(0, [k \in 0..0 |-> base])
      OBVIOUS
    <2> HIDE DEF Upto
    <2> QED
      BY <2>1
  <1>2. ASSUME NEW m \in 1..n, m - 1 \in T PROVE m \in T
    <2>1. PICK f : Upto(m - 1, f)
      BY <1>2
    <2> DEFINE next == step[m][f[m - 1]]
               g == [k \in 0..m |-> IF k = m THEN next ELSE f[k]]
    <2>2. m - 1 \in 0..(m - 1) /\ 0 \in 0..(m - 1) /\ m \in 0..m
      OBVIOUS
    <2>3. next \in A
      BY <2>1, <2>2
    <2> HIDE DEF next
    <2>4. g \in [0..m -> A]
      <3>1. \A k \in 0..m : k # m => k \in 0..(m - 1)
        OBVIOUS
      <3> QED
        BY <2>1, <2>3, <3>1
    <2>5. g[0] = base /\ g[m] = next /\ \A k \in 0..(m - 1) : g[k] = f[k]
      <3>1. \A k \in 0..(m - 1) : k \in 0..m /\ k # m
        OBVIOUS
      <3> QED
        BY <2>1, <2>2, <3>1
    <2> HIDE DEF g
    <2>6. ASSUME NEW k \in 1..m PROVE g[k] = step[k][g[k - 1]]
      <3>1. CASE k = m
        BY <2>2, <2>5, <3>1 DEF next
      <3>2. CASE k # m
        <4>1. k \in 1..(m - 1) /\ k \in 0..(m - 1) /\ k - 1 \in 0..(m - 1)
          BY <3>2
        <4> QED
          BY <2>1, <2>5, <4>1
      <3> QED
        BY <3>1, <3>2
    <2>7. Upto(m, g)
      BY <2>4, <2>5, <2>6
    <2> HIDE DEF Upto
    <2> QED
      BY <2>7
  <1>3. n \in T
    <2> HIDE DEF T
    <2>1. 0..n \subseteq T
      BY <1>1, <1>2, Climb
    <2>2. n \in 0..n
      OBVIOUS
    <2> QED
      BY <2>1, <2>2
  <1>4. PICK f : Upto(n, f)
    BY <1>3
  <1> QED
    BY <1>4

LEMMA Elements ==
    ASSUME NEW S, NEW seq \in Seq(S)
    PROVE  Len(seq) \in Nat /\ DOMAIN seq = 1..Len(seq) /\ \A k \in 1..Len(seq) : seq[k] \in S
  OBVIOUS

-----------------------------------------------------------------------------
(* Sums                                                                    *)

ArePartial(f, seq) ==
    f = [k \in 0..Len(seq) |-> IF k = 0 THEN 0 ELSE f[k - 1] + seq[k]]

\* Each partial sum is the one before and the next number.
LEMMA PartialSumsAdd ==
    ASSUME NEW seq \in Seq(Int)
    PROVE  /\ PartialSums(seq) \in [0..Len(seq) -> Int]
           /\ PartialSums(seq)[0] = 0
           /\ \A k \in 1..Len(seq) : PartialSums(seq)[k] = PartialSums(seq)[k - 1] + seq[k]
  <1> DEFINE n == Len(seq)
             step == [k \in 1..n |-> [a \in Int |-> a + seq[k]]]
             sums == CHOOSE f : ArePartial(f, seq)
  <1>1. n \in Nat /\ \A k \in 1..n : seq[k] \in Int
    OBVIOUS
  <1>2. step \in [1..n -> [Int -> Int]]
    BY <1>1
  <1>3. \A k \in 1..n, a \in Int : step[k][a] = a + seq[k]
    OBVIOUS
  <1>4. PartialSums(seq) = sums
    BY DEF PartialSums, ArePartial
  <1>5. \A k \in 0..n : k # 0 => k \in 1..n /\ k - 1 \in 0..n
    BY <1>1
  <1>6. \E f : ArePartial(f, seq)
    <2> HIDE DEF step, n
    <2>1. 0 \in Int
      OBVIOUS
    <2>2. PICK f : IsClimb(f, n, Int, 0, step)
      BY <1>1, <1>2, <2>1, RecursionExists
    <2>3. f = [k \in 0..n |-> IF k = 0 THEN 0 ELSE f[k - 1] + seq[k]]
      BY <1>3, <1>5, <2>2 DEF IsClimb
    <2> QED
      BY <2>3 DEF ArePartial, n
  <1>7. ArePartial(sums, seq)
    BY <1>6
  <1> HIDE DEF sums, step
  <1>8. /\ DOMAIN sums = 0..n /\ sums[0] = 0
        /\ sums = [k \in 0..n |-> sums[k]]
        /\ \A k \in 1..n : sums[k] = sums[k - 1] + seq[k]
    BY <1>1, <1>7 DEF ArePartial
  <1> DEFINE T == {k \in 0..n : sums[k] \in Int}
  <1>9. 0..n \subseteq T
    <2>1. 0 \in T
      BY <1>1, <1>8
    <2>2. ASSUME NEW k \in 1..n, k - 1 \in T PROVE k \in T
      <3>1. sums[k - 1] \in Int /\ seq[k] \in Int /\ sums[k] = sums[k - 1] + seq[k]
        BY <1>1, <1>8, <2>2
      <3>2. k \in 0..n
        BY <1>1
      <3> QED
        BY <3>1, <3>2
    <2> HIDE DEF T, n
    <2> QED
      BY <1>1, <2>1, <2>2, Climb
  <1>10. sums \in [0..n -> Int]
    BY <1>8, <1>9
  <1> QED
    BY <1>4, <1>8, <1>10

\* Sequences that agree up to k have the same partial sums up to k.
LEMMA PartialSumsAgree ==
    ASSUME NEW s \in Seq(Int), NEW t \in Seq(Int), NEW m \in Nat, m <= Len(s), m <= Len(t),
           \A k \in 1..m : s[k] = t[k]
    PROVE  PartialSums(s)[m] = PartialSums(t)[m]
  <1> DEFINE p == PartialSums(s)
             q == PartialSums(t)
             T == {k \in 0..m : p[k] = q[k]}
  <1>1. p[0] = q[0] /\ \A k \in 1..m : p[k] = p[k - 1] + s[k] /\ q[k] = q[k - 1] + t[k]
    <2>1. \A k \in 1..m : k \in 1..Len(s) /\ k \in 1..Len(t)
      OBVIOUS
    <2> QED
      BY <2>1, PartialSumsAdd
  <1> HIDE DEF p, q
  <1>2. 0..m \subseteq T
    <2>1. 0 \in T /\ \A k \in 1..m : k - 1 \in T => k \in T
      BY <1>1
    <2> HIDE DEF T
    <2> QED
      BY <2>1, Climb
  <1>3. m \in 0..m
    OBVIOUS
  <1> QED
    BY <1>2, <1>3 DEF p, q

LEMMA SumIsInteger == ASSUME NEW s \in Seq(Int) PROVE SumOf(s) \in Int
  <1>1. Len(s) \in 0..Len(s)
    OBVIOUS
  <1> QED
    BY <1>1, PartialSumsAdd DEF SumOf

LEMMA SumOfNothing == SumOf(<<>>) = 0
  <1>1. <<>> \in Seq(Int) /\ Len(<<>>) = 0
    OBVIOUS
  <1> QED
    BY <1>1, PartialSumsAdd DEF SumOf

LEMMA SumOfAppend ==
    ASSUME NEW s \in Seq(Int), NEW x \in Int
    PROVE  SumOf(Append(s, x)) = SumOf(s) + x
  <1> DEFINE t == Append(s, x)
             n == Len(s)
  <1>1. /\ t \in Seq(Int) /\ n \in Nat /\ Len(t) = n + 1 /\ t[n + 1] = x
        /\ \A k \in 1..n : s[k] = t[k]
    OBVIOUS
  <1> HIDE DEF t
  <1>2. PartialSums(t)[n] = PartialSums(s)[n]
    <2>1. n <= Len(s) /\ n <= Len(t)
      BY <1>1
    <2> QED
      BY <1>1, <2>1, PartialSumsAgree
  <1>3. PartialSums(t)[n + 1] = PartialSums(t)[n] + x
    <2>1. n + 1 \in 1..Len(t) /\ (n + 1) - 1 = n
      BY <1>1
    <2> QED
      BY <1>1, <2>1, PartialSumsAdd
  <1> QED
    BY <1>1, <1>2, <1>3 DEF SumOf, t

\* A sum of numbers that are not negative is at least each of them.
LEMMA SumOfNaturals ==
    ASSUME NEW s \in Seq(Nat)
    PROVE  SumOf(s) \in Nat /\ \A k \in 1..Len(s) : s[k] <= SumOf(s)
  <1> DEFINE n == Len(s)
             p == PartialSums(s)
             T == {k \in 0..n : p[k] \in Nat /\ \A j \in 1..k : s[j] <= p[k]}
  <1>1. n \in Nat /\ s \in Seq(Int) /\ \A k \in 1..n : s[k] \in Nat
    OBVIOUS
  <1>2. p[0] = 0 /\ \A k \in 1..n : p[k] = p[k - 1] + s[k]
    BY <1>1, PartialSumsAdd
  <1> HIDE DEF p
  <1>3. 0..n \subseteq T
    <2>1. 0 \in T
      BY <1>1, <1>2
    <2>2. ASSUME NEW k \in 1..n, k - 1 \in T PROVE k \in T
      <3>1. p[k] = p[k - 1] + s[k] /\ p[k - 1] \in Nat /\ s[k] \in Nat
        BY <1>1, <1>2, <2>2
      <3>2. ASSUME NEW j \in 1..k PROVE s[j] <= p[k]
        <4>1. CASE j = k
          BY <3>1, <4>1
        <4>2. CASE j # k
          <5>1. j \in 1..(k - 1) /\ j \in 1..n
            BY <4>2
          <5>2. s[j] <= p[k - 1] /\ s[j] \in Nat
            BY <1>1, <2>2, <5>1
          <5> QED
            BY <3>1, <5>2
        <4> QED
          BY <4>1, <4>2
      <3> QED
        BY <3>1, <3>2
    <2> HIDE DEF T, n
    <2> QED
      BY <1>1, <2>1, <2>2, Climb
  <1>4. n \in T
    BY <1>1, <1>3
  <1> QED
    BY <1>4 DEF p, SumOf

\* A change of one number changes the sum by as much.
LEMMA SumOfChange ==
    ASSUME NEW s \in Seq(Int), NEW t \in Seq(Int), Len(s) = Len(t), NEW c \in 1..Len(s),
           \A k \in 1..Len(s) : k # c => s[k] = t[k]
    PROVE  SumOf(t) = SumOf(s) - s[c] + t[c]
  <1> DEFINE n == Len(s)
             p == PartialSums(s)
             q == PartialSums(t)
             T == {k \in 0..n : q[k] = IF k < c THEN p[k] ELSE p[k] - s[c] + t[c]}
  <1>1. n \in Nat /\ c \in 1..n /\ \A k \in 1..n : s[k] \in Int /\ t[k] \in Int
    OBVIOUS
  <1>2. /\ p[0] = 0 /\ q[0] = 0
        /\ \A k \in 1..n : p[k] = p[k - 1] + s[k] /\ q[k] = q[k - 1] + t[k]
        /\ \A k \in 0..n : p[k] \in Int /\ q[k] \in Int
    BY <1>1, PartialSumsAdd
  <1> HIDE DEF p, q
  <1>3. 0..n \subseteq T
    <2>1. 0 \in T
      BY <1>1, <1>2
    <2>2. ASSUME NEW k \in 1..n, k - 1 \in T PROVE k \in T
      <3>1. /\ p[k] = p[k - 1] + s[k] /\ q[k] = q[k - 1] + t[k]
            /\ k - 1 \in 0..n /\ p[k - 1] \in Int /\ s[k] \in Int /\ t[k] \in Int
            /\ s[c] \in Int /\ t[c] \in Int
        <4>1. k \in Int /\ c \in Int /\ k - 1 \in 0..n
          BY <1>1
        <4>2. s[k] \in Int /\ t[k] \in Int /\ s[c] \in Int /\ t[c] \in Int
          BY <1>1
        <4> QED
          BY <1>2, <4>1, <4>2
      <3>2. q[k - 1] = IF k - 1 < c THEN p[k - 1] ELSE p[k - 1] - s[c] + t[c]
        BY <2>2
      <3>3. k \in Int /\ c \in Int /\ k \in 0..n
        BY <1>1
      <3>4. q[k] = IF k < c THEN p[k] ELSE p[k] - s[c] + t[c]
        <4>1. CASE k < c
          <5>1. s[k] = t[k]
            BY <3>3, <4>1
          <5> QED
            BY ONLY <3>1, <3>2, <3>3, <4>1, <5>1
        <4>2. CASE k = c
          BY ONLY <3>1, <3>2, <3>3, <4>2
        <4>3. CASE k > c
          <5>1. s[k] = t[k]
            <6>1. k # c /\ k \in 1..Len(s)
              BY <3>3, <4>3
            <6> QED
              BY <6>1
          <5>2. q[k - 1] = p[k - 1] - s[c] + t[c]
            <6>1. ~(k - 1 < c)
              BY ONLY <3>3, <4>3
            <6> QED
              BY ONLY <3>2, <6>1
          <5>3. q[k] = p[k] - s[c] + t[c]
            BY ONLY <3>1, <5>1, <5>2
          <5>4. ~(k < c)
            BY ONLY <3>3, <4>3
          <5> QED
            BY ONLY <5>3, <5>4
        <4>4. k < c \/ k = c \/ k > c
          BY <3>3
        <4> QED
          BY ONLY <4>1, <4>2, <4>3, <4>4
      <3> QED
        BY <3>3, <3>4
    <2> HIDE DEF T, n
    <2> QED
      BY <1>1, <2>1, <2>2, Climb
  <1>4. n \in T /\ ~(n < c)
    BY <1>1, <1>3
  <1> QED
    BY <1>4 DEF p, q, SumOf

\* Sums of two sequences are added number by number.
LEMMA SumOfSums ==
    ASSUME NEW s \in Seq(Int), NEW t \in Seq(Int), NEW u \in Seq(Int),
           Len(s) = Len(t), Len(s) = Len(u), \A k \in 1..Len(s) : u[k] = s[k] + t[k]
    PROVE  SumOf(u) = SumOf(s) + SumOf(t)
  <1> DEFINE n == Len(s)
             p == PartialSums(s)
             q == PartialSums(t)
             r == PartialSums(u)
             T == {k \in 0..n : r[k] = p[k] + q[k]}
  <1>1. n \in Nat /\ \A k \in 1..n : s[k] \in Int /\ t[k] \in Int /\ u[k] = s[k] + t[k]
    <2>1. \A k \in 1..n : k \in 1..Len(t)
      OBVIOUS
    <2>2. n \in Nat /\ \A k \in 1..n : s[k] \in Int
      OBVIOUS
    <2>3. \A k \in 1..Len(t) : t[k] \in Int
      BY Elements
    <2> QED
      BY <2>1, <2>2, <2>3
  <1>2. /\ p[0] = 0 /\ q[0] = 0 /\ r[0] = 0
        /\ \A k \in 1..n : p[k] = p[k - 1] + s[k] /\ q[k] = q[k - 1] + t[k] /\ r[k] = r[k - 1] + u[k]
        /\ \A k \in 0..n : p[k] \in Int /\ q[k] \in Int
    BY <1>1, PartialSumsAdd
  <1> HIDE DEF p, q, r
  <1>3. 0..n \subseteq T
    <2>1. 0 \in T
      BY <1>1, <1>2
    <2>2. ASSUME NEW k \in 1..n, k - 1 \in T PROVE k \in T
      <3>1. /\ p[k] = p[k - 1] + s[k] /\ q[k] = q[k - 1] + t[k] /\ r[k] = r[k - 1] + u[k]
            /\ k - 1 \in 0..n /\ p[k - 1] \in Int /\ q[k - 1] \in Int /\ s[k] \in Int /\ t[k] \in Int
            /\ u[k] = s[k] + t[k] /\ r[k - 1] = p[k - 1] + q[k - 1]
        BY <1>1, <1>2, <2>2
      <3>2. r[k] = p[k] + q[k]
        <4>1. /\ p[k - 1] \in Int /\ q[k - 1] \in Int /\ s[k] \in Int /\ t[k] \in Int
              /\ p[k] = p[k - 1] + s[k] /\ q[k] = q[k - 1] + t[k]
              /\ r[k] = (p[k - 1] + q[k - 1]) + (s[k] + t[k])
          BY <3>1
        <4> QED
          BY ONLY <4>1
      <3>3. k \in 0..n
        BY <1>1
      <3> QED
        BY <3>2, <3>3
    <2> HIDE DEF T, n
    <2> QED
      BY <1>1, <2>1, <2>2, Climb
  <1>4. n \in T
    BY <1>1, <1>3
  <1> QED
    BY <1>4 DEF p, q, r, SumOf

-----------------------------------------------------------------------------
(* Whole numbers                                                           *)

\* A share of something is at most the whole.
LEMMA ShareIsPart ==
    ASSUME NEW whole \in Nat, NEW den \in Nat \ {0}, NEW num \in 0..den
    PROVE  (whole * num) \div den \in 0..whole
  <1> DEFINE d == (whole * num) \div den
  <1>1. whole * num \in Nat /\ whole * num <= whole * den
    <2>1. whole * den = whole * num + whole * (den - num) /\ whole * (den - num) >= 0 /\ whole * num >= 0
      OBVIOUS
    <2> QED
      BY <2>1
  <1>2. d \in Int /\ d * den <= whole * num /\ whole * num < d * den + den
    OBVIOUS
  <1>3. d >= 0
    <2>1. CASE d < 0
      <3>1. d * den + den <= 0
        BY <1>2, <2>1
      <3> QED
        BY <1>1, <1>2, <3>1
    <2> QED
      BY <1>2, <2>1
  <1>4. d <= whole
    <2>1. CASE d > whole
      <3>1. d * den >= whole * den + den
        BY <1>2, <2>1
      <3> QED
        BY <1>1, <1>2, <3>1
    <2> QED
      BY <1>2, <2>1
  <1> QED
    BY <1>2, <1>3, <1>4

LEMMA IsSequence ==
    ASSUME NEW n \in Nat, NEW S, NEW f \in [1..n -> S]
    PROVE  f \in Seq(S) /\ Len(f) = n /\ DOMAIN f = 1..n
  OBVIOUS

LEMMA SumGrows ==
    ASSUME NEW s \in Seq(Int), NEW t \in Seq(Int), Len(t) = Len(s) + 1,
           \A k \in 1..Len(s) : t[k] = s[k]
    PROVE  SumOf(t) = SumOf(s) + t[Len(s) + 1]
  <1>1. Len(s) \in Nat /\ t[Len(s) + 1] \in Int
    BY Elements
  <1>2. t = Append(s, t[Len(s) + 1])
    BY <1>1
  <1> QED
    BY <1>1, <1>2, SumOfAppend

-----------------------------------------------------------------------------
(* Lots                                                                    *)

Lots == [inst : Instruments, day : 1..Days, qty : Nat \ {0}, cost : Nat]

LotCosts(lots) == [n \in DOMAIN lots |-> lots[n].cost]

LotShares(lots, i) == [n \in DOMAIN lots |-> SharesOf(lots[n], i)]

LEMMA LotFields ==
    ASSUME NEW lot \in Lots
    PROVE  /\ lot.inst \in Instruments /\ lot.day \in 1..Days
           /\ lot.qty \in Nat \ {0} /\ lot.cost \in Nat
           /\ \A i : SharesOf(lot, i) \in Nat
  BY DEF Lots, SharesOf

LEMMA CostsAndShares ==
    ASSUME NEW lots \in Seq(Lots), NEW i
    PROVE  /\ LotCosts(lots) \in Seq(Nat) /\ LotCosts(lots) \in Seq(Int) /\ Len(LotCosts(lots)) = Len(lots)
           /\ \A k \in 1..Len(lots) : LotCosts(lots)[k] = lots[k].cost
           /\ LotShares(lots, i) \in Seq(Nat) /\ LotShares(lots, i) \in Seq(Int) /\ Len(LotShares(lots, i)) = Len(lots)
           /\ \A k \in 1..Len(lots) : LotShares(lots, i)[k] = SharesOf(lots[k], i)
           /\ SumOf(LotCosts(lots)) \in Nat /\ SumOf(LotShares(lots, i)) \in Nat
  <1> DEFINE n == Len(lots)
             c == LotCosts(lots)
             h == LotShares(lots, i)
  <1>1. n \in Nat /\ DOMAIN lots = 1..n /\ \A k \in 1..n : lots[k] \in Lots
    BY Elements
  <1> HIDE DEF n
  <1>2. /\ c \in [1..n -> Nat] /\ \A k \in 1..n : c[k] = lots[k].cost
        /\ h \in [1..n -> Nat] /\ \A k \in 1..n : h[k] = SharesOf(lots[k], i)
    BY <1>1, LotFields DEF LotCosts, LotShares
  <1>3. c \in [1..n -> Int] /\ h \in [1..n -> Int]
    BY <1>2
  <1> HIDE DEF c, h
  <1>4. c \in Seq(Nat) /\ c \in Seq(Int) /\ Len(c) = n /\ h \in Seq(Nat) /\ h \in Seq(Int) /\ Len(h) = n
    BY <1>1, <1>2, <1>3, IsSequence
  <1>5. SumOf(c) \in Nat /\ SumOf(h) \in Nat
    BY <1>4, SumOfNaturals
  <1> QED
    BY <1>2, <1>4, <1>5 DEF c, h, n

LEMMA BookCostIsSum == ASSUME NEW l PROVE BookCost(l) = SumOf(LotCosts(l.lots))
  BY DEF BookCost, Total, LotCosts

LEMMA SharesAreSum ==
    ASSUME NEW lots, NEW i, NEW l
    PROVE  /\ SharesIn(lots, i) = SumOf(LotShares(lots, i))
           /\ PositionQuantity(l, i) = SumOf(LotShares(l.lots, i))
  BY DEF PositionQuantity, SharesIn, Total, LotShares

\* One lot more.
LEMMA LotAppended ==
    ASSUME NEW lots \in Seq(Lots), NEW lot \in Lots, NEW i
    PROVE  /\ Append(lots, lot) \in Seq(Lots)
           /\ SumOf(LotCosts(Append(lots, lot))) = SumOf(LotCosts(lots)) + lot.cost
           /\ SumOf(LotShares(Append(lots, lot), i)) = SumOf(LotShares(lots, i)) + SharesOf(lot, i)
  <1> DEFINE more == Append(lots, lot)
             n == Len(lots)
  <1>1. /\ more \in Seq(Lots) /\ n \in Nat /\ Len(more) = n + 1
        /\ more[n + 1] = lot /\ \A k \in 1..n : more[k] = lots[k] /\ k \in 1..(n + 1)
    OBVIOUS
  <1> HIDE DEF more
  <1>2. /\ LotCosts(more) \in Seq(Int) /\ Len(LotCosts(more)) = Len(LotCosts(lots)) + 1
        /\ LotCosts(lots) \in Seq(Int) /\ Len(LotCosts(lots)) = n
        /\ LotShares(more, i) \in Seq(Int) /\ Len(LotShares(more, i)) = Len(LotShares(lots, i)) + 1
        /\ LotShares(lots, i) \in Seq(Int) /\ Len(LotShares(lots, i)) = n
    BY <1>1, CostsAndShares
  <1>3. n + 1 \in 1..Len(more)
    BY <1>1
  <1>4. \A k \in 1..n : LotCosts(more)[k] = LotCosts(lots)[k] /\ LotShares(more, i)[k] = LotShares(lots, i)[k]
    <2>1. \A k \in 1..Len(more) : LotCosts(more)[k] = more[k].cost /\ LotShares(more, i)[k] = SharesOf(more[k], i)
      BY <1>1, CostsAndShares
    <2>2. \A k \in 1..n : LotCosts(lots)[k] = lots[k].cost /\ LotShares(lots, i)[k] = SharesOf(lots[k], i)
      BY CostsAndShares
    <2> QED
      BY <1>1, <2>1, <2>2
  <1>5. LotCosts(more)[n + 1] = lot.cost /\ LotShares(more, i)[n + 1] = SharesOf(lot, i)
    BY <1>1, <1>3, CostsAndShares
  <1>6. SumOf(LotCosts(more)) = SumOf(LotCosts(lots)) + LotCosts(more)[n + 1]
    BY <1>2, <1>4, SumGrows
  <1>7. SumOf(LotShares(more, i)) = SumOf(LotShares(lots, i)) + LotShares(more, i)[n + 1]
    BY <1>2, <1>4, SumGrows
  <1> QED
    BY <1>1, <1>5, <1>6, <1>7 DEF more

LEMMA NoLots ==
    /\ <<>> \in Seq(Lots) /\ SumOf(LotCosts(<<>>)) = 0
    /\ \A i : SumOf(LotShares(<<>>, i)) = 0
  <1>1. LotCosts(<<>>) = <<>> /\ \A i : LotShares(<<>>, i) = <<>>
    BY DEF LotCosts, LotShares
  <1> QED
    BY <1>1, SumOfNothing

-----------------------------------------------------------------------------
(* Taking shares out of lots                                               *)

Taken == [left : Nat, removed : Nat, lots : Seq(Lots)]

\* Looking at one lot moves shares and cost from the lot to what is taken or
\* to what remains: none is lost, of no instrument.
LEMMA TakeKeeps ==
    ASSUME NEW acc \in Taken, NEW lot \in Lots, NEW inst, NEW next, next = Take(acc, lot, inst)
    PROVE  /\ next \in Taken
           /\ next.left <= acc.left
           /\ SumOf(LotCosts(next.lots)) + next.removed = SumOf(LotCosts(acc.lots)) + acc.removed + lot.cost
           /\ \A i : SumOf(LotShares(next.lots, i))
                       = SumOf(LotShares(acc.lots, i)) + SharesOf(lot, i)
                         - (IF i = inst THEN acc.left - next.left ELSE 0)
  <1> DEFINE n == IF lot.qty <= acc.left THEN lot.qty ELSE acc.left
             c == RemovedCost(lot, n)
             rest == Lot(inst, lot.day, lot.qty - n, lot.cost - c)
  <1>1. /\ acc.left \in Nat /\ acc.removed \in Nat /\ acc.lots \in Seq(Lots)
        /\ lot.qty \in Nat \ {0} /\ lot.cost \in Nat /\ lot.inst \in Instruments /\ lot.day \in 1..Days
    BY DEF Taken, Lots
  <1>2. /\ SumOf(LotCosts(acc.lots)) \in Nat
        /\ \A i : SumOf(LotShares(acc.lots, i)) \in Nat /\ SharesOf(lot, i) \in Nat
    BY <1>1, CostsAndShares, LotFields
  <1>3. CASE lot.inst # inst \/ acc.left = 0
    <2>1. next = [acc EXCEPT !.lots = Append(@, lot)]
      BY <1>3 DEF Take
    <2>2. next.left = acc.left /\ next.removed = acc.removed /\ next.lots = Append(acc.lots, lot)
      BY <2>1 DEF Taken
    <2>3. next \in Taken
      BY <1>1, <2>1, LotAppended DEF Taken
    <2>4. SumOf(LotCosts(next.lots)) + next.removed = SumOf(LotCosts(acc.lots)) + acc.removed + lot.cost
      <3>1. SumOf(LotCosts(next.lots)) = SumOf(LotCosts(acc.lots)) + lot.cost
        BY <1>1, <2>2, LotAppended
      <3> QED
        BY <1>1, <1>2, <2>2, <3>1
    <2>5. ASSUME NEW i
          PROVE  SumOf(LotShares(next.lots, i)) = SumOf(LotShares(acc.lots, i)) + SharesOf(lot, i)
                    - (IF i = inst THEN acc.left - next.left ELSE 0)
      <3>1. SumOf(LotShares(next.lots, i)) = SumOf(LotShares(acc.lots, i)) + SharesOf(lot, i)
        BY <1>1, <2>2, LotAppended
      <3> QED
        BY <1>1, <1>2, <2>2, <3>1
    <2> QED
      BY <1>1, <2>2, <2>3, <2>4, <2>5
  <1>4. CASE lot.inst = inst /\ acc.left # 0
    <2>1. n \in 1..lot.qty /\ n <= acc.left /\ (n # lot.qty => n = acc.left)
      BY <1>1, <1>4
    <2>2. c \in 0..lot.cost /\ (n = lot.qty => c = lot.cost)
      <3> HIDE DEF n
      <3>1. c \in 0..lot.cost
        <4>1. n \in 0..lot.qty
          BY <1>1, <2>1
        <4> QED
          BY <1>1, <4>1, ShareIsPart DEF RemovedCost
      <3>2. ASSUME n = lot.qty PROVE c = lot.cost
        <4>1. \A a \in Nat, b \in Nat \ {0} : (a * b) \div b = a
          OBVIOUS
        <4> QED
          BY <1>1, <3>2, <4>1 DEF RemovedCost
      <3> QED
        BY <3>1, <3>2
    <2>3. next = [left |-> acc.left - n, removed |-> acc.removed + c,
                  lots |-> IF n = lot.qty THEN acc.lots ELSE Append(acc.lots, rest)]
      BY <1>4 DEF Take
    <2> HIDE DEF n, c
    <2>4. next.left = acc.left - n /\ next.removed = acc.removed + c
          /\ next.left \in Nat /\ next.removed \in Nat
      BY <1>1, <2>1, <2>2, <2>3
    <2>5. \A i : SharesOf(lot, i) = IF i = inst THEN lot.qty ELSE 0
      BY <1>4 DEF SharesOf
    <2>6. CASE n = lot.qty
      <3>1. next.lots = acc.lots /\ next \in Taken
        BY <1>1, <2>3, <2>4, <2>6 DEF Taken
      <3>2. SumOf(LotCosts(next.lots)) + next.removed = SumOf(LotCosts(acc.lots)) + acc.removed + lot.cost
        BY <1>1, <1>2, <2>2, <2>4, <2>6, <3>1
      <3>3. \A i : SumOf(LotShares(next.lots, i)) = SumOf(LotShares(acc.lots, i)) + SharesOf(lot, i)
                    - (IF i = inst THEN acc.left - next.left ELSE 0)
        BY <1>1, <1>2, <2>4, <2>5, <2>6, <3>1
      <3> QED
        BY <1>1, <2>1, <2>4, <3>1, <3>2, <3>3
    <2>7. CASE n # lot.qty
      <3>1. rest \in Lots /\ rest.cost = lot.cost - c /\ rest.qty = lot.qty - n /\ rest.inst = inst
        BY <1>1, <1>4, <2>1, <2>2, <2>7 DEF Lots, Lot
      <3>2. \A i : SharesOf(rest, i) = IF i = inst THEN lot.qty - n ELSE 0
        BY <3>1 DEF SharesOf
      <3> HIDE DEF rest
      <3>3. next.lots = Append(acc.lots, rest) /\ next \in Taken
        BY <1>1, <2>3, <2>4, <2>7, <3>1, LotAppended DEF Taken
      <3>4. /\ SumOf(LotCosts(next.lots)) = SumOf(LotCosts(acc.lots)) + rest.cost
            /\ \A i : SumOf(LotShares(next.lots, i)) = SumOf(LotShares(acc.lots, i)) + SharesOf(rest, i)
        BY <1>1, <3>1, <3>3, LotAppended
      <3>5. SumOf(LotCosts(next.lots)) + next.removed = SumOf(LotCosts(acc.lots)) + acc.removed + lot.cost
        BY <1>1, <1>2, <2>2, <2>4, <3>1, <3>4
      <3>6. ASSUME NEW i
            PROVE  SumOf(LotShares(next.lots, i)) = SumOf(LotShares(acc.lots, i)) + SharesOf(lot, i)
                    - (IF i = inst THEN acc.left - next.left ELSE 0)
        <4>1. /\ SumOf(LotShares(next.lots, i)) = SumOf(LotShares(acc.lots, i)) + SharesOf(rest, i)
              /\ SumOf(LotShares(acc.lots, i)) \in Int
          BY <1>2, <3>4
        <4>2. CASE i = inst
          <5>1. /\ SharesOf(rest, i) = lot.qty - n /\ SharesOf(lot, i) = lot.qty
                /\ acc.left - next.left = n /\ lot.qty \in Int /\ n \in Int
            BY <1>1, <1>2, <2>1, <2>4, <2>5, <3>2, <4>2
          <5> QED
            BY ONLY <4>1, <4>2, <5>1
        <4>3. CASE i # inst
          <5>1. SharesOf(rest, i) = 0 /\ SharesOf(lot, i) = 0
            BY <2>5, <3>2, <4>3
          <5> QED
            BY ONLY <4>1, <4>3, <5>1
        <4> QED
          BY <4>2, <4>3
      <3> QED
        BY <1>1, <2>1, <2>4, <3>3, <3>5, <3>6
    <2> QED
      BY <2>6, <2>7
  <1> QED
    BY <1>3, <1>4

AreReductions(g, lots, inst, qty) ==
    g = [n \in 0..Len(lots) |->
            IF n = 0 THEN [left |-> qty, removed |-> 0, lots |-> <<>>]
            ELSE Take(g[n - 1], lots[n], inst)]

\* What has been taken after each lot, and in the end.
IsReduction(g, lots, inst, qty) ==
    /\ g[0] = [left |-> qty, removed |-> 0, lots |-> <<>>]
    /\ \A k \in 1..Len(lots) : g[k] = Take(g[k - 1], lots[k], inst)
    /\ \A k \in 0..Len(lots) : g[k] \in Taken
    /\ ReduceLots(lots, inst, qty) = g[Len(lots)]

\* The lots are looked at one after the other.
LEMMA ReducedOneByOne ==
    ASSUME NEW lots \in Seq(Lots), NEW inst, NEW qty \in Nat
    PROVE  \E g : IsReduction(g, lots, inst, qty)
  <1> DEFINE n == Len(lots)
             base == [left |-> qty, removed |-> 0, lots |-> <<>>]
             step == [k \in 1..n |-> [acc \in Taken |-> Take(acc, lots[k], inst)]]
             g == CHOOSE f : AreReductions(f, lots, inst, qty)
  <1>1. n \in Nat /\ \A k \in 1..n : lots[k] \in Lots
    BY Elements
  <1>2. base \in Taken
    BY NoLots DEF Taken
  <1>3. step \in [1..n -> [Taken -> Taken]]
    BY <1>1, TakeKeeps
  <1>4. \A k \in 1..n, acc \in Taken : step[k][acc] = Take(acc, lots[k], inst)
    OBVIOUS
  <1>5. \A k \in 0..n : k # 0 => k \in 1..n /\ k - 1 \in 0..n
    BY <1>1
  <1>6. \E f : AreReductions(f, lots, inst, qty)
    <2> HIDE DEF step, n, base
    <2>1. PICK f : IsClimb(f, n, Taken, base, step)
      BY <1>1, <1>2, <1>3, RecursionExists
    <2>2. f = [k \in 0..n |-> IF k = 0 THEN base ELSE Take(f[k - 1], lots[k], inst)]
      BY <1>4, <1>5, <2>1 DEF IsClimb
    <2> QED
      BY <2>2 DEF AreReductions, n, base
  <1>7. AreReductions(g, lots, inst, qty)
    BY <1>6
  <1>8. ReduceLots(lots, inst, qty) = g[n]
    BY DEF ReduceLots, AreReductions
  <1> HIDE DEF g, step, base
  <1>9. g[0] = base /\ \A k \in 1..n : g[k] = Take(g[k - 1], lots[k], inst)
    BY <1>1, <1>7 DEF AreReductions, base
  <1> DEFINE T == {k \in 0..n : g[k] \in Taken}
  <1>10. 0..n \subseteq T
    <2>1. 0 \in T
      BY <1>1, <1>2, <1>9
    <2>2. ASSUME NEW k \in 1..n, k - 1 \in T PROVE k \in T
      <3>1. g[k] \in Taken
        BY <1>1, <1>9, <2>2, TakeKeeps
      <3>2. k \in 0..n
        BY <1>1
      <3> QED
        BY <3>1, <3>2
    <2> HIDE DEF T, n
    <2> QED
      BY <1>1, <2>1, <2>2, Climb
  <1>11. IsReduction(g, lots, inst, qty)
    BY <1>8, <1>9, <1>10 DEF base, IsReduction
  <1> QED
    BY <1>11

\* What is taken of two lots, one after the other.
LEMMA TakenAddsUp ==
    ASSUME NEW a \in Int, NEW x \in Int, NEW q \in Int, NEW l \in Int, NEW m \in Int
    PROVE  a - (q - l) + x - (l - m) = a + x - (q - m)
  OBVIOUS

\* Shares that are taken leave with their cost, and only those of inst.
LEMMA ReduceKeeps ==
    ASSUME NEW lots \in Seq(Lots), NEW inst, NEW qty \in Nat, NEW r, r = ReduceLots(lots, inst, qty)
    PROVE  /\ r \in Taken
           /\ r.left <= qty
           /\ SumOf(LotCosts(r.lots)) + r.removed = SumOf(LotCosts(lots))
           /\ \A i : SumOf(LotShares(r.lots, i))
                       = SumOf(LotShares(lots, i)) - (IF i = inst THEN qty - r.left ELSE 0)
  <1> DEFINE n == Len(lots)
  <1>1. PICK g : IsReduction(g, lots, inst, qty)
    BY ReducedOneByOne
  <1>2. /\ g[0] = [left |-> qty, removed |-> 0, lots |-> <<>>]
        /\ \A k \in 1..n : g[k] = Take(g[k - 1], lots[k], inst)
        /\ \A k \in 0..n : g[k] \in Taken
        /\ ReduceLots(lots, inst, qty) = g[n]
    BY <1>1 DEF IsReduction
  <1> DEFINE costs == PartialSums(LotCosts(lots))
             shares(i) == PartialSums(LotShares(lots, i))
             Kept(k) == /\ g[k].left <= qty
                        /\ SumOf(LotCosts(g[k].lots)) + g[k].removed = costs[k]
                        /\ \A i : SumOf(LotShares(g[k].lots, i))
                                    = shares(i)[k] - (IF i = inst THEN qty - g[k].left ELSE 0)
             T == {k \in 0..n : Kept(k)}
  <1>3. n \in Nat /\ \A k \in 1..n : lots[k] \in Lots /\ k \in 0..n /\ k - 1 \in 0..n
    BY Elements
  <1>4. /\ costs[0] = 0 /\ \A k \in 1..n : costs[k] = costs[k - 1] + lots[k].cost /\ costs[k - 1] \in Int
        /\ \A i : shares(i)[0] = 0
        /\ \A i : \A k \in 1..n : shares(i)[k] = shares(i)[k - 1] + SharesOf(lots[k], i) /\ shares(i)[k - 1] \in Int
    <2>1. /\ LotCosts(lots) \in Seq(Int) /\ Len(LotCosts(lots)) = n
          /\ \A k \in 1..n : LotCosts(lots)[k] = lots[k].cost
      BY CostsAndShares
    <2>2. costs[0] = 0 /\ \A k \in 1..n : costs[k] = costs[k - 1] + lots[k].cost /\ costs[k - 1] \in Int
      <3>1. /\ costs \in [0..n -> Int] /\ costs[0] = 0
            /\ \A k \in 1..n : costs[k] = costs[k - 1] + LotCosts(lots)[k]
        BY <2>1, PartialSumsAdd
      <3> HIDE DEF costs
      <3> QED
        BY <1>3, <2>1, <3>1
    <2>3. ASSUME NEW i
          PROVE  /\ shares(i)[0] = 0
                 /\ \A k \in 1..n : shares(i)[k] = shares(i)[k - 1] + SharesOf(lots[k], i) /\ shares(i)[k - 1] \in Int
      <3>1. /\ LotShares(lots, i) \in Seq(Int) /\ Len(LotShares(lots, i)) = n
            /\ \A k \in 1..n : LotShares(lots, i)[k] = SharesOf(lots[k], i)
        BY CostsAndShares
      <3> QED
        BY <1>3, <3>1, PartialSumsAdd
    <2> QED
      BY <2>2, <2>3
  <1>5. costs[n] = SumOf(LotCosts(lots)) /\ \A i : shares(i)[n] = SumOf(LotShares(lots, i))
    BY CostsAndShares DEF SumOf
  <1> HIDE DEF costs, shares
  <1>6. \A k \in 0..n : /\ g[k].left \in Nat /\ g[k].removed \in Nat /\ g[k].lots \in Seq(Lots)
                        /\ SumOf(LotCosts(g[k].lots)) \in Nat
                        /\ \A i : SumOf(LotShares(g[k].lots, i)) \in Nat
    <2>1. \A k \in 0..n : g[k].left \in Nat /\ g[k].removed \in Nat /\ g[k].lots \in Seq(Lots)
      BY <1>2 DEF Taken
    <2> QED
      BY <2>1, CostsAndShares
  <1>7. Kept(0)
    BY <1>2, <1>4, NoLots
  <1>8. ASSUME NEW k \in 1..n, Kept(k - 1) PROVE Kept(k)
    <2> DEFINE acc == g[k - 1]
               next == g[k]
    <2>1. acc \in Taken /\ lots[k] \in Lots /\ next = Take(acc, lots[k], inst)
      BY <1>2, <1>3
    <2>2. /\ acc.left \in Nat /\ acc.removed \in Nat /\ SumOf(LotCosts(acc.lots)) \in Nat
          /\ \A i : SumOf(LotShares(acc.lots, i)) \in Nat
          /\ next.left \in Nat /\ next.removed \in Nat /\ SumOf(LotCosts(next.lots)) \in Nat
          /\ \A i : SumOf(LotShares(next.lots, i)) \in Nat
          /\ lots[k].cost \in Nat /\ \A i : SharesOf(lots[k], i) \in Nat
      BY <1>3, <1>6, LotFields
    <2>3. /\ acc.left <= qty
          /\ SumOf(LotCosts(acc.lots)) + acc.removed = costs[k - 1]
          /\ \A i : SumOf(LotShares(acc.lots, i)) = shares(i)[k - 1] - (IF i = inst THEN qty - acc.left ELSE 0)
      BY <1>8
    <2> HIDE DEF acc, next
    <2>4. /\ next.left <= acc.left
          /\ SumOf(LotCosts(next.lots)) + next.removed = SumOf(LotCosts(acc.lots)) + acc.removed + lots[k].cost
          /\ \A i : SumOf(LotShares(next.lots, i))
                      = SumOf(LotShares(acc.lots, i)) + SharesOf(lots[k], i)
                        - (IF i = inst THEN acc.left - next.left ELSE 0)
      BY <2>1, TakeKeeps
    <2>5. next.left <= qty
      BY <2>2, <2>3, <2>4
    <2>6. SumOf(LotCosts(next.lots)) + next.removed = costs[k]
      BY <1>4, <2>2, <2>3, <2>4
    <2>7. ASSUME NEW i
          PROVE  SumOf(LotShares(next.lots, i)) = shares(i)[k] - (IF i = inst THEN qty - next.left ELSE 0)
      <3>1. /\ shares(i)[k] = shares(i)[k - 1] + SharesOf(lots[k], i) /\ shares(i)[k - 1] \in Int
            /\ SharesOf(lots[k], i) \in Nat
            /\ SumOf(LotShares(acc.lots, i)) = shares(i)[k - 1] - (IF i = inst THEN qty - acc.left ELSE 0)
            /\ SumOf(LotShares(next.lots, i)) = SumOf(LotShares(acc.lots, i)) + SharesOf(lots[k], i)
                        - (IF i = inst THEN acc.left - next.left ELSE 0)
            /\ acc.left \in Nat /\ next.left \in Nat /\ qty \in Nat
        <4>1. /\ shares(i)[k] = shares(i)[k - 1] + SharesOf(lots[k], i) /\ shares(i)[k - 1] \in Int
              /\ SharesOf(lots[k], i) \in Nat
          BY <1>4, <2>2
        <4>2. SumOf(LotShares(acc.lots, i)) = shares(i)[k - 1] - (IF i = inst THEN qty - acc.left ELSE 0)
          BY <2>3
        <4>3. SumOf(LotShares(next.lots, i)) = SumOf(LotShares(acc.lots, i)) + SharesOf(lots[k], i)
                        - (IF i = inst THEN acc.left - next.left ELSE 0)
          BY <2>4
        <4>4. acc.left \in Nat /\ next.left \in Nat /\ qty \in Nat
          BY <2>2, <2>3, <2>4
        <4> QED
          BY ONLY <4>1, <4>2, <4>3, <4>4
      <3>2. CASE i = inst
        <4>1. /\ SumOf(LotShares(acc.lots, i)) = shares(i)[k - 1] - (qty - acc.left)
              /\ SumOf(LotShares(next.lots, i))
                   = SumOf(LotShares(acc.lots, i)) + SharesOf(lots[k], i) - (acc.left - next.left)
          BY ONLY <3>1, <3>2
        <4>2. /\ shares(i)[k - 1] \in Int /\ SharesOf(lots[k], i) \in Int
              /\ acc.left \in Int /\ next.left \in Int /\ qty \in Int
              /\ shares(i)[k] = shares(i)[k - 1] + SharesOf(lots[k], i)
          BY ONLY <3>1
        <4>3. SumOf(LotShares(next.lots, i))
                = shares(i)[k - 1] - (qty - acc.left) + SharesOf(lots[k], i) - (acc.left - next.left)
          BY ONLY <4>1
        <4>4. shares(i)[k - 1] - (qty - acc.left) + SharesOf(lots[k], i) - (acc.left - next.left)
                = shares(i)[k - 1] + SharesOf(lots[k], i) - (qty - next.left)
          BY ONLY <4>2, TakenAddsUp
        <4> QED
          BY ONLY <3>2, <4>2, <4>3, <4>4
      <3>3. CASE i # inst
        <4>1. /\ SumOf(LotShares(acc.lots, i)) = shares(i)[k - 1]
              /\ SumOf(LotShares(next.lots, i)) = SumOf(LotShares(acc.lots, i)) + SharesOf(lots[k], i)
          BY ONLY <3>1, <3>3
        <4> QED
          BY ONLY <3>1, <3>3, <4>1
      <3> QED
        BY ONLY <3>2, <3>3
    <2> QED
      BY <2>5, <2>6, <2>7 DEF next
  <1>9. 0..n \subseteq T
    <2>1. 0 \in T
      BY <1>3, <1>7
    <2>2. \A k \in 1..n : k - 1 \in T => k \in T
      BY <1>3, <1>8
    <2> HIDE DEF T, n
    <2> QED
      BY <1>3, <2>1, <2>2, Climb
  <1>10. Kept(n) /\ n \in 0..n
    BY <1>3, <1>9
  <1> QED
    BY <1>2, <1>5, <1>10

-----------------------------------------------------------------------------
(* Splits and bonus shares                                                 *)

LEMMA GreatestExists ==
    ASSUME NEW n \in Nat, NEW S, S \subseteq 1..n, S # {}
    PROVE  \E m \in S : \A j \in S : j <= m
  <1> DEFINE Low(k) == S \cap (0..k)
             T == {k \in 0..n : Low(k) = {} \/ \E m \in Low(k) : \A j \in Low(k) : j <= m}
  <1>1. 0 \in T
    <2>1. Low(0) = {}
      OBVIOUS
    <2> QED
      BY <2>1
  <1>2. ASSUME NEW k \in 1..n, k - 1 \in T PROVE k \in T
    <2>1. CASE k \in S
      <3>1. k \in Low(k) /\ \A j \in Low(k) : j <= k
        BY <2>1
      <3> HIDE DEF Low
      <3> QED
        BY <3>1
    <2>2. CASE k \notin S
      <3>1. Low(k) = Low(k - 1)
        BY <2>2
      <3> HIDE DEF Low
      <3> QED
        BY <1>2, <3>1
    <2> QED
      BY <2>1, <2>2
  <1>3. Low(n) = S
    <2>1. \A j \in S : j \in 0..n
      OBVIOUS
    <2> QED
      BY <2>1
  <1>4. n \in T
    <2> HIDE DEF T
    <2>1. 0..n \subseteq T /\ n \in 0..n
      BY <1>1, <1>2, Climb
    <2> QED
      BY <2>1
  <1> HIDE DEF Low
  <1> QED
    BY <1>3, <1>4

LEMMA SumOfZeros ==
    ASSUME NEW s \in Seq(Int), \A k \in 1..Len(s) : s[k] = 0
    PROVE  SumOf(s) = 0
  <1>1. \A k \in 1..Len(s) : s[k] = s[k] + s[k]
    OBVIOUS
  <1>2. SumOf(s) = SumOf(s) + SumOf(s)
    BY <1>1, SumOfSums
  <1> QED
    BY <1>2, SumIsInteger

LEMMA LastLotIsThere ==
    ASSUME NEW lots \in Seq(Lots), NEW inst, SumOf(LotShares(lots, inst)) > 0
    PROVE  LastLotOf(lots, inst) \in 1..Len(lots) /\ lots[LastLotOf(lots, inst)].inst = inst
  <1> DEFINE n == Len(lots)
             S == {k \in 1..n : lots[k].inst = inst}
  <1>1. n \in Nat /\ DOMAIN lots = 1..n
    BY Elements
  <1>2. S # {}
    <2>1. SUFFICES ASSUME S = {} PROVE SumOf(LotShares(lots, inst)) = 0
      OBVIOUS
    <2>2. \A k \in 1..n : SharesOf(lots[k], inst) = 0
      BY <2>1 DEF SharesOf
    <2>3. /\ LotShares(lots, inst) \in Seq(Int) /\ Len(LotShares(lots, inst)) = n
          /\ \A k \in 1..n : LotShares(lots, inst)[k] = 0
      BY <2>2, CostsAndShares
    <2> QED
      BY <2>3, SumOfZeros
  <1>3. PICK m \in S : \A j \in S : j <= m
    BY <1>1, <1>2, GreatestExists
  <1>4. m \in DOMAIN lots /\ lots[m].inst = inst /\ \A j \in DOMAIN lots : lots[j].inst = inst => j <= m
    BY <1>1, <1>3
  <1> QED
    BY <1>1, <1>4 DEF LastLotOf

\* What was adjusted gains delta in all, whatever the shares of the lots round
\* to, and no lot changes its instrument, its day or its cost.
LEMMA AdjustKeeps ==
    ASSUME NEW lots \in Seq(Lots), NEW inst, NEW delta \in Int, MayAdjust(lots, inst, delta),
           SumOf(LotShares(lots, inst)) > 0, NEW r, r = AdjustedLots(lots, inst, delta)
    PROVE  /\ r \in Seq(Lots) /\ Len(r) = Len(lots)
           /\ \A k \in 1..Len(lots) : r[k].inst = lots[k].inst /\ r[k].day = lots[k].day
           /\ SumOf(LotCosts(r)) = SumOf(LotCosts(lots))
           /\ \A i : SumOf(LotShares(r, i)) = SumOf(LotShares(lots, i)) + (IF i = inst THEN delta ELSE 0)
  <1> DEFINE n == Len(lots)
             held == SharesIn(lots, inst)
             share(k) == (delta * lots[k].qty) \div held
             last == LastLotOf(lots, inst)
             others == {k \in DOMAIN lots : lots[k].inst = inst /\ k # last}
             given == [k \in DOMAIN lots |-> IF k \in others THEN share(k) ELSE 0]
             rest == delta - SumOf(given)
             gain == [k \in DOMAIN lots |-> IF k = last THEN rest ELSE given[k]]
  <1>1. /\ n \in Nat /\ DOMAIN lots = 1..n /\ \A k \in 1..n : lots[k] \in Lots
        /\ held \in Nat \ {0}
    <2>1. held \in Nat \ {0}
      <3>1. SharesIn(lots, inst) = SumOf(LotShares(lots, inst))
        BY SharesAreSum
      <3>2. SumOf(LotShares(lots, inst)) \in Nat
        BY CostsAndShares
      <3> QED
        BY <3>1, <3>2
    <2> QED
      BY <2>1, Elements
  <1>2. last \in 1..n /\ lots[last].inst = inst
    BY LastLotIsThere
  <1>3. \A k \in 1..n : share(k) \in Int
    <2>1. \A k \in 1..n : lots[k].qty \in Int
      BY <1>1, LotFields
    <2> HIDE DEF held
    <2>2. \A a, b \in Int : (a * b) \div held \in Int
      BY <1>1
    <2> QED
      BY <2>1, <2>2
  <1>4. r = [k \in DOMAIN lots |->
               IF lots[k].inst # inst THEN lots[k]
               ELSE [lots[k] EXCEPT !.qty = @ + (IF k \in others THEN share(k) ELSE rest)]]
    BY DEF AdjustedLots
  <1> HIDE DEF share, last, held
  <1>5. given \in [1..n -> Int]
    BY <1>1, <1>3
  <1>6. given \in Seq(Int) /\ Len(given) = n
    <2> HIDE DEF given
    <2> QED
      BY <1>1, <1>5, IsSequence
  <1>7. given[last] = 0 /\ rest \in Int
    <2>1. given[last] = 0
      BY <1>1, <1>2
    <2> HIDE DEF given
    <2> QED
      BY <1>6, <2>1, SumIsInteger
  <1>8. \A k \in 1..n : k \notin others => given[k] = 0
    BY <1>1
  <1>9. \A k \in 1..n : k \in others => given[k] = share(k)
    BY <1>1
  <1> HIDE DEF given, rest
  <1>10. /\ gain \in [1..n -> Int] /\ gain[last] = rest
         /\ \A k \in 1..n : k # last => gain[k] = given[k]
    BY <1>1, <1>2, <1>5, <1>7
  <1> HIDE DEF gain
  <1>11. SumOf(gain) = delta
    <2>1. gain \in Seq(Int) /\ Len(gain) = n
      BY <1>1, <1>10, IsSequence
    <2>2. SumOf(gain) = SumOf(given) - given[last] + gain[last]
      BY <1>2, <1>6, <1>10, <2>1, SumOfChange
    <2>3. SumOf(given) \in Int
      BY <1>6, SumIsInteger
    <2> QED
      BY <1>7, <1>10, <2>2, <2>3 DEF rest
  <1>12. /\ DOMAIN r = 1..n
         /\ \A k \in 1..n : r[k] = IF lots[k].inst # inst THEN lots[k]
                                   ELSE [lots[k] EXCEPT !.qty = @ + gain[k]]
    <2>1. \A k \in 1..n : lots[k].inst = inst => gain[k] = IF k \in others THEN share(k) ELSE rest
      <3>1. \A k \in 1..n : lots[k].inst = inst => (k \in others <=> k # last)
        BY <1>1
      <3> QED
        BY <1>9, <1>10, <3>1
    <2>2. \A k \in 1..n : lots[k].inst # inst => gain[k] = 0
      BY <1>2, <1>8, <1>10
    <2> HIDE DEF others
    <2> QED
      BY <1>1, <1>4, <2>1
  <1>13. \A k \in 1..n : lots[k].inst # inst => gain[k] = 0
    BY <1>2, <1>8, <1>10
  <1>14. \A k \in 1..n : r[k].qty > 0
    BY <1>12 DEF MayAdjust
  <1>15. ASSUME NEW k \in 1..n
         PROVE  /\ r[k] \in Lots /\ r[k].inst = lots[k].inst /\ r[k].day = lots[k].day
                /\ r[k].cost = lots[k].cost
                /\ \A i : SharesOf(r[k], i) = SharesOf(lots[k], i) + (IF i = inst THEN gain[k] ELSE 0)
    <2>1. lots[k] \in Lots /\ gain[k] \in Int /\ lots[k].qty \in Nat
      BY <1>1, <1>10, LotFields
    <2>2. CASE lots[k].inst # inst
      <3>1. r[k] = lots[k] /\ gain[k] = 0
        BY <1>12, <1>13, <2>2
      <3> QED
        BY <2>1, <3>1, LotFields
    <2>3. CASE lots[k].inst = inst
      <3>1. r[k] = [lots[k] EXCEPT !.qty = @ + gain[k]]
        BY <1>12, <2>3
      <3>2. r[k].inst = inst /\ r[k].day = lots[k].day /\ r[k].cost = lots[k].cost
            /\ r[k].qty = lots[k].qty + gain[k]
        BY <2>1, <2>3, <3>1 DEF Lots
      <3>3. r[k] \in Lots
        <4>1. r[k].qty \in Nat \ {0}
          BY <1>14, <2>1, <3>2
        <4> QED
          BY <2>1, <3>1, <3>2, <4>1 DEF Lots
      <3> QED
        BY <2>1, <2>3, <3>2, <3>3 DEF SharesOf
    <2> QED
      BY <2>2, <2>3
  <1>16. r \in Seq(Lots) /\ Len(r) = n
    <2>1. r \in [1..n -> Lots]
      BY <1>4, <1>12, <1>15
    <2> QED
      BY <1>1, <2>1, IsSequence
  <1>17. SumOf(LotCosts(r)) = SumOf(LotCosts(lots))
    <2>1. LotCosts(r) = LotCosts(lots)
      BY <1>1, <1>12, <1>15 DEF LotCosts
    <2> QED
      BY <2>1
  <1>18. ASSUME NEW i
         PROVE  SumOf(LotShares(r, i)) = SumOf(LotShares(lots, i)) + (IF i = inst THEN delta ELSE 0)
    <2>1. /\ LotShares(r, i) \in Seq(Int) /\ Len(LotShares(r, i)) = n
          /\ LotShares(lots, i) \in Seq(Int) /\ Len(LotShares(lots, i)) = n
          /\ \A k \in 1..n : LotShares(r, i)[k] = LotShares(lots, i)[k] + (IF i = inst THEN gain[k] ELSE 0)
      <3>1. /\ LotShares(r, i) \in Seq(Int) /\ Len(LotShares(r, i)) = n
            /\ \A k \in 1..n : LotShares(r, i)[k] = SharesOf(r[k], i)
        BY ONLY <1>16, CostsAndShares
      <3>2. /\ LotShares(lots, i) \in Seq(Int) /\ Len(LotShares(lots, i)) = n
            /\ \A k \in 1..n : LotShares(lots, i)[k] = SharesOf(lots[k], i)
        BY CostsAndShares
      <3>3. ASSUME NEW k \in 1..n
            PROVE  LotShares(r, i)[k] = LotShares(lots, i)[k] + (IF i = inst THEN gain[k] ELSE 0)
        <4>1. SharesOf(r[k], i) = SharesOf(lots[k], i) + (IF i = inst THEN gain[k] ELSE 0)
          BY <1>15
        <4> QED
          BY <3>1, <3>2, <4>1
      <3> QED
        BY <3>1, <3>2, <3>3
    <2>2. CASE i = inst
      <3>1. gain \in Seq(Int) /\ Len(gain) = n
        BY <1>1, <1>10, IsSequence
      <3>2. SumOf(LotShares(r, i)) = SumOf(LotShares(lots, i)) + SumOf(gain)
        <4>1. /\ LotShares(lots, i) \in Seq(Int) /\ LotShares(r, i) \in Seq(Int)
              /\ Len(LotShares(lots, i)) = Len(gain) /\ Len(LotShares(lots, i)) = Len(LotShares(r, i))
              /\ \A k \in 1..Len(LotShares(lots, i)) : LotShares(r, i)[k] = LotShares(lots, i)[k] + gain[k]
          BY <2>1, <2>2, <3>1
        <4> QED
          BY ONLY <3>1, <4>1, SumOfSums
      <3> QED
        BY <1>11, <2>2, <3>2
    <2>3. CASE i # inst
      <3>1. PartialSums(LotShares(r, i))[n] = PartialSums(LotShares(lots, i))[n]
        <4>1. \A k \in 1..n : LotShares(r, i)[k] = LotShares(lots, i)[k]
          <5>1. \A k \in 1..n : LotShares(lots, i)[k] \in Int
            BY <2>1, Elements
          <5> QED
            BY <2>1, <2>3, <5>1
        <4>2. n <= Len(LotShares(r, i)) /\ n <= Len(LotShares(lots, i))
          BY <1>1, <2>1
        <4> QED
          BY <1>1, <2>1, <4>1, <4>2, PartialSumsAgree
      <3>2. SumOf(LotShares(lots, i)) \in Int
        BY <2>1, SumIsInteger
      <3> QED
        BY <2>1, <2>3, <3>1, <3>2 DEF SumOf
    <2> QED
      BY <2>2, <2>3
  <1> QED
    BY <1>15, <1>16, <1>17, <1>18

-----------------------------------------------------------------------------
(* What was posted                                                         *)

\* Executions or actions whose amounts are whole numbers.
IsLog(s) ==
    /\ s \in Seq({s[k] : k \in DOMAIN s})
    /\ \A k \in 1..Len(s) : s[k].pnl \in Int /\ s[k].receivable \in Int /\ s[k].shares \in Int

Pnl(e) == e.pnl

Dividend(e) == IF e.action = "cash_dividend" THEN e.receivable ELSE 0

SharesFor(e, i) == IF e.inst = i THEN e.shares ELSE 0

Pnls(s) == [k \in DOMAIN s |-> Pnl(s[k])]

Dividends(s) == [k \in DOMAIN s |-> Dividend(s[k])]

SharesGiven(s, i) == [k \in DOMAIN s |-> SharesFor(s[k], i)]

EarnedIn(l) == SumOf(Pnls(l.executions)) + SumOf(Pnls(l.actions)) + SumOf(Dividends(l.actions))

AdjustedIn(l, i) == SumOf(SharesGiven(l.actions, i))

LEMMA LogSums ==
    ASSUME NEW s, IsLog(s), NEW i
    PROVE  /\ Len(s) \in Nat /\ DOMAIN s = 1..Len(s)
           /\ Pnls(s) \in Seq(Int) /\ Len(Pnls(s)) = Len(s)
           /\ Dividends(s) \in Seq(Int) /\ Len(Dividends(s)) = Len(s)
           /\ SharesGiven(s, i) \in Seq(Int) /\ Len(SharesGiven(s, i)) = Len(s)
           /\ \A k \in 1..Len(s) : /\ Pnls(s)[k] = Pnl(s[k])
                                   /\ Dividends(s)[k] = Dividend(s[k])
                                   /\ SharesGiven(s, i)[k] = SharesFor(s[k], i)
           /\ SumOf(Pnls(s)) \in Int /\ SumOf(Dividends(s)) \in Int /\ SumOf(SharesGiven(s, i)) \in Int
  <1> DEFINE n == Len(s)
  <1>1. n \in Nat /\ DOMAIN s = 1..n
    BY DEF IsLog
  <1>2. \A k \in 1..n : Pnl(s[k]) \in Int /\ Dividend(s[k]) \in Int /\ SharesFor(s[k], i) \in Int
    BY DEF IsLog, Pnl, Dividend, SharesFor
  <1> HIDE DEF n
  <1>3. /\ Pnls(s) \in [1..n -> Int] /\ \A k \in 1..n : Pnls(s)[k] = Pnl(s[k])
        /\ Dividends(s) \in [1..n -> Int] /\ \A k \in 1..n : Dividends(s)[k] = Dividend(s[k])
        /\ SharesGiven(s, i) \in [1..n -> Int] /\ \A k \in 1..n : SharesGiven(s, i)[k] = SharesFor(s[k], i)
    BY <1>1, <1>2 DEF Pnls, Dividends, SharesGiven
  <1>4. /\ Pnls(s) \in Seq(Int) /\ Len(Pnls(s)) = n
        /\ Dividends(s) \in Seq(Int) /\ Len(Dividends(s)) = n
        /\ SharesGiven(s, i) \in Seq(Int) /\ Len(SharesGiven(s, i)) = n
    BY <1>1, <1>3, IsSequence
  <1> QED
    BY <1>1, <1>3, <1>4, SumIsInteger DEF n

LEMMA LogGrows ==
    ASSUME NEW s, IsLog(s), NEW e, e.pnl \in Int, e.receivable \in Int, e.shares \in Int
    PROVE  /\ IsLog(Append(s, e))
           /\ SumOf(Pnls(Append(s, e))) = SumOf(Pnls(s)) + Pnl(e)
           /\ SumOf(Dividends(Append(s, e))) = SumOf(Dividends(s)) + Dividend(e)
           /\ \A i : SumOf(SharesGiven(Append(s, e), i)) = SumOf(SharesGiven(s, i)) + SharesFor(e, i)
  <1> DEFINE more == Append(s, e)
             n == Len(s)
  <1>1. n \in Nat /\ DOMAIN s = 1..n
    BY LogSums
  <1>2. /\ Len(more) = n + 1 /\ DOMAIN more = 1..(n + 1) /\ more[n + 1] = e
        /\ \A k \in 1..n : more[k] = s[k] /\ k \in 1..(n + 1)
    BY <1>1 DEF IsLog
  <1>3. IsLog(more)
    <2>1. more \in Seq({s[k] : k \in DOMAIN s} \cup {e})
      <3>1. s \in Seq({s[k] : k \in DOMAIN s} \cup {e})
        BY DEF IsLog
      <3> DEFINE E == {s[k] : k \in DOMAIN s} \cup {e}
      <3>2. s \in Seq(E) /\ e \in E
        BY <3>1
      <3> HIDE DEF E
      <3>3. Append(s, e) \in Seq(E)
        BY <3>2
      <3> QED
        BY <3>3 DEF E
    <2> HIDE DEF more
    <2>2. more \in [1..(n + 1) -> {more[k] : k \in DOMAIN more}]
      <3>1. more = [k \in 1..(n + 1) |-> more[k]]
        BY <1>2, <2>1
      <3> QED
        BY <1>2, <3>1
    <2>3. more \in Seq({more[k] : k \in DOMAIN more})
      <3> DEFINE E == {more[k] : k \in DOMAIN more}
      <3>1. more \in [1..(n + 1) -> E] /\ n + 1 \in Nat
        BY <1>1, <2>2
      <3> HIDE DEF E
      <3>2. more \in Seq(E)
        BY <3>1, IsSequence
      <3> QED
        BY <3>2 DEF E
    <2>4. ASSUME NEW k \in 1..(n + 1)
          PROVE  more[k].pnl \in Int /\ more[k].receivable \in Int /\ more[k].shares \in Int
      <3>1. CASE k = n + 1
        BY <1>2, <3>1
      <3>2. CASE k # n + 1
        <4>1. k \in 1..n
          BY <1>1, <3>2
        <4> QED
          BY <1>2, <4>1 DEF IsLog
      <3> QED
        BY <3>1, <3>2
    <2> QED
      BY <1>2, <2>3, <2>4 DEF IsLog
  <1> HIDE DEF more
  <1>4. n + 1 \in 1..(n + 1)
    BY <1>1
  <1>5. ASSUME NEW i
        PROVE  /\ SumOf(Pnls(more)) = SumOf(Pnls(s)) + Pnl(e)
               /\ SumOf(Dividends(more)) = SumOf(Dividends(s)) + Dividend(e)
               /\ SumOf(SharesGiven(more, i)) = SumOf(SharesGiven(s, i)) + SharesFor(e, i)
    <2>1. /\ Pnls(s) \in Seq(Int) /\ Len(Pnls(s)) = n
          /\ Dividends(s) \in Seq(Int) /\ Len(Dividends(s)) = n
          /\ SharesGiven(s, i) \in Seq(Int) /\ Len(SharesGiven(s, i)) = n
          /\ \A k \in 1..n : /\ Pnls(s)[k] = Pnl(s[k])
                             /\ Dividends(s)[k] = Dividend(s[k])
                             /\ SharesGiven(s, i)[k] = SharesFor(s[k], i)
      BY LogSums
    <2>2. /\ Pnls(more) \in Seq(Int) /\ Len(Pnls(more)) = n + 1
          /\ Dividends(more) \in Seq(Int) /\ Len(Dividends(more)) = n + 1
          /\ SharesGiven(more, i) \in Seq(Int) /\ Len(SharesGiven(more, i)) = n + 1
          /\ \A k \in 1..(n + 1) : /\ Pnls(more)[k] = Pnl(more[k])
                                   /\ Dividends(more)[k] = Dividend(more[k])
                                   /\ SharesGiven(more, i)[k] = SharesFor(more[k], i)
      BY <1>2, <1>3, LogSums
    <2>3. \A k \in 1..n : /\ Pnls(more)[k] = Pnls(s)[k]
                          /\ Dividends(more)[k] = Dividends(s)[k]
                          /\ SharesGiven(more, i)[k] = SharesGiven(s, i)[k]
      BY <1>2, <2>1, <2>2
    <2>4. /\ Pnls(more)[n + 1] = Pnl(e)
          /\ Dividends(more)[n + 1] = Dividend(e)
          /\ SharesGiven(more, i)[n + 1] = SharesFor(e, i)
      BY <1>2, <1>4, <2>2
    <2>5. SumOf(Pnls(more)) = SumOf(Pnls(s)) + Pnls(more)[n + 1]
      <3>1. /\ Pnls(s) \in Seq(Int) /\ Pnls(more) \in Seq(Int)
            /\ Len(Pnls(s)) = n /\ Len(Pnls(more)) = n + 1
            /\ \A k \in 1..n : Pnls(more)[k] = Pnls(s)[k]
        BY <2>1, <2>2, <2>3
      <3> QED
        BY ONLY <3>1, SumGrows
    <2>6. SumOf(Dividends(more)) = SumOf(Dividends(s)) + Dividends(more)[n + 1]
      <3>1. /\ Dividends(s) \in Seq(Int) /\ Dividends(more) \in Seq(Int)
            /\ Len(Dividends(s)) = n /\ Len(Dividends(more)) = n + 1
            /\ \A k \in 1..n : Dividends(more)[k] = Dividends(s)[k]
        BY <2>1, <2>2, <2>3
      <3> QED
        BY ONLY <3>1, SumGrows
    <2>7. SumOf(SharesGiven(more, i)) = SumOf(SharesGiven(s, i)) + SharesGiven(more, i)[n + 1]
      <3>1. /\ SharesGiven(s, i) \in Seq(Int) /\ SharesGiven(more, i) \in Seq(Int)
            /\ Len(SharesGiven(s, i)) = n /\ Len(SharesGiven(more, i)) = n + 1
            /\ \A k \in 1..n : SharesGiven(more, i)[k] = SharesGiven(s, i)[k]
        BY <2>1, <2>2, <2>3
      <3> QED
        BY ONLY <3>1, SumGrows
    <2> QED
      BY <2>4, <2>5, <2>6, <2>7
  <1> QED
    BY <1>3, <1>5 DEF more

LEMMA EarnedIsSum == Earned = EarnedIn(ledger) /\ \A i : Adjusted(i) = AdjustedIn(ledger, i)
  BY DEF Earned, EarnedIn, Adjusted, AdjustedIn, Total, Pnls, Pnl, Dividends, Dividend, SharesGiven, SharesFor

-----------------------------------------------------------------------------
(* The ledger                                                              *)

\* Cash may go below zero; claims and debts may not, and no lot is empty.
LedgerOK(l) ==
    /\ l.cash \in Int /\ l.receivables \in Nat /\ l.payables \in Nat
    /\ l.lots \in Seq(Lots)
    /\ IsLog(l.executions) /\ IsLog(l.actions)
    /\ l.prices \in [Instruments -> Nat]

EventTypes == {"initial_cash", "execution", "cash_settled", "corporate_action", "valuation"}

\* Whole amounts that leave no claim or debt below zero, and natural prices.
FitsLedger(l, e) ==
    /\ e.type \in EventTypes
    /\ e.cash \in Int /\ e.receivable \in Int /\ e.payable \in Int
    /\ e.pnl \in Int /\ e.shares \in Int
    /\ l.receivables + e.receivable >= 0 /\ l.payables + e.payable >= 0
    /\ e.type = "valuation" => \A i \in Instruments : i \in DOMAIN e.prices => e.prices[i] \in Nat

IsBooked(e) == e.type \in {"execution", "corporate_action"}

\* What a posting does to each part of the ledger but the lots.
LEMMA PostedFields ==
    ASSUME NEW l, LedgerOK(l), NEW e, FitsLedger(l, e), LotsAfter(l, e) \in Seq(Lots),
           NEW m, m = Posted(l, e)
    PROVE  /\ LedgerOK(m)
           /\ m.cash = l.cash + e.cash
           /\ m.receivables = l.receivables + e.receivable
           /\ m.payables = l.payables + e.payable
           /\ m.lots = LotsAfter(l, e)
           /\ EarnedIn(m) = EarnedIn(l) + (IF IsBooked(e) THEN Pnl(e) ELSE 0)
                              + (IF e.type = "corporate_action" THEN Dividend(e) ELSE 0)
           /\ \A i : AdjustedIn(m, i) = AdjustedIn(l, i)
                              + (IF e.type = "corporate_action" THEN SharesFor(e, i) ELSE 0)
  <1>1. /\ m.cash = l.cash + e.cash
        /\ m.receivables = l.receivables + e.receivable
        /\ m.payables = l.payables + e.payable
        /\ m.lots = LotsAfter(l, e)
        /\ m.executions = IF e.type = "execution" THEN Append(l.executions, e) ELSE l.executions
        /\ m.actions = IF e.type = "corporate_action" THEN Append(l.actions, e) ELSE l.actions
        /\ m.prices = IF e.type = "valuation"
                      THEN [i \in Instruments |-> IF i \in DOMAIN e.prices THEN e.prices[i] ELSE 0]
                      ELSE l.prices
    BY DEF Posted
  <1>2. m.prices \in [Instruments -> Nat]
    BY <1>1 DEF LedgerOK, FitsLedger
  <1>3. /\ IsLog(l.executions) /\ IsLog(l.actions)
        /\ e.pnl \in Int /\ e.receivable \in Int /\ e.shares \in Int
    BY DEF LedgerOK, FitsLedger
  <1>4. /\ SumOf(Pnls(l.executions)) \in Int /\ SumOf(Pnls(l.actions)) \in Int
        /\ SumOf(Dividends(l.actions)) \in Int /\ \A i : SumOf(SharesGiven(l.actions, i)) \in Int
        /\ Pnl(e) \in Int /\ Dividend(e) \in Int /\ \A i : SharesFor(e, i) \in Int
    BY <1>3, LogSums DEF Pnl, Dividend, SharesFor
  <1>5. /\ IsLog(m.executions)
        /\ SumOf(Pnls(m.executions)) = SumOf(Pnls(l.executions)) + (IF e.type = "execution" THEN Pnl(e) ELSE 0)
    <2>1. CASE e.type = "execution"
      BY <1>1, <1>3, <2>1, LogGrows
    <2>2. CASE e.type # "execution"
      BY <1>1, <1>3, <1>4, <2>2
    <2> QED
      BY <2>1, <2>2
  <1>6. /\ IsLog(m.actions)
        /\ SumOf(Pnls(m.actions)) = SumOf(Pnls(l.actions)) + (IF e.type = "corporate_action" THEN Pnl(e) ELSE 0)
        /\ SumOf(Dividends(m.actions))
             = SumOf(Dividends(l.actions)) + (IF e.type = "corporate_action" THEN Dividend(e) ELSE 0)
        /\ \A i : SumOf(SharesGiven(m.actions, i))
             = SumOf(SharesGiven(l.actions, i)) + (IF e.type = "corporate_action" THEN SharesFor(e, i) ELSE 0)
    <2>1. CASE e.type = "corporate_action"
      BY <1>1, <1>3, <2>1, LogGrows
    <2>2. CASE e.type # "corporate_action"
      BY <1>1, <1>3, <1>4, <2>2
    <2> QED
      BY <2>1, <2>2
  <1>7. LedgerOK(m)
    <2>1. m.cash \in Int
      BY <1>1 DEF LedgerOK, FitsLedger
    <2>2. m.receivables \in Nat /\ m.payables \in Nat
      <3>1. /\ l.receivables \in Nat /\ e.receivable \in Int /\ l.receivables + e.receivable >= 0
            /\ l.payables \in Nat /\ e.payable \in Int /\ l.payables + e.payable >= 0
        BY DEF LedgerOK, FitsLedger
      <3> QED
        BY <1>1, <3>1
    <2>3. m.lots \in Seq(Lots)
      BY <1>1
    <2> QED
      BY <1>2, <1>5, <1>6, <2>1, <2>2, <2>3 DEF LedgerOK
  <1>8. EarnedIn(m) = EarnedIn(l) + (IF IsBooked(e) THEN Pnl(e) ELSE 0)
                        + (IF e.type = "corporate_action" THEN Dividend(e) ELSE 0)
    BY <1>4, <1>5, <1>6 DEF EarnedIn, IsBooked
  <1> QED
    BY <1>1, <1>6, <1>7, <1>8 DEF AdjustedIn

-----------------------------------------------------------------------------
(* What each entry does to the money and to the shares                     *)

\* l becomes m with these amounts more in each account.
Entry(l, m, cash, receivables, payables, bookCost, earned) ==
    /\ LedgerOK(m)
    /\ m.cash = l.cash + cash
    /\ m.receivables = l.receivables + receivables
    /\ m.payables = l.payables + payables
    /\ BookCost(m) = BookCost(l) + bookCost
    /\ EarnedIn(m) = EarnedIn(l) + earned

\* l becomes m with so many more shares of inst, given by an action or not.
Moves(l, m, inst, shares, given) ==
    \A i : /\ PositionQuantity(m, i) = PositionQuantity(l, i) + (IF i = inst THEN shares ELSE 0)
           /\ AdjustedIn(m, i) = AdjustedIn(l, i) + (IF i = inst THEN given ELSE 0)

LEMMA LedgerFigures ==
    ASSUME NEW l, LedgerOK(l)
    PROVE  /\ l.cash \in Int /\ l.receivables \in Nat /\ l.payables \in Nat /\ l.lots \in Seq(Lots)
           /\ BookCost(l) = SumOf(LotCosts(l.lots)) /\ BookCost(l) \in Nat
           /\ EarnedIn(l) \in Int
           /\ \A i : /\ PositionQuantity(l, i) = SumOf(LotShares(l.lots, i))
                     /\ PositionQuantity(l, i) \in Nat /\ AdjustedIn(l, i) \in Int
  <1>1. l.cash \in Int /\ l.receivables \in Nat /\ l.payables \in Nat /\ l.lots \in Seq(Lots)
        /\ IsLog(l.executions) /\ IsLog(l.actions)
    BY DEF LedgerOK
  <1>2. BookCost(l) = SumOf(LotCosts(l.lots)) /\ SumOf(LotCosts(l.lots)) \in Nat
    BY <1>1, BookCostIsSum, CostsAndShares
  <1>3. \A i : PositionQuantity(l, i) = SumOf(LotShares(l.lots, i)) /\ SumOf(LotShares(l.lots, i)) \in Nat
    BY <1>1, SharesAreSum, CostsAndShares
  <1>4. EarnedIn(l) \in Int
    <2>1. SumOf(Pnls(l.executions)) \in Int /\ SumOf(Pnls(l.actions)) \in Int /\ SumOf(Dividends(l.actions)) \in Int
      BY <1>1, LogSums
    <2> QED
      BY <2>1 DEF EarnedIn
  <1>5. \A i : AdjustedIn(l, i) \in Int
    BY <1>1, LogSums DEF AdjustedIn
  <1> QED
    BY <1>1, <1>2, <1>3, <1>4, <1>5

\* What an event earns, and the shares it gives or takes as a corporate action.
EarnedBy(e) ==
    (IF IsBooked(e) THEN e.pnl ELSE 0)
    + (IF e.type = "corporate_action" THEN Dividend(e) ELSE 0)

GivenBy(e) == IF e.type = "corporate_action" THEN e.shares ELSE 0

LEMMA PostedEntry ==
    ASSUME NEW l, LedgerOK(l), NEW e, FitsLedger(l, e), LotsAfter(l, e) \in Seq(Lots),
           NEW cost \in Int, NEW moved \in Int,
           SumOf(LotCosts(LotsAfter(l, e))) = SumOf(LotCosts(l.lots)) + cost,
           \A i : SumOf(LotShares(LotsAfter(l, e), i))
                    = SumOf(LotShares(l.lots, i)) + (IF i = e.inst THEN moved ELSE 0),
           NEW m, m = Posted(l, e)
    PROVE  /\ Entry(l, m, e.cash, e.receivable, e.payable, cost, EarnedBy(e))
           /\ Moves(l, m, e.inst, moved, GivenBy(e))
  <1>1. /\ LedgerOK(m)
        /\ m.cash = l.cash + e.cash
        /\ m.receivables = l.receivables + e.receivable
        /\ m.payables = l.payables + e.payable
        /\ m.lots = LotsAfter(l, e)
        /\ EarnedIn(m) = EarnedIn(l) + (IF IsBooked(e) THEN Pnl(e) ELSE 0)
                           + (IF e.type = "corporate_action" THEN Dividend(e) ELSE 0)
        /\ \A i : AdjustedIn(m, i) = AdjustedIn(l, i)
                           + (IF e.type = "corporate_action" THEN SharesFor(e, i) ELSE 0)
    BY PostedFields
  <1>2. /\ EarnedIn(l) \in Int /\ e.pnl \in Int /\ Dividend(e) \in Int
        /\ BookCost(l) = SumOf(LotCosts(l.lots))
        /\ BookCost(m) = SumOf(LotCosts(m.lots))
        /\ \A i : /\ PositionQuantity(l, i) = SumOf(LotShares(l.lots, i))
                  /\ PositionQuantity(m, i) = SumOf(LotShares(m.lots, i))
                  /\ AdjustedIn(l, i) \in Int
    <2>1. e.pnl \in Int /\ Dividend(e) \in Int
      BY DEF FitsLedger, Dividend
    <2>2. /\ EarnedIn(l) \in Int /\ BookCost(l) = SumOf(LotCosts(l.lots))
          /\ \A i : /\ PositionQuantity(l, i) = SumOf(LotShares(l.lots, i))
                    /\ AdjustedIn(l, i) \in Int
      BY LedgerFigures
    <2>3. /\ BookCost(m) = SumOf(LotCosts(m.lots))
          /\ \A i : PositionQuantity(m, i) = SumOf(LotShares(m.lots, i))
      BY <1>1, LedgerFigures
    <2> QED
      BY <2>1, <2>2, <2>3
  <1>3. EarnedIn(m) = EarnedIn(l) + EarnedBy(e)
    <2> DEFINE a == EarnedIn(l)
               b == IF IsBooked(e) THEN e.pnl ELSE 0
               c == IF e.type = "corporate_action" THEN Dividend(e) ELSE 0
    <2>1. a \in Int /\ b \in Int /\ c \in Int
      BY <1>2
    <2>2. EarnedIn(m) = (a + b) + c
      BY <1>1 DEF Pnl
    <2>3. EarnedBy(e) = b + c
      BY DEF EarnedBy
    <2> HIDE DEF a, b, c
    <2>4. (a + b) + c = a + (b + c)
      BY <2>1
    <2> QED
      BY <2>2, <2>3, <2>4 DEF a
  <1>4. \A i : AdjustedIn(m, i) = AdjustedIn(l, i) + (IF i = e.inst THEN GivenBy(e) ELSE 0)
    BY <1>1, <1>2 DEF GivenBy, SharesFor
  <1> QED
    BY <1>1, <1>2, <1>3, <1>4 DEF Entry, Moves

\* A fill that buys is owed and is carried at what it costs.
LEMMA BuyPosted ==
    ASSUME NEW l, LedgerOK(l), NEW e, e.type = "execution", e.action = "none", e.side = "buy",
           e.inst \in Instruments, e.day \in 1..Days, e.qty \in Nat \ {0},
           e.gross \in Nat, e.cost \in Nat, e.payable = e.gross + e.cost,
           e.cash = 0, e.receivable = 0, e.pnl = 0, e.shares = 0, NEW m, m = Posted(l, e)
    PROVE  Entry(l, m, 0, 0, e.payable, e.payable, 0) /\ Moves(l, m, e.inst, e.qty, 0)
  <1> DEFINE lot == Lot(e.inst, e.day, e.qty, e.gross + e.cost)
  <1>1. LotsAfter(l, e) = Append(l.lots, lot)
    BY DEF LotsAfter
  <1>2. lot \in Lots /\ lot.cost = e.payable /\ \A i : SharesOf(lot, i) = IF i = e.inst THEN e.qty ELSE 0
    BY DEF Lot, Lots, SharesOf
  <1>3. FitsLedger(l, e)
    BY DEF FitsLedger, LedgerOK, EventTypes
  <1>4. EarnedBy(e) = 0 /\ GivenBy(e) = 0
    BY DEF EarnedBy, GivenBy
  <1> HIDE DEF lot
  <1>5. l.lots \in Seq(Lots)
    BY DEF LedgerOK
  <1>6. /\ LotsAfter(l, e) \in Seq(Lots)
        /\ SumOf(LotCosts(LotsAfter(l, e))) = SumOf(LotCosts(l.lots)) + e.payable
        /\ \A i : SumOf(LotShares(LotsAfter(l, e), i))
                    = SumOf(LotShares(l.lots, i)) + (IF i = e.inst THEN e.qty ELSE 0)
    BY <1>1, <1>2, <1>5, LotAppended
  <1>7. e.payable \in Int /\ e.qty \in Int
    OBVIOUS
  <1> QED
    BY <1>3, <1>4, <1>6, <1>7, PostedEntry

\* A fill that sells takes the cost of its shares away and earns the rest.
LEMMA SellPosted ==
    ASSUME NEW l, LedgerOK(l), NEW e, e.type = "execution", e.action = "none", e.side = "sell",
           e.qty \in Nat, e.cash = 0, e.receivable \in Nat, e.payable = 0, e.shares = 0,
           NEW r, r = ReduceLots(l.lots, e.inst, e.qty), r.left = 0,
           e.pnl = e.receivable - r.removed, NEW m, m = Posted(l, e)
    PROVE  /\ r.removed \in 0..BookCost(l)
           /\ Entry(l, m, 0, e.receivable, 0, -r.removed, e.receivable - r.removed)
           /\ Moves(l, m, e.inst, -e.qty, 0)
  <1>1. LotsAfter(l, e) = r.lots
    BY DEF LotsAfter
  <1>2. l.lots \in Seq(Lots) /\ BookCost(l) = SumOf(LotCosts(l.lots)) /\ BookCost(l) \in Nat
    BY LedgerFigures
  <1>3. /\ r \in Taken
        /\ SumOf(LotCosts(r.lots)) + r.removed = SumOf(LotCosts(l.lots))
        /\ \A i : SumOf(LotShares(r.lots, i))
                    = SumOf(LotShares(l.lots, i)) - (IF i = e.inst THEN e.qty - r.left ELSE 0)
    BY <1>2, ReduceKeeps
  <1>4. r.removed \in Nat /\ r.lots \in Seq(Lots)
    BY <1>3 DEF Taken
  <1>5. SumOf(LotCosts(r.lots)) \in Nat /\ \A i : SumOf(LotShares(l.lots, i)) \in Nat
    BY <1>2, <1>4, CostsAndShares
  <1>6. SumOf(LotCosts(LotsAfter(l, e))) = SumOf(LotCosts(l.lots)) + (-r.removed)
    BY <1>1, <1>2, <1>3, <1>4, <1>5
  <1>7. r.removed \in 0..BookCost(l)
    BY <1>2, <1>3, <1>4, <1>5
  <1>8. \A i : SumOf(LotShares(LotsAfter(l, e), i))
                 = SumOf(LotShares(l.lots, i)) + (IF i = e.inst THEN -e.qty ELSE 0)
    BY <1>1, <1>3, <1>5
  <1>9. FitsLedger(l, e)
    BY <1>4 DEF FitsLedger, LedgerOK, EventTypes
  <1>10. EarnedBy(e) = e.receivable - r.removed /\ GivenBy(e) = 0
    BY <1>4 DEF EarnedBy, GivenBy, IsBooked
  <1>11. -r.removed \in Int /\ -e.qty \in Int /\ LotsAfter(l, e) \in Seq(Lots)
    BY <1>1, <1>4
  <1> QED
    BY <1>6, <1>7, <1>8, <1>9, <1>10, <1>11, PostedEntry

LEMMA LotsStay ==
    ASSUME NEW l, LedgerOK(l), NEW e, LotsAfter(l, e) = l.lots
    PROVE  /\ LotsAfter(l, e) \in Seq(Lots)
           /\ SumOf(LotCosts(LotsAfter(l, e))) = SumOf(LotCosts(l.lots)) + 0
           /\ \A i : SumOf(LotShares(LotsAfter(l, e), i))
                       = SumOf(LotShares(l.lots, i)) + (IF i = e.inst THEN 0 ELSE 0)
  <1>1. /\ l.lots \in Seq(Lots) /\ SumOf(LotCosts(l.lots)) \in Nat
        /\ \A i : SumOf(LotShares(l.lots, i)) \in Nat
    BY CostsAndShares DEF LedgerOK
  <1> QED
    BY <1>1

\* A settlement moves an amount between cash and what is owed or due.
LEMMA SettlementPosted ==
    ASSUME NEW l, LedgerOK(l), NEW e, e.type = "cash_settled", e.action = "none",
           e.cash \in Int, e.receivable \in Int, e.payable \in Int,
           l.receivables + e.receivable >= 0, l.payables + e.payable >= 0,
           e.pnl = 0, e.shares = 0, NEW m, m = Posted(l, e)
    PROVE  Entry(l, m, e.cash, e.receivable, e.payable, 0, 0) /\ Moves(l, m, e.inst, 0, 0)
  <1>1. LotsAfter(l, e) = l.lots
    BY DEF LotsAfter
  <1>2. FitsLedger(l, e)
    BY DEF FitsLedger, LedgerOK, EventTypes
  <1>3. EarnedBy(e) = 0 /\ GivenBy(e) = 0
    BY DEF EarnedBy, GivenBy, IsBooked
  <1>4. 0 \in Int
    OBVIOUS
  <1> QED
    BY <1>1, <1>2, <1>3, <1>4, LotsStay, PostedEntry

\* A mark changes prices only.
LEMMA ValuationPosted ==
    ASSUME NEW l, LedgerOK(l), NEW e, e.type = "valuation", e.action = "none",
           e.cash = 0, e.receivable = 0, e.payable = 0, e.pnl = 0, e.shares = 0,
           \A i \in Instruments : i \in DOMAIN e.prices => e.prices[i] \in Nat,
           NEW m, m = Posted(l, e)
    PROVE  Entry(l, m, 0, 0, 0, 0, 0) /\ Moves(l, m, e.inst, 0, 0)
  <1>1. LotsAfter(l, e) = l.lots
    BY DEF LotsAfter
  <1>2. FitsLedger(l, e)
    BY DEF FitsLedger, LedgerOK, EventTypes
  <1>3. EarnedBy(e) = 0 /\ GivenBy(e) = 0
    BY DEF EarnedBy, GivenBy, IsBooked
  <1>4. 0 \in Int
    OBVIOUS
  <1> QED
    BY <1>1, <1>2, <1>3, <1>4, LotsStay, PostedEntry

\* A dividend is due and earned; no share moves.
LEMMA DividendPosted ==
    ASSUME NEW l, LedgerOK(l), NEW e, e.type = "corporate_action", e.action = "cash_dividend",
           e.cash = 0, e.receivable \in Nat, e.payable = 0, e.pnl = 0, e.shares = 0,
           NEW m, m = Posted(l, e)
    PROVE  Entry(l, m, 0, e.receivable, 0, 0, e.receivable) /\ Moves(l, m, e.inst, 0, 0)
  <1>1. LotsAfter(l, e) = l.lots
    BY DEF LotsAfter
  <1>2. FitsLedger(l, e)
    BY DEF FitsLedger, LedgerOK, EventTypes
  <1>3. EarnedBy(e) = e.receivable /\ GivenBy(e) = 0
    BY DEF EarnedBy, GivenBy, IsBooked, Dividend
  <1>4. 0 \in Int
    OBVIOUS
  <1> QED
    BY <1>1, <1>2, <1>3, <1>4, LotsStay, PostedEntry

\* A bonus or a split changes the shares of the lots, and no amount.
LEMMA SharesPosted ==
    ASSUME NEW l, LedgerOK(l), NEW e, e.type = "corporate_action",
           e.action \in {"bonus_share", "share_split"},
           e.cash = 0, e.receivable = 0, e.payable = 0, e.pnl = 0, e.shares \in Int,
           PositionQuantity(l, e.inst) > 0, MayAdjust(l.lots, e.inst, e.shares),
           NEW m, m = Posted(l, e)
    PROVE  Entry(l, m, 0, 0, 0, 0, 0) /\ Moves(l, m, e.inst, e.shares, e.shares)
  <1>1. LotsAfter(l, e) = AdjustedLots(l.lots, e.inst, e.shares)
    BY DEF LotsAfter
  <1>2. /\ l.lots \in Seq(Lots) /\ SumOf(LotCosts(l.lots)) \in Nat
        /\ PositionQuantity(l, e.inst) = SumOf(LotShares(l.lots, e.inst))
    BY LedgerFigures, CostsAndShares
  <1>3. /\ LotsAfter(l, e) \in Seq(Lots)
        /\ SumOf(LotCosts(LotsAfter(l, e))) = SumOf(LotCosts(l.lots))
        /\ \A i : SumOf(LotShares(LotsAfter(l, e), i))
                    = SumOf(LotShares(l.lots, i)) + (IF i = e.inst THEN e.shares ELSE 0)
    BY <1>1, <1>2, AdjustKeeps
  <1>4. SumOf(LotCosts(LotsAfter(l, e))) = SumOf(LotCosts(l.lots)) + 0 /\ 0 \in Int
    BY <1>2, <1>3
  <1>5. FitsLedger(l, e)
    BY DEF FitsLedger, LedgerOK, EventTypes
  <1>6. EarnedBy(e) = 0 /\ GivenBy(e) = e.shares
    BY DEF EarnedBy, GivenBy, IsBooked, Dividend
  <1> QED
    BY <1>3, <1>4, <1>5, <1>6, PostedEntry

\* Subscribed shares are owed and carried at what they cost, as a purchase is.
LEMMA RightsPosted ==
    ASSUME NEW l, LedgerOK(l), NEW e, e.type = "corporate_action", e.action = "rights_issue",
           e.inst \in Instruments, e.day \in 1..Days, e.shares \in Nat \ {0}, e.payable \in Nat,
           e.cash = 0, e.receivable = 0, e.pnl = 0, NEW m, m = Posted(l, e)
    PROVE  Entry(l, m, 0, 0, e.payable, e.payable, 0) /\ Moves(l, m, e.inst, e.shares, e.shares)
  <1> DEFINE lot == Lot(e.inst, e.day, e.shares, e.payable)
  <1>1. LotsAfter(l, e) = Append(l.lots, lot)
    BY DEF LotsAfter
  <1>2. lot \in Lots /\ lot.cost = e.payable /\ \A i : SharesOf(lot, i) = IF i = e.inst THEN e.shares ELSE 0
    BY DEF Lot, Lots, SharesOf
  <1>3. FitsLedger(l, e)
    BY DEF FitsLedger, LedgerOK, EventTypes
  <1>4. EarnedBy(e) = 0 /\ GivenBy(e) = e.shares
    BY DEF EarnedBy, GivenBy, IsBooked, Dividend
  <1> HIDE DEF lot
  <1>5. l.lots \in Seq(Lots)
    BY DEF LedgerOK
  <1>6. /\ LotsAfter(l, e) \in Seq(Lots)
        /\ SumOf(LotCosts(LotsAfter(l, e))) = SumOf(LotCosts(l.lots)) + e.payable
        /\ \A i : SumOf(LotShares(LotsAfter(l, e), i))
                    = SumOf(LotShares(l.lots, i)) + (IF i = e.inst THEN e.shares ELSE 0)
    BY <1>1, <1>2, <1>5, LotAppended
  <1>7. e.payable \in Int /\ e.shares \in Int
    OBVIOUS
  <1> QED
    BY <1>3, <1>4, <1>6, <1>7, PostedEntry

\* A liquidation takes every share and its cost, and earns the rest.
LEMMA DelistingPosted ==
    ASSUME NEW l, LedgerOK(l), NEW e, e.type = "corporate_action", e.action = "delisting_liquidation",
           e.qty \in Nat, e.cash = 0, e.receivable \in Nat, e.payable = 0, e.shares = -e.qty,
           NEW r, r = ReduceLots(l.lots, e.inst, e.qty), r.left = 0,
           e.pnl = e.receivable - r.removed, NEW m, m = Posted(l, e)
    PROVE  /\ r.removed \in 0..BookCost(l)
           /\ Entry(l, m, 0, e.receivable, 0, -r.removed, e.receivable - r.removed)
           /\ Moves(l, m, e.inst, e.shares, e.shares)
  <1>1. LotsAfter(l, e) = r.lots
    BY DEF LotsAfter
  <1>2. l.lots \in Seq(Lots) /\ BookCost(l) = SumOf(LotCosts(l.lots)) /\ BookCost(l) \in Nat
    BY LedgerFigures
  <1>3. /\ r \in Taken
        /\ SumOf(LotCosts(r.lots)) + r.removed = SumOf(LotCosts(l.lots))
        /\ \A i : SumOf(LotShares(r.lots, i))
                    = SumOf(LotShares(l.lots, i)) - (IF i = e.inst THEN e.qty - r.left ELSE 0)
    BY <1>2, ReduceKeeps
  <1>4. r.removed \in Nat /\ r.lots \in Seq(Lots)
    BY <1>3 DEF Taken
  <1>5. SumOf(LotCosts(r.lots)) \in Nat /\ \A i : SumOf(LotShares(l.lots, i)) \in Nat
    BY <1>2, <1>4, CostsAndShares
  <1>6. SumOf(LotCosts(LotsAfter(l, e))) = SumOf(LotCosts(l.lots)) + (-r.removed)
    BY <1>1, <1>2, <1>3, <1>4, <1>5
  <1>7. r.removed \in 0..BookCost(l)
    BY <1>2, <1>3, <1>4, <1>5
  <1>8. \A i : SumOf(LotShares(LotsAfter(l, e), i))
                 = SumOf(LotShares(l.lots, i)) + (IF i = e.inst THEN e.shares ELSE 0)
    BY <1>1, <1>3, <1>5
  <1>9. FitsLedger(l, e)
    BY <1>4 DEF FitsLedger, LedgerOK, EventTypes
  <1>10. EarnedBy(e) = e.receivable - r.removed /\ GivenBy(e) = e.shares
    BY <1>4 DEF EarnedBy, GivenBy, IsBooked, Dividend
  <1>11. -r.removed \in Int /\ e.shares \in Int /\ LotsAfter(l, e) \in Seq(Lots)
    BY <1>1, <1>4
  <1> QED
    BY <1>6, <1>7, <1>8, <1>9, <1>10, <1>11, PostedEntry

-----------------------------------------------------------------------------
(* Orders                                                                  *)

Fills == [qty : Nat \ {0}, price : Nat \ {0}, day : 1..Days]

Statuses == OpenStatuses \cup TerminalOrderStatuses

\* An order is about so many shares of an instrument, and an open one wants more.
OrderOK(o) ==
    /\ DOMAIN o = {"intent", "status", "filled", "fills", "events"}
    /\ o.intent.inst \in Instruments /\ o.intent.side \in Sides
    /\ o.intent.target \in Nat \ {0}
    /\ o.filled \in Nat /\ o.fills \in Seq(Fills)
    /\ o.status \in Statuses
    /\ o.status \in OpenStatuses => o.filled < o.intent.target

LEMMA MovedKeeps ==
    ASSUME NEW o, OrderOK(o), NEW status \in Statuses, NEW next, next = Moved(o, status),
           status \in OpenStatuses => o.filled < o.intent.target
    PROVE  /\ OrderOK(next) /\ next.intent = o.intent /\ next.fills = o.fills
           /\ next.filled = o.filled /\ next.status = status
  BY DEF Moved, OrderOK

\* A fill of what is missing, or less, is one more fill.
LEMMA FillKeeps ==
    ASSUME NEW o, OrderOK(o), NEW qty \in Nat \ {0}, o.filled + qty <= o.intent.target,
           NEW price \in Nat \ {0}, NEW d \in 1..Days, NEW next, next = RecordFill(o, qty, price, d)
    PROVE  /\ OrderOK(next) /\ next.intent = o.intent
           /\ next.fills = Append(o.fills, [qty |-> qty, price |-> price, day |-> d])
           /\ Len(next.fills) > Len(o.fills)
           /\ Last(next.fills) = [qty |-> qty, price |-> price, day |-> d]
  <1> DEFINE fill == [qty |-> qty, price |-> price, day |-> d]
             moved == Moved(o, FillStatus(o, qty))
             status == FillStatus(o, qty)
  <1>1. /\ DOMAIN moved = {"intent", "status", "filled", "fills", "events"}
        /\ moved.intent = o.intent /\ moved.filled = o.filled /\ moved.fills = o.fills
        /\ moved.status = status
    BY DEF Moved, OrderOK
  <1>2. status \in Statuses /\ (status \in OpenStatuses => o.filled + qty < o.intent.target)
    BY DEF OrderOK, FillStatus, Statuses, OpenStatuses, TerminalOrderStatuses
  <1>3. next = [moved EXCEPT !.filled = @ + qty, !.fills = Append(@, fill)]
    BY DEF RecordFill
  <1>4. /\ o.filled \in Nat /\ o.intent.target \in Nat /\ o.fills \in Seq(Fills) /\ fill \in Fills
    BY DEF OrderOK, Fills
  <1> HIDE DEF moved, status, fill
  <1>5. /\ DOMAIN next = DOMAIN moved /\ next.intent = o.intent /\ next.status = status
        /\ next.filled = o.filled + qty /\ next.fills = Append(o.fills, fill)
    BY <1>1, <1>3
  <1>6. Append(o.fills, fill) \in Seq(Fills) /\ Len(Append(o.fills, fill)) > Len(o.fills)
        /\ Append(o.fills, fill)[Len(Append(o.fills, fill))] = fill
    BY <1>4
  <1>7. OrderOK(next)
    BY <1>1, <1>2, <1>4, <1>5, <1>6 DEF OrderOK
  <1> QED
    BY <1>5, <1>6, <1>7 DEF fill, Last

\* An execution fills what is missing or leaves the fills as they are.
LEMMA ExecuteKeeps ==
    ASSUME NEW o, OrderOK(o), NEW d \in 1..Days, Executable(o, d),
           NEW bar, bar.price \in Nat \ {0}, NEW avail, NEW next, next = Execute(o, bar, avail, d)
    PROVE  /\ OrderOK(next) /\ next.intent = o.intent
           /\ \/ next.fills = o.fills
              \/ \E fill \in Fills : /\ next.fills = Append(o.fills, fill) /\ fill.day = d
                                     /\ Len(next.fills) > Len(o.fills) /\ Last(next.fills) = fill
                                     /\ BlockingRules(o, bar, avail) = {}
                                     /\ fill.qty = RemainingQuantity(o)
  <1> DEFINE accepted == EnsureAccepted(o)
  <1>1. o.status \in OpenStatuses /\ o.filled < o.intent.target
    BY DEF Executable, OrderOK
  <1>2. /\ OrderOK(accepted) /\ accepted.intent = o.intent /\ accepted.fills = o.fills
        /\ accepted.filled = o.filled
    <2>1. "accepted" \in Statuses
      BY DEF Statuses, OpenStatuses
    <2>2. CASE o.status = "created"
      BY <1>1, <2>1, <2>2, MovedKeeps DEF EnsureAccepted, Accept
    <2>3. CASE o.status # "created"
      BY <2>3 DEF EnsureAccepted
    <2> QED
      BY <2>2, <2>3
  <1>3. CASE BlockingRules(o, bar, avail) = {}
    <2> DEFINE qty == RemainingQuantity(o)
               fill == [qty |-> qty, price |-> bar.price, day |-> d]
    <2>1. next = RecordFill(accepted, qty, bar.price, d)
      BY <1>3 DEF Execute
    <2>2. qty \in Nat \ {0} /\ accepted.filled + qty <= accepted.intent.target
      BY <1>1, <1>2 DEF RemainingQuantity, OrderOK
    <2> HIDE DEF qty, accepted
    <2>3. /\ OrderOK(next) /\ next.intent = accepted.intent
          /\ next.fills = Append(accepted.fills, fill)
          /\ Len(next.fills) > Len(accepted.fills) /\ Last(next.fills) = fill
      BY <1>2, <2>1, <2>2, FillKeeps
    <2>4. fill \in Fills /\ fill.day = d /\ fill.qty = RemainingQuantity(o)
      BY <2>2 DEF Fills, qty
    <2> QED
      BY <1>2, <1>3, <2>3, <2>4
  <1>4. CASE BlockingRules(o, bar, avail) # {}
    <2> DEFINE first == CHOOSE n \in BlockingRules(o, bar, avail) : TRUE
               policy == PolicyOf(Rules[first])
    <2>1. next = ApplyUnfilledPolicy(o, policy)
      BY <1>4 DEF Execute
    <2>2. policy \in UnfilledPolicies
      BY ExecutionConstants DEF PolicyOf, UnfilledPolicies
    <2> HIDE DEF policy
    <2>3. next \in {RejectOrder(o), Expire(accepted), accepted}
      BY <2>1, <2>2 DEF ApplyUnfilledPolicy, UnfilledPolicies
    <2>4. {"expired", "rejected"} \subseteq Statuses /\ {"expired", "rejected"} \cap OpenStatuses = {}
      BY DEF Statuses, OpenStatuses, TerminalOrderStatuses
    <2> HIDE DEF accepted
    <2>5. OrderOK(Expire(accepted)) /\ Expire(accepted).intent = o.intent /\ Expire(accepted).fills = o.fills
      BY <1>2, <2>4, MovedKeeps DEF Expire
    <2>6. OrderOK(RejectOrder(o)) /\ RejectOrder(o).intent = o.intent /\ RejectOrder(o).fills = o.fills
      <3>1. OrderOK(Expire(o)) /\ Expire(o).intent = o.intent /\ Expire(o).fills = o.fills
        BY <2>4, MovedKeeps DEF Expire
      <3>2. OrderOK(Reject(o)) /\ Reject(o).intent = o.intent /\ Reject(o).fills = o.fills
        BY <2>4, MovedKeeps DEF Reject
      <3> QED
        BY <3>1, <3>2 DEF RejectOrder
    <2> QED
      BY <1>2, <2>3, <2>5, <2>6
  <1> QED
    BY <1>3, <1>4

-----------------------------------------------------------------------------
(* Entries of the engine                                                   *)

IsList(s) == \E E : s \in Seq(E)

LEMMA ListGrows ==
    ASSUME NEW s, IsList(s), NEW e
    PROVE  /\ Len(s) \in Nat /\ DOMAIN s = 1..Len(s)
           /\ IsList(Append(s, e)) /\ Len(Append(s, e)) = Len(s) + 1
           /\ DOMAIN Append(s, e) = 1..(Len(s) + 1) /\ Append(s, e)[Len(s) + 1] = e
           /\ \A k \in 1..Len(s) : Append(s, e)[k] = s[k]
  <1>1. PICK E : s \in Seq(E)
    BY DEF IsList
  <1> DEFINE F == E \cup {e}
  <1>2. s \in Seq(F) /\ e \in F
    BY <1>1
  <1> HIDE DEF F
  <1>3. Append(s, e) \in Seq(F)
    BY <1>2
  <1> QED
    BY <1>2, <1>3 DEF IsList

\* The id of an event is its place.
Numbered(s) == IsList(s) /\ \A k \in 1..Len(s) : s[k].id = k

LEMMA NumberedGrows ==
    ASSUME NEW l, Numbered(l.events), NEW e, e.id = NextId(l)
    PROVE  /\ ~IsRepeated(l, e) /\ Apply(l, e) = Posted(l, e)
           /\ Numbered(Posted(l, e).events)
  <1>1. /\ Len(l.events) \in Nat /\ DOMAIN l.events = 1..Len(l.events)
        /\ IsList(Append(l.events, e)) /\ Len(Append(l.events, e)) = Len(l.events) + 1
        /\ Append(l.events, e)[Len(l.events) + 1] = e
        /\ \A k \in 1..Len(l.events) : Append(l.events, e)[k] = l.events[k]
    BY ListGrows DEF Numbered
  <1>2. e.id = Len(l.events) + 1
    BY DEF NextId
  <1>3. ~IsRepeated(l, e)
    BY <1>1, <1>2 DEF Numbered, IsRepeated
  <1>4. Posted(l, e).events = Append(l.events, e)
    BY DEF Posted
  <1>5. \A k \in 1..(Len(l.events) + 1) : k \in 1..Len(l.events) \/ k = Len(l.events) + 1
    BY <1>1
  <1>6. Numbered(Append(l.events, e))
    BY <1>1, <1>2, <1>5 DEF Numbered
  <1> QED
    BY <1>3, <1>4, <1>6 DEF Apply

\* What the ledger checks before it takes an event with the next number.
LEMMA Taking ==
    ASSUME NEW l, Numbered(l.events), NEW e, e.id = NextId(l), Applies(l, e)
    PROVE  /\ ValidPayload(e) /\ FitsLots(l, e)
           /\ l.receivables + e.receivable >= 0 /\ l.payables + e.payable >= 0
  BY NumberedGrows DEF Applies

\* One entry of the accounts, or none.
IsEntry(l, m) ==
    \/ \E a \in Nat \ {0} : Entry(l, m, 0, 0, a, a, 0)
    \/ \E a \in Nat \ {0}, c \in 0..BookCost(l) : Entry(l, m, 0, a, 0, -c, a - c)
    \/ \E a \in Nat \ {0} : Entry(l, m, 0, a, 0, 0, a)
    \/ \E a \in 1..l.payables : Entry(l, m, -a, 0, -a, 0, 0)
    \/ \E a \in 1..l.receivables : Entry(l, m, a, -a, 0, 0, 0)
    \/ Entry(l, m, 0, 0, 0, 0, 0)

LEMMA CostIsWhole ==
    ASSUME NEW side, NEW gross \in Nat PROVE TotalCost(side, gross) \in Nat
  <1>1. /\ CommissionBps \in Nat /\ MinCommission \in Nat /\ StampTaxBps \in Nat /\ OtherBps \in Nat
    BY ExecutionConstants
  <1>2. \A bps \in Nat : BpsAmount(gross, bps) \in Nat
    <2>1. ASSUME NEW bps \in Nat PROVE BpsAmount(gross, bps) \in Nat
      <3>1. gross * bps \in Nat
        OBVIOUS
      <3>2. \A x \in Nat : x \div 10000 \in Nat
        OBVIOUS
      <3> QED
        BY <3>1, <3>2 DEF BpsAmount
    <2> QED
      BY <2>1
  <1>3. Higher(BpsAmount(gross, CommissionBps), MinCommission) \in Nat
    BY <1>1, <1>2 DEF Higher
  <1>4. (IF side = "sell" THEN BpsAmount(gross, StampTaxBps) ELSE 0) \in Nat
    BY <1>1, <1>2
  <1>5. BpsAmount(gross, OtherBps) \in Nat
    BY <1>1, <1>2
  <1>6. \A a, b, c \in Nat : a + b + c \in Nat
    OBVIOUS
  <1> QED
    BY <1>3, <1>4, <1>5, <1>6 DEF TotalCost

\* What a fill is booked as.
IsBooking(e, l, intent, fill, cost) ==
    /\ e.id = NextId(l) /\ e.type = "execution" /\ e.action = "none"
    /\ e.inst = intent.inst /\ e.side = intent.side /\ e.qty = fill.qty /\ e.day = fill.day
    /\ e.gross = fill.qty * fill.price /\ e.gross \in Nat /\ e.cost = cost
    /\ e.cash = 0 /\ e.shares = 0
    /\ e.side = "buy" => e.payable = e.gross + e.cost /\ e.receivable = 0 /\ e.pnl = 0
    /\ e.side = "sell" => /\ e.payable = 0 /\ e.receivable = e.gross - e.cost
                          /\ e.pnl = e.gross - e.cost - ReduceLots(l.lots, e.inst, e.qty).removed

LEMMA BookingFields ==
    ASSUME NEW l, NEW intent, intent.inst \in Instruments, intent.side \in Sides,
           NEW fill \in Fills, NEW ref, NEW cost \in Nat
    PROVE  IsBooking(ExecutionEvent(l, intent, fill, ref, cost), l, intent, fill, cost)
  <1> DEFINE e == ExecutionEvent(l, intent, fill, ref, cost)
             gross == fill.qty * fill.price
             removed == ReduceLots(l.lots, intent.inst, fill.qty).removed
             booked == [BlankEvent EXCEPT !.id = NextId(l), !.type = "execution",
                          !.inst = intent.inst, !.side = intent.side, !.ref = ref,
                          !.qty = fill.qty, !.gross = gross, !.cost = cost,
                          !.day = fill.day]
             bought == [booked EXCEPT !.payable = gross + cost]
             sold == [booked EXCEPT !.receivable = gross - cost, !.pnl = gross - cost - removed]
  <1>1. gross \in Nat
    BY DEF Fills
  <1>2. e = IF intent.side = "buy" THEN bought ELSE sold
    BY DEF ExecutionEvent
  <1> HIDE DEF gross, removed, e
  <1>3. DOMAIN booked = DOMAIN BlankEvent
    OBVIOUS
  <1>4. /\ booked.id = NextId(l) /\ booked.type = "execution" /\ booked.action = "none"
        /\ booked.inst = intent.inst /\ booked.side = intent.side /\ booked.qty = fill.qty
        /\ booked.day = fill.day /\ booked.gross = gross /\ booked.cost = cost
        /\ booked.cash = 0 /\ booked.shares = 0 /\ booked.payable = 0 /\ booked.receivable = 0
        /\ booked.pnl = 0
    BY DEF BlankEvent
  <1>5. {"payable", "receivable", "pnl"} \subseteq DOMAIN booked
    BY DEF BlankEvent
  <1> HIDE DEF booked
  <1>6. CASE intent.side = "buy"
    <2>1. e = bought
      BY <1>2, <1>6
    <2>2. e.payable = gross + cost
      BY <1>5, <2>1
    <2>3. IsBooking(e, l, intent, fill, cost)
      BY <1>1, <1>4, <1>6, <2>1, <2>2 DEF gross, IsBooking
    <2> QED
      BY <2>3 DEF e
  <1>7. CASE intent.side = "sell"
    <2>1. e = sold
      BY <1>2, <1>7
    <2>2. e.receivable = gross - cost /\ e.pnl = gross - cost - removed
      BY <1>5, <2>1
    <2>3. IsBooking(e, l, intent, fill, cost)
      BY <1>1, <1>4, <1>7, <2>1, <2>2 DEF gross, removed, IsBooking
    <2> QED
      BY <2>3 DEF e
  <1> QED
    BY <1>6, <1>7 DEF Sides

\* A booked fill is an acquisition or a disposal of as many shares.
LEMMA BookKeeps ==
    ASSUME NEW l, LedgerOK(l), Numbered(l.events),
           NEW intent, intent.inst \in Instruments, intent.side \in Sides,
           NEW fill \in Fills, NEW ref, NEW cost \in Nat,
           NEW e, e = ExecutionEvent(l, intent, fill, ref, cost), Applies(l, e),
           NEW m, m = Apply(l, e)
    PROVE  /\ IsEntry(l, m) /\ LedgerOK(m) /\ Numbered(m.events)
           /\ Moves(l, m, intent.inst, IF intent.side = "buy" THEN fill.qty ELSE -fill.qty, 0)
  <1>1. /\ e.id = NextId(l) /\ e.type = "execution" /\ e.action = "none"
        /\ e.inst = intent.inst /\ e.side = intent.side /\ e.qty = fill.qty /\ e.day = fill.day
        /\ e.gross = fill.qty * fill.price /\ e.gross \in Nat /\ e.cost = cost
        /\ e.cash = 0 /\ e.shares = 0
        /\ e.side = "buy" => e.payable = e.gross + e.cost /\ e.receivable = 0 /\ e.pnl = 0
        /\ e.side = "sell" => /\ e.payable = 0 /\ e.receivable = e.gross - e.cost
                              /\ e.pnl = e.gross - e.cost - ReduceLots(l.lots, e.inst, e.qty).removed
    <2>1. IsBooking(e, l, intent, fill, cost)
      BY BookingFields
    <2> QED
      BY <2>1 DEF IsBooking
  <1>2. fill.qty \in Nat \ {0} /\ fill.day \in 1..Days
    BY DEF Fills
  <1>3. m = Posted(l, e) /\ Numbered(m.events) /\ ValidPayload(e) /\ FitsLots(l, e)
    BY <1>1, NumberedGrows, Taking
  <1>4. CASE intent.side = "buy"
    <2>1. Entry(l, m, 0, 0, e.payable, e.payable, 0) /\ Moves(l, m, e.inst, e.qty, 0)
      BY <1>1, <1>2, <1>3, <1>4, BuyPosted
    <2>2. e.payable \in Nat \ {0}
      BY <1>1, <1>3, <1>4 DEF ValidPayload
    <2>3. IsEntry(l, m)
      BY <2>1, <2>2 DEF IsEntry
    <2> QED
      BY <1>1, <1>3, <1>4, <2>1, <2>3 DEF Entry
  <1>5. CASE intent.side = "sell"
    <2> DEFINE r == ReduceLots(l.lots, e.inst, e.qty)
    <2>1. e.receivable > 0 /\ r.left = 0
      BY <1>1, <1>3, <1>5 DEF ValidPayload, FitsLots
    <2>2. e.receivable \in Nat \ {0} /\ e.pnl = e.receivable - r.removed
      BY <1>1, <1>5, <2>1
    <2> HIDE DEF r
    <2>3. /\ r.removed \in 0..BookCost(l)
          /\ Entry(l, m, 0, e.receivable, 0, -r.removed, e.receivable - r.removed)
          /\ Moves(l, m, e.inst, -e.qty, 0)
      <3>1. r = ReduceLots(l.lots, e.inst, e.qty)
        BY DEF r
      <3> QED
        BY <1>1, <1>2, <1>3, <1>5, <2>1, <2>2, <3>1, SellPosted
    <2>4. IsEntry(l, m)
      BY <2>2, <2>3 DEF IsEntry
    <2> QED
      BY <1>1, <1>3, <1>5, <2>3, <2>4 DEF Entry
  <1> QED
    BY <1>4, <1>5 DEF Sides

\* An amount that is settled leaves what is owed or due, and cash has it.
LEMMA DebtSettled ==
    ASSUME NEW l, LedgerOK(l), Numbered(l.events), l.payables > 0, NEW ref,
           NEW e, e = SettlePayableEvent(l, l.payables, ref), NEW m, m = Apply(l, e)
    PROVE  IsEntry(l, m) /\ LedgerOK(m) /\ Numbered(m.events) /\ Moves(l, m, e.inst, 0, 0)
  <1> DEFINE a == l.payables
  <1>1. a \in 1..l.payables /\ a \in Nat /\ l.receivables \in Nat
    BY DEF LedgerOK
  <1>2. /\ e.id = NextId(l) /\ e.type = "cash_settled" /\ e.action = "none"
        /\ e.cash = -a /\ e.payable = -a /\ e.receivable = 0 /\ e.pnl = 0 /\ e.shares = 0
    BY DEF SettlePayableEvent, BlankEvent
  <1>3. m = Posted(l, e) /\ Numbered(m.events)
    BY <1>2, NumberedGrows
  <1>4. /\ e.cash \in Int /\ e.receivable \in Int /\ e.payable \in Int
        /\ l.receivables + e.receivable >= 0 /\ l.payables + e.payable >= 0
    BY <1>1, <1>2
  <1>5. Entry(l, m, e.cash, e.receivable, e.payable, 0, 0) /\ Moves(l, m, e.inst, 0, 0)
    BY <1>2, <1>3, <1>4, SettlementPosted
  <1>6. Entry(l, m, -a, 0, -a, 0, 0)
    BY <1>2, <1>5
  <1> HIDE DEF a
  <1> QED
    BY <1>1, <1>3, <1>5, <1>6 DEF IsEntry, Entry

LEMMA ClaimSettled ==
    ASSUME NEW l, LedgerOK(l), Numbered(l.events), l.receivables > 0, NEW ref,
           NEW e, e = SettleReceivableEvent(l, l.receivables, ref), NEW m, m = Apply(l, e)
    PROVE  IsEntry(l, m) /\ LedgerOK(m) /\ Numbered(m.events) /\ Moves(l, m, e.inst, 0, 0)
  <1> DEFINE a == l.receivables
  <1>1. a \in 1..l.receivables /\ a \in Nat /\ l.payables \in Nat
    BY DEF LedgerOK
  <1>2. /\ e.id = NextId(l) /\ e.type = "cash_settled" /\ e.action = "none"
        /\ e.cash = a /\ e.payable = 0 /\ e.receivable = -a /\ e.pnl = 0 /\ e.shares = 0
    BY DEF SettleReceivableEvent, BlankEvent
  <1>3. m = Posted(l, e) /\ Numbered(m.events)
    BY <1>2, NumberedGrows
  <1>4. /\ e.cash \in Int /\ e.receivable \in Int /\ e.payable \in Int
        /\ l.receivables + e.receivable >= 0 /\ l.payables + e.payable >= 0
    BY <1>1, <1>2
  <1>5. Entry(l, m, e.cash, e.receivable, e.payable, 0, 0) /\ Moves(l, m, e.inst, 0, 0)
    BY <1>2, <1>3, <1>4, SettlementPosted
  <1>6. Entry(l, m, a, -a, 0, 0, 0)
    BY <1>2, <1>5
  <1> HIDE DEF a
  <1> QED
    BY <1>1, <1>3, <1>5, <1>6 DEF IsEntry, Entry

\* A mark at natural prices is no entry of the accounts.
LEMMA MarkKeeps ==
    ASSUME NEW l, LedgerOK(l), Numbered(l.events), NEW S, NEW prices \in [S -> Nat], NEW d,
           NEW e, e = ValuationEvent(l, prices, d), NEW m, m = Apply(l, e)
    PROVE  IsEntry(l, m) /\ LedgerOK(m) /\ Numbered(m.events) /\ Moves(l, m, e.inst, 0, 0)
  <1>1. /\ e.id = NextId(l) /\ e.type = "valuation" /\ e.action = "none"
        /\ e.cash = 0 /\ e.payable = 0 /\ e.receivable = 0 /\ e.pnl = 0 /\ e.shares = 0
        /\ e.prices = prices
    BY DEF ValuationEvent, BlankEvent
  <1>2. m = Posted(l, e) /\ Numbered(m.events)
    BY <1>1, NumberedGrows
  <1>3. \A i \in Instruments : i \in DOMAIN e.prices => e.prices[i] \in Nat
    BY <1>1
  <1>4. Entry(l, m, 0, 0, 0, 0, 0) /\ Moves(l, m, e.inst, 0, 0)
    BY <1>1, <1>2, <1>3, ValuationPosted
  <1> QED
    BY <1>2, <1>4 DEF IsEntry, Entry

IsActionOn(e, l, kind, inst, d) ==
    /\ DOMAIN e = DOMAIN BlankEvent
    /\ e.id = NextId(l) /\ e.type = "corporate_action" /\ e.action = kind
    /\ e.inst = inst /\ e.day = d /\ e.qty = PositionQuantity(l, inst)
    /\ e.cash = 0 /\ e.receivable = 0 /\ e.payable = 0 /\ e.pnl = 0 /\ e.shares = 0

LEMMA ActionFields ==
    ASSUME NEW l, NEW kind, NEW inst, NEW ref, NEW d
    PROVE  IsActionOn(ActionEvent(l, kind, inst, ref, d), l, kind, inst, d)
  BY DEF ActionEvent, IsActionOn, BlankEvent

LEMMA DividendKeeps ==
    ASSUME NEW l, LedgerOK(l), Numbered(l.events), NEW inst \in Instruments, PositionQuantity(l, inst) > 0,
           NEW ref, NEW d \in 1..Days, NEW num \in Nat \ {0},
           NEW e, e = CashDividendEvent(l, inst, ref, d, num), NEW m, m = Apply(l, e)
    PROVE  /\ IsEntry(l, m) /\ LedgerOK(m) /\ Numbered(m.events)
           /\ e.shares \in Int /\ Moves(l, m, inst, e.shares, e.shares)
  <1> DEFINE base == ActionEvent(l, "cash_dividend", inst, ref, d)
             held == PositionQuantity(l, inst)
  <1>1. IsActionOn(base, l, "cash_dividend", inst, d)
    BY ActionFields
  <1>2. e = [base EXCEPT !.receivable = held * num]
    BY DEF CashDividendEvent
  <1>3. held \in Nat \ {0}
    BY LedgerFigures
  <1> HIDE DEF base, held
  <1>4. /\ e.id = NextId(l) /\ e.type = "corporate_action" /\ e.action = "cash_dividend"
        /\ e.inst = inst /\ e.cash = 0 /\ e.payable = 0 /\ e.pnl = 0 /\ e.shares = 0
        /\ e.receivable = held * num
    BY <1>1, <1>2 DEF IsActionOn, BlankEvent
  <1>5. e.receivable \in Nat \ {0}
    BY <1>3, <1>4
  <1>6. m = Posted(l, e) /\ Numbered(m.events)
    BY <1>4, NumberedGrows
  <1>7. Entry(l, m, 0, e.receivable, 0, 0, e.receivable) /\ Moves(l, m, e.inst, 0, 0)
    BY <1>4, <1>5, <1>6, DividendPosted
  <1> QED
    BY <1>4, <1>5, <1>6, <1>7 DEF IsEntry, Entry

LEMMA BonusKeeps ==
    ASSUME NEW l, LedgerOK(l), Numbered(l.events), NEW inst \in Instruments, PositionQuantity(l, inst) > 0,
           NEW ref, NEW d \in 1..Days, NEW num \in Nat \ {0},
           NEW e, e = BonusShareEvent(l, inst, ref, d, num), Applies(l, e), NEW m, m = Apply(l, e)
    PROVE  /\ IsEntry(l, m) /\ LedgerOK(m) /\ Numbered(m.events)
           /\ e.shares \in Int /\ Moves(l, m, inst, e.shares, e.shares)
  <1> DEFINE base == ActionEvent(l, "bonus_share", inst, ref, d)
             held == PositionQuantity(l, inst)
  <1>1. IsActionOn(base, l, "bonus_share", inst, d)
    BY ActionFields
  <1>2. e = [base EXCEPT !.shares = held * num]
    BY DEF BonusShareEvent
  <1>3. held \in Nat \ {0}
    BY LedgerFigures
  <1> HIDE DEF base, held
  <1>4. /\ e.id = NextId(l) /\ e.type = "corporate_action" /\ e.action = "bonus_share"
        /\ e.inst = inst /\ e.cash = 0 /\ e.receivable = 0 /\ e.payable = 0 /\ e.pnl = 0
        /\ e.shares = held * num
    BY <1>1, <1>2 DEF IsActionOn, BlankEvent
  <1>5. e.shares \in Int
    BY <1>3, <1>4
  <1>6. m = Posted(l, e) /\ Numbered(m.events) /\ FitsLots(l, e)
    BY <1>4, NumberedGrows, Taking
  <1>7. MayAdjust(l.lots, e.inst, e.shares)
    BY <1>4, <1>6 DEF FitsLots
  <1>8. e.action \in {"bonus_share", "share_split"} /\ PositionQuantity(l, e.inst) > 0
    BY <1>4
  <1>9. Entry(l, m, 0, 0, 0, 0, 0) /\ Moves(l, m, e.inst, e.shares, e.shares)
    BY <1>4, <1>5, <1>6, <1>7, <1>8, SharesPosted
  <1> QED
    BY <1>4, <1>5, <1>6, <1>9 DEF IsEntry, Entry

LEMMA SplitKeeps ==
    ASSUME NEW l, LedgerOK(l), Numbered(l.events), NEW inst \in Instruments, PositionQuantity(l, inst) > 0,
           NEW ref, NEW d \in 1..Days, NEW num \in Nat \ {0}, NEW den \in Nat \ {0},
           NEW e, e = ShareSplitEvent(l, inst, ref, d, num, den), Applies(l, e), NEW m, m = Apply(l, e)
    PROVE  /\ IsEntry(l, m) /\ LedgerOK(m) /\ Numbered(m.events)
           /\ e.shares \in Int /\ Moves(l, m, inst, e.shares, e.shares)
  <1> DEFINE base == ActionEvent(l, "share_split", inst, ref, d)
             held == PositionQuantity(l, inst)
  <1>1. IsActionOn(base, l, "share_split", inst, d)
    BY ActionFields
  <1>2. e = [base EXCEPT !.shares = (held * num) \div den - held]
    BY DEF ShareSplitEvent
  <1>3. held \in Nat \ {0}
    BY LedgerFigures
  <1> HIDE DEF base, held
  <1>4. /\ e.id = NextId(l) /\ e.type = "corporate_action" /\ e.action = "share_split"
        /\ e.inst = inst /\ e.cash = 0 /\ e.receivable = 0 /\ e.payable = 0 /\ e.pnl = 0
        /\ e.shares = (held * num) \div den - held
    BY <1>1, <1>2 DEF IsActionOn, BlankEvent
  <1>5. e.shares \in Int
    BY <1>3, <1>4
  <1>6. m = Posted(l, e) /\ Numbered(m.events) /\ FitsLots(l, e)
    BY <1>4, NumberedGrows, Taking
  <1>7. MayAdjust(l.lots, e.inst, e.shares)
    BY <1>4, <1>6 DEF FitsLots
  <1>8. e.action \in {"bonus_share", "share_split"} /\ PositionQuantity(l, e.inst) > 0
    BY <1>4
  <1>9. Entry(l, m, 0, 0, 0, 0, 0) /\ Moves(l, m, e.inst, e.shares, e.shares)
    BY <1>4, <1>5, <1>6, <1>7, <1>8, SharesPosted
  <1> QED
    BY <1>4, <1>5, <1>6, <1>9 DEF IsEntry, Entry

LEMMA RightsKeep ==
    ASSUME NEW l, LedgerOK(l), Numbered(l.events), NEW inst \in Instruments, PositionQuantity(l, inst) > 0,
           NEW ref, NEW d \in 1..Days, NEW num \in Nat \ {0}, NEW den \in Nat \ {0},
           NEW e, e = RightsIssueEvent(l, inst, ref, d, num, den), NEW m, m = Apply(l, e)
    PROVE  /\ IsEntry(l, m) /\ LedgerOK(m) /\ Numbered(m.events)
           /\ e.shares \in Int /\ Moves(l, m, inst, e.shares, e.shares)
  <1> DEFINE base == ActionEvent(l, "rights_issue", inst, ref, d)
             delta == PositionQuantity(l, inst) * num
  <1>1. IsActionOn(base, l, "rights_issue", inst, d)
    BY ActionFields
  <1>2. e = [base EXCEPT !.shares = delta, !.payable = delta * den]
    BY DEF RightsIssueEvent
  <1>3. delta \in Nat \ {0}
    <2>1. PositionQuantity(l, inst) \in Nat \ {0}
      BY LedgerFigures
    <2> QED
      BY <2>1
  <1>4. delta * den \in Nat \ {0}
    BY <1>3
  <1> HIDE DEF base, delta
  <1>5. /\ e.id = NextId(l) /\ e.type = "corporate_action" /\ e.action = "rights_issue"
        /\ e.inst = inst /\ e.day = d /\ e.cash = 0 /\ e.receivable = 0 /\ e.pnl = 0
        /\ e.shares = delta /\ e.payable = delta * den
    BY <1>1, <1>2 DEF IsActionOn, BlankEvent
  <1>6. m = Posted(l, e) /\ Numbered(m.events)
    BY <1>5, NumberedGrows
  <1>7. e.shares \in Nat \ {0} /\ e.payable \in Nat \ {0}
    BY <1>3, <1>4, <1>5
  <1>8. Entry(l, m, 0, 0, e.payable, e.payable, 0) /\ Moves(l, m, e.inst, e.shares, e.shares)
    BY <1>5, <1>6, <1>7, RightsPosted
  <1> QED
    BY <1>5, <1>6, <1>7, <1>8 DEF IsEntry, Entry

LEMMA DelistingKeeps ==
    ASSUME NEW l, LedgerOK(l), Numbered(l.events), NEW inst \in Instruments, PositionQuantity(l, inst) > 0,
           NEW ref, NEW d \in 1..Days, NEW num \in Nat \ {0},
           NEW e, e = DelistingEvent(l, inst, ref, d, num), Applies(l, e), NEW m, m = Apply(l, e)
    PROVE  /\ IsEntry(l, m) /\ LedgerOK(m) /\ Numbered(m.events)
           /\ e.shares \in Int /\ Moves(l, m, inst, e.shares, e.shares)
  <1> DEFINE base == ActionEvent(l, "delisting_liquidation", inst, ref, d)
             held == PositionQuantity(l, inst)
             r == ReduceLots(l.lots, inst, held)
  <1>1. IsActionOn(base, l, "delisting_liquidation", inst, d)
    BY ActionFields
  <1>2. e = [base EXCEPT !.shares = -held, !.receivable = held * num, !.pnl = held * num - r.removed]
    BY DEF DelistingEvent
  <1>3. held \in Nat \ {0}
    BY LedgerFigures
  <1>4. held * num \in Nat \ {0} /\ base.qty = held
    BY <1>1, <1>3 DEF IsActionOn
  <1>5. r = ReduceLots(l.lots, inst, held)
    OBVIOUS
  <1> HIDE DEF base, held, r
  <1>6. /\ e.id = NextId(l) /\ e.type = "corporate_action" /\ e.action = "delisting_liquidation"
        /\ e.inst = inst /\ e.day = d /\ e.cash = 0 /\ e.payable = 0 /\ e.qty = held
        /\ e.shares = -held /\ e.receivable = held * num /\ e.pnl = held * num - r.removed
    BY <1>1, <1>2, <1>4 DEF IsActionOn, BlankEvent
  <1>7. m = Posted(l, e) /\ Numbered(m.events) /\ FitsLots(l, e)
    BY <1>6, NumberedGrows, Taking
  <1>8. r.left = 0
    BY <1>5, <1>6, <1>7 DEF FitsLots
  <1>9. /\ e.qty \in Nat /\ e.receivable \in Nat \ {0} /\ e.shares = -e.qty
        /\ r = ReduceLots(l.lots, e.inst, e.qty) /\ e.pnl = e.receivable - r.removed
    BY <1>3, <1>4, <1>5, <1>6
  <1>10. /\ r.removed \in 0..BookCost(l)
         /\ Entry(l, m, 0, e.receivable, 0, -r.removed, e.receivable - r.removed)
         /\ Moves(l, m, e.inst, e.shares, e.shares)
    BY <1>6, <1>7, <1>8, <1>9, DelistingPosted
  <1>11. IsEntry(l, m)
    BY <1>9, <1>10 DEF IsEntry
  <1> QED
    BY <1>6, <1>7, <1>9, <1>10, <1>11 DEF Entry

\* The event of a corporate action of the plan is an entry of the accounts.
LEMMA ActionKeeps ==
    ASSUME LedgerOK(ledger), Numbered(ledger.events), day \in 1..Days, NEW a \in ActionPlan,
           PositionQuantity(ledger, a.inst) > 0, NEW e, e = EventOf(a), Applies(ledger, e),
           NEW m, m = Apply(ledger, e)
    PROVE  /\ IsEntry(ledger, m) /\ LedgerOK(m) /\ Numbered(m.events)
           /\ e.shares \in Int /\ Moves(ledger, m, a.inst, e.shares, e.shares)
  <1>1. a.kind \in CorporateActionTypes /\ a.inst \in Instruments /\ a.num \in Nat \ {0} /\ a.den \in Nat \ {0}
    BY EngineConstants
  <1>2. CASE a.kind = "cash_dividend"
    <2>1. e = CashDividendEvent(ledger, a.inst, a.ref, day, a.num)
      BY <1>2 DEF EventOf
    <2> QED
      BY <1>1, <2>1, DividendKeeps
  <1>3. CASE a.kind = "bonus_share"
    <2>1. e = BonusShareEvent(ledger, a.inst, a.ref, day, a.num)
      BY <1>3 DEF EventOf
    <2> QED
      BY <1>1, <2>1, BonusKeeps
  <1>4. CASE a.kind = "share_split"
    <2>1. e = ShareSplitEvent(ledger, a.inst, a.ref, day, a.num, a.den)
      BY <1>4 DEF EventOf
    <2> QED
      BY <1>1, <2>1, SplitKeeps
  <1>5. CASE a.kind = "rights_issue"
    <2>1. e = RightsIssueEvent(ledger, a.inst, a.ref, day, a.num, a.den)
      BY <1>5 DEF EventOf
    <2> QED
      BY <1>1, <2>1, RightsKeep
  <1>6. CASE a.kind = "delisting_liquidation"
    <2>1. e = DelistingEvent(ledger, a.inst, a.ref, day, a.num)
      BY <1>6 DEF EventOf
    <2> QED
      BY <1>1, <2>1, DelistingKeeps
  <1> QED
    BY <1>1, <1>2, <1>3, <1>4, <1>5, <1>6 DEF CorporateActionTypes

-----------------------------------------------------------------------------
(* What the orders filled                                                  *)

\* SetToSeq lists every element of a finite set once.
LEMMA SetInOrder ==
    ASSUME NEW S, IsFiniteSet(S), NEW seq, seq = SetToSeq(S)
    PROVE  /\ Cardinality(S) \in Nat
           /\ seq \in [1..Cardinality(S) -> S] /\ seq \in Seq(S) /\ Len(seq) = Cardinality(S)
           /\ \A a, b \in 1..Cardinality(S) : seq[a] = seq[b] => a = b
           /\ \A x \in S : \E k \in 1..Cardinality(S) : seq[k] = x
  <1> DEFINE n == Cardinality(S)
  <1>1. n \in Nat /\ ExistsBijection(1..n, S)
    BY FS_CardinalityType
  <1>2. PICK f \in Bijection(1..n, S) : TRUE
    BY <1>1 DEF ExistsBijection
  <1>3. f \in [1..n -> S] /\ \A a, b \in 1..n : f[a] = f[b] => a = b
    BY <1>2 DEF Bijection, Injection, IsInjective
  <1>4. IsInjective(f)
    BY <1>3 DEF IsInjective
  <1>5. seq \in [1..n -> S] /\ IsInjective(seq)
    BY <1>3, <1>4 DEF SetToSeq
  <1>6. \A a, b \in 1..n : seq[a] = seq[b] => a = b
    BY <1>5 DEF IsInjective
  <1>7. IsFiniteSet(1..n) /\ Cardinality(1..n) = n
    BY <1>1, FS_Interval
  <1>8. seq \in Injection(1..n, S)
    BY <1>5, <1>6 DEF Injection
  <1>9. seq \in Surjection(1..n, S)
    BY <1>7, <1>8, FS_Injection
  <1>10. \A x \in S : \E k \in 1..n : seq[k] = x
    BY <1>9 DEF Surjection
  <1>11. seq \in Seq(S) /\ Len(seq) = n
    BY <1>1, <1>5, IsSequence
  <1> QED
    BY <1>1, <1>5, <1>6, <1>10, <1>11

FillSizes(o) == [n \in DOMAIN o.fills |-> o.fills[n].qty]

\* What order id filled of inst on a side.
Amount(os, inst, side, id) ==
    IF id \in DOMAIN os /\ os[id].intent.inst = inst /\ os[id].intent.side = side
    THEN SumOf(FillSizes(os[id])) ELSE 0

OrderSeq == SetToSeq(OrderIds)

Amounts(os, inst, side) == [k \in DOMAIN OrderSeq |-> Amount(os, inst, side, OrderSeq[k])]

FilledIn(os, inst, side) == SumOf(Amounts(os, inst, side))

OrdersOK(os) == DOMAIN os \subseteq OrderIds /\ \A id \in DOMAIN os : OrderOK(os[id])

LEMMA FilledIsSum == \A inst, side : Filled(inst, side) = FilledIn(orders, inst, side)
  <1> SUFFICES ASSUME NEW inst, NEW side PROVE Filled(inst, side) = FilledIn(orders, inst, side)
    OBVIOUS
  <1> DEFINE mine == {id \in DOMAIN orders : orders[id].intent.inst = inst /\ orders[id].intent.side = side}
             all == [k \in DOMAIN OrderSeq |->
                       IF OrderSeq[k] \in mine THEN SumOf(FillSizes(orders[OrderSeq[k]])) ELSE 0]
  <1>1. Filled(inst, side) = SumOf(all)
    BY DEF Filled, Total, FillSizes, OrderSeq
  <1>2. all = Amounts(orders, inst, side)
    BY DEF Amounts, Amount
  <1> HIDE DEF all
  <1> QED
    BY <1>1, <1>2 DEF FilledIn

LEMMA FillsAreWhole ==
    ASSUME NEW o, OrderOK(o)
    PROVE  /\ FillSizes(o) \in Seq(Nat) /\ SumOf(FillSizes(o)) \in Nat
           /\ \A fill \in Fills : \A next : OrderOK(next) /\ next.fills = Append(o.fills, fill)
                => SumOf(FillSizes(next)) = SumOf(FillSizes(o)) + fill.qty
  <1>1. /\ o.fills \in Seq(Fills) /\ Len(o.fills) \in Nat /\ DOMAIN o.fills = 1..Len(o.fills)
        /\ \A k \in 1..Len(o.fills) : o.fills[k] \in Fills
    BY Elements DEF OrderOK
  <1>2. FillSizes(o) \in [1..Len(o.fills) -> Nat]
    BY <1>1 DEF FillSizes, Fills
  <1>3. FillSizes(o) \in Seq(Nat)
    BY <1>1, <1>2, IsSequence
  <1>4. FillSizes(o) \in Seq(Int) /\ Len(FillSizes(o)) = Len(o.fills)
    <2>1. FillSizes(o) \in [1..Len(o.fills) -> Int]
      BY <1>2
    <2> QED
      BY <1>1, <2>1, IsSequence
  <1>5. ASSUME NEW fill \in Fills, NEW next, OrderOK(next), next.fills = Append(o.fills, fill)
        PROVE  SumOf(FillSizes(next)) = SumOf(FillSizes(o)) + fill.qty
    <2>1. fill.qty \in Int
      BY DEF Fills
    <2>2. FillSizes(next) = Append(FillSizes(o), fill.qty)
      <3> DEFINE n == Len(o.fills)
                 more == Append(o.fills, fill)
      <3>1. /\ DOMAIN more = 1..(n + 1) /\ more[n + 1] = fill
            /\ \A k \in 1..n : more[k] = o.fills[k]
        BY <1>1
      <3>2. /\ Append(FillSizes(o), fill.qty) = [k \in 1..(n + 1) |-> IF k = n + 1 THEN fill.qty ELSE FillSizes(o)[k]]
        BY <1>4, <2>1
      <3> HIDE DEF more
      <3>3. FillSizes(next) = [k \in 1..(n + 1) |-> more[k].qty]
        BY <1>5, <3>1 DEF FillSizes, more
      <3>4. \A k \in 1..(n + 1) : more[k].qty = IF k = n + 1 THEN fill.qty ELSE FillSizes(o)[k]
        <4>1. \A k \in 1..n : FillSizes(o)[k] = o.fills[k].qty
          BY <1>1 DEF FillSizes
        <4>2. \A k \in 1..(n + 1) : k = n + 1 \/ k \in 1..n
          BY <1>1
        <4> QED
          BY <3>1, <4>1, <4>2
      <3> QED
        BY <3>2, <3>3, <3>4
    <2> QED
      BY <1>4, <2>1, <2>2, SumOfAppend
  <1> QED
    BY <1>3, <1>5, SumOfNaturals

LEMMA AmountsAreWhole ==
    ASSUME NEW os, OrdersOK(os), NEW inst, NEW side
    PROVE  /\ Amounts(os, inst, side) \in Seq(Int) /\ Len(Amounts(os, inst, side)) = Cardinality(OrderIds)
           /\ DOMAIN OrderSeq = 1..Cardinality(OrderIds) /\ FilledIn(os, inst, side) \in Int
           /\ \A k \in 1..Cardinality(OrderIds) : Amounts(os, inst, side)[k] = Amount(os, inst, side, OrderSeq[k])
  <1> DEFINE n == Cardinality(OrderIds)
  <1>1. n \in Nat /\ DOMAIN OrderSeq = 1..n
    BY EngineConstants, SetInOrder DEF OrderSeq
  <1>2. \A id : Amount(os, inst, side, id) \in Int
    BY FillsAreWhole DEF OrdersOK, Amount
  <1> HIDE DEF n
  <1>3. Amounts(os, inst, side) \in [1..n -> Int]
    BY <1>1, <1>2 DEF Amounts
  <1>4. Amounts(os, inst, side) \in Seq(Int) /\ Len(Amounts(os, inst, side)) = n
    BY <1>1, <1>3, IsSequence
  <1> QED
    BY <1>1, <1>4, SumIsInteger DEF n, Amounts, FilledIn

\* Orders that have filled nothing change no amount.
LEMMA SameAmounts ==
    ASSUME NEW os, NEW ns, NEW inst, NEW side,
           \A id \in OrderIds : Amount(ns, inst, side, id) = Amount(os, inst, side, id)
    PROVE  FilledIn(ns, inst, side) = FilledIn(os, inst, side)
  <1>1. \A k \in DOMAIN OrderSeq : OrderSeq[k] \in OrderIds
    BY EngineConstants, SetInOrder DEF OrderSeq
  <1>2. Amounts(ns, inst, side) = Amounts(os, inst, side)
    BY <1>1 DEF Amounts
  <1> QED
    BY <1>2 DEF FilledIn

\* Only order id becomes another.
OneChanged(os, ns, id, o) ==
    DOMAIN ns = DOMAIN os /\ ns[id] = o /\ \A j \in DOMAIN os : j # id => ns[j] = os[j]

\* Every order is listed once.
LEMMA OrdersInOrder ==
    /\ \A a, b \in 1..Cardinality(OrderIds) : OrderSeq[a] = OrderSeq[b] => a = b
    /\ \A x \in OrderIds : \E k \in 1..Cardinality(OrderIds) : OrderSeq[k] = x
  <1>1. IsFiniteSet(OrderIds) /\ OrderSeq = SetToSeq(OrderIds)
    BY EngineConstants DEF OrderSeq
  <1> QED
    BY ONLY <1>1, SetInOrder, SMTT(30)

\* A change of one order changes what was filled by as much.
LEMMA OneOrderFills ==
    ASSUME NEW os, OrdersOK(os), NEW id \in DOMAIN os, NEW o, OrderOK(o), o.intent = os[id].intent,
           NEW ns, OneChanged(os, ns, id, o),
           NEW qty \in Int, SumOf(FillSizes(o)) = SumOf(FillSizes(os[id])) + qty,
           NEW inst, NEW side
    PROVE  /\ OrdersOK(ns)
           /\ FilledIn(ns, inst, side)
                = FilledIn(os, inst, side)
                  + (IF o.intent.inst = inst /\ o.intent.side = side THEN qty ELSE 0)
  <1> DEFINE n == Cardinality(OrderIds)
             gained == IF o.intent.inst = inst /\ o.intent.side = side THEN qty ELSE 0
  <1>1. DOMAIN ns = DOMAIN os /\ ns[id] = o /\ \A j \in DOMAIN os : j # id => ns[j] = os[j]
    BY DEF OneChanged
  <1>2. OrdersOK(ns)
    BY <1>1 DEF OrdersOK
  <1>3. id \in OrderIds /\ SumOf(FillSizes(os[id])) \in Int
    BY FillsAreWhole DEF OrdersOK
  <1>4. PICK c \in 1..n : OrderSeq[c] = id /\ \A k \in 1..n : k # c => OrderSeq[k] # id
    <2>1. /\ \A a, b \in 1..n : OrderSeq[a] = OrderSeq[b] => a = b
          /\ \A x \in OrderIds : \E k \in 1..n : OrderSeq[k] = x
      BY OrdersInOrder
    <2> HIDE DEF n
    <2>2. PICK c \in 1..n : OrderSeq[c] = id
      BY <1>3, <2>1
    <2> QED
      BY <2>1, <2>2
  <1>5. /\ Amounts(os, inst, side) \in Seq(Int) /\ Len(Amounts(os, inst, side)) = n
        /\ Amounts(ns, inst, side) \in Seq(Int) /\ Len(Amounts(ns, inst, side)) = n
        /\ \A k \in 1..n : /\ Amounts(os, inst, side)[k] = Amount(os, inst, side, OrderSeq[k])
                           /\ Amounts(ns, inst, side)[k] = Amount(ns, inst, side, OrderSeq[k])
    BY <1>2, AmountsAreWhole
  <1>6. \A j : j # id => Amount(ns, inst, side, j) = Amount(os, inst, side, j)
    BY <1>1 DEF Amount
  <1>7. Amount(ns, inst, side, id) = Amount(os, inst, side, id) + gained /\ Amount(os, inst, side, id) \in Int
    BY <1>1, <1>3 DEF Amount
  <1>8. gained \in Int
    OBVIOUS
  <1> HIDE DEF gained, n
  <1> DEFINE before == Amounts(os, inst, side)
             after == Amounts(ns, inst, side)
  <1>9. SumOf(after) = SumOf(before) - before[c] + after[c]
    <2>1. \A k \in 1..n : k # c => before[k] = after[k]
      BY <1>4, <1>5, <1>6
    <2>2. before \in Seq(Int) /\ after \in Seq(Int) /\ Len(before) = n /\ Len(after) = n
      BY <1>5
    <2> HIDE DEF before, after
    <2> QED
      BY <2>1, <2>2, SumOfChange
  <1>10. SumOf(before) \in Int /\ before[c] \in Int /\ after[c] = before[c] + gained
    BY <1>4, <1>5, <1>7, AmountsAreWhole DEF FilledIn
  <1> HIDE DEF before, after
  <1>11. SumOf(after) = SumOf(before) + gained
    BY <1>8, <1>9, <1>10
  <1> QED
    BY <1>2, <1>11 DEF gained, FilledIn, before, after

-----------------------------------------------------------------------------
(* Plans                                                                   *)

LEMMA EquityIsWhole == ASSUME NEW l, LedgerOK(l) PROVE Equity(l) \in Int
  <1> DEFINE n == Len(l.lots)
             values == [k \in DOMAIN l.lots |-> l.lots[k].qty * l.prices[l.lots[k].inst]]
  <1>1. /\ l.cash \in Int /\ l.receivables \in Nat /\ l.payables \in Nat
        /\ l.prices \in [Instruments -> Nat] /\ n \in Nat /\ DOMAIN l.lots = 1..n
        /\ \A k \in 1..n : l.lots[k] \in Lots
    BY Elements DEF LedgerOK
  <1>2. \A k \in 1..n : l.lots[k].qty * l.prices[l.lots[k].inst] \in Int
    <2>1. ASSUME NEW k \in 1..n PROVE l.lots[k].qty * l.prices[l.lots[k].inst] \in Int
      <3>1. l.lots[k].qty \in Nat /\ l.prices[l.lots[k].inst] \in Nat
        BY <1>1 DEF Lots
      <3>2. \A a, b \in Nat : a * b \in Int
        OBVIOUS
      <3> QED
        BY <3>1, <3>2
    <2> QED
      BY <2>1
  <1> HIDE DEF n
  <1>3. values \in [1..n -> Int]
    BY <1>1, <1>2
  <1>4. SumOf(values) \in Int
    <2> HIDE DEF values
    <2>1. values \in Seq(Int)
      BY <1>1, <1>3, IsSequence
    <2> QED
      BY <2>1, SumIsInteger
  <1>5. Equity(l) = l.cash + SumOf(values) + l.receivables - l.payables
    BY DEF Equity, Total
  <1> HIDE DEF values
  <1> QED
    BY <1>1, <1>4, <1>5

LEMMA NearestIsWhole == ASSUME NEW num \in Int PROVE Nearest(num, One) \in Int
  BY DEF Nearest, One

\* So many lots of shares fit into an amount.
LEMMA LotsFit ==
    ASSUME NEW amount \in Nat, NEW price \in Nat \ {0}
    PROVE  FloorToLot(amount, price) \in Nat /\ FloorToLot(amount, price) * price <= amount
  <1> DEFINE unit == price * LotSize
             count == amount \div unit
  <1>1. LotSize \in Nat \ {0}
    BY ExecutionConstants
  <1>2. unit \in Nat \ {0}
    BY <1>1
  <1> HIDE DEF unit
  <1>3. count \in Nat /\ count * unit <= amount
    BY <1>2
  <1>4. FloorToLot(amount, price) = count * LotSize
    BY DEF FloorToLot, unit
  <1> HIDE DEF count
  <1>5. count * LotSize \in Nat /\ (count * LotSize) * price = count * (price * LotSize)
    BY <1>1, <1>3
  <1> QED
    BY <1>3, <1>4, <1>5 DEF unit

PlanOrders == [inst : Instruments, price : Nat \ {0}, side : Sides, qty : Nat]

\* What an order of a plan may be: shares that are held, when it sells.
CoveredBy(l) ==
    {c \in PlanOrders : c.qty > 0 /\ (c.side = "sell" => c.qty <= PositionQuantity(l, c.inst))}

IsPriced(prices) == prices \in [Instruments -> Nat \ {0}]

LEMMA CandidateIsCovered ==
    ASSUME NEW l, LedgerOK(l), NEW targets, DOMAIN targets \subseteq Instruments,
           \A i \in DOMAIN targets : targets[i] \in 0..One,
           NEW prices, IsPriced(prices), NEW i \in Instruments, NEW c, c = Candidate(l, targets, prices, i)
    PROVE  c \in PlanOrders /\ (c.qty > 0 => c \in CoveredBy(l))
  <1>1. \A j \in DOMAIN targets : targets[j] \in Int
    <2>1. \A j \in DOMAIN targets : targets[j] \in 0..One
      OBVIOUS
    <2>2. \A x \in 0..One : x \in Int
      BY DEF One
    <2> QED
      BY ONLY <2>1, <2>2
  <1> DEFINE held == PositionQuantity(l, i)
             goal == TargetNotional(l, targets, i)
             wanted == Wanted(l, targets, prices, i)
             buys == goal > held * prices[i]
             qty == IF ~buys /\ wanted > held THEN FloorToLot(held, 1) ELSE wanted
  <1>2. held \in Nat /\ prices[i] \in Nat \ {0}
    BY LedgerFigures DEF IsPriced
  <1>3. goal \in Int
    <2>1. CASE i \in DOMAIN targets
      <3>1. Equity(l) * targets[i] \in Int
        <4>1. Equity(l) \in Int
          BY EquityIsWhole
        <4>2. targets[i] \in Int
          BY <1>1, <2>1
        <4>3. \A a, b \in Int : a * b \in Int
          OBVIOUS
        <4> QED
          BY <4>1, <4>3, <4>2
      <3> QED
        BY <2>1, <3>1, NearestIsWhole DEF TargetNotional
    <2>2. CASE i \notin DOMAIN targets
      BY <2>2 DEF TargetNotional
    <2> QED
      BY <2>1, <2>2
  <1>4. wanted \in Nat
    <2>1. held * prices[i] \in Int
      BY <1>2
    <2>2. Distance(goal, held * prices[i]) \in Nat
      <3> HIDE DEF goal, held
      <3> QED
        BY <1>3, <2>1 DEF Distance
    <2> QED
      BY <1>2, <2>2, LotsFit DEF Wanted
  <1>5. FloorToLot(held, 1) \in Nat /\ FloorToLot(held, 1) <= held
    <2>1. 1 \in Nat \ {0} /\ FloorToLot(held, 1) \in Nat /\ FloorToLot(held, 1) * 1 <= held
      <3> HIDE DEF held
      <3> QED
        BY <1>2, LotsFit
    <2> QED
      BY <2>1
  <1>6. c = [inst |-> i, price |-> prices[i], side |-> IF buys THEN "buy" ELSE "sell", qty |-> qty]
    BY DEF Candidate
  <1> HIDE DEF held, goal, wanted
  <1>7. qty \in Nat /\ (~buys => qty <= held)
    BY <1>2, <1>4, <1>5
  <1>8. c.inst = i /\ c.qty = qty /\ (c.side = "sell" => ~buys)
    BY <1>6
  <1> HIDE DEF qty, buys
  <1>9. c \in PlanOrders
    BY <1>2, <1>6, <1>7 DEF PlanOrders, Sides
  <1> QED
    BY <1>7, <1>8, <1>9 DEF CoveredBy, held

AreSells(g, candidates) ==
    g = [n \in 0..Len(candidates) |->
            IF n = 0 THEN <<>>
            ELSE IF candidates[n].side = "sell" /\ BigEnough(candidates[n])
                 THEN Append(g[n - 1], candidates[n])
                 ELSE g[n - 1]]

LEMMA SellsAreCovered ==
    ASSUME NEW l, NEW candidates \in Seq(PlanOrders),
           \A k \in 1..Len(candidates) : candidates[k].qty > 0 => candidates[k] \in CoveredBy(l)
    PROVE  ApprovedSells(candidates) \in Seq(CoveredBy(l))
  <1> DEFINE n == Len(candidates)
             A == Seq(CoveredBy(l))
             Sells(k) == candidates[k].side = "sell" /\ BigEnough(candidates[k])
             step == [k \in 1..n |-> [s \in A |-> IF Sells(k) THEN Append(s, candidates[k]) ELSE s]]
             g == CHOOSE f : AreSells(f, candidates)
  <1>1. n \in Nat
    BY Elements
  <1>2. \A k \in 1..n : Sells(k) => candidates[k] \in CoveredBy(l)
    BY DEF BigEnough
  <1>3. <<>> \in A
    OBVIOUS
  <1>4. step \in [1..n -> [A -> A]]
    <2> HIDE DEF Sells
    <2>1. \A k \in 1..n, s \in A : (IF Sells(k) THEN Append(s, candidates[k]) ELSE s) \in A
      <3>1. ASSUME NEW k \in 1..n, NEW s \in A, Sells(k) PROVE Append(s, candidates[k]) \in A
        <4> DEFINE C == CoveredBy(l)
                   c == candidates[k]
        <4>1. s \in Seq(C) /\ c \in C
          BY <1>2, <3>1
        <4> HIDE DEF C, c
        <4>2. Append(s, c) \in Seq(C)
          BY <4>1
        <4> QED
          BY <4>2 DEF C, c
      <3> QED
        BY <3>1
    <2> HIDE DEF A
    <2> QED
      BY <2>1
  <1>5. \A k \in 0..n : k # 0 => k \in 1..n /\ k - 1 \in 0..n
    BY <1>1
  <1> HIDE DEF A
  <1>6. PICK f : IsClimb(f, n, A, <<>>, step)
    <2> HIDE DEF step, n
    <2> QED
      BY <1>1, <1>3, <1>4, RecursionExists
  <1>7. f[n] \in A /\ f \in [0..n -> A]
    BY <1>1, <1>6 DEF IsClimb
  <1>8. AreSells(f, candidates)
    <2>1. \A k \in 1..n : f[k] = IF Sells(k) THEN Append(f[k - 1], candidates[k]) ELSE f[k - 1]
      <3>1. \A k \in 1..n : k - 1 \in 0..n
        BY <1>1
      <3> HIDE DEF Sells
      <3> QED
        BY <1>6, <3>1 DEF IsClimb
    <2>2. f[0] = <<>>
      BY <1>6 DEF IsClimb
    <2> QED
      BY <1>5, <1>7, <2>1, <2>2 DEF AreSells
  <1>9. AreSells(g, candidates)
    BY <1>8
  <1>10. ApprovedSells(candidates) = g[n]
    BY DEF ApprovedSells, AreSells
  <1> HIDE DEF g, step
  <1> DEFINE T == {k \in 0..n : g[k] \in A}
  <1>11. 0..n \subseteq T
    <2>1. g[0] = <<>> /\ \A k \in 1..n : g[k] = IF Sells(k) THEN Append(g[k - 1], candidates[k]) ELSE g[k - 1]
      <3>1. g[0] = <<>>
        BY <1>1, <1>9 DEF AreSells
      <3>2. ASSUME NEW k \in 1..n
            PROVE  g[k] = IF Sells(k) THEN Append(g[k - 1], candidates[k]) ELSE g[k - 1]
        <4>1. k \in 0..Len(candidates) /\ k # 0
          BY <1>1
        <4> HIDE DEF n
        <4> QED
          BY <1>9, <4>1 DEF AreSells
      <3> QED
        BY <3>1, <3>2
    <2>2. 0 \in T
      BY <1>1, <1>3, <2>1
    <2>3. ASSUME NEW k \in 1..n, k - 1 \in T PROVE k \in T
      <3>1. k \in 0..n /\ g[k - 1] \in A
        BY <1>1, <2>3
      <3>2. CASE Sells(k)
        <4> DEFINE C == CoveredBy(l)
                   c == candidates[k]
                   s == g[k - 1]
        <4>1. s \in Seq(C) /\ c \in C
          BY <1>2, <3>1, <3>2 DEF A
        <4>2. g[k] = Append(s, c)
          BY <2>1, <3>2
        <4> HIDE DEF C, c, s
        <4>3. Append(s, c) \in Seq(C)
          BY <4>1
        <4>4. g[k] \in A
          BY <4>2, <4>3 DEF A, C
        <4> QED
          BY <3>1, <4>4
      <3>3. CASE ~Sells(k)
        <4>1. g[k] = g[k - 1]
          BY <2>1, <3>3
        <4> QED
          BY <3>1, <4>1
      <3> QED
        BY <3>2, <3>3
    <2> HIDE DEF T, n, Sells
    <2> QED
      BY <1>1, <2>2, <2>3, Climb
  <1>12. n \in T
    <2>1. n \in 0..n
      BY <1>1
    <2> QED
      BY <1>11, <2>1
  <1> QED
    BY <1>10, <1>12 DEF A

Notionals(s) == [n \in DOMAIN s |-> Notional(s[n])]

\* What buys have been approved, and the cash that they leave.
Spent(l, cash) ==
    {acc \in [left : Nat, buys : Seq(CoveredBy(l))] : SumOf(Notionals(acc.buys)) + acc.left = cash}

LEMMA NotionalsAreWhole ==
    ASSUME NEW l, NEW s \in Seq(CoveredBy(l))
    PROVE  Notionals(s) \in Seq(Int) /\ Len(Notionals(s)) = Len(s) /\ SumOf(Notionals(s)) \in Int
  <1>1. Len(s) \in Nat /\ DOMAIN s = 1..Len(s) /\ \A k \in 1..Len(s) : s[k] \in CoveredBy(l)
    BY Elements
  <1>2. \A c \in CoveredBy(l) : Notional(c) \in Int
    BY DEF CoveredBy, PlanOrders, Notional
  <1>3. Notionals(s) \in [1..Len(s) -> Int]
    BY <1>1, <1>2 DEF Notionals
  <1> QED
    BY <1>1, <1>3, IsSequence, SumIsInteger

LEMMA NotionalsGrow ==
    ASSUME NEW l, NEW s \in Seq(CoveredBy(l)), NEW c \in CoveredBy(l)
    PROVE  /\ Append(s, c) \in Seq(CoveredBy(l))
           /\ SumOf(Notionals(Append(s, c))) = SumOf(Notionals(s)) + Notional(c)
  <1> DEFINE C == CoveredBy(l)
             n == Len(s)
             more == Append(s, c)
  <1>1. s \in Seq(C) /\ c \in C
    OBVIOUS
  <1> HIDE DEF C
  <1>2. /\ more \in Seq(C) /\ n \in Nat /\ Len(more) = n + 1 /\ DOMAIN more = 1..(n + 1)
        /\ more[n + 1] = c /\ DOMAIN s = 1..n /\ \A k \in 1..n : more[k] = s[k]
    BY <1>1
  <1> HIDE DEF more
  <1>3. /\ Notionals(s) \in Seq(Int) /\ Len(Notionals(s)) = n
        /\ Notionals(more) \in Seq(Int) /\ Len(Notionals(more)) = n + 1
    BY <1>1, <1>2, NotionalsAreWhole DEF C
  <1>4. \A k \in 1..n : Notionals(more)[k] = Notionals(s)[k]
    BY <1>2 DEF Notionals
  <1>5. Notionals(more)[n + 1] = Notional(c)
    <2>1. n + 1 \in DOMAIN more
      BY <1>2
    <2> QED
      BY <1>2, <2>1 DEF Notionals
  <1>6. SumOf(Notionals(more)) = SumOf(Notionals(s)) + Notionals(more)[n + 1]
    BY <1>3, <1>4, SumGrows
  <1> QED
    BY <1>2, <1>5, <1>6 DEF C, more

\* A buy takes no more than the cash that is left.
LEMMA BuyFits ==
    ASSUME NEW l, NEW cash \in Nat, NEW acc \in Spent(l, cash), NEW c \in PlanOrders,
           c.qty > 0 => c \in CoveredBy(l)
    PROVE  ApproveBuy(acc, c) \in Spent(l, cash)
  <1> DEFINE fits == [c EXCEPT !.qty = IF Notional(c) <= acc.left THEN @ ELSE FloorToLot(acc.left, c.price)]
             next == ApproveBuy(acc, c)
  <1>1. /\ acc.left \in Nat /\ acc.buys \in Seq(CoveredBy(l)) /\ SumOf(Notionals(acc.buys)) + acc.left = cash
        /\ SumOf(Notionals(acc.buys)) \in Int
    BY NotionalsAreWhole DEF Spent
  <1>2. c.inst \in Instruments /\ c.price \in Nat \ {0} /\ c.side \in Sides /\ c.qty \in Nat
    BY DEF PlanOrders
  <1>3. CASE c.side = "buy" /\ BigEnough(c) /\ BigEnough(fits)
    <2>1. next = [left |-> acc.left - Notional(fits), buys |-> Append(acc.buys, fits)]
      BY <1>3 DEF ApproveBuy
    <2>2. /\ fits \in PlanOrders /\ fits.side = "buy" /\ fits.price = c.price
          /\ fits.qty = IF Notional(c) <= acc.left THEN c.qty ELSE FloorToLot(acc.left, c.price)
      <3>1. FloorToLot(acc.left, c.price) \in Nat
        BY <1>1, <1>2, LotsFit
      <3> QED
        BY <1>2, <1>3, <3>1 DEF PlanOrders
    <2>3. Notional(fits) \in Nat /\ Notional(fits) <= acc.left
      <3>1. CASE Notional(c) <= acc.left
        <4>1. Notional(fits) = c.qty * c.price /\ Notional(c) = c.qty * c.price
          BY <2>2, <3>1 DEF Notional
        <4>2. c.qty * c.price \in Nat
          BY <1>2
        <4> QED
          BY <3>1, <4>1, <4>2
      <3>2. CASE ~(Notional(c) <= acc.left)
        <4>1. Notional(fits) = FloorToLot(acc.left, c.price) * c.price
          BY <2>2, <3>2 DEF Notional
        <4>2. FloorToLot(acc.left, c.price) \in Nat /\ FloorToLot(acc.left, c.price) * c.price <= acc.left
          BY <1>1, <1>2, LotsFit
        <4>3. FloorToLot(acc.left, c.price) * c.price \in Nat
          BY <1>2, <4>2
        <4> QED
          BY <4>1, <4>2, <4>3
      <3> QED
        BY <3>1, <3>2
    <2>4. fits \in CoveredBy(l)
      BY <1>3, <2>2 DEF CoveredBy, BigEnough
    <2> HIDE DEF fits
    <2>5. /\ Append(acc.buys, fits) \in Seq(CoveredBy(l))
          /\ SumOf(Notionals(Append(acc.buys, fits))) = SumOf(Notionals(acc.buys)) + Notional(fits)
      BY <1>1, <2>4, NotionalsGrow
    <2>6. acc.left - Notional(fits) \in Nat
      BY <1>1, <2>3
    <2>7. SumOf(Notionals(Append(acc.buys, fits))) + (acc.left - Notional(fits)) = cash
      BY <1>1, <2>3, <2>5
    <2>8. next.left = acc.left - Notional(fits) /\ next.buys = Append(acc.buys, fits)
      BY <2>1
    <2>9. next \in [left : Nat, buys : Seq(CoveredBy(l))]
      BY <2>1, <2>5, <2>6
    <2> HIDE DEF next
    <2>10. next \in Spent(l, cash)
      BY <2>7, <2>8, <2>9 DEF Spent
    <2> QED
      BY <2>10 DEF next
  <1>4. CASE ~(c.side = "buy" /\ BigEnough(c) /\ BigEnough(fits))
    <2>1. next = acc
      BY <1>4 DEF ApproveBuy
    <2> QED
      BY <2>1
  <1> QED
    BY <1>3, <1>4

AreBuys(g, candidates, cash) ==
    g = [n \in 0..Len(candidates) |->
            IF n = 0 THEN [left |-> cash, buys |-> <<>>]
            ELSE ApproveBuy(g[n - 1], candidates[n])]

LEMMA BuysAreCovered ==
    ASSUME NEW l, NEW cash \in Nat, NEW candidates \in Seq(PlanOrders),
           \A k \in 1..Len(candidates) : candidates[k].qty > 0 => candidates[k] \in CoveredBy(l)
    PROVE  ApprovedBuys(candidates, cash) \in Spent(l, cash)
  <1> DEFINE n == Len(candidates)
             A == Spent(l, cash)
             base == [left |-> cash, buys |-> <<>>]
             step == [k \in 1..n |-> [acc \in A |-> ApproveBuy(acc, candidates[k])]]
             g == CHOOSE f : AreBuys(f, candidates, cash)
  <1>1. n \in Nat /\ \A k \in 1..n : candidates[k] \in PlanOrders
    BY Elements
  <1>2. base \in A
    <2>1. Notionals(<<>>) = <<>>
      BY DEF Notionals
    <2>2. SumOf(Notionals(<<>>)) + cash = cash
      BY <2>1, SumOfNothing
    <2> QED
      BY <2>2 DEF Spent
  <1>3. \A k \in 1..n, acc \in A : ApproveBuy(acc, candidates[k]) \in A
    BY <1>1, BuyFits
  <1> HIDE DEF A, base
  <1>4. step \in [1..n -> [A -> A]]
    BY <1>3
  <1>5. \A k \in 0..n : k # 0 => k \in 1..n /\ k - 1 \in 0..n
    BY <1>1
  <1>6. PICK f : IsClimb(f, n, A, base, step)
    <2> HIDE DEF step, n
    <2> QED
      BY <1>1, <1>2, <1>4, RecursionExists
  <1>7. f \in [0..n -> A] /\ f[0] = base /\ \A k \in 1..n : f[k] = ApproveBuy(f[k - 1], candidates[k])
    <2>1. \A k \in 1..n : k - 1 \in 0..n
      BY <1>1
    <2> QED
      BY <1>6, <2>1 DEF IsClimb
  <1>8. AreBuys(f, candidates, cash)
    BY <1>5, <1>7 DEF AreBuys, base
  <1>9. AreBuys(g, candidates, cash)
    BY <1>8
  <1>10. ApprovedBuys(candidates, cash) = g[n]
    BY DEF ApprovedBuys, AreBuys
  <1> HIDE DEF g, step
  <1>11. g[0] = base /\ \A k \in 1..n : g[k] = ApproveBuy(g[k - 1], candidates[k])
    BY <1>1, <1>9 DEF AreBuys, base
  <1> DEFINE T == {k \in 0..n : g[k] \in A}
  <1>12. 0..n \subseteq T
    <2>1. 0 \in T
      BY <1>1, <1>2, <1>11
    <2>2. ASSUME NEW k \in 1..n, k - 1 \in T PROVE k \in T
      <3>1. k \in 0..n
        BY <1>1
      <3> QED
        BY <1>3, <1>11, <2>2, <3>1
    <2> HIDE DEF T, n
    <2> QED
      BY <1>1, <2>1, <2>2, Climb
  <1>13. n \in T
    <2>1. n \in 0..n
      BY <1>1
    <2> QED
      BY <1>12, <2>1
  <1> QED
    BY <1>10, <1>13 DEF A

\* What a plan buys is paid for from free cash, and what it sells is held.
LEMMA PlanIsCovered ==
    ASSUME NEW l, LedgerOK(l), NEW targets, DOMAIN targets \subseteq Instruments,
           \A i \in DOMAIN targets : targets[i] \in 0..One,
           NEW prices, IsPriced(prices), NEW made, made = BuildPlan(l, targets, prices)
    PROVE  /\ made.candidates \in Seq(CoveredBy(l))
           /\ made.bought \in Int
           /\ made.bought > 0 =>
                made.bought + Nearest(Equity(l) * CashBuffer, One) + l.payables <= l.cash
  <1> DEFINE S == Considered(l, targets)
             candidates == Candidates(l, targets, prices)
             sells == ApprovedSells(candidates)
             cash == AvailableBuyCash(l)
             approved == ApprovedBuys(candidates, cash)
             held == Nearest(Equity(l) * CashBuffer, One)
  <1>1. /\ l.cash \in Int /\ l.payables \in Nat /\ l.lots \in Seq(Lots)
    BY DEF LedgerOK
  <1>2. S \subseteq Instruments /\ IsFiniteSet(S)
    <2>1. OpenInstruments(l) \subseteq Instruments
      BY <1>1, Elements, LotFields DEF OpenInstruments
    <2>2. S \subseteq Instruments
      BY <2>1 DEF Considered
    <2> QED
      BY <2>2, EngineConstants, FS_Subset
  <1>3. /\ candidates \in Seq(PlanOrders)
        /\ \A k \in 1..Len(candidates) : candidates[k].qty > 0 => candidates[k] \in CoveredBy(l)
    <2> DEFINE order == SetToSeq(S)
               n == Cardinality(S)
    <2>1. n \in Nat /\ order \in [1..n -> S]
      BY <1>2, SetInOrder
    <2>2. candidates = [k \in 1..n |-> Candidate(l, targets, prices, order[k])]
      BY <2>1 DEF Candidates
    <2> HIDE DEF order, n, candidates, S
    <2>3. \A k \in 1..n : /\ candidates[k] \in PlanOrders
                          /\ candidates[k].qty > 0 => candidates[k] \in CoveredBy(l)
      <3>1. \A k \in 1..n : order[k] \in Instruments
        BY <1>2, <2>1
      <3> QED
        BY <2>2, <3>1, CandidateIsCovered
    <2>4. candidates \in [1..n -> PlanOrders]
      BY <2>2, <2>3
    <2>5. candidates \in Seq(PlanOrders) /\ Len(candidates) = n
      BY <2>1, <2>4, IsSequence
    <2> QED
      BY <2>3, <2>5
  <1>4. held \in Int
    <2>1. Equity(l) \in Int
      BY EquityIsWhole
    <2>2. CashBuffer \in Int
      <3>1. CashBuffer \in 0..One
        BY PlanConstants
      <3>2. 0..One \subseteq Int
        BY DEF One
      <3> QED
        BY <3>1, <3>2
    <2>3. Equity(l) * CashBuffer \in Int
      BY <2>1, <2>2
    <2> QED
      BY <2>3, NearestIsWhole
  <1>5. cash \in Nat /\ (cash > 0 => cash = l.cash - l.payables - held)
    <2> HIDE DEF held
    <2>1. cash = IF l.cash - l.payables - held > 0 THEN l.cash - l.payables - held ELSE 0
      BY DEF AvailableBuyCash, held
    <2> HIDE DEF cash
    <2> QED
      BY <1>1, <1>4, <2>1
  <1> HIDE DEF S, candidates, cash, held
  <1>6. sells \in Seq(CoveredBy(l))
    BY <1>3, SellsAreCovered
  <1>7. approved \in Spent(l, cash)
    BY <1>3, <1>5, BuysAreCovered
  <1>8. made.candidates = sells \o approved.buys /\ made.bought = SumOf(Notionals(approved.buys))
    BY DEF BuildPlan, candidates, cash, Total, Notionals
  <1> HIDE DEF sells, approved
  <1>9. /\ approved.left \in Nat /\ approved.buys \in Seq(CoveredBy(l))
        /\ SumOf(Notionals(approved.buys)) + approved.left = cash
        /\ SumOf(Notionals(approved.buys)) \in Int
    BY <1>7, NotionalsAreWhole DEF Spent
  <1>10. made.candidates \in Seq(CoveredBy(l))
    <2> DEFINE C == CoveredBy(l)
               b == approved.buys
    <2>1. sells \in Seq(C) /\ b \in Seq(C)
      BY <1>6, <1>9
    <2> HIDE DEF C, b
    <2>2. sells \o b \in Seq(C)
      BY <2>1
    <2> QED
      BY <1>8, <2>2 DEF C, b
  <1>11. made.bought > 0 => made.bought + held + l.payables <= l.cash
    BY <1>1, <1>4, <1>5, <1>8, <1>9
  <1> QED
    BY <1>8, <1>9, <1>10, <1>11 DEF held

-----------------------------------------------------------------------------
(* The engine                                                              *)

\* The shares of a position are what was bought, sold and given.
Positions(l, os) ==
    \A i \in Instruments :
        PositionQuantity(l, i) = FilledIn(os, i, "buy") - FilledIn(os, i, "sell") + AdjustedIn(l, i)

EngineInv ==
    /\ day \in 1..(Days + 1)
    /\ LedgerOK(ledger) /\ Numbered(ledger.events)
    /\ OrdersOK(orders)
    /\ Positions(ledger, orders)

\* The orders bought so many shares of inst more, less what they sold.
NetMoves(os, ns, inst, n) ==
    \A i \in Instruments :
        FilledIn(ns, i, "buy") - FilledIn(ns, i, "sell")
          = (FilledIn(os, i, "buy") - FilledIn(os, i, "sell")) + (IF i = inst THEN n ELSE 0)

LEMMA PositionsMove ==
    ASSUME NEW l, LedgerOK(l), NEW os, OrdersOK(os), Positions(l, os),
           NEW m, NEW inst, NEW shares \in Int, NEW given \in Int, Moves(l, m, inst, shares, given),
           NEW ns, NetMoves(os, ns, inst, shares - given)
    PROVE  Positions(m, ns)
  <1> SUFFICES ASSUME NEW i \in Instruments
               PROVE  PositionQuantity(m, i)
                        = FilledIn(ns, i, "buy") - FilledIn(ns, i, "sell") + AdjustedIn(m, i)
    BY DEF Positions
  <1> DEFINE b == FilledIn(os, i, "buy")
             s == FilledIn(os, i, "sell")
             a == AdjustedIn(l, i)
             x == IF i = inst THEN shares ELSE 0
             y == IF i = inst THEN given ELSE 0
             net == FilledIn(ns, i, "buy") - FilledIn(ns, i, "sell")
  <1>1. b \in Int /\ s \in Int /\ a \in Int
    BY AmountsAreWhole, LedgerFigures
  <1>2. PositionQuantity(l, i) = b - s + a
    BY DEF Positions
  <1>3. PositionQuantity(m, i) = PositionQuantity(l, i) + x /\ AdjustedIn(m, i) = a + y
    BY DEF Moves
  <1>4. net = (b - s) + (x - y)
    <2>1. net = (b - s) + (IF i = inst THEN shares - given ELSE 0)
      BY DEF NetMoves
    <2> QED
      BY <2>1
  <1>5. x \in Int /\ y \in Int
    OBVIOUS
  <1>6. PositionQuantity(m, i) = net + AdjustedIn(m, i)
    <2> HIDE DEF b, s, a, x, y, net
    <2> QED
      BY <1>1, <1>2, <1>3, <1>4, <1>5
  <1> QED
    BY <1>6

LEMMA NothingFilled ==
    ASSUME NEW o, o.fills = <<>> PROVE SumOf(FillSizes(o)) = 0
  <1>1. FillSizes(o) = <<>>
    BY DEF FillSizes
  <1> QED
    BY <1>1, SumOfNothing

\* New orders have filled nothing.
LEMMA OrdersAdded ==
    ASSUME OrdersOK(orders), NEW new, DOMAIN new \subseteq UnusedIds,
           \A id \in DOMAIN new : OrderOK(new[id]) /\ new[id].fills = <<>>,
           NEW ns, ns = AddOrders(new)
    PROVE  /\ OrdersOK(ns)
           /\ \A id \in DOMAIN orders : ns[id] = orders[id]
           /\ \A inst, side : FilledIn(ns, inst, side) = FilledIn(orders, inst, side)
  <1>1. /\ DOMAIN ns = DOMAIN orders \cup DOMAIN new
        /\ \A id \in DOMAIN new : ns[id] = new[id] /\ id \notin DOMAIN orders /\ id \in OrderIds
        /\ \A id \in DOMAIN orders : ns[id] = orders[id]
    BY DEF AddOrders, UnusedIds
  <1>2. OrdersOK(ns)
    BY <1>1 DEF OrdersOK
  <1>3. ASSUME NEW inst, NEW side, NEW id \in OrderIds
        PROVE  Amount(ns, inst, side, id) = Amount(orders, inst, side, id)
    <2>1. CASE id \in DOMAIN new
      <3>1. SumOf(FillSizes(ns[id])) = 0
        BY <1>1, <2>1, NothingFilled
      <3> QED
        BY <1>1, <2>1, <3>1 DEF Amount
    <2>2. CASE id \notin DOMAIN new
      BY <1>1, <2>2 DEF Amount
    <2> QED
      BY <2>1, <2>2
  <1>4. \A inst, side : FilledIn(ns, inst, side) = FilledIn(orders, inst, side)
    BY <1>3, SameAmounts
  <1> QED
    BY <1>1, <1>2, <1>4

LEMMA OrderIsFresh ==
    ASSUME NEW intent, intent.inst \in Instruments, intent.side \in Sides, intent.target \in Nat \ {0}
    PROVE  OrderOK(CreateOrder(intent)) /\ CreateOrder(intent).fills = <<>>
  BY DEF CreateOrder, OrderOK, Statuses, OpenStatuses

LEMMA BarIsPriced ==
    ASSUME day \in 1..Days, NEW i \in Instruments
    PROVE  Bar(i).price \in Nat \ {0}
  <1>1. Market[day][i] \in MarketSnapshots
    BY EngineConstants DEF ValidSnapshot
  <1> QED
    BY <1>1, OrderConstants DEF Bar, MarketSnapshots

LEMMA PricesArePriced == ASSUME day \in 1..Days PROVE IsPriced(Prices)
  <1>1. \A i \in Instruments : Market[day][i].price \in Nat \ {0}
    BY BarIsPriced DEF Bar
  <1> QED
    BY <1>1 DEF Prices, IsPriced

LEMMA RunningDay == ASSUME EngineInv, Running PROVE day \in 1..Days
  BY OrderConstants DEF EngineInv, Running

\* Filling an order and booking the fill keep each other's account.
LEMMA FillIsBooked ==
    ASSUME EngineInv, NEW id \in DOMAIN orders, NEW o, OrderOK(o), o.intent = orders[id].intent,
           NEW fill \in Fills, o.fills = Append(orders[id].fills, fill),
           orders' = [orders EXCEPT ![id] = o], Book(orders[id].intent, fill, id)
    PROVE  /\ IsEntry(ledger, ledger') /\ LedgerOK(ledger') /\ Numbered(ledger'.events)
           /\ OrdersOK(orders') /\ Positions(ledger', orders')
  <1> DEFINE intent == orders[id].intent
             cost == TotalCost(intent.side, fill.qty * fill.price)
             e == ExecutionEvent(ledger, intent, fill, id, cost)
             shares == IF intent.side = "buy" THEN fill.qty ELSE -fill.qty
  <1>1. /\ LedgerOK(ledger) /\ Numbered(ledger.events) /\ OrdersOK(orders) /\ Positions(ledger, orders)
        /\ OrderOK(orders[id])
    BY DEF EngineInv, OrdersOK
  <1>2. intent.inst \in Instruments /\ intent.side \in Sides
    BY <1>1 DEF OrderOK
  <1>3. fill.qty \in Nat \ {0} /\ fill.price \in Nat \ {0} /\ fill.qty \in Int
    BY DEF Fills
  <1>4. cost \in Nat
    <2>1. fill.qty * fill.price \in Nat
      BY <1>3
    <2> QED
      BY <2>1, CostIsWhole
  <1>5. Applies(ledger, e) /\ ledger' = Apply(ledger, e)
    BY DEF Book, Booking
  <1> HIDE DEF cost
  <1>6. e = ExecutionEvent(ledger, intent, fill, id, cost)
    OBVIOUS
  <1> HIDE DEF e, intent
  <1>7. /\ IsEntry(ledger, ledger') /\ LedgerOK(ledger') /\ Numbered(ledger'.events)
        /\ Moves(ledger, ledger', intent.inst, shares, 0)
    BY <1>1, <1>2, <1>4, <1>5, <1>6, BookKeeps
  <1>8. SumOf(FillSizes(o)) = SumOf(FillSizes(orders[id])) + fill.qty
    BY <1>1, FillsAreWhole
  <1>9. /\ OrdersOK(orders')
        /\ \A inst, side : FilledIn(orders', inst, side)
             = FilledIn(orders, inst, side)
               + (IF o.intent.inst = inst /\ o.intent.side = side THEN fill.qty ELSE 0)
    <2>1. \A inst, side : /\ OrdersOK(orders')
                          /\ FilledIn(orders', inst, side)
                               = FilledIn(orders, inst, side)
                                 + (IF o.intent.inst = inst /\ o.intent.side = side THEN fill.qty ELSE 0)
      <3>1. OneChanged(orders, orders', id, o)
        BY DEF OneChanged
      <3> TAKE inst, side
      <3> QED
        BY <1>1, <1>3, <1>8, <3>1, OneOrderFills
    <2> QED
      BY <2>1
  <1>10. NetMoves(orders, orders', intent.inst, shares - 0)
    <2> SUFFICES ASSUME NEW i \in Instruments
                 PROVE  FilledIn(orders', i, "buy") - FilledIn(orders', i, "sell")
                          = (FilledIn(orders, i, "buy") - FilledIn(orders, i, "sell"))
                            + (IF i = intent.inst THEN shares - 0 ELSE 0)
      BY DEF NetMoves
    <2>1. FilledIn(orders, i, "buy") \in Int /\ FilledIn(orders, i, "sell") \in Int
      BY <1>1, AmountsAreWhole
    <2>2. o.intent = intent /\ (intent.side = "buy" \/ intent.side = "sell")
      BY <1>2 DEF intent, Sides
    <2>3. /\ FilledIn(orders', i, "buy") = FilledIn(orders, i, "buy")
                + (IF intent.inst = i /\ intent.side = "buy" THEN fill.qty ELSE 0)
          /\ FilledIn(orders', i, "sell") = FilledIn(orders, i, "sell")
                + (IF intent.inst = i /\ intent.side = "sell" THEN fill.qty ELSE 0)
      BY <1>9, <2>2
    <2> QED
      BY <1>3, <2>1, <2>2, <2>3
  <1>11. shares \in Int /\ 0 \in Int
    BY <1>3
  <1> HIDE DEF shares
  <1>12. Positions(ledger', orders')
    BY <1>1, <1>7, <1>10, <1>11, PositionsMove
  <1> QED
    BY <1>7, <1>9, <1>12

\* A change of an order without a fill, with the ledger as it was.
LEMMA OrderMoved ==
    ASSUME EngineInv, NEW id \in DOMAIN orders, NEW o, OrderOK(o), o.intent = orders[id].intent,
           o.fills = orders[id].fills, orders' = [orders EXCEPT ![id] = o], UNCHANGED ledger
    PROVE  OrdersOK(orders') /\ Positions(ledger', orders')
  <1>1. OrdersOK(orders) /\ Positions(ledger, orders) /\ LedgerOK(ledger)
    BY DEF EngineInv
  <1>2. SumOf(FillSizes(orders[id])) \in Int
    BY <1>1, FillsAreWhole DEF OrdersOK
  <1>3. SumOf(FillSizes(o)) = SumOf(FillSizes(orders[id])) + 0 /\ 0 \in Int
    <2>1. FillSizes(o) = FillSizes(orders[id])
      BY DEF FillSizes
    <2> QED
      BY <1>2, <2>1
  <1>4. /\ OrdersOK(orders')
        /\ \A inst, side : FilledIn(orders', inst, side)
             = FilledIn(orders, inst, side) + (IF o.intent.inst = inst /\ o.intent.side = side THEN 0 ELSE 0)
    <2>1. \A inst, side : /\ OrdersOK(orders')
                          /\ FilledIn(orders', inst, side)
                               = FilledIn(orders, inst, side)
                                 + (IF o.intent.inst = inst /\ o.intent.side = side THEN 0 ELSE 0)
      <3>1. OneChanged(orders, orders', id, o)
        BY DEF OneChanged
      <3> TAKE inst, side
      <3> QED
        BY <1>1, <1>3, <3>1, OneOrderFills
    <2> QED
      BY <2>1
  <1>5. \A inst, side : FilledIn(orders, inst, side) \in Int
    BY <1>1, AmountsAreWhole
  <1>6. \A inst, side : FilledIn(orders', inst, side) = FilledIn(orders, inst, side)
    <2> TAKE inst, side
    <2>1. /\ FilledIn(orders, inst, side) \in Int
          /\ FilledIn(orders', inst, side)
               = FilledIn(orders, inst, side) + (IF o.intent.inst = inst /\ o.intent.side = side THEN 0 ELSE 0)
      BY <1>4, <1>5
    <2> QED
      BY ONLY <2>1
  <1>7. Positions(ledger, orders')
    BY <1>1, <1>6 DEF Positions
  <1> QED
    BY <1>4, <1>7

\* An entry that no order is behind.
LEMMA EntryWithoutOrder ==
    ASSUME EngineInv, UNCHANGED orders, LedgerOK(ledger'), NEW inst, NEW shares \in Int,
           Moves(ledger, ledger', inst, shares, shares)
    PROVE  Positions(ledger', orders')
  <1>1. LedgerOK(ledger) /\ OrdersOK(orders) /\ Positions(ledger, orders)
    BY DEF EngineInv
  <1>2. NetMoves(orders, orders', inst, shares - shares)
    <2>1. \A i \in Instruments : FilledIn(orders, i, "buy") \in Int /\ FilledIn(orders, i, "sell") \in Int
      BY <1>1, AmountsAreWhole
    <2>2. shares - shares = 0
      OBVIOUS
    <2>3. \A a, b \in Int : a - b = (a - b) + 0
      OBVIOUS
    <2> QED
      BY <2>1, <2>2, <2>3 DEF NetMoves
  <1> QED
    BY <1>1, <1>2, PositionsMove

-----------------------------------------------------------------------------
(* The invariant holds                                                     *)

LEMMA InitHolds == ASSUME Init PROVE EngineInv /\ Books!Init
  <1> DEFINE e == InitialCashEvent
  <1>1. /\ day = 1 /\ orders = <<>> /\ ledger = Apply(EmptyLedger, e)
    BY DEF Init, OpenLedger
  <1>2. /\ e.id = 1 /\ e.type = "initial_cash" /\ e.action = "none" /\ e.cash = InitialCash
        /\ e.receivable = 0 /\ e.payable = 0 /\ e.pnl = 0 /\ e.shares = 0
    BY DEF InitialCashEvent, BlankEvent
  <1> HIDE DEF e
  <1>3. /\ EmptyLedger.events = <<>> /\ EmptyLedger.cash = 0 /\ EmptyLedger.receivables = 0
        /\ EmptyLedger.payables = 0 /\ EmptyLedger.lots = <<>>
        /\ EmptyLedger.executions = <<>> /\ EmptyLedger.actions = <<>>
        /\ EmptyLedger.prices = [i \in Instruments |-> 0]
    BY DEF EmptyLedger
  <1>4. Numbered(EmptyLedger.events) /\ NextId(EmptyLedger) = 1
    <2>1. <<>> \in Seq({}) /\ Len(<<>>) = 0
      OBVIOUS
    <2> QED
      BY <1>3, <2>1 DEF Numbered, IsList, NextId
  <1>5. IsLog(<<>>)
    <2>1. <<>> \in Seq({<<>>[k] : k \in DOMAIN <<>>}) /\ Len(<<>>) = 0
      OBVIOUS
    <2> QED
      BY <2>1 DEF IsLog
  <1>6. LedgerOK(EmptyLedger)
    BY <1>3, <1>5, NoLots DEF LedgerOK
  <1>7. LotsAfter(EmptyLedger, e) = <<>>
    BY <1>2, <1>3 DEF LotsAfter
  <1>8. InitialCash \in Int
    BY LedgerConstants
  <1>9. FitsLedger(EmptyLedger, e)
    BY <1>2, <1>3, <1>8 DEF FitsLedger, EventTypes
  <1>10. ledger = Posted(EmptyLedger, e) /\ Numbered(ledger.events)
    BY <1>1, <1>2, <1>4, NumberedGrows
  <1>11. LotsAfter(EmptyLedger, e) = EmptyLedger.lots
    BY <1>3, <1>7
  <1>12. Entry(EmptyLedger, ledger, InitialCash, 0, 0, 0, 0) /\ Moves(EmptyLedger, ledger, e.inst, 0, 0)
    <2>1. EarnedBy(e) = 0 /\ GivenBy(e) = 0
      BY <1>2 DEF EarnedBy, GivenBy, IsBooked
    <2>2. 0 \in Int
      OBVIOUS
    <2> QED
      BY <1>2, <1>6, <1>9, <1>10, <1>11, <2>1, <2>2, LotsStay, PostedEntry
  <1>13. /\ BookCost(EmptyLedger) = 0 /\ EarnedIn(EmptyLedger) = 0
         /\ \A i : PositionQuantity(EmptyLedger, i) = 0 /\ AdjustedIn(EmptyLedger, i) = 0
    <2>1. /\ Pnls(<<>>) = <<>> /\ Dividends(<<>>) = <<>> /\ \A i : SharesGiven(<<>>, i) = <<>>
      BY DEF Pnls, Dividends, SharesGiven
    <2> QED
      BY <1>3, <2>1, NoLots, SumOfNothing, BookCostIsSum, SharesAreSum DEF EarnedIn, AdjustedIn
  <1>14. /\ LedgerOK(ledger) /\ ledger.cash = InitialCash /\ ledger.receivables = 0
         /\ ledger.payables = 0 /\ BookCost(ledger) = 0 /\ Earned = 0
    BY <1>3, <1>8, <1>12, <1>13, EarnedIsSum DEF Entry
  <1>15. OrdersOK(orders)
    BY <1>1 DEF OrdersOK
  <1>16. Positions(ledger, orders)
    <2>1. \A i : PositionQuantity(ledger, i) = 0 /\ AdjustedIn(ledger, i) = 0
      BY <1>12, <1>13 DEF Moves
    <2>2. \A inst, side : FilledIn(orders, inst, side) = 0
      <3> TAKE inst, side
      <3>1. \A id : Amount(orders, inst, side, id) = 0
        BY <1>1 DEF Amount
      <3>2. /\ Amounts(orders, inst, side) \in Seq(Int)
            /\ \A k \in 1..Len(Amounts(orders, inst, side)) : Amounts(orders, inst, side)[k] = 0
        BY <1>15, <3>1, AmountsAreWhole
      <3> QED
        BY <3>2, SumOfZeros DEF FilledIn
    <2> QED
      BY <2>1, <2>2 DEF Positions
  <1>17. day \in 1..(Days + 1)
    BY <1>1, OrderConstants
  <1> QED
    BY <1>10, <1>14, <1>15, <1>16, <1>17 DEF EngineInv, Books!Init

\* What a step does to the ledger.
Entered == IsEntry(ledger, ledger') \/ UNCHANGED ledger

LEMMA PlaceKeeps ==
    ASSUME EngineInv, NEW intent \in Intents, PlaceOrder(intent)
    PROVE  EngineInv' /\ \A id \in DOMAIN orders : orders'[id] = orders[id]
  <1> DEFINE new == [id \in {NextIds[1]} |-> CreateOrder(intent)]
  <1>1. intent.inst \in Instruments /\ intent.side \in Sides /\ intent.target \in Nat \ {0}
    BY EngineConstants, OrderConstants DEF OrderIntents
  <1>2. NextIds[1] \in UnusedIds
    <2>1. IsFiniteSet(UnusedIds) /\ UnusedIds # {}
      BY EngineConstants, FS_Subset DEF UnusedIds, PlaceOrder
    <2>2. Cardinality(UnusedIds) \in Nat /\ Cardinality(UnusedIds) # 0
      BY <2>1, FS_EmptySet, FS_CardinalityType
    <2>3. NextIds \in [1..Cardinality(UnusedIds) -> UnusedIds]
      BY <2>1, SetInOrder DEF NextIds
    <2>4. 1 \in 1..Cardinality(UnusedIds)
      BY <2>2
    <2> QED
      BY <2>3, <2>4
  <1>3. DOMAIN new \subseteq UnusedIds /\ \A id \in DOMAIN new : OrderOK(new[id]) /\ new[id].fills = <<>>
    BY <1>1, <1>2, OrderIsFresh
  <1>4. orders' = AddOrders(new) /\ UNCHANGED <<day, ledger>>
    BY DEF PlaceOrder
  <1> HIDE DEF new
  <1>5. /\ OrdersOK(orders') /\ \A id \in DOMAIN orders : orders'[id] = orders[id]
        /\ \A inst, side : FilledIn(orders', inst, side) = FilledIn(orders, inst, side)
    BY <1>3, <1>4, OrdersAdded DEF EngineInv
  <1> QED
    BY <1>4, <1>5 DEF EngineInv, Positions

LEMMA RebalanceKeeps ==
    ASSUME EngineInv, NEW targets \in TargetChoices, Rebalance(targets)
    PROVE  /\ EngineInv' /\ \A id \in DOMAIN orders : orders'[id] = orders[id]
           /\ \E made : /\ plan'.of = made
                        /\ made.candidates \in Seq(CoveredBy(ledger))
                        /\ made.bought \in Int
                        /\ made.bought > 0 =>
                             made.bought + Nearest(Equity(ledger) * CashBuffer, One) + ledger.payables <= ledger.cash
  <1> DEFINE made == BuildPlan(ledger, targets, Prices)
             n == Len(made.candidates)
             order(id) == CreateOrder(PlannedIntent(made.candidates[CHOOSE j \in 1..n : id = NextIds[j]], day - 1, day))
             new == [id \in {NextIds[k] : k \in 1..n} |-> order(id)]
  <1>1. /\ Running /\ n <= Cardinality(UnusedIds) /\ UNCHANGED <<day, ledger>>
        /\ plan'.of = made /\ orders' = AddOrders(new)
    BY DEF Rebalance
  <1>2. day \in 1..Days
    BY <1>1, RunningDay
  <1>3. DOMAIN targets \subseteq Instruments /\ \A i \in DOMAIN targets : targets[i] \in 0..One
    BY EngineConstants
  <1>4. made = BuildPlan(ledger, targets, Prices)
    OBVIOUS
  <1> HIDE DEF made
  <1>5. /\ made.candidates \in Seq(CoveredBy(ledger)) /\ made.bought \in Int
        /\ made.bought > 0 =>
             made.bought + Nearest(Equity(ledger) * CashBuffer, One) + ledger.payables <= ledger.cash
    BY <1>2, <1>3, <1>4, PricesArePriced, PlanIsCovered DEF EngineInv
  <1>6. n \in Nat /\ \A k \in 1..n : made.candidates[k] \in CoveredBy(ledger)
    BY <1>5, Elements
  <1> HIDE DEF n
  <1>7. \A k \in 1..n : NextIds[k] \in UnusedIds
    <2>1. IsFiniteSet(UnusedIds)
      BY EngineConstants, FS_Subset DEF UnusedIds
    <2>2. Cardinality(UnusedIds) \in Nat /\ NextIds \in [1..Cardinality(UnusedIds) -> UnusedIds]
      BY <2>1, SetInOrder DEF NextIds
    <2>3. \A k \in 1..n : k \in 1..Cardinality(UnusedIds)
      BY <1>1, <1>6, <2>2
    <2> QED
      BY <2>2, <2>3
  <1>8. \A k \in 1..n : \A s, d :
           /\ OrderOK(CreateOrder(PlannedIntent(made.candidates[k], s, d)))
           /\ CreateOrder(PlannedIntent(made.candidates[k], s, d)).fills = <<>>
    <2> TAKE k \in 1..n
    <2> TAKE s, d
    <2> DEFINE intent == PlannedIntent(made.candidates[k], s, d)
    <2>1. made.candidates[k] \in PlanOrders /\ made.candidates[k].qty > 0
      BY <1>6 DEF CoveredBy
    <2>2. intent.inst \in Instruments /\ intent.side \in Sides /\ intent.target \in Nat \ {0}
      BY <2>1 DEF PlanOrders, PlannedIntent
    <2> HIDE DEF intent
    <2>3. OrderOK(CreateOrder(intent)) /\ CreateOrder(intent).fills = <<>>
      BY <2>2, OrderIsFresh
    <2> QED
      BY <2>3 DEF intent
  <1>9. DOMAIN new \subseteq UnusedIds /\ \A id \in DOMAIN new : OrderOK(new[id]) /\ new[id].fills = <<>>
    <2>1. DOMAIN new \subseteq UnusedIds
      BY <1>7
    <2>2. ASSUME NEW id \in DOMAIN new PROVE OrderOK(new[id]) /\ new[id].fills = <<>>
      <3> DEFINE k == CHOOSE j \in 1..n : id = NextIds[j]
      <3>1. k \in 1..n
        BY <2>2
      <3>2. new[id] = CreateOrder(PlannedIntent(made.candidates[k], day - 1, day))
        BY <2>2
      <3> HIDE DEF k, new
      <3> QED
        BY <1>8, <3>1, <3>2
    <2> HIDE DEF new
    <2> QED
      BY <2>1, <2>2
  <1> HIDE DEF new
  <1>10. /\ OrdersOK(orders') /\ \A id \in DOMAIN orders : orders'[id] = orders[id]
         /\ \A inst, side : FilledIn(orders', inst, side) = FilledIn(orders, inst, side)
    BY <1>1, <1>9, OrdersAdded DEF EngineInv
  <1>11. EngineInv'
    BY <1>1, <1>10 DEF EngineInv, Positions
  <1> QED
    BY <1>1, <1>5, <1>10, <1>11

LEMMA TradeKeeps ==
    ASSUME EngineInv, NEW id \in DOMAIN orders, Trade(id) PROVE EngineInv' /\ Entered
  <1> DEFINE o == orders[id]
             avail == AvailabilityOf(o.intent.inst)
             next == Execute(o, Bar(o.intent.inst), avail, day)
  <1>1. /\ Running /\ Executable(o, day) /\ orders' = [orders EXCEPT ![id] = next]
        /\ IF Len(next.fills) > Len(o.fills) THEN Book(o.intent, Last(next.fills), id) ELSE UNCHANGED ledger
        /\ day' = day
    BY DEF Trade
  <1>2. day \in 1..Days /\ OrderOK(o)
    BY <1>1, RunningDay DEF EngineInv, OrdersOK
  <1>3. Bar(o.intent.inst).price \in Nat \ {0}
    BY <1>2, BarIsPriced DEF OrderOK
  <1> HIDE DEF avail
  <1>4. next = Execute(o, Bar(o.intent.inst), avail, day)
    OBVIOUS
  <1> HIDE DEF next
  <1>5. /\ OrderOK(next) /\ next.intent = o.intent
        /\ \/ next.fills = o.fills
           \/ \E fill \in Fills : /\ next.fills = Append(o.fills, fill) /\ fill.day = day
                                  /\ Len(next.fills) > Len(o.fills) /\ Last(next.fills) = fill
    BY <1>1, <1>2, <1>3, <1>4, ExecuteKeeps
  <1>6. CASE next.fills = o.fills
    <2>1. UNCHANGED ledger
      BY <1>1, <1>2, <1>6, Elements DEF OrderOK
    <2>2. OrdersOK(orders') /\ Positions(ledger', orders')
      BY <1>1, <1>5, <1>6, <2>1, OrderMoved
    <2> QED
      BY <1>1, <2>1, <2>2 DEF EngineInv, Entered
  <1>7. CASE next.fills # o.fills
    <2>1. PICK fill \in Fills : /\ next.fills = Append(o.fills, fill)
                                /\ Len(next.fills) > Len(o.fills) /\ Last(next.fills) = fill
      BY <1>5, <1>7
    <2>2. Book(orders[id].intent, fill, id)
      BY <1>1, <2>1
    <2>3. /\ IsEntry(ledger, ledger') /\ LedgerOK(ledger') /\ Numbered(ledger'.events)
          /\ OrdersOK(orders') /\ Positions(ledger', orders')
      BY <1>1, <1>5, <2>1, <2>2, FillIsBooked
    <2> QED
      BY <1>1, <2>3 DEF EngineInv, Entered
  <1> QED
    BY <1>6, <1>7

LEMMA FillPartlyKeeps ==
    ASSUME EngineInv, NEW id \in DOMAIN orders, NEW qty \in 1..MaxQuantity, FillPartly(id, qty)
    PROVE  EngineInv' /\ Entered
  <1> DEFINE o == orders[id]
             price == Bar(o.intent.inst).price
             next == RecordFill(o, qty, price, day)
             fill == [qty |-> qty, price |-> price, day |-> day]
  <1>1. /\ Running /\ orders' = [orders EXCEPT ![id] = next] /\ o.filled + qty <= o.intent.target
        /\ Book(o.intent, Last(next.fills), id) /\ day' = day
    BY DEF FillPartly, MayFill
  <1>2. day \in 1..Days /\ OrderOK(o) /\ qty \in Nat \ {0}
    BY <1>1, RunningDay, OrderConstants DEF EngineInv, OrdersOK
  <1>3. price \in Nat \ {0}
    BY <1>2, BarIsPriced DEF OrderOK
  <1> HIDE DEF price
  <1>4. next = RecordFill(o, qty, price, day)
    OBVIOUS
  <1> HIDE DEF next
  <1>5. /\ OrderOK(next) /\ next.intent = o.intent
        /\ next.fills = Append(o.fills, [qty |-> qty, price |-> price, day |-> day])
        /\ Last(next.fills) = [qty |-> qty, price |-> price, day |-> day]
    BY <1>1, <1>2, <1>3, <1>4, FillKeeps
  <1>6. fill \in Fills
    BY <1>2, <1>3 DEF Fills
  <1>7. Book(orders[id].intent, fill, id) /\ next.fills = Append(o.fills, fill)
    BY <1>1, <1>5
  <1> HIDE DEF fill
  <1>8. /\ IsEntry(ledger, ledger') /\ LedgerOK(ledger') /\ Numbered(ledger'.events)
        /\ OrdersOK(orders') /\ Positions(ledger', orders')
    BY <1>1, <1>5, <1>6, <1>7, FillIsBooked
  <1> QED
    BY <1>1, <1>8 DEF EngineInv, Entered

LEMMA StatusKeeps ==
    ASSUME EngineInv, NEW id \in DOMAIN orders, AcceptOrder(id) \/ CancelOrder(id)
    PROVE  EngineInv' /\ Entered
  <1> DEFINE o == orders[id]
  <1>1. OrderOK(o)
    BY DEF EngineInv, OrdersOK
  <1>2. /\ \/ orders' = [orders EXCEPT ![id] = Accept(o)] /\ MayAccept(o)
           \/ orders' = [orders EXCEPT ![id] = Cancel(o)]
        /\ UNCHANGED <<day, ledger>>
    BY DEF AcceptOrder, CancelOrder
  <1>3. OrderOK(Cancel(o)) /\ Cancel(o).intent = o.intent /\ Cancel(o).fills = o.fills
    <2>1. "cancelled" \in Statuses /\ "cancelled" \notin OpenStatuses
      BY DEF Statuses, OpenStatuses, TerminalOrderStatuses
    <2> QED
      BY <1>1, <2>1, MovedKeeps DEF Cancel
  <1>4. MayAccept(o) => OrderOK(Accept(o)) /\ Accept(o).intent = o.intent /\ Accept(o).fills = o.fills
    <2>1. "accepted" \in Statuses
      BY DEF Statuses, OpenStatuses
    <2>2. MayAccept(o) => o.filled < o.intent.target
      BY <1>1 DEF OrderOK, MayAccept, MayMove, IsTerminal, Statuses
    <2> QED
      BY <1>1, <2>1, <2>2, MovedKeeps DEF Accept
  <1> HIDE DEF o
  <1>5. PICK next : /\ orders' = [orders EXCEPT ![id] = next]
                    /\ OrderOK(next) /\ next.intent = o.intent /\ next.fills = o.fills
    BY <1>2, <1>3, <1>4
  <1>6. OrdersOK(orders') /\ Positions(ledger', orders')
    BY <1>2, <1>5, OrderMoved DEF o
  <1> QED
    BY <1>2, <1>6 DEF EngineInv, Entered

LEMMA PostKeeps ==
    ASSUME EngineInv, SettleDebts \/ SettleClaims \/ \E a \in ActionPlan : PostAction(a)
    PROVE  EngineInv' /\ Entered
  <1>1. LedgerOK(ledger) /\ Numbered(ledger.events)
    BY DEF EngineInv
  <1>2. /\ UNCHANGED <<day, orders>>
        /\ IsEntry(ledger, ledger') /\ LedgerOK(ledger') /\ Numbered(ledger'.events)
        /\ Positions(ledger', orders')
    <2>1. CASE SettleDebts
      <3> DEFINE e == SettlePayableEvent(ledger, ledger.payables, "payables")
      <3>1. /\ ledger.payables > 0 /\ Running /\ ledger' = Apply(ledger, e) /\ UNCHANGED <<day, orders>>
        BY <2>1 DEF SettleDebts, Post
      <3>2. e = SettlePayableEvent(ledger, ledger.payables, "payables") /\ 0 \in Int
        OBVIOUS
      <3> HIDE DEF e
      <3>3. /\ IsEntry(ledger, ledger') /\ LedgerOK(ledger') /\ Numbered(ledger'.events)
            /\ Moves(ledger, ledger', e.inst, 0, 0)
        BY <1>1, <3>1, <3>2, DebtSettled
      <3>4. Positions(ledger', orders')
        BY <3>1, <3>2, <3>3, EntryWithoutOrder
      <3> QED
        BY <3>1, <3>3, <3>4
    <2>2. CASE SettleClaims
      <3> DEFINE e == SettleReceivableEvent(ledger, ledger.receivables, "receivables")
      <3>1. /\ ledger.receivables > 0 /\ Running /\ ledger' = Apply(ledger, e) /\ UNCHANGED <<day, orders>>
        BY <2>2 DEF SettleClaims, Post
      <3>2. e = SettleReceivableEvent(ledger, ledger.receivables, "receivables") /\ 0 \in Int
        OBVIOUS
      <3> HIDE DEF e
      <3>3. /\ IsEntry(ledger, ledger') /\ LedgerOK(ledger') /\ Numbered(ledger'.events)
            /\ Moves(ledger, ledger', e.inst, 0, 0)
        BY <1>1, <3>1, <3>2, ClaimSettled
      <3>4. Positions(ledger', orders')
        BY <3>1, <3>2, <3>3, EntryWithoutOrder
      <3> QED
        BY <3>1, <3>3, <3>4
    <2>3. CASE \E a \in ActionPlan : PostAction(a)
      <3>1. PICK a \in ActionPlan : PostAction(a)
        BY <2>3
      <3> DEFINE e == EventOf(a)
      <3>2. /\ PositionQuantity(ledger, a.inst) > 0 /\ Running /\ Applies(ledger, e)
            /\ ledger' = Apply(ledger, e) /\ UNCHANGED <<day, orders>>
        BY <3>1 DEF PostAction, Post
      <3>3. e = EventOf(a)
        OBVIOUS
      <3> HIDE DEF e
      <3>4. day \in 1..Days
        BY <3>2, RunningDay
      <3>5. /\ IsEntry(ledger, ledger') /\ LedgerOK(ledger') /\ Numbered(ledger'.events)
            /\ e.shares \in Int /\ Moves(ledger, ledger', a.inst, e.shares, e.shares)
        BY <1>1, <3>2, <3>3, <3>4, ActionKeeps
      <3>6. Positions(ledger', orders')
        BY <3>2, <3>5, EntryWithoutOrder
      <3> QED
        BY <3>2, <3>5, <3>6
    <2> QED
      BY <2>1, <2>2, <2>3
  <1>3. OrdersOK(orders') /\ day' = day
    BY <1>2 DEF EngineInv
  <1> QED
    BY <1>2, <1>3 DEF EngineInv, Entered

LEMMA CloseKeeps == ASSUME EngineInv, Close PROVE EngineInv' /\ Entered
  <1> DEFINE held == OpenInstruments(ledger)
             prices == [i \in held |-> Prices[i]]
             mark == ValuationEvent(ledger, prices, day)
  <1>1. /\ Running /\ day' = day + 1 /\ UNCHANGED orders
        /\ ledger' = IF held = {} THEN ledger ELSE Apply(ledger, mark)
    BY DEF Close
  <1>2. day \in 1..Days /\ LedgerOK(ledger) /\ Numbered(ledger.events) /\ OrdersOK(orders) /\ Positions(ledger, orders)
    BY <1>1, RunningDay DEF EngineInv
  <1>3. day + 1 \in 1..(Days + 1)
    BY <1>2, OrderConstants
  <1>4. CASE held = {}
    BY <1>1, <1>2, <1>3, <1>4 DEF EngineInv, Entered
  <1>5. CASE held # {}
    <2>1. held \subseteq Instruments
      BY <1>2, Elements, LotFields DEF OpenInstruments, LedgerOK
    <2>2. prices \in [held -> Nat]
      <3>1. IsPriced(Prices)
        BY <1>2, PricesArePriced
      <3> HIDE DEF held
      <3> QED
        BY <2>1, <3>1 DEF IsPriced
    <2>3. ledger' = Apply(ledger, mark) /\ mark = ValuationEvent(ledger, prices, day)
      BY <1>1, <1>5
    <2> HIDE DEF mark, prices, held
    <2>4. /\ IsEntry(ledger, ledger') /\ LedgerOK(ledger') /\ Numbered(ledger'.events)
          /\ Moves(ledger, ledger', mark.inst, 0, 0)
      BY <1>2, <2>2, <2>3, MarkKeeps
    <2>5. 0 \in Int
      OBVIOUS
    <2>6. Positions(ledger', orders')
      BY <1>1, <2>4, <2>5, EntryWithoutOrder
    <2>7. OrdersOK(orders')
      BY <1>1, <1>2
    <2> QED
      BY <1>1, <1>3, <2>4, <2>6, <2>7 DEF EngineInv, Entered
  <1> QED
    BY <1>4, <1>5

LEMMA StepKeeps == ASSUME EngineInv, [Next]_vars PROVE EngineInv' /\ Entered
  <1>1. ASSUME NEW intent \in Intents, PlaceOrder(intent) PROVE EngineInv' /\ Entered
    BY <1>1, PlaceKeeps DEF PlaceOrder, Entered
  <1>2. ASSUME NEW targets \in TargetChoices, Rebalance(targets) PROVE EngineInv' /\ Entered
    BY <1>2, RebalanceKeeps DEF Rebalance, Entered
  <1>3. ASSUME NEW id \in DOMAIN orders,
               Trade(id) \/ (\E qty \in 1..MaxQuantity : FillPartly(id, qty)) \/ AcceptOrder(id) \/ CancelOrder(id)
        PROVE  EngineInv' /\ Entered
    BY <1>3, TradeKeeps, FillPartlyKeeps, StatusKeeps
  <1>4. CASE SettleDebts \/ SettleClaims \/ \E a \in ActionPlan : PostAction(a)
    BY <1>4, PostKeeps
  <1>5. CASE Close
    BY <1>5, CloseKeeps
  <1>6. CASE UNCHANGED vars
    BY <1>6 DEF vars, EngineInv, Entered, Positions
  <1> QED
    BY <1>1, <1>2, <1>3, <1>4, <1>5, <1>6 DEF Next, Over

LEMMA EngineInvHolds == Spec => []EngineInv
  <1>1. Init => EngineInv
    BY InitHolds
  <1>2. EngineInv /\ [Next]_vars => EngineInv'
    BY StepKeeps
  <1> QED
    BY <1>1, <1>2, PTL DEF Spec

\* The shares of a position are the ones its orders bought, less the ones they
\* sold, plus what corporate actions gave: for all orders, fills, lots, splits
\* and liquidations, in any order (execution.py, PortfolioLedger._apply_event).
THEOREM PositionsAlwaysMatch == Spec => []PositionsMatchFills
  <1>1. EngineInv => PositionsMatchFills
    BY FilledIsSum, EarnedIsSum DEF EngineInv, Positions, PositionsMatchFills
  <1> QED
    BY <1>1, EngineInvHolds, PTL

-----------------------------------------------------------------------------
(* The accounts                                                            *)

LEMMA EarnedNext == Earned' = EarnedIn(ledger')
  BY DEF Earned, EarnedIn, Total, Pnls, Pnl, Dividends, Dividend

LEMMA EntryIsStep ==
    ASSUME LedgerOK(ledger), LedgerOK(ledger'), IsEntry(ledger, ledger')
    PROVE  Books!Next \/ UNCHANGED Books!vars
  <1>1. /\ ledger.cash \in Int /\ ledger.receivables \in Int /\ ledger.payables \in Int
        /\ BookCost(ledger) \in Int /\ Earned \in Int /\ Earned = EarnedIn(ledger)
    BY LedgerFigures, EarnedIsSum
  <1>2. /\ Earned' = EarnedIn(ledger') /\ BookCost(ledger)' = BookCost(ledger')
    BY EarnedNext
  <1> HIDE DEF Earned
  <1>3. ASSUME NEW a \in Nat \ {0}, Entry(ledger, ledger', 0, 0, a, a, 0) PROVE Books!Next
    <2>1. /\ ledger'.payables - ledger.payables = a
          /\ ledger'.payables = ledger.payables + a /\ BookCost(ledger') = BookCost(ledger) + a
          /\ ledger'.cash = ledger.cash /\ ledger'.receivables = ledger.receivables /\ Earned' = Earned
      BY <1>1, <1>2, <1>3 DEF Entry
    <2>2. Books!Acquire(ledger'.payables - ledger.payables)
      BY <1>2, <2>1 DEF Books!Acquire
    <2> QED
      BY <2>2 DEF Books!Next
  <1>4. ASSUME NEW a \in Nat \ {0}, NEW c \in 0..BookCost(ledger), Entry(ledger, ledger', 0, a, 0, -c, a - c)
        PROVE  Books!Next
    <2>1. /\ ledger'.receivables - ledger.receivables = a /\ BookCost(ledger) - BookCost(ledger') = c
          /\ ledger'.receivables = ledger.receivables + a /\ BookCost(ledger') = BookCost(ledger) - c
          /\ ledger'.cash = ledger.cash /\ ledger'.payables = ledger.payables /\ Earned' = Earned + (a - c)
      BY <1>1, <1>2, <1>4 DEF Entry
    <2>2. Books!Dispose(ledger'.receivables - ledger.receivables, BookCost(ledger) - BookCost(ledger'))
      BY <1>2, <2>1 DEF Books!Dispose
    <2> QED
      BY <1>2, <2>2 DEF Books!Next
  <1>5. ASSUME NEW a \in Nat \ {0}, Entry(ledger, ledger', 0, a, 0, 0, a) PROVE Books!Next
    <2>1. /\ ledger'.receivables - ledger.receivables = a
          /\ ledger'.receivables = ledger.receivables + a /\ BookCost(ledger') = BookCost(ledger)
          /\ ledger'.cash = ledger.cash /\ ledger'.payables = ledger.payables /\ Earned' = Earned + a
      BY <1>1, <1>2, <1>5 DEF Entry
    <2>2. Books!Receive(ledger'.receivables - ledger.receivables)
      BY <1>2, <2>1 DEF Books!Receive
    <2> QED
      BY <2>2 DEF Books!Next
  <1>6. ASSUME NEW a \in 1..ledger.payables, Entry(ledger, ledger', -a, 0, -a, 0, 0) PROVE Books!Next
    <2>1. /\ ledger.payables - ledger'.payables = a
          /\ ledger'.payables = ledger.payables - a /\ BookCost(ledger') = BookCost(ledger)
          /\ ledger'.cash = ledger.cash - a /\ ledger'.receivables = ledger.receivables /\ Earned' = Earned
      BY <1>1, <1>2, <1>6 DEF Entry
    <2>2. Books!SettlePayable(ledger.payables - ledger'.payables)
      BY <1>2, <2>1 DEF Books!SettlePayable
    <2> QED
      BY <2>2 DEF Books!Next
  <1>7. ASSUME NEW a \in 1..ledger.receivables, Entry(ledger, ledger', a, -a, 0, 0, 0) PROVE Books!Next
    <2>1. /\ ledger.receivables - ledger'.receivables = a
          /\ ledger'.receivables = ledger.receivables - a /\ BookCost(ledger') = BookCost(ledger)
          /\ ledger'.cash = ledger.cash + a /\ ledger'.payables = ledger.payables /\ Earned' = Earned
      BY <1>1, <1>2, <1>7 DEF Entry
    <2>2. Books!SettleReceivable(ledger.receivables - ledger'.receivables)
      BY <1>2, <2>1 DEF Books!SettleReceivable
    <2> QED
      BY <2>2 DEF Books!Next
  <1>8. CASE Entry(ledger, ledger', 0, 0, 0, 0, 0)
    BY <1>1, <1>2, <1>8 DEF Entry, Books!vars
  <1> QED
    BY <1>3, <1>4, <1>5, <1>6, <1>7, <1>8 DEF IsEntry

LEMMA StepIsEntry ==
    ASSUME EngineInv, [Next]_vars PROVE [Books!Next]_(Books!vars)
  <1>1. EngineInv' /\ Entered
    BY StepKeeps
  <1>2. CASE IsEntry(ledger, ledger')
    <2>1. LedgerOK(ledger) /\ LedgerOK(ledger')
      BY <1>1 DEF EngineInv
    <2> QED
      BY <1>2, <2>1, EntryIsStep
  <1>3. CASE UNCHANGED ledger
    <2>1. Earned' = Earned
      BY <1>3, EarnedNext, EarnedIsSum
    <2> HIDE DEF Earned
    <2> QED
      BY <1>3, <2>1 DEF Books!vars
  <1> QED
    BY <1>1, <1>2, <1>3 DEF Entered

\* The ledger implements the accounts: every fill, settlement, corporate action
\* and mark is one entry of the accounts, or none, with FIFO lots, fees, rounded
\* cost shares and splits in it (PortfolioLedger._apply_event, _reduce_lots).
THEOREM LedgerImplementsAccounts == Spec => ImplementsAccounts
  <1>1. Init => Books!Init
    BY InitHolds
  <1>2. EngineInv /\ [Next]_vars => [Books!Next]_(Books!vars)
    BY StepIsEntry
  <1> QED
    BY <1>1, <1>2, EngineInvHolds, PTL DEF Spec, ImplementsAccounts, Books!Spec

\* Claims, debts and the cost of what is held never go below zero: no settlement
\* takes more than is owed, no sale more cost than its lots have.
THEOREM NothingBecomesNegative == Spec => []Books!NothingNegative
  <1>1. EngineInv => Books!NothingNegative
    BY LedgerFigures DEF EngineInv, Books!NothingNegative
  <1> QED
    BY <1>1, EngineInvHolds, PTL

LEMMA EntryBalances ==
    ASSUME LedgerOK(ledger), LedgerOK(ledger'), IsEntry(ledger, ledger'), Books!BooksBalance
    PROVE  Books!BooksBalance'
  <1> DEFINE worth(l) == l.cash + l.receivables - l.payables + BookCost(l)
  <1>1. /\ ledger.cash \in Int /\ ledger.receivables \in Int /\ ledger.payables \in Int
        /\ BookCost(ledger) \in Int /\ EarnedIn(ledger) \in Int
    BY LedgerFigures
  <1>2. InitialCash \in Int /\ InitialCash + EarnedIn(ledger) = worth(ledger)
    BY LedgerConstants, EarnedIsSum DEF Books!BooksBalance
  <1>3. \A c, r, p, b, n \in Int : n = c + r - p + b /\ Entry(ledger, ledger', c, r, p, b, n)
          => InitialCash + EarnedIn(ledger') = worth(ledger')
    BY <1>1, <1>2 DEF Entry
  <1> HIDE DEF worth
  <1>4. InitialCash + EarnedIn(ledger') = worth(ledger')
    <2>1. ASSUME NEW a \in Nat \ {0}, Entry(ledger, ledger', 0, 0, a, a, 0)
          PROVE  InitialCash + EarnedIn(ledger') = worth(ledger')
      <3>1. a \in Int /\ 0 \in Int /\ 0 = 0 + 0 - a + a
        OBVIOUS
      <3> QED
        BY <1>3, <2>1, <3>1
    <2>2. ASSUME NEW a \in Nat \ {0}, NEW c \in 0..BookCost(ledger), Entry(ledger, ledger', 0, a, 0, -c, a - c)
          PROVE  InitialCash + EarnedIn(ledger') = worth(ledger')
      <3>1. a \in Int /\ 0 \in Int /\ -c \in Int /\ a - c \in Int /\ a - c = 0 + a - 0 + (-c)
        BY <1>1
      <3> QED
        BY <1>3, <2>2, <3>1
    <2>3. ASSUME NEW a \in Nat \ {0}, Entry(ledger, ledger', 0, a, 0, 0, a)
          PROVE  InitialCash + EarnedIn(ledger') = worth(ledger')
      <3>1. a \in Int /\ 0 \in Int /\ a = 0 + a - 0 + 0
        OBVIOUS
      <3> QED
        BY <1>3, <2>3, <3>1
    <2>4. ASSUME NEW a \in 1..ledger.payables, Entry(ledger, ledger', -a, 0, -a, 0, 0)
          PROVE  InitialCash + EarnedIn(ledger') = worth(ledger')
      <3>1. -a \in Int /\ 0 \in Int /\ 0 = (-a) + 0 - (-a) + 0
        BY <1>1
      <3> QED
        BY <1>3, <2>4, <3>1
    <2>5. ASSUME NEW a \in 1..ledger.receivables, Entry(ledger, ledger', a, -a, 0, 0, 0)
          PROVE  InitialCash + EarnedIn(ledger') = worth(ledger')
      <3>1. a \in Int /\ -a \in Int /\ 0 \in Int /\ 0 = a + (-a) - 0 + 0
        BY <1>1
      <3> QED
        BY <1>3, <2>5, <3>1
    <2>6. CASE Entry(ledger, ledger', 0, 0, 0, 0, 0)
      <3>1. 0 \in Int /\ 0 = 0 + 0 - 0 + 0
        OBVIOUS
      <3> QED
        BY <1>3, <2>6, <3>1
    <2> QED
      BY <2>1, <2>2, <2>3, <2>4, <2>5, <2>6 DEF IsEntry
  <1> QED
    BY <1>4, EarnedNext DEF Books!BooksBalance, worth

\* No money is created or lost, however many fills, settlements, splits and
\* liquidations there are: what was put in and what was earned is what there is
\* in cash, claims and holdings at cost, less the debts (ledger.py).
THEOREM BooksAlwaysBalance == Spec => []Books!BooksBalance
  <1>1. Init => Books!BooksBalance
    <2>1. ASSUME Books!Init PROVE Books!BooksBalance
      BY <2>1, LedgerConstants DEF Books!Init, Books!BooksBalance
    <2> QED
      BY <2>1, InitHolds
  <1>2. EngineInv /\ EngineInv' /\ Books!BooksBalance /\ [Next]_vars => Books!BooksBalance'
    <2> SUFFICES ASSUME EngineInv, EngineInv', Books!BooksBalance, [Next]_vars PROVE Books!BooksBalance'
      OBVIOUS
    <2>1. CASE IsEntry(ledger, ledger')
      <3>1. LedgerOK(ledger) /\ LedgerOK(ledger')
        BY DEF EngineInv
      <3> QED
        BY <2>1, <3>1, EntryBalances
    <2>2. CASE UNCHANGED ledger
      <3>1. Earned' = Earned
        BY <2>2, EarnedNext, EarnedIsSum
      <3> HIDE DEF Earned
      <3> QED
        BY <2>2, <3>1 DEF Books!BooksBalance
    <2> QED
      BY <2>1, <2>2, StepKeeps DEF Entered
  <1> QED
    BY <1>1, <1>2, EngineInvHolds, PTL DEF Spec

-----------------------------------------------------------------------------
(* Plans                                                                   *)

\* A plan that is made spends only settled cash that is neither owed nor in the
\* buffer, and sells only shares that are held: all its orders together, after
\* every clamp and rounding (rebalance.py, _candidates and _approve).
THEOREM PlansAlwaysCovered == Spec => PlansAreCovered
  <1>1. EngineInv /\ [Next]_vars =>
          [ (plan'.made /\ ~plan.made) =>
              /\ plan'.of.bought > 0 =>
                    plan'.of.bought + Nearest(Equity(ledger) * CashBuffer, One)
                        + ledger.payables <= ledger.cash
              /\ \A n \in DOMAIN plan'.of.candidates :
                    LET c == plan'.of.candidates[n]
                    IN  c.side = "sell" => c.qty <= PositionQuantity(ledger, c.inst) ]_vars
    <2> SUFFICES ASSUME EngineInv, Next, plan'.made, ~plan.made
                 PROVE  /\ plan'.of.bought > 0 =>
                              plan'.of.bought + Nearest(Equity(ledger) * CashBuffer, One)
                                  + ledger.payables <= ledger.cash
                        /\ \A n \in DOMAIN plan'.of.candidates :
                              plan'.of.candidates[n].side = "sell"
                                => plan'.of.candidates[n].qty
                                     <= PositionQuantity(ledger, plan'.of.candidates[n].inst)
      OBVIOUS
    <2>1. PICK targets \in TargetChoices : Rebalance(targets)
      <3>1. plan' # plan /\ plan' # NoPlan
        BY DEF NoPlan
      <3> QED
        BY <3>1 DEF Next, PlaceOrder, Trade, FillPartly, AcceptOrder, CancelOrder, SettleDebts,
                    SettleClaims, PostAction, Post, Close, Over, vars
    <2>2. PICK made : /\ plan'.of = made /\ made.candidates \in Seq(CoveredBy(ledger))
                      /\ made.bought > 0 =>
                           made.bought + Nearest(Equity(ledger) * CashBuffer, One)
                             + ledger.payables <= ledger.cash
      BY <2>1, RebalanceKeeps
    <2>3. ASSUME NEW n \in DOMAIN made.candidates, made.candidates[n].side = "sell"
          PROVE  made.candidates[n].qty <= PositionQuantity(ledger, made.candidates[n].inst)
      <3>1. made.candidates[n] \in CoveredBy(ledger)
        BY <2>2, Elements
      <3> QED
        BY <2>3, <3>1 DEF CoveredBy
    <2> QED
      BY <2>2, <2>3
  <1> QED
    BY <1>1, EngineInvHolds, PTL DEF Spec, PlansAreCovered

-----------------------------------------------------------------------------
(* Replay                                                                  *)

\* The ledgers after the first 0, 1, ..., m events of a stream.
AreLedgers(g, stream, m) ==
    g = [n \in 0..m |-> IF n = 0 THEN EmptyLedger ELSE Apply(g[n - 1], stream[n])]

LEMMA LedgersExist ==
    ASSUME NEW stream, NEW n \in Nat PROVE \E g : AreLedgers(g, stream, n)
  <1> DEFINE T == {m \in 0..n : \E g : AreLedgers(g, stream, m)}
  <1>1. 0 \in T
    <2> DEFINE g == [k \in 0..0 |-> EmptyLedger]
    <2>1. \A k \in 0..0 : k = 0
      OBVIOUS
    <2>2. g = [k \in 0..0 |-> IF k = 0 THEN EmptyLedger ELSE Apply(g[k - 1], stream[k])]
      BY <2>1
    <2> HIDE DEF g
    <2>3. AreLedgers(g, stream, 0) /\ 0 \in 0..n
      BY <2>2 DEF AreLedgers
    <2> QED
      BY <2>3
  <1>2. ASSUME NEW k \in 1..n, k - 1 \in T PROVE k \in T
    <2>1. PICK g : AreLedgers(g, stream, k - 1)
      BY <1>2
    <2> DEFINE h == [j \in 0..k |-> IF j = k THEN Apply(g[k - 1], stream[k]) ELSE g[j]]
    <2>2. g[0] = EmptyLedger /\ \A j \in 1..(k - 1) : g[j] = Apply(g[j - 1], stream[j])
      BY <2>1 DEF AreLedgers
    <2>3. h[0] = EmptyLedger
      BY <2>2
    <2>4. ASSUME NEW j \in 1..k PROVE h[j] = Apply(h[j - 1], stream[j])
      <3>1. h[j - 1] = g[j - 1]
        OBVIOUS
      <3>2. CASE j = k
        BY <3>1, <3>2
      <3>3. CASE j # k
        <4>1. j \in 1..(k - 1) /\ h[j] = g[j]
          BY <3>3
        <4> QED
          BY <2>2, <3>1, <4>1
      <3> QED
        BY <3>2, <3>3
    <2>5. h = [j \in 0..k |-> h[j]]
      OBVIOUS
    <2> HIDE DEF h
    <2>6. \A j \in 0..k : h[j] = IF j = 0 THEN EmptyLedger ELSE Apply(h[j - 1], stream[j])
      BY <2>3, <2>4
    <2>7. h = [j \in 0..k |-> IF j = 0 THEN EmptyLedger ELSE Apply(h[j - 1], stream[j])]
      BY <2>5, <2>6
    <2> QED
      BY <2>7 DEF AreLedgers
  <1> HIDE DEF T
  <1>3. 0..n \subseteq T
    BY <1>1, <1>2, Climb
  <1> QED
    BY <1>3 DEF T

\* The ledgers a replay goes through, and the one it ends with.
IsReplay(g, stream) ==
    /\ g[0] = EmptyLedger
    /\ \A k \in 1..Len(stream) : g[k] = Apply(g[k - 1], stream[k])
    /\ Replay(stream) = g[Len(stream)]

LEMMA ReplayedOneByOne ==
    ASSUME NEW stream, Len(stream) \in Nat PROVE \E g : IsReplay(g, stream)
  <1> DEFINE g == CHOOSE f : AreLedgers(f, stream, Len(stream))
  <1>1. Replay(stream) = g[Len(stream)]
    BY DEF Replay, AreLedgers
  <1>2. AreLedgers(g, stream, Len(stream))
    BY LedgersExist
  <1> HIDE DEF g
  <1>3. g[0] = EmptyLedger /\ \A k \in 1..Len(stream) : g[k] = Apply(g[k - 1], stream[k])
    BY <1>2 DEF AreLedgers
  <1>4. IsReplay(g, stream)
    BY <1>1, <1>3 DEF IsReplay
  <1> QED
    BY <1>4

\* One event more is one step more.
LEMMA ReplayOfAppend ==
    ASSUME NEW s, IsList(s), NEW e
    PROVE  Replay(Append(s, e)) = Apply(Replay(s), e)
  <1> DEFINE t == Append(s, e)
  <1>1. /\ Len(s) \in Nat /\ Len(t) = Len(s) + 1 /\ t[Len(s) + 1] = e
        /\ \A k \in 1..Len(s) : t[k] = s[k]
    BY ListGrows
  <1> HIDE DEF t
  <1>2. Len(t) \in Nat
    BY <1>1
  <1>3. PICK g : IsReplay(g, s)
    BY <1>1, ReplayedOneByOne
  <1>4. /\ g[0] = EmptyLedger /\ \A k \in 1..Len(s) : g[k] = Apply(g[k - 1], s[k])
        /\ Replay(s) = g[Len(s)]
    BY <1>3 DEF IsReplay
  <1>5. PICK h : IsReplay(h, t)
    BY <1>2, ReplayedOneByOne
  <1>6. /\ h[0] = EmptyLedger /\ \A k \in 1..Len(t) : h[k] = Apply(h[k - 1], t[k])
        /\ Replay(t) = h[Len(t)]
    BY <1>5 DEF IsReplay
  <1> DEFINE T == {k \in 0..Len(s) : h[k] = g[k]}
  <1>7. 0 \in T
    BY <1>1, <1>4, <1>6
  <1>8. ASSUME NEW k \in 1..Len(s), k - 1 \in T PROVE k \in T
    <2>1. h[k] = Apply(h[k - 1], t[k]) /\ t[k] = s[k] /\ h[k - 1] = g[k - 1]
      BY <1>1, <1>6, <1>8
    <2> QED
      BY <1>1, <1>4, <2>1
  <1> HIDE DEF T
  <1>9. 0..Len(s) \subseteq T
    BY <1>1, <1>7, <1>8, Climb
  <1>10. h[Len(s)] = g[Len(s)]
    BY <1>1, <1>9 DEF T
  <1>11. h[Len(t)] = Apply(h[Len(s)], e)
    <2>1. Len(t) \in 1..Len(t) /\ Len(t) - 1 = Len(s)
      BY <1>1
    <2> QED
      BY <1>1, <1>6, <2>1
  <1> QED
    BY <1>4, <1>6, <1>10, <1>11 DEF t

\* A replay on the way holds the events up to there, as they are numbered.
LEMMA ReplayedEvents ==
    ASSUME NEW s, Numbered(s), NEW g, g[0] = EmptyLedger,
           \A k \in 1..Len(s) : g[k] = Apply(g[k - 1], s[k])
    PROVE  \A k \in 0..Len(s) : \A j \in 1..k : IsRepeated(g[k], s[j])
  <1> DEFINE Holds(k) == /\ IsList(g[k].events) /\ Len(g[k].events) = k
                         /\ \A j \in 1..k : g[k].events[j] = s[j]
             T == {k \in 0..Len(s) : Holds(k)}
  <1>1. Len(s) \in Nat /\ \A k \in 1..Len(s) : s[k].id = k
    BY ListGrows DEF Numbered
  <1>2. 0 \in T
    <2>1. <<>> \in Seq({}) /\ Len(<<>>) = 0
      OBVIOUS
    <2>2. EmptyLedger.events = <<>>
      BY DEF EmptyLedger
    <2>3. g[0].events = <<>>
      BY <2>2
    <2>4. IsList(g[0].events) /\ Len(g[0].events) = 0 /\ \A j \in 1..0 : g[0].events[j] = s[j]
      BY <2>1, <2>3 DEF IsList
    <2> QED
      BY <1>1, <2>4
  <1>3. ASSUME NEW k \in 1..Len(s), k - 1 \in T PROVE k \in T
    <2>1. /\ IsList(g[k - 1].events) /\ Len(g[k - 1].events) = k - 1
          /\ \A j \in 1..(k - 1) : g[k - 1].events[j] = s[j]
      BY <1>3
    <2>2. DOMAIN g[k - 1].events = 1..(k - 1)
      BY <2>1, ListGrows
    <2>3. ~IsRepeated(g[k - 1], s[k])
      <3> SUFFICES ASSUME NEW j \in 1..(k - 1), g[k - 1].events[j] = s[k] PROVE FALSE
        BY <2>2 DEF IsRepeated
      <3>1. j \in 1..Len(s) /\ j # k
        BY <1>1
      <3>2. s[j] = s[k]
        BY <2>1
      <3> QED
        BY <1>1, <3>1, <3>2
    <2>4. g[k].events = Append(g[k - 1].events, s[k])
      <3>1. g[k] = Apply(g[k - 1], s[k])
        OBVIOUS
      <3>2. Apply(g[k - 1], s[k]) = Posted(g[k - 1], s[k])
        BY <2>3 DEF Apply
      <3> QED
        BY <3>1, <3>2 DEF Posted
    <2>5. IsList(g[k].events) /\ Len(g[k].events) = (k - 1) + 1
      BY <2>1, <2>4, ListGrows
    <2>6. g[k].events[(k - 1) + 1] = s[k]
      BY <2>1, <2>4, ListGrows
    <2>7. \A j \in 1..(k - 1) : g[k].events[j] = s[j]
      BY <2>1, <2>4, ListGrows
    <2>8. (k - 1) + 1 = k
      OBVIOUS
    <2>9. \A j \in 1..k : j = k \/ j \in 1..(k - 1)
      OBVIOUS
    <2>10. Holds(k)
      BY <2>5, <2>6, <2>7, <2>8, <2>9
    <2> HIDE DEF Holds
    <2> QED
      BY <1>1, <2>10
  <1> HIDE DEF T
  <1>4. 0..Len(s) \subseteq T
    BY <1>1, <1>2, <1>3, Climb
  <1> SUFFICES ASSUME NEW k \in 0..Len(s), NEW j \in 1..k PROVE IsRepeated(g[k], s[j])
    OBVIOUS
  <1>5. Holds(k)
    BY <1>4 DEF T
  <1>6. DOMAIN g[k].events = 1..k
    BY <1>5, ListGrows
  <1> QED
    BY <1>5, <1>6 DEF IsRepeated

LEMMA RedeliveredElements ==
    ASSUME NEW s, IsList(s)
    PROVE  /\ Len(Redelivered(s)) = 3 * Len(s)
           /\ \A k \in 1..(2 * Len(s)) : Redelivered(s)[k] = s[(k + 1) \div 2]
           /\ \A k \in (2 * Len(s) + 1)..(3 * Len(s)) : Redelivered(s)[k] = s[k - 2 * Len(s)]
  <1>1. PICK E : s \in Seq(E)
    BY DEF IsList
  <1> DEFINE n == Len(s)
             d == [k \in 1..(2 * n) |-> s[(k + 1) \div 2]]
  <1>2. n \in Nat /\ DOMAIN s = 1..n /\ \A k \in 1..n : s[k] \in E
    BY <1>1, Elements
  <1>3. d \in Seq(E) /\ Len(d) = 2 * n
    <2>1. \A k \in 1..(2 * n) : (k + 1) \div 2 \in 1..n
      BY <1>2
    <2>2. d \in [1..(2 * n) -> E]
      BY <1>2, <2>1
    <2>3. 2 * n \in Nat
      BY <1>2
    <2> HIDE DEF d
    <2> QED
      BY <2>2, <2>3, IsSequence
  <1>4. \A k \in 1..(2 * n) : d[k] = s[(k + 1) \div 2]
    OBVIOUS
  <1>5. Redelivered(s) = d \o s
    BY DEF Redelivered
  <1> HIDE DEF d
  <1>6. /\ Len(d \o s) = Len(d) + n
        /\ \A k \in 1..(Len(d) + n) : (d \o s)[k] = IF k <= Len(d) THEN d[k] ELSE s[k - Len(d)]
    BY <1>1, <1>3
  <1> QED
    BY <1>2, <1>3, <1>4, <1>5, <1>6

\* Events that are delivered again change nothing.
LEMMA RedeliveryIsReplay ==
    ASSUME NEW s, Numbered(s)
    PROVE  Replay(Redelivered(s)) = Replay(s)
  <1> DEFINE n == Len(s)
             r == Redelivered(s)
  <1>1. IsList(s) /\ n \in Nat
    BY ListGrows DEF Numbered
  <1>2. /\ Len(r) = 3 * n /\ \A k \in 1..(2 * n) : r[k] = s[(k + 1) \div 2]
        /\ \A k \in (2 * n + 1)..(3 * n) : r[k] = s[k - 2 * n]
    BY <1>1, RedeliveredElements
  <1>3. PICK g : IsReplay(g, s)
    BY <1>1, ReplayedOneByOne
  <1>4. /\ g[0] = EmptyLedger /\ \A k \in 1..n : g[k] = Apply(g[k - 1], s[k])
        /\ Replay(s) = g[n]
    BY <1>3 DEF IsReplay
  <1>5. \A k \in 0..n : \A j \in 1..k : IsRepeated(g[k], s[j])
    BY <1>4, ReplayedEvents
  <1> HIDE DEF r
  <1>6. Len(r) \in Nat
    BY <1>1, <1>2
  <1>7. PICK h : IsReplay(h, r)
    BY <1>6, ReplayedOneByOne
  <1>8. /\ h[0] = EmptyLedger /\ \A k \in 1..Len(r) : h[k] = Apply(h[k - 1], r[k])
        /\ Replay(r) = h[Len(r)]
    BY <1>7 DEF IsReplay
  <1> DEFINE at(k) == IF k <= 2 * n THEN (k + 1) \div 2 ELSE n
             T == {k \in 0..(3 * n) : h[k] = g[at(k)]}
  <1>9. 0 \in T
    <2>1. at(0) = 0
      BY <1>1
    <2> QED
      BY <1>1, <1>4, <1>8, <2>1
  <1>10. ASSUME NEW k \in 1..(3 * n), k - 1 \in T PROVE k \in T
    <2>1. h[k] = Apply(h[k - 1], r[k]) /\ h[k - 1] = g[at(k - 1)]
      BY <1>1, <1>2, <1>8, <1>10
    <2>2. CASE k <= 2 * n /\ at(k) # at(k - 1)
      <3>1. k \in Nat /\ k - 1 <= 2 * n /\ (k - 1) + 1 = k
        BY <1>1, <2>2
      <3>2. (k + 1) \div 2 = k \div 2 \/ (k + 1) \div 2 = k \div 2 + 1
        BY ONLY <3>1
      <3>3. at(k) = (k + 1) \div 2 /\ at(k - 1) = k \div 2
        BY <2>2, <3>1
      <3>4. at(k) = at(k - 1) + 1
        BY ONLY <2>2, <3>2, <3>3
      <3>5. k \div 2 \in Nat /\ (k + 1) \div 2 \in 1..n
        BY ONLY <3>1, <1>1, <2>2
      <3>6. at(k) \in 1..n /\ at(k - 1) = at(k) - 1 /\ r[k] = s[at(k)]
        <4>1. r[k] = s[(k + 1) \div 2]
          BY <1>1, <1>2, <2>2
        <4> QED
          BY <3>3, <3>4, <3>5, <4>1
      <3> HIDE DEF at
      <3>7. h[k] = g[at(k)]
        BY <1>4, <2>1, <3>6
      <3> QED
        BY <3>7
    <2>3. CASE k <= 2 * n /\ at(k) = at(k - 1)
      <3>1. at(k) \in 1..n /\ r[k] = s[at(k)]
        BY <1>1, <1>2, <2>3
      <3> HIDE DEF at
      <3>2. IsRepeated(g[at(k)], s[at(k)])
        BY <1>1, <1>5, <3>1
      <3>3. h[k] = g[at(k)]
        BY <2>1, <2>3, <3>1, <3>2 DEF Apply
      <3> QED
        BY <3>3
    <2>4. CASE k > 2 * n
      <3>1. at(k) = n /\ at(k - 1) = n /\ k - 2 * n \in 1..n /\ r[k] = s[k - 2 * n]
        BY <1>1, <1>2, <2>4
      <3> HIDE DEF at
      <3>2. IsRepeated(g[n], s[k - 2 * n])
        BY <1>1, <1>5, <3>1
      <3>3. h[k] = g[at(k)]
        BY <2>1, <3>1, <3>2 DEF Apply
      <3> QED
        BY <3>3
    <2> QED
      BY <1>1, <2>2, <2>3, <2>4
  <1> HIDE DEF T
  <1>11. 0..(3 * n) \subseteq T
    <2>1. 3 * n \in Nat
      BY <1>1
    <2> QED
      BY <1>9, <1>10, <2>1, Climb
  <1>12. h[3 * n] = g[at(3 * n)]
    BY <1>1, <1>11 DEF T
  <1>13. at(3 * n) = n
    BY <1>1
  <1> HIDE DEF at
  <1>14. h[3 * n] = g[n]
    BY <1>12, <1>13
  <1> QED
    BY <1>2, <1>4, <1>8, <1>14 DEF r

IsReplayed == Replay(ledger.events) = ledger

\* Every step of the engine hands one event to the ledger, or none.
LEMMA StepApplies ==
    ASSUME [Next]_vars PROVE UNCHANGED ledger \/ \E e : ledger' = Apply(ledger, e)
  <1>1. ASSUME NEW intent, NEW fill, NEW id, Book(intent, fill, id) PROVE \E e : ledger' = Apply(ledger, e)
    BY <1>1 DEF Book
  <1>2. ASSUME NEW e, Post(e) PROVE \E f : ledger' = Apply(ledger, f)
    BY <1>2 DEF Post
  <1>3. CASE Close
    BY <1>3 DEF Close
  <1> QED
    BY <1>1, <1>2, <1>3 DEF Next, PlaceOrder, Rebalance, Trade, FillPartly, AcceptOrder, CancelOrder,
                            SettleDebts, SettleClaims, PostAction, Over, vars

\* The events alone determine the ledger, even when each is delivered twice and
\* the whole stream again, for every stream that a run can produce
\* (PortfolioLedger.replay, _apply_event; docs/portfolio-ledger.md).
THEOREM ReplayAlwaysReproduces == Spec => []ReplayReproduces
  <1>1. Init => IsReplayed
    <2> SUFFICES ASSUME Init PROVE Replay(ledger.events) = ledger
      BY DEF IsReplayed
    <2>1. ledger = Apply(EmptyLedger, InitialCashEvent)
      BY DEF Init, OpenLedger
    <2>2. EmptyLedger.events = <<>>
      BY DEF EmptyLedger
    <2>3. ~IsRepeated(EmptyLedger, InitialCashEvent)
      BY <2>2 DEF IsRepeated
    <2>4. ledger.events = Append(<<>>, InitialCashEvent)
      BY <2>1, <2>2, <2>3 DEF Apply, Posted
    <2>5. IsList(<<>>) /\ Len(<<>>) = 0
      <3>1. <<>> \in Seq({}) /\ Len(<<>>) = 0
        OBVIOUS
      <3> QED
        BY <3>1 DEF IsList
    <2>6. Replay(<<>>) = EmptyLedger
      BY <2>5, ReplayedOneByOne DEF IsReplay
    <2> QED
      BY <2>1, <2>4, <2>5, <2>6, ReplayOfAppend
  <1>2. EngineInv /\ IsReplayed /\ [Next]_vars => IsReplayed'
    <2> SUFFICES ASSUME EngineInv, IsReplayed, [Next]_vars PROVE Replay(ledger'.events) = ledger'
      BY DEF IsReplayed
    <2>1. CASE UNCHANGED ledger
      BY <2>1 DEF IsReplayed
    <2>2. ASSUME NEW e, ledger' = Apply(ledger, e) PROVE Replay(ledger'.events) = ledger'
      <3>1. CASE IsRepeated(ledger, e)
        BY <2>2, <3>1 DEF Apply, IsReplayed
      <3>2. CASE ~IsRepeated(ledger, e)
        <4>1. ledger'.events = Append(ledger.events, e)
          BY <2>2, <3>2 DEF Apply, Posted
        <4>2. IsList(ledger.events)
          BY DEF EngineInv, Numbered
        <4> QED
          BY <2>2, <4>1, <4>2, ReplayOfAppend DEF IsReplayed
      <3> QED
        BY <3>1, <3>2
    <2> QED
      BY <2>1, <2>2, StepApplies
  <1>3. EngineInv /\ IsReplayed => ReplayReproduces
    BY RedeliveryIsReplay DEF EngineInv, IsReplayed, ReplayReproduces
  <1> QED
    BY <1>1, <1>2, <1>3, EngineInvHolds, PTL DEF Spec

-----------------------------------------------------------------------------
(* T+1                                                                     *)

\* Lots are in the order of their days, up to day d.
InOrder(lots, d) ==
    \A k \in 1..Len(lots) : lots[k].day <= d /\ \A j \in 1..k : lots[j].day <= lots[k].day

LEMMA AppendedInOrder ==
    ASSUME NEW lots \in Seq(Lots), NEW lot \in Lots, NEW d \in Nat,
           InOrder(lots, lot.day), lot.day <= d
    PROVE  InOrder(Append(lots, lot), d)
  <1> DEFINE t == Append(lots, lot)
  <1>1. /\ Len(lots) \in Nat /\ \A k \in 1..Len(lots) : lots[k] \in Lots
        /\ Len(t) = Len(lots) + 1 /\ t[Len(lots) + 1] = lot /\ \A k \in 1..Len(lots) : t[k] = lots[k]
    BY Elements
  <1>2. lot.day \in Nat /\ \A k \in 1..Len(lots) : lots[k].day \in Nat
    <2>1. \A x \in 1..Days : x \in Nat
      OBVIOUS
    <2> QED
      BY <1>1, <2>1, LotFields
  <1> HIDE DEF t
  <1> SUFFICES ASSUME NEW k \in 1..Len(t) PROVE t[k].day <= d /\ \A j \in 1..k : t[j].day <= t[k].day
    BY DEF InOrder, t
  <1>3. CASE k = Len(lots) + 1
    <2>1. \A j \in 1..k : j = k \/ j \in 1..Len(lots)
      BY <1>1, <1>3
    <2>2. \A j \in 1..Len(lots) : t[j].day <= lot.day
      BY <1>1 DEF InOrder
    <2>3. t[k] = lot
      BY <1>1, <1>3
    <2> QED
      BY <1>2, <2>1, <2>2, <2>3
  <1>4. CASE k # Len(lots) + 1
    <2>1. k \in 1..Len(lots) /\ \A j \in 1..k : j \in 1..Len(lots)
      BY <1>1, <1>4
    <2>2. lots[k].day <= lot.day /\ \A j \in 1..k : lots[j].day <= lots[k].day
      BY <2>1 DEF InOrder
    <2> QED
      BY <1>1, <1>2, <2>1, <2>2
  <1> QED
    BY <1>3, <1>4

LEMMA OrderLasts ==
    ASSUME NEW lots \in Seq(Lots), NEW c \in Nat, NEW d \in Nat, c <= d, InOrder(lots, c)
    PROVE  InOrder(lots, d)
  <1>1. Len(lots) \in Nat /\ \A k \in 1..Len(lots) : lots[k].day \in Nat
    <2>1. \A x \in 1..Days : x \in Nat
      OBVIOUS
    <2> QED
      BY <2>1, Elements, LotFields
  <1> QED
    BY <1>1 DEF InOrder

\* What looking at one lot leaves in the list of lots.
LEMMA TakenLots ==
    ASSUME NEW acc \in Taken, NEW lot \in Lots, NEW inst, NEW next, next = Take(acc, lot, inst)
    PROVE  \/ next.lots = acc.lots /\ acc.left # 0
           \/ \E x \in Lots : /\ next.lots = Append(acc.lots, x)
                              /\ x.day = lot.day /\ x.inst = lot.inst
                              /\ acc.left = 0 => x = lot
  <1> DEFINE n == IF lot.qty <= acc.left THEN lot.qty ELSE acc.left
             c == RemovedCost(lot, n)
             rest == Lot(inst, lot.day, lot.qty - n, lot.cost - c)
  <1>1. acc.left \in Nat /\ acc.lots \in Seq(Lots)
    BY DEF Taken
  <1>2. lot.inst \in Instruments /\ lot.day \in 1..Days /\ lot.qty \in Nat \ {0} /\ lot.cost \in Nat
    BY LotFields
  <1>3. CASE lot.inst # inst \/ acc.left = 0
    BY <1>3 DEF Take, Taken
  <1>4. CASE ~(lot.inst # inst \/ acc.left = 0)
    <2>1. next.lots = IF n = lot.qty THEN acc.lots ELSE Append(acc.lots, rest)
      BY <1>4 DEF Take
    <2>2. n \in 0..lot.qty
      BY <1>1, <1>2
    <2>3. c \in 0..lot.cost
      BY <1>2, <2>2, ShareIsPart DEF RemovedCost
    <2>4. n # lot.qty => rest \in Lots /\ rest.day = lot.day /\ rest.inst = lot.inst
      <3> HIDE DEF n, c
      <3> QED
        BY <1>2, <1>4, <2>2, <2>3 DEF Lot, Lots
    <2> HIDE DEF rest, n
    <2> QED
      BY <1>4, <2>1, <2>4
  <1> QED
    BY <1>3, <1>4

\* The lots that a sale leaves are still in order.
LEMMA ReducedInOrder ==
    ASSUME NEW lots \in Seq(Lots), NEW inst, NEW qty \in Nat, NEW d \in Nat, InOrder(lots, d)
    PROVE  InOrder(ReduceLots(lots, inst, qty).lots, d)
  <1>1. Len(lots) \in Nat /\ \A k \in 1..Len(lots) : lots[k] \in Lots
    BY Elements
  <1>2. \A k \in 1..Len(lots) : lots[k].day \in Nat
    <2>1. \A x \in 1..Days : x \in Nat
      OBVIOUS
    <2> QED
      BY <1>1, <2>1, LotFields
  <1>3. PICK g : IsReduction(g, lots, inst, qty)
    BY ReducedOneByOne
  <1>4. /\ g[0] = [left |-> qty, removed |-> 0, lots |-> <<>>]
        /\ \A k \in 1..Len(lots) : g[k] = Take(g[k - 1], lots[k], inst)
        /\ \A k \in 0..Len(lots) : g[k] \in Taken
        /\ ReduceLots(lots, inst, qty) = g[Len(lots)]
    BY <1>3 DEF IsReduction
  <1> DEFINE Ends(k, c) == \A j \in 1..k : lots[j].day <= c
             T == {k \in 0..Len(lots) : \A c \in Nat : Ends(k, c) => InOrder(g[k].lots, c)}
  <1>5. 0 \in T
    <2>1. g[0].lots = <<>> /\ Len(<<>>) = 0
      BY <1>4
    <2> QED
      BY <1>1, <2>1 DEF InOrder
  <1>6. ASSUME NEW k \in 1..Len(lots), k - 1 \in T PROVE k \in T
    <2> SUFFICES ASSUME NEW c \in Nat, Ends(k, c) PROVE InOrder(g[k].lots, c)
      BY <1>1
    <2>1. lots[k] \in Lots /\ lots[k].day \in Nat /\ lots[k].day <= c
      BY <1>2, <1>1
    <2>2. Ends(k - 1, lots[k].day)
      <3>1. \A j \in 1..(k - 1) : j \in 1..k
        OBVIOUS
      <3> QED
        BY <3>1 DEF InOrder
    <2>3. InOrder(g[k - 1].lots, lots[k].day)
      BY <1>6, <2>1, <2>2
    <2>4. g[k - 1] \in Taken /\ g[k] = Take(g[k - 1], lots[k], inst) /\ g[k - 1].lots \in Seq(Lots)
      <3>1. k - 1 \in 0..Len(lots)
        BY <1>1
      <3> QED
        BY <1>4, <3>1 DEF Taken
    <2> HIDE DEF T, Ends
    <2>5. \/ g[k].lots = g[k - 1].lots
          \/ \E x \in Lots : g[k].lots = Append(g[k - 1].lots, x) /\ x.day = lots[k].day
      <3>1. /\ g[k - 1] \in Taken /\ lots[k] \in Lots
            /\ g[k] = Take(g[k - 1], lots[k], inst)
        BY <2>1, <2>4
      <3> QED
        BY ONLY <3>1, TakenLots
    <2>6. CASE g[k].lots = g[k - 1].lots
      BY <2>1, <2>3, <2>4, <2>6, OrderLasts
    <2>7. ASSUME NEW x \in Lots, g[k].lots = Append(g[k - 1].lots, x), x.day = lots[k].day
          PROVE  InOrder(g[k].lots, c)
      BY <2>1, <2>3, <2>4, <2>7, AppendedInOrder
    <2> QED
      BY <2>5, <2>6, <2>7
  <1> HIDE DEF T
  <1>7. 0..Len(lots) \subseteq T
    BY <1>1, <1>5, <1>6, Climb
  <1>8. Len(lots) \in T /\ Ends(Len(lots), d)
    BY <1>1, <1>7 DEF InOrder
  <1> QED
    BY <1>4, <1>8 DEF T

\* What is traded is booked as a fill of today, and only when no rule blocks it.
LEMMA TradeBooks ==
    ASSUME EngineInv, NEW id \in DOMAIN orders, Trade(id)
    PROVE  \/ UNCHANGED ledger /\ orders'[id].fills = orders[id].fills
           \/ \E fill \in Fills :
                 /\ fill.day = day /\ Book(orders[id].intent, fill, id)
                 /\ BlockingRules(orders[id], Bar(orders[id].intent.inst), AvailabilityOf(orders[id].intent.inst)) = {}
                 /\ fill.qty = RemainingQuantity(orders[id])
  <1> DEFINE o == orders[id]
             avail == AvailabilityOf(o.intent.inst)
             bar == Bar(o.intent.inst)
             next == Execute(o, bar, avail, day)
  <1>1. /\ Running /\ Executable(o, day) /\ orders' = [orders EXCEPT ![id] = next]
        /\ IF Len(next.fills) > Len(o.fills) THEN Book(o.intent, Last(next.fills), id) ELSE UNCHANGED ledger
    BY DEF Trade
  <1>2. day \in 1..Days /\ OrderOK(o)
    BY <1>1, RunningDay DEF EngineInv, OrdersOK
  <1>3. bar.price \in Nat \ {0}
    BY <1>2, BarIsPriced DEF OrderOK
  <1> HIDE DEF avail, bar
  <1>4. next = Execute(o, bar, avail, day)
    OBVIOUS
  <1> HIDE DEF next
  <1>5. \/ next.fills = o.fills
        \/ \E fill \in Fills : /\ next.fills = Append(o.fills, fill) /\ fill.day = day
                               /\ Len(next.fills) > Len(o.fills) /\ Last(next.fills) = fill
                               /\ BlockingRules(o, bar, avail) = {}
                               /\ fill.qty = RemainingQuantity(o)
    BY <1>1, <1>2, <1>3, <1>4, ExecuteKeeps
  <1>6. CASE next.fills = o.fills
    <2>1. Len(o.fills) \in Nat
      BY <1>2, Elements DEF OrderOK
    <2>2. UNCHANGED ledger
      BY <1>1, <1>6, <2>1
    <2> QED
      BY <1>1, <1>6, <2>2
  <1>7. ASSUME NEW fill \in Fills, fill.day = day, Len(next.fills) > Len(o.fills), Last(next.fills) = fill,
               BlockingRules(o, bar, avail) = {}, fill.qty = RemainingQuantity(o)
        PROVE  /\ fill.day = day /\ Book(o.intent, fill, id)
               /\ BlockingRules(o, bar, avail) = {} /\ fill.qty = RemainingQuantity(o)
    BY <1>1, <1>7
  <1> QED
    BY <1>5, <1>6, <1>7 DEF bar, avail

LEMMA FillPartlyBooks ==
    ASSUME EngineInv, NEW id \in DOMAIN orders, NEW qty \in 1..MaxQuantity, FillPartly(id, qty)
    PROVE  \E fill \in Fills : fill.day = day /\ Book(orders[id].intent, fill, id)
  <1> DEFINE o == orders[id]
             price == Bar(o.intent.inst).price
             next == RecordFill(o, qty, price, day)
             fill == [qty |-> qty, price |-> price, day |-> day]
  <1>1. /\ Running /\ o.filled + qty <= o.intent.target /\ Book(o.intent, Last(next.fills), id)
    BY DEF FillPartly, MayFill
  <1>2. day \in 1..Days /\ OrderOK(o) /\ qty \in Nat \ {0}
    BY <1>1, RunningDay, OrderConstants DEF EngineInv, OrdersOK
  <1>3. price \in Nat \ {0}
    BY <1>2, BarIsPriced DEF OrderOK
  <1> HIDE DEF price
  <1>4. next = RecordFill(o, qty, price, day)
    OBVIOUS
  <1> HIDE DEF next
  <1>5. Last(next.fills) = fill
    BY <1>1, <1>2, <1>3, <1>4, FillKeeps
  <1>6. fill \in Fills /\ fill.day = day
    BY <1>2, <1>3 DEF Fills
  <1> HIDE DEF fill
  <1> QED
    BY <1>1, <1>5, <1>6

\* The event and the lots of a booking.
LEMMA BookedLots ==
    ASSUME EngineInv, NEW id \in DOMAIN orders, NEW fill \in Fills, Book(orders[id].intent, fill, id)
    PROVE  LET intent == orders[id].intent
           IN  \/ /\ intent.side = "sell" /\ fill.qty \in Nat
                  /\ ledger'.lots = ReduceLots(ledger.lots, intent.inst, fill.qty).lots
               \/ /\ intent.side = "buy"
                  /\ \E lot : lot.day = fill.day /\ ledger'.lots = Append(ledger.lots, lot)
  <1> DEFINE intent == orders[id].intent
             cost == TotalCost(intent.side, fill.qty * fill.price)
             e == ExecutionEvent(ledger, intent, fill, id, cost)
             lot == Lot(e.inst, e.day, e.qty, e.gross + e.cost)
  <1>1. LedgerOK(ledger) /\ Numbered(ledger.events) /\ OrderOK(orders[id])
    BY DEF EngineInv, OrdersOK
  <1>2. intent.inst \in Instruments /\ intent.side \in Sides
    BY <1>1 DEF OrderOK
  <1>3. fill.qty \in Nat \ {0} /\ fill.price \in Nat \ {0}
    BY DEF Fills
  <1>4. cost \in Nat
    <2>1. fill.qty * fill.price \in Nat
      BY <1>3
    <2> QED
      BY <2>1, CostIsWhole
  <1>5. Applies(ledger, e) /\ ledger' = Apply(ledger, e)
    BY DEF Book, Booking
  <1> HIDE DEF cost
  <1>6. IsBooking(e, ledger, intent, fill, cost)
    BY <1>2, <1>4, BookingFields
  <1> HIDE DEF e
  <1>7. /\ e.id = NextId(ledger) /\ e.type = "execution" /\ e.action = "none"
        /\ e.inst = intent.inst /\ e.side = intent.side /\ e.qty = fill.qty /\ e.day = fill.day
    BY <1>6 DEF IsBooking
  <1>8. ledger' = Posted(ledger, e)
    BY <1>1, <1>5, <1>7, NumberedGrows
  <1>9. ledger'.lots = LotsAfter(ledger, e)
    BY <1>8 DEF Posted
  <1>10. CASE intent.side = "sell"
    BY <1>3, <1>7, <1>9, <1>10 DEF LotsAfter
  <1>11. CASE intent.side = "buy"
    <2>1. ledger'.lots = Append(ledger.lots, lot)
      BY <1>7, <1>9, <1>11 DEF LotsAfter
    <2>2. lot.day = fill.day
      BY <1>7 DEF Lot
    <2> HIDE DEF lot
    <2> QED
      BY <1>11, <2>1, <2>2
  <1> QED
    BY <1>2, <1>10, <1>11 DEF Sides

\* What a corporate action leaves of the lots.
LEMMA ActionLots ==
    ASSUME EngineInv, day \in 1..Days, NEW a \in ActionPlan, PositionQuantity(ledger, a.inst) > 0,
           NEW e, e = EventOf(a), Applies(ledger, e), ledger' = Apply(ledger, e)
    PROVE  \/ ledger'.lots = ledger.lots
           \/ \E qty \in Nat : ledger'.lots = ReduceLots(ledger.lots, a.inst, qty).lots
           \/ \E lot : lot.day = day /\ ledger'.lots = Append(ledger.lots, lot)
           \/ \E delta \in Int : /\ MayAdjust(ledger.lots, a.inst, delta)
                                 /\ ledger'.lots = AdjustedLots(ledger.lots, a.inst, delta)
  <1> DEFINE base == ActionEvent(ledger, a.kind, a.inst, a.ref, day)
  <1>1. a.kind \in CorporateActionTypes /\ a.inst \in Instruments
    BY EngineConstants
  <1>2. LedgerOK(ledger) /\ Numbered(ledger.events)
    BY DEF EngineInv
  <1>3. /\ DOMAIN base = DOMAIN BlankEvent
        /\ base.id = NextId(ledger) /\ base.type = "corporate_action" /\ base.action = a.kind
        /\ base.inst = a.inst /\ base.day = day /\ base.qty = PositionQuantity(ledger, a.inst)
    <2>1. IsActionOn(base, ledger, a.kind, a.inst, day)
      BY ActionFields
    <2> QED
      BY <2>1 DEF IsActionOn
  <1>4. /\ e.id = NextId(ledger) /\ e.type = "corporate_action" /\ e.action = a.kind
        /\ e.inst = a.inst /\ e.day = day /\ e.qty = PositionQuantity(ledger, a.inst)
    <2>1. \/ e = CashDividendEvent(ledger, a.inst, a.ref, day, a.num) /\ a.kind = "cash_dividend"
          \/ e = BonusShareEvent(ledger, a.inst, a.ref, day, a.num) /\ a.kind = "bonus_share"
          \/ e = ShareSplitEvent(ledger, a.inst, a.ref, day, a.num, a.den) /\ a.kind = "share_split"
          \/ e = RightsIssueEvent(ledger, a.inst, a.ref, day, a.num, a.den) /\ a.kind = "rights_issue"
          \/ e = DelistingEvent(ledger, a.inst, a.ref, day, a.num) /\ a.kind = "delisting_liquidation"
      BY <1>1 DEF EventOf, CorporateActionTypes
    <2>2. \/ \E x : e = [base EXCEPT !.receivable = x]
          \/ \E x : e = [base EXCEPT !.shares = x]
          \/ \E x, y : e = [base EXCEPT !.shares = x, !.payable = y]
          \/ \E x, y, z : e = [base EXCEPT !.shares = x, !.receivable = y, !.pnl = z]
      BY <2>1 DEF CashDividendEvent, BonusShareEvent, ShareSplitEvent, RightsIssueEvent, DelistingEvent
    <2> HIDE DEF base
    <2> QED
      BY <1>3, <2>2 DEF BlankEvent
  <1>5. ledger' = Posted(ledger, e) /\ FitsLots(ledger, e)
    BY <1>2, <1>4, NumberedGrows, Taking
  <1>6. ledger'.lots = LotsAfter(ledger, e)
    BY <1>5 DEF Posted
  <1>7. PositionQuantity(ledger, a.inst) \in Nat
    BY <1>2, LedgerFigures
  <1>8. CASE a.kind = "cash_dividend"
    BY <1>4, <1>6, <1>8 DEF LotsAfter
  <1>9. CASE a.kind \in {"bonus_share", "share_split"}
    <2>1. MayAdjust(ledger.lots, a.inst, e.shares) /\ ledger'.lots = AdjustedLots(ledger.lots, a.inst, e.shares)
      BY <1>4, <1>5, <1>6, <1>9 DEF LotsAfter, FitsLots
    <2>2. e.shares \in Int
      BY <1>2, ActionKeeps
    <2> QED
      BY <2>1, <2>2
  <1>10. CASE a.kind = "rights_issue"
    <2> DEFINE lot == Lot(e.inst, e.day, e.shares, e.payable)
    <2>1. ledger'.lots = Append(ledger.lots, lot)
      BY <1>4, <1>6, <1>10 DEF LotsAfter
    <2>2. lot.day = day
      BY <1>4 DEF Lot
    <2> HIDE DEF lot
    <2> QED
      BY <2>1, <2>2
  <1>11. CASE a.kind = "delisting_liquidation"
    BY <1>4, <1>6, <1>7, <1>11 DEF LotsAfter
  <1> QED
    BY <1>1, <1>8, <1>9, <1>10, <1>11 DEF CorporateActionTypes

LotsInOrder == InOrder(ledger.lots, day)

\* Whatever a step does to the lots, they stay in the order of their days.
LEMMA LotsStayInOrder ==
    ASSUME EngineInv, EngineInv', LotsInOrder, day \in Nat
    PROVE  /\ ledger'.lots = ledger.lots => InOrder(ledger'.lots, day)
           /\ \A inst, qty : qty \in Nat /\ ledger'.lots = ReduceLots(ledger.lots, inst, qty).lots
                => InOrder(ledger'.lots, day)
           /\ \A lot : lot.day = day /\ ledger'.lots = Append(ledger.lots, lot) => InOrder(ledger'.lots, day)
           /\ \A inst, delta : /\ delta \in Int /\ MayAdjust(ledger.lots, inst, delta)
                               /\ PositionQuantity(ledger, inst) > 0
                               /\ ledger'.lots = AdjustedLots(ledger.lots, inst, delta)
                => InOrder(ledger'.lots, day)
  <1>1. ledger.lots \in Seq(Lots) /\ ledger'.lots \in Seq(Lots)
    BY DEF EngineInv, LedgerOK
  <1>2. InOrder(ledger.lots, day)
    BY DEF LotsInOrder
  <1>3. ASSUME NEW inst, NEW qty, qty \in Nat, ledger'.lots = ReduceLots(ledger.lots, inst, qty).lots
        PROVE  InOrder(ledger'.lots, day)
    BY <1>1, <1>2, <1>3, ReducedInOrder
  <1>4. ASSUME NEW lot, lot.day = day, ledger'.lots = Append(ledger.lots, lot) PROVE InOrder(ledger'.lots, day)
    <2>1. /\ Len(ledger.lots) \in Nat /\ Len(ledger'.lots) = Len(ledger.lots) + 1
          /\ ledger'.lots[Len(ledger.lots) + 1] = lot
      <3>1. IsList(ledger.lots)
        BY <1>1 DEF IsList
      <3> QED
        BY <1>4, <3>1, ListGrows
    <2>2. lot \in Lots
      <3>1. Len(ledger.lots) + 1 \in 1..Len(ledger'.lots)
        BY <2>1
      <3> QED
        BY <1>1, <2>1, <3>1, Elements
    <2>3. InOrder(ledger.lots, lot.day) /\ lot.day <= day
      BY <1>2, <1>4
    <2> QED
      BY <1>1, <1>4, <2>2, <2>3, AppendedInOrder
  <1>5. ASSUME NEW inst, NEW delta, delta \in Int, MayAdjust(ledger.lots, inst, delta),
               PositionQuantity(ledger, inst) > 0, ledger'.lots = AdjustedLots(ledger.lots, inst, delta)
        PROVE  InOrder(ledger'.lots, day)
    <2>1. SumOf(LotShares(ledger.lots, inst)) > 0
      BY <1>5, SharesAreSum
    <2>2. /\ Len(ledger'.lots) = Len(ledger.lots) /\ Len(ledger.lots) \in Nat
          /\ \A k \in 1..Len(ledger.lots) : ledger'.lots[k].day = ledger.lots[k].day
      BY <1>1, <1>5, <2>1, AdjustKeeps, Elements
    <2> QED
      BY <1>2, <2>2 DEF InOrder
  <1> QED
    BY <1>2, <1>3, <1>4, <1>5

LEMMA OrderKept ==
    ASSUME EngineInv, EngineInv', LotsInOrder, [Next]_vars PROVE LotsInOrder'
  <1>1. day \in Nat
    BY OrderConstants DEF EngineInv
  <1>2. ledger.lots \in Seq(Lots) /\ ledger'.lots \in Seq(Lots)
    BY DEF EngineInv, LedgerOK
  <1>3. CASE UNCHANGED <<day, ledger>>
    BY <1>3 DEF LotsInOrder
  <1>4. ASSUME NEW id \in DOMAIN orders, Trade(id) \/ \E qty \in 1..MaxQuantity : FillPartly(id, qty)
        PROVE  LotsInOrder'
    <2>1. day' = day
      BY <1>4 DEF Trade, FillPartly
    <2>2. \/ UNCHANGED ledger
          \/ \E fill \in Fills : fill.day = day /\ Book(orders[id].intent, fill, id)
      BY <1>4, TradeBooks, FillPartlyBooks
    <2>3. ASSUME NEW fill \in Fills, fill.day = day, Book(orders[id].intent, fill, id)
          PROVE  InOrder(ledger'.lots, day)
      BY <1>1, <2>3, BookedLots, LotsStayInOrder
    <2> QED
      BY <1>3, <2>1, <2>2, <2>3 DEF LotsInOrder
  <1>5. ASSUME SettleDebts \/ SettleClaims PROVE LotsInOrder'
    <2>1. PICK e : /\ e.type = "cash_settled" /\ e.action = "none" /\ e.id = NextId(ledger)
                   /\ ledger' = Apply(ledger, e) /\ day' = day
      BY <1>5 DEF SettleDebts, SettleClaims, Post, SettlePayableEvent, SettleReceivableEvent, BlankEvent
    <2>2. Numbered(ledger.events)
      BY DEF EngineInv
    <2>3. ledger' = Posted(ledger, e)
      BY <2>1, <2>2, NumberedGrows
    <2>4. ledger'.lots = ledger.lots
      BY <2>1, <2>3 DEF Posted, LotsAfter
    <2> QED
      BY <2>1, <2>4 DEF LotsInOrder
  <1>6. ASSUME NEW a \in ActionPlan, PostAction(a) PROVE LotsInOrder'
    <2>1. /\ PositionQuantity(ledger, a.inst) > 0 /\ Running /\ Applies(ledger, EventOf(a))
          /\ ledger' = Apply(ledger, EventOf(a)) /\ day' = day
      BY <1>6 DEF PostAction, Post
    <2>2. day \in 1..Days
      BY <2>1, RunningDay
    <2>3. \/ ledger'.lots = ledger.lots
          \/ \E qty \in Nat : ledger'.lots = ReduceLots(ledger.lots, a.inst, qty).lots
          \/ \E lot : lot.day = day /\ ledger'.lots = Append(ledger.lots, lot)
          \/ \E delta \in Int : /\ MayAdjust(ledger.lots, a.inst, delta)
                                /\ ledger'.lots = AdjustedLots(ledger.lots, a.inst, delta)
      BY <2>1, <2>2, ActionLots
    <2>4. InOrder(ledger'.lots, day)
      BY <1>1, <2>1, <2>3, LotsStayInOrder
    <2> QED
      BY <2>1, <2>4 DEF LotsInOrder
  <1>7. CASE Close
    <2> DEFINE e == ValuationEvent(ledger, [i \in OpenInstruments(ledger) |-> Prices[i]], day)
    <2>1. day' = day + 1 /\ (ledger' = ledger \/ ledger' = Apply(ledger, e))
      BY <1>7 DEF Close
    <2>2. e.type = "valuation" /\ e.action = "none" /\ e.id = NextId(ledger)
      BY DEF ValuationEvent, BlankEvent
    <2>3. Numbered(ledger.events)
      BY DEF EngineInv
    <2> HIDE DEF e
    <2>4. ledger'.lots = ledger.lots
      <3>1. Apply(ledger, e) = Posted(ledger, e)
        BY <2>2, <2>3, NumberedGrows
      <3> QED
        BY <2>1, <2>2, <3>1 DEF Posted, LotsAfter
    <2>5. InOrder(ledger.lots, day + 1)
      <3>1. day + 1 \in Nat /\ day <= day + 1
        BY <1>1
      <3> QED
        BY <1>1, <1>2, <3>1, OrderLasts DEF LotsInOrder
    <2> QED
      BY <2>1, <2>4, <2>5 DEF LotsInOrder
  <1> QED
    BY <1>3, <1>4, <1>5, <1>6, <1>7
       DEF Next, PlaceOrder, Rebalance, AcceptOrder, CancelOrder, Over, vars

\* The lots of an instrument that were bought today, out of a list of lots.
Today(lots, inst) == LotsOfToday([lots |-> lots], inst)

WithLot(found, lot, inst) == IF lot.inst = inst /\ lot.day = day THEN Append(found, lot) ELSE found

AreToday(g, lots, inst) ==
    g = [n \in 0..Len(lots) |-> IF n = 0 THEN <<>> ELSE WithLot(g[n - 1], lots[n], inst)]

\* What has been found after each lot, and in the end.
IsSearch(g, lots, inst) ==
    /\ g[0] = <<>>
    /\ \A k \in 1..Len(lots) : g[k] = WithLot(g[k - 1], lots[k], inst)
    /\ Today(lots, inst) = g[Len(lots)]

LEMMA TodayOneByOne ==
    ASSUME NEW lots \in Seq(Lots), NEW inst PROVE \E g : IsSearch(g, lots, inst)
  <1> DEFINE n == Len(lots)
             step == [k \in 1..n |-> [acc \in Seq(Lots) |-> WithLot(acc, lots[k], inst)]]
             base == <<>>
             g == CHOOSE f : AreToday(f, lots, inst)
  <1>1. n \in Nat /\ \A k \in 1..n : lots[k] \in Lots
    BY Elements
  <1>2. step \in [1..n -> [Seq(Lots) -> Seq(Lots)]]
    <2>1. \A acc \in Seq(Lots), lot \in Lots : Append(acc, lot) \in Seq(Lots)
      BY LotAppended
    <2> QED
      BY <1>1, <2>1 DEF WithLot
  <1>3. \A k \in 1..n, acc \in Seq(Lots) : step[k][acc] = WithLot(acc, lots[k], inst)
    OBVIOUS
  <1>4. \A k \in 0..n : k # 0 => k \in 1..n /\ k - 1 \in 0..n
    BY <1>1
  <1>5. \E f : AreToday(f, lots, inst)
    <2>1. base \in Seq(Lots)
      BY NoLots
    <2> HIDE DEF step, n, base
    <2>2. PICK f : IsClimb(f, n, Seq(Lots), base, step)
      BY <1>1, <1>2, <2>1, RecursionExists
    <2>3. f = [k \in 0..n |-> IF k = 0 THEN base ELSE WithLot(f[k - 1], lots[k], inst)]
      BY <1>3, <1>4, <2>2 DEF IsClimb
    <2> QED
      BY <2>3 DEF AreToday, n, base
  <1>6. AreToday(g, lots, inst)
    BY <1>5
  <1>7. Today(lots, inst) = g[n]
    BY DEF Today, LotsOfToday, AreToday, WithLot
  <1> HIDE DEF g, step
  <1>8. g[0] = base /\ \A k \in 1..n : g[k] = WithLot(g[k - 1], lots[k], inst)
    <2> HIDE DEF base
    <2> QED
      BY <1>1, <1>6 DEF AreToday, base
  <1>9. IsSearch(g, lots, inst)
    BY <1>7, <1>8 DEF IsSearch
  <1> QED
    BY <1>9

LEMMA TodayOfNothing == \A inst : Today(<<>>, inst) = <<>>
  <1>1. <<>> \in Seq(Lots) /\ Len(<<>>) = 0
    BY NoLots
  <1> QED
    BY <1>1, TodayOneByOne DEF IsSearch

LEMMA TodayOfAppend ==
    ASSUME NEW lots \in Seq(Lots), NEW lot \in Lots, NEW inst
    PROVE  Today(Append(lots, lot), inst) =
             WithLot(Today(lots, inst), lot, inst)
  <1> DEFINE t == Append(lots, lot)
  <1>1. t \in Seq(Lots)
    BY LotAppended
  <1>2. /\ Len(lots) \in Nat /\ Len(t) = Len(lots) + 1 /\ t[Len(lots) + 1] = lot
        /\ \A k \in 1..Len(lots) : t[k] = lots[k]
    BY Elements
  <1> HIDE DEF t
  <1>3. PICK g : IsSearch(g, lots, inst)
    BY TodayOneByOne
  <1>4. /\ g[0] = <<>>
        /\ \A k \in 1..Len(lots) : g[k] = WithLot(g[k - 1], lots[k], inst)
        /\ Today(lots, inst) = g[Len(lots)]
    BY <1>3 DEF IsSearch
  <1>5. PICK h : IsSearch(h, t, inst)
    BY <1>1, TodayOneByOne
  <1>6. /\ h[0] = <<>>
        /\ \A k \in 1..Len(t) : h[k] = WithLot(h[k - 1], t[k], inst)
        /\ Today(t, inst) = h[Len(t)]
    BY <1>5 DEF IsSearch
  <1> DEFINE T == {k \in 0..Len(lots) : h[k] = g[k]}
  <1>7. 0 \in T
    BY <1>2, <1>4, <1>6
  <1>8. ASSUME NEW k \in 1..Len(lots), k - 1 \in T PROVE k \in T
    <2>1. t[k] = lots[k] /\ h[k - 1] = g[k - 1] /\ k \in 1..Len(t) /\ k \in 0..Len(lots)
      BY <1>2, <1>8
    <2>2. h[k] = g[k]
      BY <1>4, <1>6, <2>1
    <2> QED
      BY <2>1, <2>2
  <1> HIDE DEF T
  <1>9. 0..Len(lots) \subseteq T
    BY <1>2, <1>7, <1>8, Climb
  <1>10. h[Len(lots)] = g[Len(lots)]
    BY <1>2, <1>9 DEF T
  <1>11. Len(t) \in 1..Len(t) /\ Len(t) - 1 = Len(lots) /\ t[Len(t)] = lot
    BY <1>2
  <1>12. h[Len(t)] = WithLot(h[Len(lots)], lot, inst)
    BY <1>6, <1>11
  <1> QED
    BY <1>4, <1>6, <1>10, <1>12 DEF t

\* The shares of each lot, if it was bought today and if it was not.
LockedShares(lots, inst) == [k \in DOMAIN lots |-> IF lots[k].day = day THEN SharesOf(lots[k], inst) ELSE 0]

OldShares(lots, inst) == [k \in DOMAIN lots |-> IF lots[k].day = day THEN 0 ELSE SharesOf(lots[k], inst)]

LEMMA SharesSplit ==
    ASSUME NEW lots \in Seq(Lots), NEW inst
    PROVE  /\ LockedShares(lots, inst) \in Seq(Int) /\ OldShares(lots, inst) \in Seq(Int)
           /\ Len(OldShares(lots, inst)) = Len(lots)
           /\ \A k \in 1..Len(lots) :
                 OldShares(lots, inst)[k] = IF lots[k].day = day THEN 0 ELSE SharesOf(lots[k], inst)
           /\ SumOf(LotShares(lots, inst)) = SumOf(LockedShares(lots, inst)) + SumOf(OldShares(lots, inst))
  <1> DEFINE n == Len(lots)
             a == LockedShares(lots, inst)
             b == OldShares(lots, inst)
  <1>1. n \in Nat /\ DOMAIN lots = 1..n /\ \A k \in 1..n : lots[k] \in Lots
    BY Elements
  <1>2. \A k \in 1..n : SharesOf(lots[k], inst) \in Int
    BY <1>1, LotFields
  <1>3. a \in [1..n -> Int] /\ \A k \in 1..n : a[k] = IF lots[k].day = day THEN SharesOf(lots[k], inst) ELSE 0
    BY <1>1, <1>2 DEF LockedShares
  <1>4. b \in [1..n -> Int] /\ \A k \in 1..n : b[k] = IF lots[k].day = day THEN 0 ELSE SharesOf(lots[k], inst)
    BY <1>1, <1>2 DEF OldShares
  <1> HIDE DEF a, b, n
  <1>5. a \in Seq(Int) /\ Len(a) = n /\ b \in Seq(Int) /\ Len(b) = n
    BY <1>1, <1>3, <1>4, IsSequence
  <1>6. /\ LotShares(lots, inst) \in Seq(Int) /\ Len(LotShares(lots, inst)) = n
        /\ \A k \in 1..n : LotShares(lots, inst)[k] = SharesOf(lots[k], inst)
    BY CostsAndShares DEF n
  <1>7. \A k \in 1..n : LotShares(lots, inst)[k] = a[k] + b[k]
    BY <1>2, <1>3, <1>4, <1>6
  <1>8. SumOf(LotShares(lots, inst)) = SumOf(a) + SumOf(b)
    <2> DEFINE all == LotShares(lots, inst)
    <2>1. /\ all \in Seq(Int) /\ Len(a) = Len(b) /\ Len(a) = Len(all)
          /\ \A k \in 1..Len(a) : all[k] = a[k] + b[k]
      BY <1>5, <1>6, <1>7
    <2> HIDE DEF all
    <2>2. SumOf(all) = SumOf(a) + SumOf(b)
      BY <1>5, <2>1, SumOfSums
    <2> QED
      BY <2>2 DEF all
  <1> QED
    BY <1>4, <1>5, <1>8 DEF a, b, n

\* Once a lot of today is met, all the shares that are older have been met.
LEMMA OldSharesAreFirst ==
    ASSUME NEW lots \in Seq(Lots), NEW inst, InOrder(lots, day), day \in Nat,
           NEW c \in 1..Len(lots), lots[c].day = day
    PROVE  SumOf(OldShares(lots, inst)) = PartialSums(OldShares(lots, inst))[c - 1]
  <1> DEFINE old == OldShares(lots, inst)
             p == PartialSums(old)
             T == {k \in 0..Len(lots) : k >= c => p[k] = p[c - 1]}
  <1>1. Len(lots) \in Nat /\ \A k \in 1..Len(lots) : lots[k] \in Lots /\ lots[k].day \in Nat
    <2>1. \A x \in 1..Days : x \in Nat
      OBVIOUS
    <2> QED
      BY <2>1, Elements, LotFields
  <1>2. /\ old \in Seq(Int) /\ Len(old) = Len(lots)
        /\ \A k \in 1..Len(lots) : lots[k].day = day => old[k] = 0
    BY SharesSplit
  <1> HIDE DEF old
  <1>3. p \in [0..Len(lots) -> Int] /\ \A k \in 1..Len(lots) : p[k] = p[k - 1] + old[k]
    BY <1>2, PartialSumsAdd
  <1>4. \A k \in 1..Len(lots) : k >= c => lots[k].day = day
    <2> SUFFICES ASSUME NEW k \in 1..Len(lots), k >= c PROVE lots[k].day = day
      OBVIOUS
    <2>1. c \in 1..k
      BY <1>1
    <2>2. lots[k].day <= day /\ lots[c].day <= lots[k].day
      BY <2>1 DEF InOrder
    <2> QED
      BY <1>1, <2>2
  <1> HIDE DEF p
  <1>5. 0 \in T
    BY <1>1
  <1>6. ASSUME NEW k \in 1..Len(lots), k - 1 \in T PROVE k \in T
    <2> SUFFICES ASSUME k >= c PROVE p[k] = p[c - 1]
      BY <1>1
    <2>1. p[k] = p[k - 1] + old[k] /\ old[k] = 0 /\ p[k - 1] \in Int
      <3>1. k - 1 \in 0..Len(lots)
        BY <1>1
      <3> QED
        BY <1>2, <1>3, <1>4, <3>1
    <2>2. p[k] = p[k - 1]
      BY <2>1
    <2>3. CASE k = c
      BY <2>2, <2>3
    <2>4. CASE k # c
      <3>1. k - 1 >= c
        BY <1>1, <2>4
      <3> QED
        BY <1>6, <2>2, <3>1
    <2> QED
      BY <2>3, <2>4
  <1> HIDE DEF T
  <1>7. 0..Len(lots) \subseteq T
    BY <1>1, <1>5, <1>6, Climb
  <1>8. p[Len(lots)] = p[c - 1]
    <2>1. Len(lots) \in 0..Len(lots) /\ Len(lots) >= c
      BY <1>1
    <2> QED
      BY <1>7, <2>1 DEF T
  <1>9. SumOf(old) = p[Len(lots)]
    BY <1>2 DEF SumOf, p
  <1> QED
    BY <1>8, <1>9 DEF p, old

\* A sale of no more than the older shares leaves the lots of today alone.
LEMMA SaleLeavesToday ==
    ASSUME NEW lots \in Seq(Lots), NEW inst, NEW qty \in Nat, InOrder(lots, day), day \in Nat,
           qty <= SumOf(OldShares(lots, inst))
    PROVE  Today(ReduceLots(lots, inst, qty).lots, inst) = Today(lots, inst)
  <1> DEFINE n == Len(lots)
             old == OldShares(lots, inst)
             p == PartialSums(old)
  <1>1. n \in Nat /\ \A k \in 1..n : lots[k] \in Lots
    BY Elements
  <1>2. PICK g : IsReduction(g, lots, inst, qty)
    BY ReducedOneByOne
  <1>3. /\ g[0] = [left |-> qty, removed |-> 0, lots |-> <<>>]
        /\ \A k \in 1..n : g[k] = Take(g[k - 1], lots[k], inst)
        /\ \A k \in 0..n : g[k] \in Taken
        /\ ReduceLots(lots, inst, qty) = g[n]
    BY <1>2 DEF IsReduction
  <1>4. PICK f : IsSearch(f, lots, inst)
    BY TodayOneByOne
  <1>5. /\ f[0] = <<>>
        /\ \A k \in 1..n : f[k] = WithLot(f[k - 1], lots[k], inst)
        /\ Today(lots, inst) = f[n]
    BY <1>4 DEF IsSearch
  <1>6. /\ old \in Seq(Int) /\ Len(old) = n
        /\ \A k \in 1..n : old[k] = IF lots[k].day = day THEN 0 ELSE SharesOf(lots[k], inst)
    BY SharesSplit
  <1>7. p \in [0..n -> Int] /\ p[0] = 0 /\ \A k \in 1..n : p[k] = p[k - 1] + old[k]
    BY <1>6, PartialSumsAdd
  <1>8. \A k \in 1..n : lots[k].day = day => qty <= p[k - 1]
    BY OldSharesAreFirst
  <1> HIDE DEF p, old
  <1> DEFINE T == {k \in 0..n : /\ g[k].left = 0 \/ g[k].left + p[k] <= qty
                                /\ Today(g[k].lots, inst) = f[k]}
  <1>9. 0 \in T
    <2>1. g[0].left = qty /\ g[0].lots = <<>> /\ 0 \in 0..n
      BY <1>1, <1>3
    <2>2. g[0].left + p[0] <= qty
      BY <1>7, <2>1
    <2>3. Today(g[0].lots, inst) = f[0]
      BY <1>5, <2>1, TodayOfNothing
    <2> QED
      BY <2>1, <2>2, <2>3
  <1>10. ASSUME NEW k \in 1..n, k - 1 \in T PROVE k \in T
    <2>1. k - 1 \in 0..n /\ k \in 0..n
      BY <1>1
    <2> DEFINE acc == g[k - 1]
               lot == lots[k]
    <2>2. /\ acc \in Taken /\ lot \in Lots /\ g[k] \in Taken /\ g[k] = Take(acc, lot, inst)
          /\ acc.left = 0 \/ acc.left + p[k - 1] <= qty
          /\ Today(acc.lots, inst) = f[k - 1]
      BY <1>1, <1>3, <1>10, <2>1
    <2>3. acc.left \in Nat /\ acc.lots \in Seq(Lots) /\ g[k].left \in Nat
      BY <2>2 DEF Taken
    <2>4. lot.qty \in Nat \ {0}
      BY <2>2, LotFields
    <2>5. p[k - 1] \in Int /\ p[k] \in Int /\ p[k] = p[k - 1] + old[k]
      BY <1>7, <2>1
    <2>6. old[k] = IF lot.day = day THEN 0 ELSE IF lot.inst = inst THEN lot.qty ELSE 0
      BY <1>6 DEF SharesOf
    <2>7. lot.day = day => acc.left = 0
      BY <1>8, <2>2, <2>3, <2>5
    <2> HIDE DEF acc, lot
    <2>8. g[k].left = IF lot.inst # inst \/ acc.left = 0 THEN acc.left
                      ELSE acc.left - (IF lot.qty <= acc.left THEN lot.qty ELSE acc.left)
      BY <2>2 DEF Take, Taken
    <2>9. g[k].left = 0 \/ g[k].left + p[k] <= qty
      <3>1. /\ acc.left \in Nat /\ lot.qty \in Nat \ {0} /\ qty \in Nat
            /\ p[k - 1] \in Int /\ p[k] = p[k - 1] + old[k]
            /\ acc.left = 0 \/ acc.left + p[k - 1] <= qty
        BY <2>2, <2>3, <2>4, <2>5
      <3>2. CASE acc.left = 0
        BY <2>8, <3>2
      <3>3. CASE acc.left # 0 /\ lot.inst = inst
        BY ONLY <2>6, <2>7, <2>8, <3>1, <3>3
      <3>4. CASE acc.left # 0 /\ lot.inst # inst
        BY ONLY <2>6, <2>7, <2>8, <3>1, <3>4
      <3> QED
        BY <3>2, <3>3, <3>4
    <2>10. f[k] = IF lot.inst = inst /\ lot.day = day THEN Append(f[k - 1], lot) ELSE f[k - 1]
      BY <1>5 DEF lot, WithLot
    <2>11. Today(g[k].lots, inst) = f[k]
      <3>1. CASE g[k].lots = acc.lots /\ acc.left # 0
        BY <2>2, <2>7, <2>10, <3>1
      <3>2. ASSUME NEW x \in Lots, g[k].lots = Append(acc.lots, x), x.day = lot.day, x.inst = lot.inst,
                   acc.left = 0 => x = lot
            PROVE  Today(g[k].lots, inst) = f[k]
        <4>1. Today(g[k].lots, inst) = IF x.inst = inst /\ x.day = day
                                       THEN Append(Today(acc.lots, inst), x) ELSE Today(acc.lots, inst)
          BY <2>3, <3>2, TodayOfAppend DEF WithLot
        <4> QED
          BY <2>2, <2>7, <2>10, <3>2, <4>1
      <3> QED
        BY <2>2, <3>1, <3>2, TakenLots
    <2> QED
      BY <2>1, <2>9, <2>11
  <1> HIDE DEF T
  <1>11. 0..n \subseteq T
    BY <1>1, <1>9, <1>10, Climb
  <1>12. Today(g[n].lots, inst) = f[n]
    <2>1. n \in 0..n
      BY <1>1
    <2> QED
      BY <1>11, <2>1 DEF T
  <1> QED
    BY <1>3, <1>5, <1>12

\* When no rule blocks a sale, the shares it asks for are sellable.
LEMMA UnblockedSaleFits ==
    ASSUME NEW o, o.intent.side = "sell", NEW bar, NEW avail, BlockingRules(o, bar, avail) = {},
           RemainingQuantity(o) \in Int, avail.sellable \in Int
    PROVE  RemainingQuantity(o) <= avail.sellable
  <1> DEFINE T == {k \in 0..7 : \A j \in 1..k : ~Blocks(Rules[j], o, bar, avail)}
  <1>1. DOMAIN Rules = 1..7 /\ Rules[4] = "t_plus_one_sellable_quantity"
    BY DEF Rules
  <1>2. 0 \in T
    OBVIOUS
  <1>3. ASSUME NEW k \in 1..7, k - 1 \in T PROVE k \in T
    <2>1. \A j \in 1..(k - 1) : ~Blocks(Rules[j], o, bar, avail)
      BY <1>3
    <2>2. ~Blocks(Rules[k], o, bar, avail)
      BY <1>1, <2>1 DEF BlockingRules
    <2>3. \A j \in 1..k : j = k \/ j \in 1..(k - 1)
      OBVIOUS
    <2> HIDE DEF Blocks
    <2> QED
      BY <2>1, <2>2, <2>3
  <1> HIDE DEF T
  <1>4. 0..7 \subseteq T
    BY <1>2, <1>3, Climb
  <1>5. ~Blocks(Rules[4], o, bar, avail)
    BY <1>4 DEF T
  <1> QED
    BY <1>1, <1>5 DEF Blocks

LEMMA TradedSaleLeavesToday ==
    ASSUME EngineInv, LotsInOrder, NEW id \in DOMAIN orders, Trade(id),
           orders[id].intent.side = "sell", orders'[id].fills # orders[id].fills
    PROVE  LotsOfToday(ledger', orders[id].intent.inst) = LotsOfToday(ledger, orders[id].intent.inst)
  <1> DEFINE o == orders[id]
             inst == o.intent.inst
             avail == AvailabilityOf(inst)
  <1>1. PICK fill \in Fills : /\ Book(o.intent, fill, id) /\ BlockingRules(o, Bar(inst), avail) = {}
                              /\ fill.qty = RemainingQuantity(o)
    BY TradeBooks
  <1>2. LedgerOK(ledger) /\ ledger.lots \in Seq(Lots) /\ day \in Nat /\ InOrder(ledger.lots, day)
    BY OrderConstants DEF EngineInv, LedgerOK, LotsInOrder
  <1>3. /\ PositionQuantity(ledger, inst) = SumOf(LotShares(ledger.lots, inst))
        /\ PositionQuantity(ledger, inst) \in Nat
    BY <1>2, LedgerFigures
  <1>4. LockedToday(inst) = SumOf(LockedShares(ledger.lots, inst))
    BY DEF LockedToday, Total, LockedShares
  <1>5. /\ SumOf(LockedShares(ledger.lots, inst)) \in Int /\ SumOf(OldShares(ledger.lots, inst)) \in Int
        /\ SumOf(LotShares(ledger.lots, inst))
             = SumOf(LockedShares(ledger.lots, inst)) + SumOf(OldShares(ledger.lots, inst))
    BY <1>2, SharesSplit, SumIsInteger
  <1>6. avail.sellable = PositionQuantity(ledger, inst) - LockedToday(inst)
    BY DEF AvailabilityOf, Availability
  <1>7. avail.sellable = SumOf(OldShares(ledger.lots, inst))
    BY <1>3, <1>4, <1>5, <1>6
  <1>8. fill.qty \in Nat
    BY DEF Fills
  <1> HIDE DEF avail
  <1>9. fill.qty <= SumOf(OldShares(ledger.lots, inst))
    <2>1. RemainingQuantity(o) \in Int /\ avail.sellable \in Int
      BY <1>1, <1>5, <1>7, <1>8
    <2>2. RemainingQuantity(o) <= avail.sellable
      BY <1>1, <2>1, UnblockedSaleFits
    <2> QED
      BY <1>1, <1>7, <2>2
  <1>10. ledger'.lots = ReduceLots(ledger.lots, inst, fill.qty).lots
    BY <1>1, BookedLots
  <1>11. Today(ledger'.lots, inst) = Today(ledger.lots, inst)
    BY <1>2, <1>8, <1>9, <1>10, SaleLeavesToday
  <1>12. \A l : LotsOfToday(l, inst) = Today(l.lots, inst)
    BY DEF LotsOfToday, Today
  <1> QED
    BY <1>11, <1>12

\* T+1: a sale never touches shares that were bought on the day of the sale,
\* after any purchases, rights, splits and earlier sales of that day: the lots
\* stay in the order of their days, so FIFO meets the older shares first
\* (AShareExecutionModel.execute, PortfolioLedger._reduce_lots, golden.py).
THEOREM SharesAreAlwaysHeldOvernight == Spec => SharesAreHeldOvernight
  <1>1. EngineInv /\ LotsInOrder /\ [Next]_vars =>
          [ \A id \in DOMAIN orders :
              (orders[id].intent.side = "sell" /\ orders'[id].fills # orders[id].fills)
                => LotsOfToday(ledger', orders[id].intent.inst)
                     = LotsOfToday(ledger, orders[id].intent.inst) ]_vars
    <2> SUFFICES ASSUME EngineInv, LotsInOrder, Next, NEW id \in DOMAIN orders,
                        orders[id].intent.side = "sell", orders'[id].fills # orders[id].fills
                 PROVE  LotsOfToday(ledger', orders[id].intent.inst)
                          = LotsOfToday(ledger, orders[id].intent.inst)
      OBVIOUS
    <2>1. Trade(id)
      <3>1. \A intent \in Intents : ~PlaceOrder(intent)
        BY PlaceKeeps
      <3>2. \A targets \in TargetChoices : ~Rebalance(targets)
        BY RebalanceKeeps
      <3>3. orders' # orders
        OBVIOUS
      <3>4. ASSUME NEW j \in DOMAIN orders,
                   Trade(j) \/ (\E qty \in 1..MaxQuantity : FillPartly(j, qty)) \/ AcceptOrder(j) \/ CancelOrder(j)
            PROVE  j = id
        <4>1. \E o : orders' = [orders EXCEPT ![j] = o]
          BY <3>4 DEF Trade, FillPartly, AcceptOrder, CancelOrder
        <4> QED
          BY <4>1
      <3>5. ASSUME AcceptOrder(id) \/ CancelOrder(id) PROVE FALSE
        <4>1. DOMAIN orders[id] = {"intent", "status", "filled", "fills", "events"}
          BY DEF EngineInv, OrdersOK, OrderOK
        <4>2. \A status : Moved(orders[id], status).fills = orders[id].fills
          BY <4>1 DEF Moved
        <4>3. \E status : orders' = [orders EXCEPT ![id] = Moved(orders[id], status)]
          BY <3>5 DEF AcceptOrder, CancelOrder, Accept, Cancel
        <4> QED
          BY <4>2, <4>3
      <3>6. ASSUME NEW qty, FillPartly(id, qty) PROVE FALSE
        BY <3>6 DEF FillPartly
      <3> QED
        BY <3>1, <3>2, <3>3, <3>4, <3>5, <3>6
           DEF Next, SettleDebts, SettleClaims, PostAction, Post, Close, Over, vars
    <2> QED
      BY <2>1, TradedSaleLeavesToday
  <1>2. Init => LotsInOrder
    <2> SUFFICES ASSUME Init PROVE InOrder(ledger.lots, day)
      BY DEF LotsInOrder
    <2>1. LotsAfter(EmptyLedger, InitialCashEvent) = <<>>
      BY DEF LotsAfter, InitialCashEvent, BlankEvent, EmptyLedger
    <2>2. ~IsRepeated(EmptyLedger, InitialCashEvent)
      BY DEF IsRepeated, EmptyLedger
    <2>3. ledger.lots = <<>> /\ Len(<<>>) = 0
      BY <2>1, <2>2 DEF Init, OpenLedger, Apply, Posted
    <2> QED
      BY <2>3 DEF InOrder
  <1>3. EngineInv /\ EngineInv' /\ LotsInOrder /\ [Next]_vars => LotsInOrder'
    BY OrderKept
  <1> QED
    BY <1>1, <1>2, <1>3, EngineInvHolds, PTL DEF Spec, SharesAreHeldOvernight

-----------------------------------------------------------------------------
(* Drawdowns                                                               *)

LEMMA ProductsAreWhole == \A a, b \in Int : a * b \in Int
  OBVIOUS

LEMMA SameOrder ==
    ASSUME NEW a \in Int, NEW b \in Int, NEW c \in Int, c > 0
    PROVE  a <= b <=> a * c <= b * c
  <1>1. CASE a <= b
    <2>1. PICK d \in Nat : b = a + d
      <3>1. b - a \in Nat /\ b = a + (b - a)
        BY <1>1
      <3> QED
        BY <3>1
    <2>2. d * c >= 0 /\ b * c = a * c + d * c
      BY <2>1
    <2> QED
      BY <1>1, <2>2
  <1>2. CASE b < a
    <2>1. PICK d \in Nat : a = b + d /\ d > 0
      <3>1. a - b \in Nat /\ a = b + (a - b) /\ a - b > 0
        BY <1>2
      <3> QED
        BY <3>1
    <2>2. d * c > 0 /\ a * c = b * c + d * c
      BY <2>1
    <2> QED
      BY <1>2, <2>2
  <1> QED
    BY <1>1, <1>2

\* Fractions with positive denominators are in one order.
LEMMA FractionsChain ==
    ASSUME NEW a \in Int, NEW b \in Int, b > 0, NEW c \in Int, NEW d \in Int, d > 0,
           NEW e \in Int, NEW f \in Int, f > 0, a * d <= c * b, c * f <= e * d
    PROVE  a * f <= e * b
  <1>1. (a * d) * f <= (c * b) * f
    <2>1. a * d \in Int /\ c * b \in Int
      OBVIOUS
    <2> QED
      BY <2>1, SameOrder
  <1>2. (c * f) * b <= (e * d) * b
    <2>1. c * f \in Int /\ e * d \in Int
      OBVIOUS
    <2> QED
      BY <2>1, SameOrder
  <1>3. (c * b) * f = (c * f) * b /\ (a * d) * f = (a * f) * d /\ (e * d) * b = (e * b) * d
    OBVIOUS
  <1>4. a * f \in Int /\ e * b \in Int /\ (a * f) * d \in Int /\ (e * b) * d \in Int /\ (c * b) * f \in Int
    OBVIOUS
  <1>5. (a * f) * d <= (e * b) * d
    BY <1>1, <1>2, <1>3, <1>4
  <1> QED
    BY <1>4, <1>5, SameOrder

\* To the same point it is further down from a higher one.
LEMMA HigherFallsFurther ==
    ASSUME NEW a \in Nat \ {0}, NEW b \in Nat \ {0}, NEW x \in Nat \ {0}, a <= b
    PROVE  (a - x) * b <= (b - x) * a
  <1>1. (a - x) * b = a * b - x * b /\ (b - x) * a = a * b - x * a
    OBVIOUS
  <1>2. x * a <= x * b
    <2>1. a * x <= b * x
      BY SameOrder
    <2> QED
      BY <2>1
  <1>3. a * b \in Int /\ x * a \in Int /\ x * b \in Int
    OBVIOUS
  <1> QED
    BY <1>1, <1>2, <1>3

Positive == Nat \ {0}

IsCurve(points) == points \in Seq(Positive) /\ points # <<>>

DrawdownStep(points, d, n) ==
    IF points[n] >= points[d.peak] THEN RisenTo(d, n) ELSE FallenTo(points, d, n)

AreDrawdowns(f, points) ==
    f = [n \in 0..Len(points) |->
            IF n = 0 THEN NoFall
            ELSE IF points[n] >= points[f[n - 1].peak] THEN RisenTo(f[n - 1], n)
            ELSE FallenTo(points, f[n - 1], n)]

Drawdowns(points) ==
    [peak : 1..Len(points), below : Nat, longest : Nat, worst : Int \X Positive]

LEMMA CurvePoints ==
    ASSUME NEW points, IsCurve(points)
    PROVE  /\ Len(points) \in Nat /\ Len(points) >= 1 /\ DOMAIN points = 1..Len(points)
           /\ 1 \in 1..Len(points) /\ \A k \in 1..Len(points) : points[k] \in Positive
  BY DEF IsCurve

LEMMA StepIsDrawdown ==
    ASSUME NEW points, IsCurve(points), NEW d \in Drawdowns(points), NEW n \in 1..Len(points)
    PROVE  DrawdownStep(points, d, n) \in Drawdowns(points)
  <1>1. /\ d.peak \in 1..Len(points) /\ d.below \in Nat /\ d.longest \in Nat /\ d.worst \in Int \X Positive
        /\ points[d.peak] \in Positive /\ points[n] \in Positive
    BY CurvePoints DEF Drawdowns
  <1>2. RisenTo(d, n) \in Drawdowns(points)
    BY <1>1 DEF RisenTo, Drawdowns
  <1>3. FallenTo(points, d, n) \in Drawdowns(points)
    <2> DEFINE fall == Fall(points, d.peak, n)
               worst == IF Exceeds(fall, d.worst) THEN fall ELSE d.worst
               longest == Higher(d.longest, d.below + 1)
    <2>1. fall \in Int \X Positive
      BY <1>1 DEF Fall, Positive
    <2>2. worst \in Int \X Positive /\ longest \in Nat /\ d.below + 1 \in Nat
      BY <1>1, <2>1 DEF Higher
    <2>3. FallenTo(points, d, n) = [peak |-> d.peak, below |-> d.below + 1, longest |-> longest, worst |-> worst]
      BY DEF FallenTo
    <2> HIDE DEF worst, longest, fall
    <2> QED
      BY <1>1, <2>2, <2>3 DEF Drawdowns
  <1> QED
    BY <1>2, <1>3 DEF DrawdownStep

\* The pass over the curve, point by point.
IsPass(f, points) ==
    /\ f \in [0..Len(points) -> Drawdowns(points)]
    /\ f[0] = NoFall
    /\ \A k \in 1..Len(points) : f[k] = DrawdownStep(points, f[k - 1], k)

LEMMA DrawdownPass ==
    ASSUME NEW points, IsCurve(points)
    PROVE  \E f : IsPass(f, points) /\ WorstDrawdown(points) = f[Len(points)]
  <1> DEFINE n == Len(points)
             A == Drawdowns(points)
             step == [k \in 1..n |-> [d \in A |-> DrawdownStep(points, d, k)]]
             pass == CHOOSE f : AreDrawdowns(f, points)
  <1>1. n \in Nat /\ \A k \in 0..n : k # 0 => k \in 1..n /\ k - 1 \in 0..n
    BY CurvePoints
  <1>2. NoFall \in A
    BY CurvePoints DEF NoFall, Drawdowns, Positive
  <1>3. step \in [1..n -> [A -> A]] /\ \A k \in 1..n, d \in A : step[k][d] = DrawdownStep(points, d, k)
    <2>1. \A k \in 1..n, d \in A : DrawdownStep(points, d, k) \in A
      BY StepIsDrawdown
    <2> HIDE DEF A
    <2> QED
      BY <2>1
  <1> HIDE DEF A, step
  <1>4. PICK f : IsClimb(f, n, A, NoFall, step)
    BY <1>1, <1>2, <1>3, RecursionExists
  <1>5. f \in [0..n -> A] /\ f[0] = NoFall /\ \A k \in 1..n : f[k] = DrawdownStep(points, f[k - 1], k)
    BY <1>1, <1>3, <1>4 DEF IsClimb
  <1>6. AreDrawdowns(f, points)
    <2>1. \A k \in 0..n : f[k] = IF k = 0 THEN NoFall ELSE DrawdownStep(points, f[k - 1], k)
      BY <1>1, <1>5
    <2>2. f = [k \in 0..n |-> IF k = 0 THEN NoFall ELSE DrawdownStep(points, f[k - 1], k)]
      BY <1>5, <2>1
    <2> QED
      BY <2>2 DEF AreDrawdowns, DrawdownStep
  <1>7. AreDrawdowns(pass, points)
    BY <1>6
  <1>8. WorstDrawdown(points) = pass[n]
    BY DEF WorstDrawdown, AreDrawdowns
  <1> HIDE DEF pass
  <1>9. pass = [k \in 0..n |-> IF k = 0 THEN NoFall ELSE DrawdownStep(points, pass[k - 1], k)]
    BY <1>7 DEF AreDrawdowns, DrawdownStep
  <1>10. /\ pass = [k \in 0..n |-> pass[k]] /\ pass[0] = NoFall
         /\ \A k \in 1..n : pass[k] = DrawdownStep(points, pass[k - 1], k)
    <2>1. 0 \in 0..n /\ \A k \in 1..n : k \in 0..n /\ k # 0
      BY <1>1
    <2>2. \A k \in 0..n : pass[k] = IF k = 0 THEN NoFall ELSE DrawdownStep(points, pass[k - 1], k)
      BY <1>9
    <2>3. DOMAIN pass = 0..n
      BY <1>9
    <2> QED
      BY <1>9, <2>1, <2>2, <2>3
  <1> DEFINE T == {k \in 0..n : pass[k] = f[k]}
  <1>11. 0..n \subseteq T
    <2>1. 0 \in T
      BY <1>1, <1>5, <1>10
    <2>2. ASSUME NEW k \in 1..n, k - 1 \in T PROVE k \in T
      <3>1. pass[k] = f[k] /\ k \in 0..n
        BY <1>1, <1>5, <1>10, <2>2
      <3> QED
        BY <3>1
    <2> HIDE DEF T
    <2> QED
      BY <1>1, <2>1, <2>2, Climb
  <1>12. n \in 0..n /\ pass[n] = f[n]
    BY <1>1, <1>11
  <1> HIDE DEF T
  <1> QED
    BY <1>5, <1>8, <1>12 DEF IsPass, A, n

-----------------------------------------------------------------------------
LastsTo(points, m, n) == m <= n /\ \A k \in (m + 1)..n : points[k] < points[m]

\* What the pass knows at point n: the last of the highest points so far, how
\* long ago it was, the worst fall between two points and the longest stretch
\* below one.
PeakIsLatest(points, d, n) ==
    /\ d.peak \in 1..n /\ d.below = n - d.peak
    /\ \A k \in 1..n : points[k] <= points[d.peak] /\ (d.peak < k => points[k] < points[d.peak])

FallIsWorst(points, worst, n) ==
    /\ worst[1] \in Nat /\ worst[2] \in Positive
    /\ \A i, j \in 1..n : i <= j => ~Exceeds(Fall(points, i, j), worst)
    /\ \E i, j \in 1..n : i <= j /\ ~Exceeds(worst, Fall(points, i, j))

StretchIsLongest(points, longest, n) ==
    /\ longest \in Nat
    /\ \A m, k \in 1..n : LastsTo(points, m, k) => k - m <= longest
    /\ \E m, k \in 1..n : LastsTo(points, m, k) /\ k - m = longest

IsKnown(points, d, n) ==
    /\ PeakIsLatest(points, d, n)
    /\ FallIsWorst(points, d.worst, n)
    /\ StretchIsLongest(points, d.longest, n)

\* Whether one fall is worse than another, in whole numbers.
LEMMA FallsCompared ==
    ASSUME NEW points, IsCurve(points), NEW i \in 1..Len(points), NEW j \in 1..Len(points), NEW worst
    PROVE  /\ Exceeds(Fall(points, i, j), worst)
                <=> (points[i] - points[j]) * worst[2] > worst[1] * points[i]
           /\ Exceeds(worst, Fall(points, i, j))
                <=> worst[1] * points[i] > (points[i] - points[j]) * worst[2]
  BY DEF Fall, Exceeds

LEMMA FirstPointKnown ==
    ASSUME NEW points, IsCurve(points) PROVE IsKnown(points, DrawdownStep(points, NoFall, 1), 1)
  <1> DEFINE d == DrawdownStep(points, NoFall, 1)
  <1>1. 1 \in 1..Len(points) /\ points[1] \in Positive
    BY CurvePoints
  <1>2. d.peak = 1 /\ d.below = 0 /\ d.longest = 0 /\ d.worst = <<0, 1>>
    BY <1>1 DEF DrawdownStep, NoFall, RisenTo, Positive
  <1> HIDE DEF d
  <1>3. \A k \in 1..1 : k = 1
    OBVIOUS
  <1>4. PeakIsLatest(points, d, 1)
    BY <1>1, <1>2, <1>3 DEF PeakIsLatest, Positive
  <1>5. FallIsWorst(points, d.worst, 1)
    <2>1. ~Exceeds(Fall(points, 1, 1), d.worst) /\ ~Exceeds(d.worst, Fall(points, 1, 1))
      BY <1>1, <1>2, FallsCompared DEF Positive
    <2> QED
      BY <1>2, <1>3, <2>1 DEF FallIsWorst, Positive
  <1>6. StretchIsLongest(points, d.longest, 1)
    <2>1. LastsTo(points, 1, 1) /\ 1 \in 1..1
      BY DEF LastsTo
    <2> QED
      BY <1>2, <1>3, <2>1 DEF StretchIsLongest
  <1> QED
    BY <1>4, <1>5, <1>6 DEF IsKnown, d

\* A point as high as the peak is the new one; nothing falls to it.
LEMMA RiseKnown ==
    ASSUME NEW points, IsCurve(points), NEW n \in 1..Len(points), n + 1 \in 1..Len(points),
           NEW d \in Drawdowns(points), IsKnown(points, d, n), points[n + 1] >= points[d.peak]
    PROVE  IsKnown(points, RisenTo(d, n + 1), n + 1)
  <1> DEFINE e == RisenTo(d, n + 1)
  <1>1. e.peak = n + 1 /\ e.below = 0 /\ e.longest = d.longest /\ e.worst = d.worst
    BY DEF RisenTo
  <1> HIDE DEF e
  <1>2. /\ n \in Nat /\ \A k \in 1..(n + 1) : k \in 1..Len(points) /\ points[k] \in Positive /\ (k = n + 1 \/ k \in 1..n)
        /\ \A k \in 1..n : k \in 1..(n + 1)
    BY CurvePoints
  <1>3. PeakIsLatest(points, d, n) /\ FallIsWorst(points, d.worst, n) /\ StretchIsLongest(points, d.longest, n)
    BY DEF IsKnown
  <1>4. \A k \in 1..(n + 1) : points[k] <= points[n + 1]
    <2>1. \A k \in 1..n : points[k] <= points[d.peak] /\ points[d.peak] \in Positive
      BY <1>2, <1>3 DEF PeakIsLatest
    <2> QED
      BY <1>2, <2>1 DEF Positive
  <1>5. PeakIsLatest(points, e, n + 1)
    BY <1>1, <1>2, <1>4 DEF PeakIsLatest
  <1>6. FallIsWorst(points, e.worst, n + 1)
    <2>1. d.worst[1] \in Nat /\ d.worst[2] \in Positive
      BY <1>3 DEF FallIsWorst
    <2>2. ASSUME NEW i \in 1..(n + 1), NEW j \in 1..(n + 1), i <= j
          PROVE  ~Exceeds(Fall(points, i, j), d.worst)
      <3>1. CASE j = n + 1
        <4> DEFINE a == points[i] - points[j]
                   b == d.worst[1] * points[i]
        <4>1. a \in Int /\ a <= 0
          BY <1>2, <1>4, <3>1 DEF Positive
        <4>2. a * d.worst[2] <= 0 * d.worst[2]
          BY <2>1, <4>1, SameOrder DEF Positive
        <4>3. 0 * points[i] <= d.worst[1] * points[i] /\ points[i] \in Positive
          BY <1>2, <2>1, SameOrder DEF Positive
        <4> HIDE DEF a
        <4>4. a * d.worst[2] \in Int /\ b \in Int /\ 0 * d.worst[2] = 0 /\ 0 * points[i] = 0
          BY <1>2, <2>1, <4>1 DEF Positive
        <4>5. ~(a * d.worst[2] > b)
          BY <4>2, <4>3, <4>4
        <4> QED
          BY <1>2, <4>5, FallsCompared DEF a
      <3>2. CASE j # n + 1
        <4>1. i \in 1..n /\ j \in 1..n
          BY <1>2, <2>2, <3>2
        <4> QED
          BY <1>3, <2>2, <4>1 DEF FallIsWorst
      <3> QED
        BY <3>1, <3>2
    <2>3. \E i, j \in 1..(n + 1) : i <= j /\ ~Exceeds(d.worst, Fall(points, i, j))
      BY <1>2, <1>3 DEF FallIsWorst
    <2> QED
      BY <1>1, <2>1, <2>2, <2>3 DEF FallIsWorst
  <1>7. StretchIsLongest(points, e.longest, n + 1)
    <2>1. d.longest \in Nat
      BY <1>3 DEF StretchIsLongest
    <2>2. ASSUME NEW m \in 1..(n + 1), NEW k \in 1..(n + 1), LastsTo(points, m, k) PROVE k - m <= d.longest
      <3>1. CASE k = n + 1
        <4>1. CASE m = n + 1
          BY <1>2, <2>1, <3>1, <4>1
        <4>2. CASE m # n + 1
          <5>1. n + 1 \in (m + 1)..k
            BY <1>2, <3>1, <4>2
          <5>2. points[n + 1] < points[m] /\ points[m] <= points[n + 1]
            BY <1>4, <2>2, <5>1 DEF LastsTo
          <5>3. n + 1 \in 1..(n + 1)
            BY <1>2
          <5>4. points[n + 1] \in Positive /\ points[m] \in Positive
            BY <1>2, <5>3
          <5> QED
            BY <5>2, <5>4 DEF Positive
        <4> QED
          BY <4>1, <4>2
      <3>2. CASE k # n + 1
        <4>1. m \in 1..n /\ k \in 1..n
          BY <1>2, <2>2, <3>2 DEF LastsTo
        <4> QED
          BY <1>3, <2>2, <4>1 DEF StretchIsLongest
      <3> QED
        BY <3>1, <3>2
    <2>3. \E m, k \in 1..(n + 1) : LastsTo(points, m, k) /\ k - m = d.longest
      BY <1>2, <1>3 DEF StretchIsLongest
    <2> QED
      BY <1>1, <2>1, <2>2, <2>3 DEF StretchIsLongest
  <1> QED
    BY <1>5, <1>6, <1>7 DEF IsKnown, e

\* Below the peak, no fall to this point is worse than the peak's, and no
\* stretch to it longer.
LEMMA FallKnown ==
    ASSUME NEW points, IsCurve(points), NEW n \in 1..Len(points), n + 1 \in 1..Len(points),
           NEW d \in Drawdowns(points), IsKnown(points, d, n), points[n + 1] < points[d.peak]
    PROVE  IsKnown(points, FallenTo(points, d, n + 1), n + 1)
  <1> DEFINE e == FallenTo(points, d, n + 1)
             fall == Fall(points, d.peak, n + 1)
             x == points[n + 1]
             p == points[d.peak]
  <1>1. /\ e.peak = d.peak /\ e.below = d.below + 1 /\ e.longest = Higher(d.longest, d.below + 1)
        /\ e.worst = IF Exceeds(fall, d.worst) THEN fall ELSE d.worst
    BY DEF FallenTo
  <1> HIDE DEF e
  <1>2. /\ n \in Nat /\ \A k \in 1..(n + 1) : k \in 1..Len(points) /\ points[k] \in Positive /\ (k = n + 1 \/ k \in 1..n)
        /\ \A k \in 1..n : k \in 1..(n + 1)
    BY CurvePoints
  <1>3. PeakIsLatest(points, d, n) /\ FallIsWorst(points, d.worst, n) /\ StretchIsLongest(points, d.longest, n)
    BY DEF IsKnown
  <1>4. d.peak \in 1..n /\ d.peak \in 1..(n + 1) /\ n + 1 \in 1..(n + 1) /\ d.below = n - d.peak
    BY <1>2, <1>3 DEF PeakIsLatest
  <1>5. x \in Positive /\ p \in Positive /\ x < p
    BY <1>2, <1>4
  <1>6. fall[1] = p - x /\ fall[2] = p
    BY DEF Fall
  <1>7. p - x \in Nat /\ p - x > 0
    BY <1>5 DEF Positive
  <1>8. PeakIsLatest(points, e, n + 1)
    <2>1. \A k \in 1..(n + 1) : points[k] <= p /\ (d.peak < k => points[k] < p)
      BY <1>2, <1>3, <1>5 DEF PeakIsLatest, Positive
    <2>2. d.below + 1 = (n + 1) - d.peak
      BY <1>2, <1>4
    <2> QED
      BY <1>1, <1>4, <2>1, <2>2 DEF PeakIsLatest
  <1> HIDE DEF fall
  <1>9. FallIsWorst(points, e.worst, n + 1)
    <2>1. d.worst[1] \in Nat /\ d.worst[2] \in Positive
      BY <1>3 DEF FallIsWorst
    <2>2. e.worst[1] \in Nat /\ e.worst[2] \in Positive
      BY <1>1, <1>5, <1>6, <1>7, <2>1
    <2>3. d.worst[1] * e.worst[2] <= e.worst[1] * d.worst[2] /\ fall[1] * e.worst[2] <= e.worst[1] * fall[2]
      <3>1. d.worst[1] * fall[2] \in Int /\ fall[1] * d.worst[2] \in Int
        BY <1>5, <1>6, <1>7, <2>1 DEF Positive
      <3>2. d.worst[1] * d.worst[2] \in Int /\ fall[1] * fall[2] \in Int
        BY <1>5, <1>6, <1>7, <2>1 DEF Positive
      <3>3. Exceeds(fall, d.worst) <=> fall[1] * d.worst[2] > d.worst[1] * fall[2]
        BY DEF Exceeds
      <3>4. CASE Exceeds(fall, d.worst)
        <4>1. e.worst = fall
          BY <1>1, <3>4
        <4> QED
          BY <3>1, <3>2, <3>3, <3>4, <4>1
      <3>5. CASE ~Exceeds(fall, d.worst)
        <4>1. e.worst = d.worst
          BY <1>1, <3>5
        <4> QED
          BY <3>1, <3>2, <3>3, <3>5, <4>1
      <3> QED
        BY <3>4, <3>5
    <2>4. ASSUME NEW i \in 1..(n + 1), NEW j \in 1..(n + 1), i <= j
          PROVE  ~Exceeds(Fall(points, i, j), e.worst)
      <3> DEFINE a == points[i]
                 b == points[j]
      <3>1. a \in Positive /\ b \in Positive
        BY <1>2
      <3>2. CASE j = n + 1
        <4>1. a <= p
          BY <1>2, <1>3, <1>5 DEF PeakIsLatest, Positive
        <4>2. (a - x) * p <= (p - x) * a
          BY <1>5, <3>1, <4>1, HigherFallsFurther DEF Positive
        <4>3. (p - x) * e.worst[2] <= e.worst[1] * p
          BY <1>6, <2>3
        <4>4. (a - x) * e.worst[2] <= e.worst[1] * a
          <5>1. a - x \in Int /\ p - x \in Int /\ a \in Int /\ a > 0 /\ p \in Int /\ p > 0
            BY <1>5, <3>1 DEF Positive
          <5>2. e.worst[1] \in Int /\ e.worst[2] \in Int /\ e.worst[2] > 0
            BY <2>2 DEF Positive
          <5> DEFINE u == a - x
                     v == p - x
                     c == e.worst[1]
                     f == e.worst[2]
          <5>3. /\ u \in Int /\ v \in Int /\ c \in Int /\ f \in Int /\ f > 0
                /\ u * p <= v * a /\ v * f <= c * p
            BY <4>2, <4>3, <5>1, <5>2
          <5> HIDE DEF a, p, x, u, v, c, f
          <5>4. u * f <= c * a
            BY ONLY <5>1, <5>3, FractionsChain
          <5> QED
            BY <5>4 DEF u, c, f
        <4>5. (a - x) * e.worst[2] \in Int /\ e.worst[1] * a \in Int
          <5>1. a - x \in Int /\ a \in Int /\ e.worst[1] \in Int /\ e.worst[2] \in Int
            BY <1>5, <2>2, <3>1 DEF Positive
          <5> QED
            BY ONLY <5>1, ProductsAreWhole
        <4>6. b = x
          BY <3>2
        <4>7. ~((a - b) * e.worst[2] > e.worst[1] * a)
          BY <4>4, <4>5, <4>6
        <4> QED
          BY <1>2, <4>7, FallsCompared
      <3>3. CASE j # n + 1
        <4>1. i \in 1..n /\ j \in 1..n
          BY <1>2, <2>4, <3>3
        <4>2. ~Exceeds(Fall(points, i, j), d.worst)
          BY <1>3, <2>4, <4>1 DEF FallIsWorst
        <4>3. (a - b) * d.worst[2] <= d.worst[1] * a
          <5>1. ~((a - b) * d.worst[2] > d.worst[1] * a)
            BY <1>2, <4>2, FallsCompared
          <5>2. (a - b) * d.worst[2] \in Int /\ d.worst[1] * a \in Int
            <6>1. a - b \in Int /\ a \in Int /\ d.worst[1] \in Int /\ d.worst[2] \in Int
              BY <2>1, <3>1 DEF Positive
            <6> QED
              BY ONLY <6>1, ProductsAreWhole
          <5> QED
            BY <5>1, <5>2
        <4>4. (a - b) * e.worst[2] <= e.worst[1] * a
          <5>1. a - b \in Int /\ a \in Int /\ a > 0
            BY <3>1 DEF Positive
          <5>2. e.worst[1] \in Int /\ e.worst[2] \in Int /\ e.worst[2] > 0
            BY <2>2 DEF Positive
          <5>3. d.worst[1] \in Int /\ d.worst[2] \in Int /\ d.worst[2] > 0
            BY <2>1 DEF Positive
          <5> DEFINE u == a - b
                     v == d.worst[1]
                     g == d.worst[2]
                     c == e.worst[1]
                     f == e.worst[2]
          <5>4. /\ u \in Int /\ v \in Int /\ g \in Int /\ g > 0 /\ c \in Int /\ f \in Int /\ f > 0
                /\ u * g <= v * a /\ v * f <= c * g
            BY <2>3, <4>3, <5>1, <5>2, <5>3
          <5> HIDE DEF a, b, u, v, g, c, f
          <5>5. u * f <= c * a
            BY ONLY <5>1, <5>4, FractionsChain
          <5> QED
            BY <5>5 DEF u, c, f
        <4>5. (a - b) * e.worst[2] \in Int /\ e.worst[1] * a \in Int
          <5>1. a - b \in Int /\ a \in Int /\ e.worst[1] \in Int /\ e.worst[2] \in Int
            BY <2>2, <3>1 DEF Positive
          <5> QED
            BY ONLY <5>1, ProductsAreWhole
        <4>6. ~((a - b) * e.worst[2] > e.worst[1] * a)
          BY <4>4, <4>5
        <4> QED
          BY <1>2, <4>6, FallsCompared
      <3> QED
        BY <3>2, <3>3
    <2>5. \E i, j \in 1..(n + 1) : i <= j /\ ~Exceeds(e.worst, Fall(points, i, j))
      <3>1. CASE Exceeds(fall, d.worst)
        <4>1. e.worst = fall /\ d.peak <= n + 1
          BY <1>1, <1>2, <1>4, <3>1
        <4>2. ~Exceeds(fall, fall)
          <5>1. fall[1] * fall[2] \in Int
            BY <1>5, <1>6, <1>7 DEF Positive
          <5> QED
            BY <5>1 DEF Exceeds
        <4> QED
          BY <1>4, <4>1, <4>2 DEF fall
      <3>2. CASE ~Exceeds(fall, d.worst)
        BY <1>1, <1>2, <1>3, <3>2 DEF FallIsWorst
      <3> QED
        BY <3>1, <3>2
    <2> QED
      BY <2>2, <2>4, <2>5 DEF FallIsWorst
  <1>10. StretchIsLongest(points, e.longest, n + 1)
    <2>1. d.longest \in Nat /\ d.below + 1 = (n + 1) - d.peak /\ d.below + 1 \in Nat
      BY <1>2, <1>3, <1>4 DEF StretchIsLongest
    <2>2. /\ e.longest \in Nat /\ d.longest <= e.longest /\ (n + 1) - d.peak <= e.longest
          /\ e.longest = d.longest \/ e.longest = (n + 1) - d.peak
      BY <1>1, <2>1 DEF Higher
    <2>3. ASSUME NEW m \in 1..(n + 1), NEW k \in 1..(n + 1), LastsTo(points, m, k) PROVE k - m <= e.longest
      <3>1. CASE k = n + 1
        <4>1. d.peak <= m
          <5> SUFFICES ASSUME m < d.peak PROVE FALSE
            BY <1>2, <1>4
          <5>1. d.peak \in (m + 1)..k /\ m \in 1..n
            BY <1>2, <1>4, <3>1
          <5>2. p < points[m] /\ points[m] <= p
            BY <1>3, <2>3, <5>1 DEF LastsTo, PeakIsLatest
          <5> QED
            BY <1>2, <1>5, <5>2 DEF Positive
        <4> QED
          BY <1>2, <1>4, <2>2, <3>1, <4>1
      <3>2. CASE k # n + 1
        <4>1. m \in 1..n /\ k \in 1..n
          BY <1>2, <2>3, <3>2 DEF LastsTo
        <4>2. k - m <= d.longest
          BY <1>3, <2>3, <4>1 DEF StretchIsLongest
        <4> QED
          BY <2>1, <2>2, <4>1, <4>2
      <3> QED
        BY <3>1, <3>2
    <2>4. \E m, k \in 1..(n + 1) : LastsTo(points, m, k) /\ k - m = e.longest
      <3>1. CASE e.longest = d.longest
        BY <1>2, <1>3, <3>1 DEF StretchIsLongest
      <3>2. CASE e.longest = (n + 1) - d.peak
        <4>1. LastsTo(points, d.peak, n + 1)
          <5>1. d.peak <= n + 1
            BY <1>2, <1>4
          <5>2. ASSUME NEW k \in (d.peak + 1)..(n + 1) PROVE points[k] < p
            <6>1. k \in 1..(n + 1) /\ e.peak < k
              BY <1>1, <1>2, <1>4
            <6> QED
              BY <1>1, <1>8, <6>1 DEF PeakIsLatest
          <5> QED
            BY <5>1, <5>2 DEF LastsTo
        <4> QED
          BY <1>4, <3>2, <4>1
      <3> QED
        BY <2>2, <3>1, <3>2
    <2> QED
      BY <2>2, <2>3, <2>4 DEF StretchIsLongest
  <1> QED
    BY <1>8, <1>9, <1>10 DEF IsKnown, e

\* The pass finds the worst fall and the longest stretch of the whole curve.
LEMMA DrawdownIsKnown ==
    ASSUME NEW points, IsCurve(points)
    PROVE  IsKnown(points, WorstDrawdown(points), Len(points))
  <1>1. PICK f : IsPass(f, points) /\ WorstDrawdown(points) = f[Len(points)]
    BY DrawdownPass
  <1> DEFINE n == Len(points)
             T == {k \in 0..n : k = 0 \/ IsKnown(points, f[k], k)}
  <1>2. n \in Nat /\ n >= 1 /\ n \in 0..n
    BY CurvePoints
  <1>3. 0..n \subseteq T
    <2>1. 0 \in T
      BY <1>2
    <2>2. ASSUME NEW k \in 1..n, k - 1 \in T PROVE k \in T
      <3>1. k \in 0..n /\ k - 1 \in 0..n /\ f[k] = DrawdownStep(points, f[k - 1], k) /\ f[k - 1] \in Drawdowns(points)
        BY <1>1, <1>2 DEF IsPass
      <3>2. CASE k = 1
        <4>1. f[k - 1] = NoFall
          BY <1>1, <3>2 DEF IsPass
        <4>2. IsKnown(points, f[k], k)
          BY <3>1, <3>2, <4>1, FirstPointKnown
        <4> QED
          BY <3>1, <4>2
      <3>3. CASE k # 1
        <4> DEFINE m == k - 1
        <4>1. m \in 1..n /\ m + 1 = k /\ m + 1 \in 1..n /\ m # 0
          BY <1>2, <3>3
        <4>2. IsKnown(points, f[m], m) /\ f[m] \in Drawdowns(points)
          BY <2>2, <3>1, <4>1
        <4>3. f[m].peak \in 1..n /\ points[f[m].peak] \in Positive /\ points[m + 1] \in Positive
          BY <4>1, <4>2, CurvePoints DEF Drawdowns
        <4> HIDE DEF m
        <4>4. points[m + 1] >= points[f[m].peak] \/ points[m + 1] < points[f[m].peak]
          BY <4>3 DEF Positive
        <4>5. IsKnown(points, DrawdownStep(points, f[m], m + 1), m + 1)
          <5>1. CASE points[m + 1] >= points[f[m].peak]
            BY <4>1, <4>2, <5>1, RiseKnown DEF DrawdownStep
          <5>2. CASE points[m + 1] < points[f[m].peak]
            <6>1. ~(points[m + 1] >= points[f[m].peak])
              BY <4>3, <5>2 DEF Positive
            <6> QED
              BY <4>1, <4>2, <5>2, <6>1, FallKnown DEF DrawdownStep
          <5> QED
            BY <4>4, <5>1, <5>2
        <4>6. IsKnown(points, f[k], k)
          BY <3>1, <4>1, <4>5 DEF m
        <4> QED
          BY <3>1, <4>6
      <3> QED
        BY <3>2, <3>3
    <2> HIDE DEF T, n
    <2> QED
      BY <1>2, <2>1, <2>2, Climb
  <1>4. IsKnown(points, f[n], n)
    BY <1>2, <1>3
  <1> QED
    BY <1>1, <1>4

-----------------------------------------------------------------------------
(* Ratios                                                                  *)

FellAt(points, k) == points[k + 1] < points[k]

\* A curve lower at n than at m before it fell between two of its points.
LEMMA FellSomewhere ==
    ASSUME NEW points, IsCurve(points), NEW m \in 1..Len(points), NEW n \in 1..Len(points),
           m <= n, points[n] < points[m]
    PROVE  \E k \in 1..(Len(points) - 1) : FellAt(points, k)
  <1> SUFFICES ASSUME \A k \in 1..(Len(points) - 1) : ~FellAt(points, k) PROVE FALSE
    OBVIOUS
  <1> DEFINE T == {i \in 0..(n - m) : points[m] <= points[m + i]}
  <1>1. n - m \in Nat /\ n - m \in 0..(n - m) /\ m + (n - m) = n /\ 0 \in 0..(n - m) /\ m + 0 = m
    OBVIOUS
  <1>2. \A k \in 1..Len(points) : points[k] \in Int
    BY CurvePoints DEF Positive
  <1>3. 0 \in T
    BY <1>1, <1>2
  <1>4. ASSUME NEW i \in 1..(n - m), i - 1 \in T PROVE i \in T
    <2> DEFINE k == m + (i - 1)
    <2>1. k \in 1..(Len(points) - 1) /\ k + 1 = m + i /\ k \in 1..Len(points) /\ k + 1 \in 1..Len(points) /\ i \in 0..(n - m)
      BY CurvePoints
    <2>2. ~(points[k + 1] < points[k]) /\ points[m] <= points[k]
      BY <1>4, <2>1 DEF FellAt
    <2>3. points[k] \in Int /\ points[k + 1] \in Int /\ points[m] \in Int
      BY <1>2, <2>1
    <2> HIDE DEF k
    <2>4. points[m] <= points[k + 1]
      BY <2>2, <2>3
    <2> QED
      BY <2>1, <2>4
  <1>5. 0..(n - m) \subseteq T
    <2> HIDE DEF T
    <2> QED
      BY <1>1, <1>3, <1>4, Climb
  <1>6. points[m] <= points[n]
    BY <1>1, <1>5
  <1> QED
    BY <1>2, <1>6

\* A curve that ends where it began or higher did not fall at every point.
LEMMA RoseSomewhere ==
    ASSUME NEW points, IsCurve(points), Len(points) >= 2, points[1] <= points[Len(points)]
    PROVE  \E k \in 1..(Len(points) - 1) : ~FellAt(points, k)
  <1> SUFFICES ASSUME \A k \in 1..(Len(points) - 1) : FellAt(points, k) PROVE FALSE
    OBVIOUS
  <1> DEFINE n == Len(points) - 1
             T == {i \in 0..n : i = 0 \/ points[1 + i] < points[1]}
  <1>1. n \in Nat /\ n \in 0..n /\ n # 0 /\ 1 + n = Len(points) /\ 0 \in 0..n
    BY CurvePoints
  <1>2. \A k \in 1..(n + 1) : points[k] \in Int
    BY CurvePoints DEF Positive
  <1>3. 0 \in T
    BY <1>1
  <1>4. ASSUME NEW i \in 1..n, i - 1 \in T PROVE i \in T
    <2>1. i \in 1..(n + 1) /\ i + 1 \in 1..(n + 1) /\ 1 + i = i + 1 /\ 1 + (i - 1) = i /\ i \in 0..n /\ 1 \in 1..(n + 1)
      BY <1>1
    <2>2. points[i + 1] < points[i]
      BY <1>1 DEF FellAt
    <2>3. i - 1 = 0 \/ points[i] < points[1]
      BY <1>4, <2>1
    <2>4. points[i] \in Int /\ points[i + 1] \in Int /\ points[1] \in Int
      BY <1>2, <2>1
    <2>5. i = 1 \/ points[i] < points[1]
      BY <2>3
    <2>6. points[i + 1] < points[1]
      BY <2>2, <2>4, <2>5
    <2> QED
      BY <2>1, <2>6
  <1>5. 0..n \subseteq T
    <2> HIDE DEF T, n
    <2> QED
      BY <1>1, <1>3, <1>4, Climb
  <1>6. points[1 + n] < points[1]
    BY <1>1, <1>5
  <1>7. points[1 + n] \in Int /\ points[1] \in Int
    BY <1>1, <1>2
  <1> QED
    BY <1>1, <1>6, <1>7

LEMMA ReturnsAre ==
    ASSUME NEW points, IsCurve(points)
    PROVE  LET returns == PeriodReturns(points)
           IN  /\ Len(returns) = Len(points) - 1 /\ DOMAIN returns = 1..(Len(points) - 1)
               /\ \A k \in 1..(Len(points) - 1) :
                     /\ returns[k][1] = points[k + 1] /\ returns[k][2] = points[k]
                     /\ returns[k][1] \in Positive /\ returns[k][2] \in Positive
  <1> DEFINE returns == PeriodReturns(points)
             n == Len(points) - 1
             Pair(k) == <<points[k + 1], points[k]>>
  <1>1. n \in Nat /\ returns = [k \in 1..n |-> Pair(k)]
    BY CurvePoints DEF PeriodReturns
  <1>2. \A k \in 1..n : points[k] \in Positive /\ points[k + 1] \in Positive
    <2>1. \A k \in 1..n : k \in 1..Len(points) /\ k + 1 \in 1..Len(points)
      BY CurvePoints
    <2> QED
      BY <2>1, CurvePoints
  <1>3. returns \in [1..n -> Positive \X Positive]
    BY <1>1, <1>2
  <1>4. Len(returns) = n
    <2> HIDE DEF returns, n
    <2> QED
      BY <1>1, <1>3, IsSequence
  <1> QED
    BY <1>1, <1>2, <1>4

\* A period that did not lose grew more than one that did.
LEMMA GrewMore ==
    ASSUME NEW a \in Positive, NEW b \in Positive, NEW c \in Positive, NEW d \in Positive, b <= a, c < d
    PROVE  Exceeds(<<a, b>>, <<c, d>>)
  <1>1. a \in Int /\ b \in Int /\ b > 0 /\ c \in Int /\ d \in Int /\ d > 0
    BY DEF Positive
  <1>2. b * d <= a * d
    BY <1>1, SameOrder
  <1>3. ~(d * b <= c * b)
    <2>1. d <= c <=> d * b <= c * b
      BY <1>1, SameOrder
    <2> QED
      BY <1>1, <2>1
  <1>4. a * d \in Int /\ c * b \in Int /\ b * d \in Int /\ d * b = b * d
    BY <1>1
  <1>5. a * d > c * b
    BY <1>2, <1>3, <1>4
  <1> QED
    BY <1>5 DEF Exceeds

\* Which of the ratios a report has.
LEMMA RatiosThere ==
    ASSUME NEW report, report = MetricReport
    PROVE  LET risk == report.evaluable["risk"]
               returns == PeriodReturns(curve)
           IN  /\ "calmar_ratio" \in report.evaluable["drawdown"] <=> WorstDrawdown(curve).worst[1] > 0
               /\ "sortino_ratio" \in risk <=> \E n \in DOMAIN returns : returns[n][1] < returns[n][2]
               /\ "annualized_volatility" \in risk <=> ~(Len(returns) < 2)
               /\ "sharpe_ratio" \in risk <=>
                     Len(returns) >= 2 /\ \E m, n \in DOMAIN returns : Exceeds(returns[m], returns[n])
  <1> DEFINE returns == PeriodReturns(curve)
             worst == WorstDrawdown(curve).worst
             others == (IF Trading.closed > 0 THEN {"win_rate"} ELSE {})
                       \union (IF Trading.winning > 0 /\ Trading.losing > 0
                               THEN {"profit_loss_ratio"} ELSE {})
                       \union (IF Costs.gross > 0 THEN {"cost_ratio"} ELSE {})
             calmar == IF worst[1] > 0 THEN {"calmar_ratio"} ELSE {}
             always == {"cumulative_return", "annualized_return", "max_drawdown",
                        "max_drawdown_duration_periods"}
             found == RiskMetrics(returns) \union calmar \union others \union always
  <1>1. "risk" \in Range(MetricRegistry) /\ "drawdown" \in Range(MetricRegistry)
    <2>1. "sharpe_ratio" \in DOMAIN MetricRegistry /\ MetricRegistry["sharpe_ratio"] = "risk"
      BY DEF MetricRegistry
    <2>2. "calmar_ratio" \in DOMAIN MetricRegistry /\ MetricRegistry["calmar_ratio"] = "drawdown"
      BY DEF MetricRegistry
    <2> QED
      BY <2>1, <2>2 DEF Range
  <1>2. report.evaluable["risk"] = Evaluable("risk") /\ report.evaluable["drawdown"] = Evaluable("drawdown")
    BY <1>1 DEF MetricReport
  <1>3. \A c : Evaluable(c) = {m \in found : MetricRegistry[m] = c}
    <2>1. ASSUME NEW c PROVE Evaluable(c) = {m \in found : MetricRegistry[m] = c}
      <3> DEFINE old == RiskMetrics(PeriodReturns(curve))
                 \union (IF worst[1] > 0 THEN {"calmar_ratio"} ELSE {})
                 \union (IF Trading.closed > 0 THEN {"win_rate"} ELSE {})
                 \union (IF Trading.winning > 0 /\ Trading.losing > 0
                         THEN {"profit_loss_ratio"} ELSE {})
                 \union (IF Costs.gross > 0 THEN {"cost_ratio"} ELSE {})
                 \union {"cumulative_return", "annualized_return", "max_drawdown",
                         "max_drawdown_duration_periods"}
      <3>1. old = found
        BY Zenon
      <3>2. Evaluable(c) = {m \in old : MetricRegistry[m] = c}
        BY DEF Evaluable
      <3> HIDE DEF old, found
      <3> QED
        BY <3>1, <3>2
    <2> QED
      BY <2>1
  <1>4. others \subseteq {"win_rate", "profit_loss_ratio", "cost_ratio"}
    OBVIOUS
  <1> HIDE DEF others, returns, worst
  <1>5. /\ MetricRegistry["calmar_ratio"] = "drawdown" /\ MetricRegistry["sortino_ratio"] = "risk"
        /\ MetricRegistry["annualized_volatility"] = "risk" /\ MetricRegistry["sharpe_ratio"] = "risk"
    BY DEF MetricRegistry
  <1>6. RiskMetrics(returns) = Volatility(returns) \union Sharpe(returns) \union Sortino(returns)
    BY DEF RiskMetrics
  <1>7. /\ Volatility(returns) = IF Len(returns) < 2 THEN {} ELSE {"annualized_volatility"}
        /\ Sharpe(returns) = IF Len(returns) >= 2 /\ \E m, n \in DOMAIN returns : Exceeds(returns[m], returns[n])
                             THEN {"sharpe_ratio"} ELSE {}
        /\ Sortino(returns) = IF \E n \in DOMAIN returns : returns[n][1] < returns[n][2]
                              THEN {"sortino_ratio"} ELSE {}
    BY DEF Volatility, Sharpe, Sortino
  <1>8. "calmar_ratio" \in found <=> worst[1] > 0
    BY <1>4, <1>6, <1>7
  <1>9. "sortino_ratio" \in found <=> \E n \in DOMAIN returns : returns[n][1] < returns[n][2]
    BY <1>4, <1>6, <1>7
  <1>10. "annualized_volatility" \in found <=> ~(Len(returns) < 2)
    BY <1>4, <1>6, <1>7
  <1>11. "sharpe_ratio" \in found <=>
            Len(returns) >= 2 /\ \E m, n \in DOMAIN returns : Exceeds(returns[m], returns[n])
    BY <1>4, <1>6, <1>7
  <1> HIDE DEF found
  <1> QED
    BY <1>2, <1>3, <1>5, <1>8, <1>9, <1>10, <1>11 DEF returns, worst

LEMMA RatiosFollow ==
    ASSUME IsCurve(curve), Len(curve) >= 2, NEW report, report = MetricReport
    PROVE  RatiosAgree(report)
  <1> DEFINE n == Len(curve)
             returns == PeriodReturns(curve)
             worst == WorstDrawdown(curve).worst
             fell == "calmar_ratio" \in report.evaluable["drawdown"]
             risk == report.evaluable["risk"]
  <1>1. /\ n \in Nat /\ n \in 1..n /\ 1 \in 1..n /\ DOMAIN curve = 1..n
        /\ \A k \in 1..n : curve[k] \in Positive
    BY CurvePoints
  <1>2. /\ Len(returns) = n - 1 /\ DOMAIN returns = 1..(n - 1)
        /\ \A k \in 1..(n - 1) :
              /\ returns[k][1] = curve[k + 1] /\ returns[k][2] = curve[k]
              /\ returns[k][1] \in Positive /\ returns[k][2] \in Positive
    BY ReturnsAre
  <1>3. FallIsWorst(curve, worst, n)
    BY DrawdownIsKnown DEF IsKnown
  <1>4. /\ fell <=> worst[1] > 0
        /\ "sortino_ratio" \in risk <=> \E k \in DOMAIN returns : returns[k][1] < returns[k][2]
        /\ "annualized_volatility" \in risk <=> ~(Len(returns) < 2)
        /\ "sharpe_ratio" \in risk <=>
              Len(returns) >= 2 /\ \E j, k \in DOMAIN returns : Exceeds(returns[j], returns[k])
    BY RatiosThere
  <1>5. report.cumulative = <<curve[n] - curve[1], curve[1]>>
    BY DEF MetricReport, CumulativeReturn, Last
  <1> HIDE DEF returns, worst, fell, risk, n
  <1>6. "sortino_ratio" \in risk <=> \E k \in 1..(n - 1) : FellAt(curve, k)
    BY <1>2, <1>4 DEF FellAt
  <1>7. ASSUME NEW i \in 1..n, NEW j \in 1..n, i <= j, curve[j] < curve[i] PROVE worst[1] > 0
    <2>1. ~((curve[i] - curve[j]) * worst[2] > worst[1] * curve[i]) /\ worst[1] \in Nat /\ worst[2] \in Positive
      BY <1>3, <1>7, FallsCompared DEF FallIsWorst, n
    <2>2. curve[i] - curve[j] \in Int /\ curve[i] - curve[j] > 0 /\ curve[i] \in Int
      BY <1>1, <1>7 DEF Positive
    <2>3. (curve[i] - curve[j]) * worst[2] > 0
      <3> DEFINE x == curve[i] - curve[j]
      <3>1. x \in Int /\ x > 0 /\ worst[2] \in Int /\ worst[2] > 0
        BY <2>1, <2>2 DEF Positive
      <3> HIDE DEF x
      <3>2. ~(x * worst[2] <= 0 * worst[2])
        BY <3>1, SameOrder
      <3>3. x * worst[2] \in Int /\ 0 * worst[2] = 0
        BY <3>1
      <3>4. x * worst[2] > 0
        BY <3>2, <3>3
      <3> QED
        BY <3>4 DEF x
    <2>4. worst[1] = 0 => worst[1] * curve[i] = 0
      BY <2>2
    <2> QED
      BY <2>1, <2>3, <2>4
  <1>8. ASSUME worst[1] > 0 PROVE \E k \in 1..(n - 1) : FellAt(curve, k)
    <2>1. PICK i \in 1..n, j \in 1..n : i <= j /\ ~Exceeds(worst, Fall(curve, i, j))
      BY <1>3 DEF FallIsWorst
    <2>2. ~(worst[1] * curve[i] > (curve[i] - curve[j]) * worst[2]) /\ worst[1] \in Nat /\ worst[2] \in Positive
      BY <1>3, <2>1, FallsCompared DEF FallIsWorst, n
    <2>3. curve[i] \in Int /\ curve[i] > 0 /\ curve[j] \in Int
      BY <1>1 DEF Positive
    <2>4. worst[1] * curve[i] > 0
      <3>1. ~(worst[1] * curve[i] <= 0 * curve[i])
        BY <1>8, <2>2, <2>3, SameOrder
      <3>2. worst[1] * curve[i] \in Int /\ 0 * curve[i] = 0
        BY <2>2, <2>3
      <3> QED
        BY <3>1, <3>2
    <2>5. curve[j] < curve[i]
      <3> SUFFICES ASSUME curve[i] <= curve[j] PROVE FALSE
        BY <2>3
      <3> DEFINE x == curve[i] - curve[j]
      <3>1. x \in Int /\ x <= 0 /\ worst[2] \in Int /\ worst[2] > 0
        BY <2>2, <2>3 DEF Positive
      <3>2. ~(worst[1] * curve[i] > x * worst[2]) /\ worst[1] * curve[i] \in Int
        BY <2>2, <2>3
      <3> HIDE DEF x
      <3>3. x * worst[2] <= 0 * worst[2]
        BY <3>1, SameOrder
      <3>4. x * worst[2] \in Int /\ 0 * worst[2] = 0
        BY <3>1
      <3> QED
        BY <2>4, <3>2, <3>3, <3>4
    <2> QED
      BY <2>1, <2>5, FellSomewhere DEF n
  <1>9. ASSUME NEW k \in 1..(n - 1), FellAt(curve, k) PROVE worst[1] > 0
    <2>1. k \in 1..n /\ k + 1 \in 1..n /\ k <= k + 1
      BY <1>1
    <2> QED
      BY <1>7, <1>9, <2>1 DEF FellAt
  <1>10. fell <=> "sortino_ratio" \in risk
    BY <1>4, <1>6, <1>8, <1>9
  <1>11. report.cumulative[1] < 0 => fell
    <2>1. curve[n] - curve[1] < 0 => curve[n] < curve[1]
      BY <1>1 DEF Positive
    <2>2. curve[n] < curve[1] => worst[1] > 0
      BY <1>1, <1>7
    <2> QED
      BY <1>4, <1>5, <2>1, <2>2
  <1>12. (fell /\ report.cumulative[1] >= 0) => "sharpe_ratio" \in risk
    <2> SUFFICES ASSUME fell, report.cumulative[1] >= 0 PROVE "sharpe_ratio" \in risk
      OBVIOUS
    <2>1. PICK k \in 1..(n - 1) : FellAt(curve, k)
      BY <1>4, <1>8
    <2>2. curve[1] <= curve[n]
      BY <1>1, <1>5 DEF Positive
    <2>3. PICK j \in 1..(n - 1) : ~FellAt(curve, j)
      BY <2>2, RoseSomewhere DEF n
    <2>4. /\ returns[j][1] \in Positive /\ returns[j][2] \in Positive /\ returns[j][2] <= returns[j][1]
          /\ returns[k][1] \in Positive /\ returns[k][2] \in Positive /\ returns[k][1] < returns[k][2]
      BY <1>2, <2>1, <2>3 DEF FellAt, Positive
    <2>5. Exceeds(returns[j], returns[k])
      <3>1. Exceeds(<<returns[j][1], returns[j][2]>>, <<returns[k][1], returns[k][2]>>)
        BY <2>4, GrewMore
      <3> QED
        BY <3>1 DEF Exceeds
    <2>6. Len(returns) >= 2
      <3>1. j # k
        BY <2>1, <2>3
      <3> QED
        BY <1>1, <1>2, <3>1
    <2> QED
      BY <1>2, <1>4, <2>5, <2>6
  <1>13. "sharpe_ratio" \in risk => "annualized_volatility" \in risk
    BY <1>1, <1>2, <1>4
  <1> QED
    BY <1>10, <1>11, <1>12, <1>13 DEF RatiosAgree, fell, risk

LEMMA DrawdownFollows ==
    ASSUME IsCurve(curve), NEW report, report = MetricReport PROVE DrawdownIsWorst(report)
  <1> DEFINE d == WorstDrawdown(curve)
             n == Len(curve)
  <1>1. report.drawdown = d
    BY DEF MetricReport
  <1>2. FallIsWorst(curve, d.worst, n) /\ StretchIsLongest(curve, d.longest, n)
    BY DrawdownIsKnown DEF IsKnown
  <1>3. DOMAIN curve = 1..n
    BY CurvePoints
  <1> HIDE DEF d, n
  <1>4. /\ \A i, j \in DOMAIN curve : i <= j => ~Exceeds(Fall(curve, i, j), d.worst)
        /\ \E i, j \in DOMAIN curve : i <= j /\ ~Exceeds(d.worst, Fall(curve, i, j))
    BY <1>2, <1>3 DEF FallIsWorst
  <1>5. /\ \A m, k \in DOMAIN curve : LastsTo(curve, m, k) => k - m <= d.longest
        /\ \E m, k \in DOMAIN curve : LastsTo(curve, m, k) /\ k - m = d.longest
    BY <1>2, <1>3 DEF StretchIsLongest
  <1> QED
    BY <1>1, <1>4, <1>5 DEF DrawdownIsWorst, LastsTo

-----------------------------------------------------------------------------
(* The money behind the metrics                                            *)

Net(e) == e.receivable - e.payable

Nets(s) == [k \in DOMAIN s |-> Net(s[k])]

\* An execution is owed or claimed with its cost, and only a sale earns.
IsTrade(e) ==
    /\ e.side \in Sides /\ e.gross \in Nat /\ e.cost \in Nat
    /\ e.side = "buy" => e.payable = e.gross + e.cost /\ e.receivable = 0 /\ e.pnl = 0
    /\ e.side = "sell" => e.payable = 0 /\ e.receivable = e.gross - e.cost

\* All money that came in or went out is in an execution or an action.
Traded(l) ==
    /\ \A k \in 1..Len(l.executions) : IsTrade(l.executions[k])
    /\ \A k \in 1..Len(l.actions) : l.actions[k].payable \in Int
    /\ l.cash + l.receivables - l.payables
         = InitialCash + SumOf(Nets(l.executions)) + SumOf(Nets(l.actions))

IsMoney(e) ==
    /\ e.cash \in Int /\ e.receivable \in Int /\ e.payable \in Int
    /\ e.type = "execution" => IsTrade(e)
    /\ IsBooked(e) => e.cash = 0
    /\ ~IsBooked(e) => e.cash + e.receivable - e.payable = 0

LEMMA NetsAre ==
    ASSUME NEW s, IsLog(s), \A k \in 1..Len(s) : s[k].payable \in Int
    PROVE  /\ Nets(s) \in Seq(Int) /\ Len(Nets(s)) = Len(s) /\ SumOf(Nets(s)) \in Int
           /\ \A k \in 1..Len(s) : Nets(s)[k] = Net(s[k])
  <1> DEFINE n == Len(s)
  <1>1. n \in Nat /\ DOMAIN s = 1..n /\ \A k \in 1..n : Net(s[k]) \in Int
    BY LogSums DEF IsLog, Net
  <1> HIDE DEF n
  <1>2. Nets(s) \in [1..n -> Int] /\ \A k \in 1..n : Nets(s)[k] = Net(s[k])
    BY <1>1 DEF Nets
  <1>3. Nets(s) \in Seq(Int) /\ Len(Nets(s)) = n
    BY <1>1, <1>2, IsSequence
  <1> QED
    BY <1>2, <1>3, SumIsInteger DEF n

LEMMA NetsGrow ==
    ASSUME NEW s, IsLog(s), \A k \in 1..Len(s) : s[k].payable \in Int,
           NEW e, e.payable \in Int, IsLog(Append(s, e))
    PROVE  /\ SumOf(Nets(Append(s, e))) = SumOf(Nets(s)) + Net(e)
           /\ \A k \in 1..Len(Append(s, e)) : Append(s, e)[k] = e \/ \E j \in 1..Len(s) : Append(s, e)[k] = s[j]
  <1> DEFINE more == Append(s, e)
             n == Len(s)
  <1>1. /\ n \in Nat /\ Len(more) = n + 1 /\ more[n + 1] = e /\ \A k \in 1..n : more[k] = s[k]
    BY ListGrows DEF IsLog, IsList
  <1>2. \A k \in 1..(n + 1) : k = n + 1 \/ k \in 1..n
    BY <1>1
  <1> HIDE DEF more
  <1>3. \A k \in 1..(n + 1) : more[k].payable \in Int
    BY <1>1, <1>2
  <1>4. /\ Nets(s) \in Seq(Int) /\ Len(Nets(s)) = n /\ \A k \in 1..n : Nets(s)[k] = Net(s[k])
    BY NetsAre
  <1>5. /\ Nets(more) \in Seq(Int) /\ Len(Nets(more)) = n + 1 /\ \A k \in 1..(n + 1) : Nets(more)[k] = Net(more[k])
    BY <1>1, <1>3, NetsAre DEF more
  <1>6. \A k \in 1..n : Nets(more)[k] = Nets(s)[k]
    BY <1>1, <1>4, <1>5
  <1>7. SumOf(Nets(more)) = SumOf(Nets(s)) + Nets(more)[n + 1]
    BY ONLY <1>4, <1>5, <1>6, SumGrows
  <1>8. Nets(more)[n + 1] = Net(e)
    BY <1>1, <1>5
  <1>9. \A k \in 1..(n + 1) : more[k] = e \/ \E j \in 1..n : more[k] = s[j]
    BY <1>1, <1>2
  <1> QED
    BY <1>1, <1>7, <1>8, <1>9 DEF more

LEMMA TradedGrows ==
    ASSUME NEW l, LedgerOK(l), Traded(l), NEW e, IsMoney(e), NEW m, m = Posted(l, e), LedgerOK(m)
    PROVE  Traded(m)
  <1> DEFINE x == SumOf(Nets(l.executions))
             y == SumOf(Nets(l.actions))
             settled == l.cash + l.receivables - l.payables
  <1>1. /\ m.cash = l.cash + e.cash /\ m.receivables = l.receivables + e.receivable
        /\ m.payables = l.payables + e.payable
        /\ m.executions = IF e.type = "execution" THEN Append(l.executions, e) ELSE l.executions
        /\ m.actions = IF e.type = "corporate_action" THEN Append(l.actions, e) ELSE l.actions
    BY DEF Posted
  <1>2. /\ IsLog(l.executions) /\ IsLog(l.actions) /\ IsLog(m.executions) /\ IsLog(m.actions)
        /\ l.cash \in Int /\ l.receivables \in Int /\ l.payables \in Int
    BY DEF LedgerOK
  <1>3. /\ \A k \in 1..Len(l.executions) : IsTrade(l.executions[k])
        /\ \A k \in 1..Len(l.actions) : l.actions[k].payable \in Int
        /\ settled = InitialCash + x + y
    BY DEF Traded
  <1>4. \A f : IsTrade(f) => f.payable \in Int
    BY DEF IsTrade, Sides
  <1>5. \A k \in 1..Len(l.executions) : l.executions[k].payable \in Int
    BY <1>3, <1>4
  <1>6. x \in Int /\ y \in Int /\ InitialCash \in Int /\ settled \in Int
    <2>1. x \in Int
      BY ONLY <1>2, <1>5, NetsAre
    <2>2. /\ IsLog(l.actions) /\ \A k \in 1..Len(l.actions) : l.actions[k].payable \in Int
      BY <1>2, <1>3
    <2>3. y \in Int
      BY ONLY <2>2, NetsAre
    <2>4. settled \in Int
      BY ONLY <1>2
    <2> QED
      BY <2>1, <2>3, <2>4, LedgerConstants
  <1>7. e.cash \in Int /\ e.receivable \in Int /\ e.payable \in Int /\ Net(e) = e.receivable - e.payable
    BY DEF IsMoney, Net
  <1>8. m.cash + m.receivables - m.payables = settled + (e.cash + e.receivable - e.payable)
    BY <1>1, <1>2, <1>7
  <1> HIDE DEF x, y, settled
  <1>9. CASE e.type = "execution"
    <2>1. IsTrade(e) /\ e.cash = 0
      BY <1>9 DEF IsMoney, IsBooked
    <2>2. m.executions = Append(l.executions, e) /\ m.actions = l.actions
      BY <1>1, <1>9
    <2>3. /\ SumOf(Nets(m.executions)) = x + Net(e)
          /\ \A k \in 1..Len(m.executions) :
                m.executions[k] = e \/ \E j \in 1..Len(l.executions) : m.executions[k] = l.executions[j]
      BY <1>2, <1>5, <1>7, <2>2, NetsGrow DEF x
    <2>4. \A k \in 1..Len(m.executions) : IsTrade(m.executions[k])
      BY <1>3, <2>1, <2>3
    <2>5. SumOf(Nets(m.actions)) = y
      BY <2>2 DEF y
    <2>6. m.cash + m.receivables - m.payables = InitialCash + SumOf(Nets(m.executions)) + SumOf(Nets(m.actions))
      BY <1>3, <1>6, <1>7, <1>8, <2>1, <2>3, <2>5
    <2> QED
      BY <1>3, <2>2, <2>4, <2>6 DEF Traded
  <1>10. CASE e.type = "corporate_action"
    <2>1. e.cash = 0
      BY <1>10 DEF IsMoney, IsBooked
    <2>2. m.executions = l.executions /\ m.actions = Append(l.actions, e)
      BY <1>1, <1>10
    <2>3. /\ SumOf(Nets(m.actions)) = y + Net(e)
          /\ \A k \in 1..Len(m.actions) :
                m.actions[k] = e \/ \E j \in 1..Len(l.actions) : m.actions[k] = l.actions[j]
      <3>1. /\ IsLog(l.actions) /\ \A k \in 1..Len(l.actions) : l.actions[k].payable \in Int
            /\ IsLog(Append(l.actions, e)) /\ e.payable \in Int
        BY <1>2, <1>3, <1>7, <2>2
      <3>2. /\ SumOf(Nets(Append(l.actions, e))) = SumOf(Nets(l.actions)) + Net(e)
            /\ \A k \in 1..Len(Append(l.actions, e)) :
                  Append(l.actions, e)[k] = e
                  \/ \E j \in 1..Len(l.actions) : Append(l.actions, e)[k] = l.actions[j]
        BY ONLY <3>1, NetsGrow
      <3> QED
        BY <2>2, <3>2 DEF y
    <2>4. \A k \in 1..Len(m.actions) : m.actions[k].payable \in Int
      BY <1>3, <1>7, <2>3
    <2>5. SumOf(Nets(m.executions)) = x
      BY <2>2 DEF x
    <2>6. m.cash + m.receivables - m.payables = InitialCash + SumOf(Nets(m.executions)) + SumOf(Nets(m.actions))
      BY <1>3, <1>6, <1>7, <1>8, <2>1, <2>3, <2>5
    <2> QED
      BY <1>3, <2>2, <2>4, <2>6 DEF Traded
  <1>11. CASE ~IsBooked(e)
    <2>1. e.cash + e.receivable - e.payable = 0 /\ e.type # "execution" /\ e.type # "corporate_action"
      BY <1>11 DEF IsMoney, IsBooked
    <2>2. m.executions = l.executions /\ m.actions = l.actions
      BY <1>1, <2>1
    <2>3. m.cash + m.receivables - m.payables = InitialCash + SumOf(Nets(m.executions)) + SumOf(Nets(m.actions))
      BY <1>3, <1>6, <1>8, <2>1, <2>2 DEF x, y
    <2> QED
      BY <1>3, <2>2, <2>3 DEF Traded
  <1> QED
    BY <1>9, <1>10, <1>11 DEF IsBooked

\* The event of a booking, of a corporate action, of a settlement or a mark.
LEMMA BookedMoney ==
    ASSUME EngineInv, NEW id \in DOMAIN orders, NEW fill \in Fills, Book(orders[id].intent, fill, id)
    PROVE  \E e : IsMoney(e) /\ ledger' = Posted(ledger, e)
  <1> DEFINE intent == orders[id].intent
             cost == TotalCost(intent.side, fill.qty * fill.price)
             e == ExecutionEvent(ledger, intent, fill, id, cost)
  <1>1. Numbered(ledger.events) /\ OrderOK(orders[id])
    BY DEF EngineInv, OrdersOK
  <1>2. intent.inst \in Instruments /\ intent.side \in Sides
    BY <1>1 DEF OrderOK
  <1>3. cost \in Nat
    <2>1. fill.qty * fill.price \in Nat
      BY DEF Fills
    <2> QED
      BY <2>1, CostIsWhole
  <1>4. ledger' = Apply(ledger, e)
    BY DEF Book, Booking
  <1> HIDE DEF cost
  <1>5. IsBooking(e, ledger, intent, fill, cost)
    BY <1>2, <1>3, BookingFields
  <1> HIDE DEF e
  <1>6. e.id = NextId(ledger)
    BY <1>5 DEF IsBooking
  <1>7. ledger' = Posted(ledger, e)
    BY <1>1, <1>4, <1>6, NumberedGrows
  <1>8. IsTrade(e) /\ e.cash = 0 /\ e.type = "execution"
    BY <1>2, <1>3, <1>5 DEF IsBooking, IsTrade
  <1>9. e.receivable \in Int /\ e.payable \in Int
    BY <1>8 DEF IsTrade, Sides
  <1> QED
    BY <1>7, <1>8, <1>9 DEF IsMoney, IsBooked

LEMMA ActionMoney ==
    ASSUME EngineInv, NEW a \in ActionPlan, NEW e, e = EventOf(a), ledger' = Apply(ledger, e)
    PROVE  IsMoney(e) /\ ledger' = Posted(ledger, e)
  <1> DEFINE base == ActionEvent(ledger, a.kind, a.inst, a.ref, day)
             held == PositionQuantity(ledger, a.inst)
  <1>1. a.kind \in CorporateActionTypes /\ a.inst \in Instruments /\ a.num \in Nat /\ a.den \in Nat
    BY EngineConstants
  <1>2. LedgerOK(ledger) /\ Numbered(ledger.events)
    BY DEF EngineInv
  <1>3. held \in Nat
    BY <1>2, LedgerFigures
  <1>4. IsActionOn(base, ledger, a.kind, a.inst, day)
    BY ActionFields
  <1>5. \/ e = CashDividendEvent(ledger, a.inst, a.ref, day, a.num) /\ a.kind = "cash_dividend"
        \/ e = BonusShareEvent(ledger, a.inst, a.ref, day, a.num) /\ a.kind = "bonus_share"
        \/ e = ShareSplitEvent(ledger, a.inst, a.ref, day, a.num, a.den) /\ a.kind = "share_split"
        \/ e = RightsIssueEvent(ledger, a.inst, a.ref, day, a.num, a.den) /\ a.kind = "rights_issue"
        \/ e = DelistingEvent(ledger, a.inst, a.ref, day, a.num) /\ a.kind = "delisting_liquidation"
    BY <1>1 DEF EventOf, CorporateActionTypes
  <1>6. \/ e = [base EXCEPT !.receivable = held * a.num]
        \/ \E x : e = [base EXCEPT !.shares = x]
        \/ \E x : e = [base EXCEPT !.shares = x, !.payable = (held * a.num) * a.den]
        \/ \E x, z : e = [base EXCEPT !.shares = x, !.receivable = held * a.num, !.pnl = z]
    BY <1>5 DEF CashDividendEvent, BonusShareEvent, ShareSplitEvent, RightsIssueEvent, DelistingEvent
  <1>7. held * a.num \in Int /\ (held * a.num) * a.den \in Int
    <2>1. held * a.num \in Nat
      BY <1>1, <1>3
    <2> QED
      BY <1>1, <2>1
  <1> HIDE DEF base, held
  <1>8. /\ e.id = NextId(ledger) /\ e.type = "corporate_action" /\ e.cash = 0
        /\ e.receivable \in Int /\ e.payable \in Int
    <2>1. DOMAIN base = DOMAIN BlankEvent /\ base.id = NextId(ledger) /\ base.type = "corporate_action"
          /\ base.cash = 0 /\ base.receivable = 0 /\ base.payable = 0
      BY <1>4 DEF IsActionOn
    <2>2. {"id", "type", "cash", "receivable", "payable", "shares", "pnl"} \subseteq DOMAIN base
      BY <2>1 DEF BlankEvent
    <2>3. ASSUME e = [base EXCEPT !.receivable = held * a.num]
          PROVE  e.receivable = held * a.num /\ \A f \in {"id", "type", "cash", "payable"} : e[f] = base[f]
      BY <2>2, <2>3
    <2>4. ASSUME NEW x, e = [base EXCEPT !.shares = x]
          PROVE  \A f \in {"id", "type", "cash", "receivable", "payable"} : e[f] = base[f]
      BY <2>2, <2>4
    <2>5. ASSUME NEW x, e = [base EXCEPT !.shares = x, !.payable = (held * a.num) * a.den]
          PROVE  /\ e.payable = (held * a.num) * a.den
                 /\ \A f \in {"id", "type", "cash", "receivable"} : e[f] = base[f]
      BY <2>2, <2>5
    <2>6. ASSUME NEW x, NEW z, e = [base EXCEPT !.shares = x, !.receivable = held * a.num, !.pnl = z]
          PROVE  e.receivable = held * a.num /\ \A f \in {"id", "type", "cash", "payable"} : e[f] = base[f]
      BY <2>2, <2>6
    <2>7. e.id = base.id /\ e.type = base.type /\ e.cash = base.cash
      BY <1>6, <2>3, <2>4, <2>5, <2>6
    <2>8. e.receivable = held * a.num \/ e.receivable = base.receivable
      BY <1>6, <2>3, <2>4, <2>5, <2>6
    <2>9. e.payable = (held * a.num) * a.den \/ e.payable = base.payable
      BY <1>6, <2>3, <2>4, <2>5, <2>6
    <2> QED
      BY <1>7, <2>1, <2>7, <2>8, <2>9
  <1>9. ledger' = Posted(ledger, e)
    BY <1>2, <1>8, NumberedGrows
  <1> QED
    BY <1>8, <1>9 DEF IsMoney, IsBooked

LEMMA StepMoney ==
    ASSUME EngineInv, [Next]_vars
    PROVE  UNCHANGED ledger \/ \E e : IsMoney(e) /\ ledger' = Posted(ledger, e)
  <1> DEFINE Goal == UNCHANGED ledger \/ \E e : IsMoney(e) /\ ledger' = Posted(ledger, e)
  <1>1. LedgerOK(ledger) /\ Numbered(ledger.events)
    BY DEF EngineInv
  <1>2. ASSUME NEW id \in DOMAIN orders, Trade(id) \/ \E qty \in 1..MaxQuantity : FillPartly(id, qty)
        PROVE  Goal
    <2>1. UNCHANGED ledger \/ \E fill \in Fills : Book(orders[id].intent, fill, id)
      BY <1>2, TradeBooks, FillPartlyBooks
    <2> QED
      BY <2>1, BookedMoney
  <1>3. CASE SettleDebts \/ SettleClaims
    <2>1. PICK e : /\ e.type = "cash_settled" /\ e.id = NextId(ledger) /\ ledger' = Apply(ledger, e)
                   /\ \/ e.cash = -ledger.payables /\ e.payable = -ledger.payables /\ e.receivable = 0
                      \/ e.cash = ledger.receivables /\ e.receivable = -ledger.receivables /\ e.payable = 0
      <3>1. CASE SettleDebts
        <4> DEFINE e == SettlePayableEvent(ledger, ledger.payables, "payables")
        <4>1. ledger' = Apply(ledger, e)
          BY <3>1 DEF SettleDebts, Post
        <4>2. /\ e.type = "cash_settled" /\ e.id = NextId(ledger)
              /\ e.cash = -ledger.payables /\ e.payable = -ledger.payables /\ e.receivable = 0
          BY DEF SettlePayableEvent, BlankEvent
        <4> HIDE DEF e
        <4> QED
          BY <4>1, <4>2
      <3>2. CASE SettleClaims
        <4> DEFINE e == SettleReceivableEvent(ledger, ledger.receivables, "receivables")
        <4>1. ledger' = Apply(ledger, e)
          BY <3>2 DEF SettleClaims, Post
        <4>2. /\ e.type = "cash_settled" /\ e.id = NextId(ledger)
              /\ e.cash = ledger.receivables /\ e.receivable = -ledger.receivables /\ e.payable = 0
          BY DEF SettleReceivableEvent, BlankEvent
        <4> HIDE DEF e
        <4> QED
          BY <4>1, <4>2
      <3> QED
        BY <1>3, <3>1, <3>2
    <2>2. ledger.payables \in Int /\ ledger.receivables \in Int
      BY <1>1 DEF LedgerOK
    <2>3. IsMoney(e)
      BY <2>1, <2>2 DEF IsMoney, IsBooked
    <2>4. ledger' = Posted(ledger, e)
      BY <1>1, <2>1, NumberedGrows
    <2> QED
      BY <2>3, <2>4
  <1>4. CASE \E a \in ActionPlan : PostAction(a)
    <2>1. PICK a \in ActionPlan : ledger' = Apply(ledger, EventOf(a))
      BY <1>4 DEF PostAction, Post
    <2> DEFINE e == EventOf(a)
    <2>2. ledger' = Apply(ledger, e) /\ e = EventOf(a)
      BY <2>1
    <2> HIDE DEF e
    <2>3. IsMoney(e) /\ ledger' = Posted(ledger, e)
      BY <2>2, ActionMoney
    <2> QED
      BY <2>3
  <1>5. CASE Close
    <2> DEFINE mark == ValuationEvent(ledger, [i \in OpenInstruments(ledger) |-> Prices[i]], day)
    <2>1. ledger' = ledger \/ ledger' = Apply(ledger, mark)
      BY <1>5 DEF Close
    <2>2. /\ mark.id = NextId(ledger) /\ mark.type = "valuation"
          /\ mark.cash = 0 /\ mark.payable = 0 /\ mark.receivable = 0
      BY DEF ValuationEvent, BlankEvent
    <2> HIDE DEF mark
    <2>3. IsMoney(mark)
      BY <2>2 DEF IsMoney, IsBooked
    <2>4. Apply(ledger, mark) = Posted(ledger, mark)
      BY <1>1, <2>2, NumberedGrows
    <2> QED
      BY <2>1, <2>3, <2>4
  <1>6. ASSUME (\E intent \in Intents : PlaceOrder(intent)) \/ (\E targets \in TargetChoices : Rebalance(targets))
               \/ (\E id \in DOMAIN orders : AcceptOrder(id) \/ CancelOrder(id)) \/ Over \/ UNCHANGED vars
        PROVE  UNCHANGED ledger
    BY <1>6 DEF PlaceOrder, Rebalance, AcceptOrder, CancelOrder, Over, vars
  <1> HIDE DEF Goal
  <1>7. Goal
    BY <1>2, <1>3, <1>4, <1>5, <1>6 DEF Next, Goal
  <1> QED
    BY <1>7 DEF Goal

LEMMA TradedAtFirst == ASSUME Init PROVE Traded(ledger)
  <1> DEFINE e == InitialCashEvent
  <1>1. ledger = Apply(EmptyLedger, e)
    BY DEF Init, OpenLedger
  <1>2. /\ e.id = 1 /\ e.type = "initial_cash" /\ e.cash = InitialCash /\ e.receivable = 0 /\ e.payable = 0
    BY DEF InitialCashEvent, BlankEvent
  <1> HIDE DEF e
  <1>3. /\ EmptyLedger.events = <<>> /\ EmptyLedger.cash = 0 /\ EmptyLedger.receivables = 0
        /\ EmptyLedger.payables = 0 /\ EmptyLedger.executions = <<>> /\ EmptyLedger.actions = <<>>
    BY DEF EmptyLedger
  <1>4. Numbered(EmptyLedger.events) /\ NextId(EmptyLedger) = 1
    <2>1. <<>> \in Seq({}) /\ Len(<<>>) = 0
      OBVIOUS
    <2> QED
      BY <1>3, <2>1 DEF Numbered, IsList, NextId
  <1>5. ledger = Posted(EmptyLedger, e)
    BY <1>1, <1>2, <1>4, NumberedGrows
  <1>6. InitialCash \in Int
    BY LedgerConstants
  <1>7. /\ ledger.cash = InitialCash /\ ledger.receivables = 0 /\ ledger.payables = 0
        /\ ledger.executions = <<>> /\ ledger.actions = <<>>
    BY <1>2, <1>3, <1>5, <1>6 DEF Posted
  <1>8. SumOf(Nets(<<>>)) = 0 /\ Len(<<>>) = 0
    <2>1. Nets(<<>>) = <<>>
      BY DEF Nets
    <2> QED
      BY <2>1, SumOfNothing
  <1>9. ledger.cash + ledger.receivables - ledger.payables
          = InitialCash + SumOf(Nets(ledger.executions)) + SumOf(Nets(ledger.actions))
    BY <1>6, <1>7, <1>8
  <1> QED
    BY <1>7, <1>8, <1>9 DEF Traded

\* The last point of a curve that is over is what the book is worth.
CurveOK ==
    /\ curve \in Seq(Int)
    /\ (curve # <<>> /\ ~Running) => Last(curve) = Equity(ledger)

LEMMA StepCurve == ASSUME EngineInv, EngineInv', CurveOK, [Next]_vars PROVE CurveOK'
  <1>1. CASE UNCHANGED vars
    BY <1>1 DEF vars, CurveOK, Running
  <1>2. CASE Close
    <2>1. curve' = Append(curve, Equity(ledger'))
      BY <1>2 DEF Close
    <2>2. Equity(ledger') \in Int
      <3>1. LedgerOK(ledger')
        BY DEF EngineInv
      <3> QED
        BY <3>1, EquityIsWhole
    <2>3. curve' \in Seq(Int) /\ curve'[Len(curve')] = Equity(ledger')
      BY <2>1, <2>2 DEF CurveOK
    <2> QED
      BY <2>3 DEF CurveOK, Last
  <1>3. ASSUME curve' = curve, Running, day' = day PROVE CurveOK'
    BY <1>3 DEF CurveOK, Running
  <1>4. ASSUME NEW id \in DOMAIN orders, Trade(id) \/ (\E qty \in 1..MaxQuantity : FillPartly(id, qty))
                                         \/ AcceptOrder(id) \/ CancelOrder(id)
        PROVE  curve' = curve /\ Running /\ day' = day
    BY <1>4 DEF Trade, FillPartly, AcceptOrder, CancelOrder
  <1>5. ASSUME (\E intent \in Intents : PlaceOrder(intent)) \/ (\E targets \in TargetChoices : Rebalance(targets))
               \/ SettleDebts \/ SettleClaims \/ (\E a \in ActionPlan : PostAction(a))
        PROVE  curve' = curve /\ Running /\ day' = day
    BY <1>5 DEF PlaceOrder, Rebalance, SettleDebts, SettleClaims, PostAction, Post
  <1>6. CASE Over
    BY <1>1, <1>6 DEF Over
  <1> QED
    BY <1>1, <1>2, <1>3, <1>4, <1>5, <1>6 DEF Next

\* The executions with the sums a report takes over them.
Grosses(s) == [k \in DOMAIN s |-> s[k].gross]

Costed(s) == [k \in DOMAIN s |-> s[k].cost]

SalesOf(s) == [k \in DOMAIN s |-> IF s[k].side = "sell" THEN s[k].gross ELSE 0]

WonIn(s) == [k \in DOMAIN s |-> IF s[k].side = "sell" /\ s[k].pnl > 0 THEN s[k].pnl ELSE 0]

LostIn(s) == [k \in DOMAIN s |-> IF s[k].side = "sell" /\ s[k].pnl < 0 THEN s[k].pnl ELSE 0]

\* Only sales win or lose.
LEMMA WonAndLost ==
    ASSUME NEW s, IsLog(s), \A k \in 1..Len(s) : IsTrade(s[k])
    PROVE  /\ SumOf(Pnls(s)) = SumOf(WonIn(s)) + SumOf(LostIn(s))
           /\ SumOf(WonIn(s)) \in Int /\ SumOf(LostIn(s)) \in Int
  <1> DEFINE n == Len(s)
             u == Pnls(s)
             v == WonIn(s)
             w == LostIn(s)
  <1>1. n \in Nat /\ DOMAIN s = 1..n /\ u \in Seq(Int) /\ Len(u) = n /\ \A k \in 1..n : u[k] = s[k].pnl
    BY LogSums DEF Pnl
  <1>2. \A k \in 1..n : s[k].pnl \in Int
    BY DEF IsLog
  <1>3. \A k \in 1..n : s[k].side = "sell" \/ s[k].pnl = 0
    BY DEF IsTrade, Sides
  <1> HIDE DEF n, u
  <1>4. /\ v \in [1..n -> Int] /\ w \in [1..n -> Int]
        /\ \A k \in 1..n : /\ v[k] = IF s[k].side = "sell" /\ s[k].pnl > 0 THEN s[k].pnl ELSE 0
                           /\ w[k] = IF s[k].side = "sell" /\ s[k].pnl < 0 THEN s[k].pnl ELSE 0
    BY <1>1, <1>2 DEF WonIn, LostIn
  <1> HIDE DEF v, w
  <1>5. v \in Seq(Int) /\ w \in Seq(Int) /\ Len(v) = n /\ Len(w) = n
    BY <1>1, <1>4, IsSequence
  <1>6. \A k \in 1..n : u[k] = v[k] + w[k]
    <2> SUFFICES ASSUME NEW k \in 1..n PROVE u[k] = v[k] + w[k]
      OBVIOUS
    <2> DEFINE p == s[k].pnl
    <2>1. p \in Int /\ u[k] = p /\ (s[k].side = "sell" \/ p = 0)
      BY <1>1, <1>2, <1>3
    <2>2. /\ v[k] = IF s[k].side = "sell" /\ p > 0 THEN p ELSE 0
          /\ w[k] = IF s[k].side = "sell" /\ p < 0 THEN p ELSE 0
      BY <1>4
    <2> HIDE DEF p
    <2> QED
      BY ONLY <2>1, <2>2
  <1>7. SumOf(u) = SumOf(v) + SumOf(w)
    <2>1. /\ u \in Seq(Int) /\ v \in Seq(Int) /\ w \in Seq(Int) /\ Len(v) = Len(w) /\ Len(v) = Len(u)
          /\ \A k \in 1..Len(v) : u[k] = v[k] + w[k]
      BY <1>1, <1>5, <1>6
    <2> QED
      BY ONLY <2>1, SumOfSums
  <1> QED
    BY <1>5, <1>7, SumIsInteger DEF u, v, w

\* What trading moved: the sales twice, less all that was traded and its costs.
LEMMA TradesAddUp ==
    ASSUME NEW s, IsLog(s), \A k \in 1..Len(s) : IsTrade(s[k])
    PROVE  /\ SumOf(Nets(s)) + SumOf(Grosses(s)) + SumOf(Costed(s)) = 2 * SumOf(SalesOf(s))
           /\ SumOf(Nets(s)) \in Int /\ SumOf(Grosses(s)) \in Int /\ SumOf(Costed(s)) \in Int
           /\ SumOf(SalesOf(s)) \in Int
  <1> DEFINE n == Len(s)
             net == Nets(s)
             g == Grosses(s)
             c == Costed(s)
             sold == SalesOf(s)
             ng == [k \in 1..n |-> net[k] + g[k]]
             all == [k \in 1..n |-> ng[k] + c[k]]
  <1>1. n \in Nat /\ DOMAIN s = 1..n
    BY LogSums
  <1>2. \A k \in 1..n : /\ s[k].payable \in Int /\ s[k].gross \in Int /\ s[k].cost \in Int
                        /\ Net(s[k]) + s[k].gross + s[k].cost
                             = IF s[k].side = "sell" THEN s[k].gross + s[k].gross ELSE 0
    <2> SUFFICES ASSUME NEW k \in 1..n
                 PROVE  /\ s[k].payable \in Int /\ s[k].gross \in Int /\ s[k].cost \in Int
                        /\ Net(s[k]) + s[k].gross + s[k].cost
                             = IF s[k].side = "sell" THEN s[k].gross + s[k].gross ELSE 0
      OBVIOUS
    <2>1. IsTrade(s[k]) /\ s[k].receivable \in Int
      BY DEF IsLog
    <2>2. CASE s[k].side = "buy"
      <3>1. /\ s[k].gross \in Nat /\ s[k].cost \in Nat /\ s[k].payable = s[k].gross + s[k].cost
            /\ s[k].receivable = 0 /\ s[k].side # "sell"
        BY <2>1, <2>2 DEF IsTrade
      <3> QED
        BY <3>1 DEF Net
    <2>3. CASE s[k].side = "sell"
      <3>1. /\ s[k].gross \in Nat /\ s[k].cost \in Nat /\ s[k].payable = 0
            /\ s[k].receivable = s[k].gross - s[k].cost
        BY <2>1, <2>3 DEF IsTrade
      <3> QED
        BY <2>3, <3>1 DEF Net
    <2> QED
      BY <2>1, <2>2, <2>3 DEF IsTrade, Sides
  <1>3. /\ net \in Seq(Int) /\ Len(net) = n /\ \A k \in 1..n : net[k] = Net(s[k])
    BY <1>2, NetsAre
  <1> HIDE DEF n, net
  <1>4. /\ g \in [1..n -> Int] /\ c \in [1..n -> Int] /\ sold \in [1..n -> Int]
        /\ \A k \in 1..n : /\ g[k] = s[k].gross /\ c[k] = s[k].cost
                           /\ sold[k] = IF s[k].side = "sell" THEN s[k].gross ELSE 0
    BY <1>1, <1>2 DEF Grosses, Costed, SalesOf
  <1> HIDE DEF g, c, sold
  <1>5. g \in Seq(Int) /\ c \in Seq(Int) /\ sold \in Seq(Int) /\ Len(g) = n /\ Len(c) = n /\ Len(sold) = n
    BY <1>1, <1>4, IsSequence
  <1>6. \A k \in 1..n : net[k] \in Int /\ g[k] \in Int /\ c[k] \in Int
    BY <1>3, <1>4
  <1>7. ng \in [1..n -> Int] /\ \A k \in 1..n : ng[k] = net[k] + g[k]
    BY <1>6
  <1> HIDE DEF ng
  <1>8. all \in [1..n -> Int] /\ \A k \in 1..n : all[k] = ng[k] + c[k]
    BY <1>6, <1>7
  <1> HIDE DEF all
  <1>9. ng \in Seq(Int) /\ all \in Seq(Int) /\ Len(ng) = n /\ Len(all) = n
    BY <1>1, <1>7, <1>8, IsSequence
  <1>10. \A k \in 1..n : all[k] = sold[k] + sold[k]
    <2> SUFFICES ASSUME NEW k \in 1..n PROVE all[k] = sold[k] + sold[k]
      OBVIOUS
    <2>1. all[k] = Net(s[k]) + s[k].gross + s[k].cost
      BY <1>3, <1>4, <1>7, <1>8
    <2>2. CASE s[k].side = "sell"
      BY <1>2, <1>4, <2>1, <2>2
    <2>3. CASE s[k].side # "sell"
      <3>1. all[k] = 0 /\ sold[k] = 0
        BY <1>2, <1>4, <2>1, <2>3
      <3> QED
        BY <3>1
    <2> QED
      BY <2>2, <2>3
  <1>11. SumOf(ng) = SumOf(net) + SumOf(g)
    BY ONLY <1>3, <1>5, <1>7, <1>9, SumOfSums
  <1>12. SumOf(all) = SumOf(ng) + SumOf(c)
    <2>1. /\ ng \in Seq(Int) /\ c \in Seq(Int) /\ all \in Seq(Int) /\ Len(ng) = Len(c) /\ Len(ng) = Len(all)
          /\ \A k \in 1..Len(ng) : all[k] = ng[k] + c[k]
      BY <1>5, <1>8, <1>9
    <2> QED
      BY ONLY <2>1, SumOfSums
  <1>13. SumOf(all) = SumOf(sold) + SumOf(sold)
    BY ONLY <1>5, <1>9, <1>10, SumOfSums
  <1>14. SumOf(net) \in Int /\ SumOf(g) \in Int /\ SumOf(c) \in Int /\ SumOf(sold) \in Int
    BY <1>3, <1>5, SumIsInteger
  <1> QED
    BY <1>11, <1>12, <1>13, <1>14 DEF net, g, c, sold

LEMMA EquityFollows ==
    ASSUME EngineInv, Books!BooksBalance, Traded(ledger), CurveOK, ~Running, curve # <<>>,
           NEW report, report = MetricReport
    PROVE  EquityIsExplained(report)
  <1> DEFINE trades == ledger.executions
             worth == Equity(ledger)
             settled == ledger.cash + ledger.receivables - ledger.payables
             pnl == SumOf(Pnls(trades))
             won == SumOf(WonIn(trades))
             lost == SumOf(LostIn(trades))
             moved == SumOf(Nets(trades))
             gross == SumOf(Grosses(trades))
             cost == SumOf(Costed(trades))
             sold == SumOf(SalesOf(trades))
             net == SumOf(Nets(ledger.actions))
             held == BookCost(ledger)
             earned == Earned
  <1>1. LedgerOK(ledger) /\ IsLog(trades) /\ IsLog(ledger.actions)
    BY DEF EngineInv, LedgerOK
  <1>2. /\ \A k \in 1..Len(trades) : IsTrade(trades[k])
        /\ \A k \in 1..Len(ledger.actions) : ledger.actions[k].payable \in Int
        /\ settled = InitialCash + moved + net
    BY DEF Traded
  <1>3. pnl = won + lost /\ won \in Int /\ lost \in Int
    BY <1>1, <1>2, WonAndLost
  <1>4. /\ moved + gross + cost = 2 * sold
        /\ moved \in Int /\ gross \in Int /\ cost \in Int /\ sold \in Int
    BY <1>1, <1>2, TradesAddUp
  <1>5. net \in Int
    <2>1. /\ IsLog(ledger.actions) /\ \A k \in 1..Len(ledger.actions) : ledger.actions[k].payable \in Int
      BY <1>1, <1>2
    <2> QED
      BY ONLY <2>1, NetsAre
  <1>6. worth \in Int /\ settled \in Int /\ held \in Int /\ earned \in Int /\ InitialCash \in Int
    BY <1>1, EquityIsWhole, LedgerFigures, EarnedIsSum, LedgerConstants
  <1>7. InitialCash + earned = settled + held
    <2>1. /\ InitialCash + earned = ledger.cash + ledger.receivables - ledger.payables + held
      BY DEF Books!BooksBalance
    <2> QED
      BY <2>1
  <1>8. report.ending = worth
    BY DEF MetricReport, CurveOK
  <1>9. report.trading.won = won /\ report.trading.lost = lost
    <2>1. /\ report.trading.won = Trading.won /\ report.trading.lost = Trading.lost
      BY DEF MetricReport
    <2>2. Trading.won = won /\ Trading.lost = lost
      BY DEF Trading, TotalAt, TradeOutcomes, WonIn, LostIn
    <2> QED
      BY <2>1, <2>2
  <1>10. report.costs.gross = gross /\ report.costs.total = cost
    BY DEF MetricReport, Costs, Total, Grosses, Costed
  <1>11. /\ Total(ledger.executions, LAMBDA e : e.pnl) = pnl
         /\ Total(ledger.actions, LAMBDA e : e.receivable - e.payable) = net
         /\ TotalAt(TradeOutcomes, LAMBDA e : e.gross) = sold
    BY DEF Total, Pnls, Pnl, Nets, Net, TotalAt, TradeOutcomes, SalesOf
  <1>12. /\ report.ending - InitialCash
              = report.trading.won + report.trading.lost + (earned - pnl) + (worth - settled) - held
         /\ report.ending - InitialCash
              = 2 * sold - report.costs.gross - report.costs.total + net + (worth - settled)
    <2> HIDE DEF worth, settled, pnl, won, lost, moved, gross, cost, sold, net, held, earned
    <2>1. worth - InitialCash = won + lost + (earned - pnl) + (worth - settled) - held
      BY ONLY <1>3, <1>6, <1>7
    <2>2. worth - InitialCash = 2 * sold - gross - cost + net + (worth - settled)
      BY ONLY <1>2, <1>4, <1>5, <1>6
    <2> QED
      BY <1>8, <1>9, <1>10, <2>1, <2>2
  <1> QED
    BY <1>11, <1>12 DEF EquityIsExplained

\* A report at the end of a run is about that run: the drawdown of one pass is
\* the worst fall between any two points and the longest stretch below one, the
\* ratios of different passes are there together, and trades, actions and
\* holdings explain the change of equity, for every curve and every ledger
\* (metrics.py, PortfolioLedger._apply_event).
THEOREM MetricsAlwaysTrue == Spec => []MetricsAreTrue
  <1>1. Init => Traded(ledger) /\ CurveOK
    <2>1. ASSUME Init PROVE CurveOK
      BY <2>1 DEF Init, CurveOK
    <2> QED
      BY <2>1, TradedAtFirst
  <1>2. EngineInv /\ EngineInv' /\ Traded(ledger) /\ CurveOK /\ [Next]_vars => (Traded(ledger) /\ CurveOK)'
    <2> SUFFICES ASSUME EngineInv, EngineInv', Traded(ledger), CurveOK, [Next]_vars
                 PROVE  Traded(ledger') /\ CurveOK'
      BY DEF Traded, IsTrade, Nets, Net, SumOf
    <2>1. LedgerOK(ledger) /\ LedgerOK(ledger')
      BY DEF EngineInv
    <2>2. CASE UNCHANGED ledger
      BY <2>2, StepCurve
    <2>3. ASSUME NEW e, IsMoney(e), ledger' = Posted(ledger, e) PROVE Traded(ledger')
      BY <2>1, <2>3, TradedGrows
    <2> QED
      BY <2>2, <2>3, StepMoney, StepCurve
  <1>3. EngineInv /\ Books!BooksBalance /\ Traded(ledger) /\ CurveOK => MetricsAreTrue
    <2> SUFFICES ASSUME EngineInv, Books!BooksBalance, Traded(ledger), CurveOK, ~Running, MayReport
                 PROVE  /\ DrawdownIsWorst(MetricReport) /\ RatiosAgree(MetricReport)
                        /\ EquityIsExplained(MetricReport)
      BY DEF MetricsAreTrue
    <2>1. /\ Len(curve) >= 2 /\ curve \in Seq(Int) /\ curve # <<>> /\ \A n \in DOMAIN curve : curve[n] > 0
      BY DEF MayReport, CurveOK
    <2>2. IsCurve(curve)
      <3>1. curve \in [1..Len(curve) -> Positive] /\ Len(curve) \in Nat
        BY <2>1 DEF Positive
      <3> QED
        BY <2>1, <3>1, IsSequence DEF IsCurve
    <2> QED
      BY <2>1, <2>2, DrawdownFollows, RatiosFollow, EquityFollows
  <1> QED
    BY <1>1, <1>2, <1>3, EngineInvHolds, BooksAlwaysBalance, PTL DEF Spec

=============================================================================
