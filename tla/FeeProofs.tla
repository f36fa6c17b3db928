----------------------------- MODULE FeeProofs -----------------------------
(***************************************************************************)
(* The arithmetic of the fee engine for every amount and every rate, and   *)
(* what it means for every settlement of a ledger.                         *)
(***************************************************************************)
EXTENDS FeeLedger, FiniteSetTheorems, WellFoundedInduction, TLAPS

\* A portion is a whole number of base units, at most the amount, and falls
\* short of the exact rate by less than one unit.
THEOREM PortionBounds ==
  ASSUME NEW x \in Nat, NEW b \in Bps
  PROVE  /\ Portion(x, b) \in Nat
         /\ Portion(x, b) <= x
         /\ BpsDenominator * Portion(x, b) <= x * b
         /\ x * b < BpsDenominator * Portion(x, b) + BpsDenominator
<1> DEFINE p == x * b
<1>1. p \in Nat
  BY DEF Bps, BpsDenominator
<1>2. p <= x * BpsDenominator
  BY DEF Bps, BpsDenominator
<1>3. p \div 10000 \in Nat /\ 10000 * (p \div 10000) <= p /\ p < 10000 * (p \div 10000) + 10000
  <2> HIDE DEF p
  <2> QED
    BY <1>1
<1>4. p \div 10000 <= x
  <2> HIDE DEF p
  <2> QED
    BY <1>1, <1>2, <1>3 DEF BpsDenominator
<1> QED
  BY <1>3, <1>4 DEF Portion, BpsDenominator

\* Splitting a payment in two never raises its fee and lowers it by at most one
\* base unit.
THEOREM SplitBounds ==
  ASSUME NEW x \in Nat, NEW y \in Nat, NEW b \in Bps
  PROVE  /\ Portion(x, b) + Portion(y, b) <= Portion(x + y, b)
         /\ Portion(x + y, b) <= Portion(x, b) + Portion(y, b) + 1
<1> DEFINE p == x * b
           q == y * b
           r == (x + y) * b
<1>1. p \in Nat /\ q \in Nat /\ r = p + q
  BY DEF Bps, BpsDenominator
<1>2. /\ p \div 10000 + q \div 10000 <= r \div 10000
      /\ r \div 10000 <= p \div 10000 + q \div 10000 + 1
  <2> HIDE DEF p, q, r
  <2> QED
    BY <1>1
<1> QED
  BY <1>2 DEF Portion, BpsDenominator

\* A set of naturals has a least element.
LEMMA LeastNatural ==
  ASSUME NEW T \in SUBSET Nat, T # {}
  PROVE  \E n \in T : \A m \in T : n <= m
<1>1. PICK n \in T : \A m \in T : ~ (<<m, n>> \in OpToRel(<, Nat))
  BY NatLessThanWellFounded, WFMin
<1>2. \A m, k \in Nat : m < k => <<m, k>> \in OpToRel(<, Nat)
  BY DEF OpToRel
<1>3. \A m \in T : ~ (m < n)
  BY <1>1, <1>2, Zenon
<1> QED
  BY <1>3

\* The rate is that of a live premium tier of the seller, or the platform's if
\* none is live.
LEMMA RateOfTier ==
  ASSUME NEW f \in Config, NEW s, NEW t
  PROVE  /\ ResolveFeeBps(f, s, t) \in Bps
         /\ \/ /\ ResolveFeeBps(f, s, t) = f.platformFeeBps
               /\ \A k \in DOMAIN f.premiumTiers : ~TierLive(f.premiumTiers[k], s, t)
            \/ \E k \in DOMAIN f.premiumTiers :
                 /\ TierLive(f.premiumTiers[k], s, t)
                 /\ ResolveFeeBps(f, s, t) = f.premiumTiers[k].feeBps
<1> DEFINE tiers == f.premiumTiers
           live == {i \in DOMAIN tiers : TierLive(tiers[i], s, t)}
<1>1. f.platformFeeBps \in Bps /\ tiers \in Seq(PremiumTier)
  BY DEF Config
<1>2. live \subseteq Nat
  BY <1>1
<1>3. ASSUME live # {} PROVE \E i \in live : \A j \in live : i <= j
  <2> HIDE DEF live
  <2> QED
    BY <1>2, <1>3, LeastNatural
<1>4. ASSUME NEW i \in DOMAIN tiers PROVE tiers[i].feeBps \in Bps
  <2> HIDE DEF tiers
  <2>1. tiers[i] \in PremiumTier
    BY <1>1
  <2> QED
    BY <2>1 DEF PremiumTier
<1>5. CASE live = {}
  BY <1>1, <1>5 DEF ResolveFeeBps
<1>6. CASE live # {}
  <2> DEFINE first == CHOOSE i \in live : \A j \in live : i <= j
  <2>1. first \in live
    BY <1>3, <1>6
  <2>2. first \in DOMAIN tiers /\ TierLive(tiers[first], s, t)
    BY <2>1
  <2>3. ResolveFeeBps(f, s, t) = tiers[first].feeBps
    BY <1>6 DEF ResolveFeeBps
  <2> QED
    BY <1>4, <2>2, <2>3
<1> QED
  BY <1>5, <1>6

\* What one breakdown guarantees.
Sound(f) ==
  /\ f \in Breakdown
  /\ f.developerShare <= f.platformFee
  /\ f.platformFee <= f.grossAmount
  /\ f.platformFee + f.netToSeller = f.grossAmount
  /\ BpsDenominator * f.platformFee <= f.grossAmount * f.effectiveFeeBps
  /\ f.grossAmount * f.effectiveFeeBps < BpsDenominator * f.platformFee + BpsDenominator

\* compute conserves the payment and never overcharges: for every
\* configuration, amount, seller, referral code, volume and time.
THEOREM ComputeSound ==
  ASSUME NEW f \in Config, NEW g \in Nat, NEW s, NEW c \in Codes \cup {NoCode},
         NEW v, NEW t
  PROVE  Sound(Compute(f, g, s, c, v, t))
<1> DEFINE free == FreeTierApplied(f, v)
           rate == IF free THEN 0 ELSE ResolveFeeBps(f, s, t)
           fee == PlatformFee(f, g, s, v, t)
           share == DeveloperShare(f, g, fee, c)
<1>1. free \in BOOLEAN
  BY DEF FreeTierApplied
<1>2. rate \in Bps
  <2>1. 0 \in Bps
    BY DEF Bps, BpsDenominator
  <2>2. ResolveFeeBps(f, s, t) \in Bps
    BY RateOfTier
  <2> QED
    BY <2>1, <2>2
<1>3. /\ fee \in Nat /\ fee <= g
      /\ BpsDenominator * fee <= g * rate
      /\ g * rate < BpsDenominator * fee + BpsDenominator
  <2>1. CASE free
    BY <2>1 DEF PlatformFee, BpsDenominator
  <2>2. CASE ~free
    <3>1. fee = Portion(g, rate)
      BY <2>2 DEF PlatformFee
    <3> QED
      BY <1>2, <3>1, PortionBounds
  <2> QED
    BY <2>1, <2>2
<1>4. share \in Nat /\ share <= fee
  <2>1. f.developerShareBps \in Bps
    BY DEF Config
  <2> HIDE DEF fee
  <2>2. Portion(fee, f.developerShareBps) \in Nat /\ Portion(fee, f.developerShareBps) <= fee
    BY <1>3, <2>1, PortionBounds
  <2> QED
    BY <1>3, <2>2 DEF DeveloperShare
<1> DEFINE r == Compute(f, g, s, c, v, t)
<1>5. r = [grossAmount |-> g, platformFee |-> fee, developerShare |-> share,
           netToSeller |-> g - fee, effectiveFeeBps |-> rate,
           freeTierApplied |-> free, referralCode |-> c]
  BY DEF Compute
<1> HIDE DEF free, rate, fee, share, r
<1>6. g - fee \in Nat /\ fee + (g - fee) = g
  BY <1>3
<1>7. r \in Breakdown
  BY <1>1, <1>2, <1>3, <1>4, <1>5, <1>6 DEF Breakdown
<1>8. Sound(r)
  BY <1>3, <1>4, <1>5, <1>6, <1>7 DEF Sound
<1> QED
  BY <1>8 DEF r

-----------------------------------------------------------------------------
(* Sums of functions on finite sets. *)

\* The element the fold takes next.
First(s) == CHOOSE x \in s : TRUE

\* h adds up f over the subsets of S.
Adds(f, S, h) ==
  h = [s \in SUBSET S |-> IF s = {} THEN 0 ELSE f[First(s)] + h[s \ {First(s)}]]

\* The library's fold, unfolded.
LEMMA SumUnfolds ==
  ASSUME NEW f, NEW S
  PROVE  SumFunctionOnSet(f, S) = (CHOOSE h : Adds(f, S, h))[S]
BY DEF SumFunctionOnSet, FoldFunctionOnSet, MapThenFoldSet, Adds, First

\* A set of subsets of a finite set has one that loses membership with each
\* element: what is left of an induction over finite sets without its formula.
LEMMA MinimalSubset ==
  ASSUME NEW S, IsFiniteSet(S), NEW T \in SUBSET SUBSET S, T # {}
  PROVE  \E s \in T : \A x \in s : s \ {x} \notin T
<1>1. IsWellFoundedOn(StrictSubsetOrdering(S), SUBSET S)
  BY FS_StrictSubsetOrderingWellFounded, FS_FiniteSubsetsOfFinite
<1>2. PICK s \in T : \A u \in T : ~ (<<u, s>> \in StrictSubsetOrdering(S))
  BY <1>1, WFMin
<1>3. ASSUME NEW x \in s, s \ {x} \in T PROVE FALSE
  <2>1. <<s \ {x}, s>> \in StrictSubsetOrdering(S)
    BY DEF StrictSubsetOrdering
  <2> QED
    BY <1>2, <1>3, <2>1
<1> QED
  BY <1>3

\* The recursion of the fold has a solution.
LEMMA AddsSolvable ==
  ASSUME NEW S, IsFiniteSet(S), NEW f, \A x \in S : f[x] \in Nat
  PROVE  \E h : Adds(f, S, h)
<1> DEFINE Upto(n) == {s \in SUBSET S : Cardinality(s) <= n}
           Value(h, s) == IF s = {} THEN 0 ELSE f[First(s)] + h[s \ {First(s)}]
           Solved(n) == \E h \in [Upto(n) -> Nat] : \A s \in Upto(n) : h[s] = Value(h, s)
           Bad == {n \in Nat : ~Solved(n)}
<1>1. \A s \in SUBSET S : /\ IsFiniteSet(s) /\ Cardinality(s) \in Nat
                          /\ s # {} => First(s) \in s
  BY FS_Subset, FS_CardinalityType DEF First
<1>2. \A s \in SUBSET S : s # {} =>
        /\ s \ {First(s)} \in SUBSET S
        /\ Cardinality(s \ {First(s)}) = Cardinality(s) - 1
  BY <1>1, FS_RemoveElement
<1>3. Solved(0)
  <2> DEFINE h == [s \in Upto(0) |-> 0]
  <2>1. \A s \in Upto(0) : s = {}
    BY <1>1, FS_EmptySet
  <2>2. h \in [Upto(0) -> Nat] /\ \A s \in Upto(0) : h[s] = Value(h, s)
    BY <2>1
  <2> QED
    BY <2>2
<1>4. ASSUME NEW n \in Nat, Solved(n) PROVE Solved(n + 1)
  <2>1. PICK h \in [Upto(n) -> Nat] : \A s \in Upto(n) : h[s] = Value(h, s)
    BY <1>4
  <2> DEFINE g == [s \in Upto(n + 1) |-> Value(h, s)]
  <2>2. \A s \in Upto(n + 1) : s # {} => s \ {First(s)} \in Upto(n)
    BY <1>1, <1>2
  <2>3. g \in [Upto(n + 1) -> Nat]
    <3>1. \A s \in Upto(n + 1) : s # {} => f[First(s)] \in Nat /\ h[s \ {First(s)}] \in Nat
      BY <1>1, <2>1, <2>2
    <3>2. \A s \in Upto(n + 1) : Value(h, s) \in Nat
      BY <3>1
    <3> QED
      BY <3>2
  <2>4. \A s \in Upto(n) : s \in Upto(n + 1) /\ g[s] = h[s]
    <3>1. \A s \in Upto(n) : s \in Upto(n + 1)
      BY <1>1
    <3> QED
      BY <2>1, <3>1
  <2>5. \A s \in Upto(n + 1) : g[s] = Value(g, s)
    BY <2>2, <2>4
  <2> QED
    BY <2>3, <2>5
<1>5. Bad = {}
  <2> SUFFICES ASSUME Bad # {} PROVE FALSE
    OBVIOUS
  <2>1. PICK n \in Bad : \A m \in Bad : n <= m
    BY LeastNatural
  <2> HIDE DEF Solved
  <2>2. n # 0 /\ n \in Nat
    BY <1>3
  <2>3. n - 1 \in Nat /\ n - 1 \notin Bad /\ (n - 1) + 1 = n
    BY <2>1, <2>2
  <2> QED
    BY <1>4, <2>3
<1>6. Solved(Cardinality(S))
  <2> HIDE DEF Solved
  <2> QED
    BY <1>1, <1>5
<1>7. Upto(Cardinality(S)) = SUBSET S
  BY <1>1, FS_Subset
<1>8. PICK h \in [SUBSET S -> Nat] : \A s \in SUBSET S : h[s] = Value(h, s)
  BY <1>6, <1>7
<1>9. Adds(f, S, h)
  BY <1>8 DEF Adds
<1> QED
  BY <1>9

\* h holds the sum of f over every subset of S.
SumsOf(f, S, h) ==
  /\ h \in [SUBSET S -> Nat]
  /\ h[{}] = 0
  /\ \A s \in SUBSET S : \A x \in s : h[s] = f[x] + h[s \ {x}]

\* The sums over the subsets of a finite set, and how one element adds to them.
LEMMA Sums ==
  ASSUME NEW S, IsFiniteSet(S), NEW f, \A x \in S : f[x] \in Nat
  PROVE  \E h : SumsOf(f, S, h) /\ h[S] = SumFunctionOnSet(f, S)
<1> DEFINE h == CHOOSE g : Adds(f, S, g)
<1>1. Adds(f, S, h) /\ h[S] = SumFunctionOnSet(f, S)
  BY AddsSolvable, SumUnfolds
<1> HIDE DEF h
<1>2. \A s \in SUBSET S : h[s] = IF s = {} THEN 0 ELSE f[First(s)] + h[s \ {First(s)}]
  BY <1>1 DEF Adds
<1>3. \A s \in SUBSET S : s # {} => First(s) \in s
  BY DEF First
<1>4. \A s \in SUBSET S : h[s] \in Nat
  <2> DEFINE Bad == {s \in SUBSET S : h[s] \notin Nat}
  <2> SUFFICES ASSUME Bad # {} PROVE FALSE
    OBVIOUS
  <2>1. PICK s \in Bad : \A x \in s : s \ {x} \notin Bad
    BY MinimalSubset
  <2>2. s # {}
    <3>1. h[{}] = 0
      BY <1>2
    <3> QED
      BY <3>1
  <2>3. s \ {First(s)} \in SUBSET S /\ h[s \ {First(s)}] \in Nat /\ f[First(s)] \in Nat
    BY <1>3, <2>1, <2>2
  <2> QED
    BY <1>2, <2>2, <2>3
<1>5. \A s \in SUBSET S : \A x \in s : h[s] = f[x] + h[s \ {x}]
  <2> DEFINE Bad == {s \in SUBSET S : ~ \A x \in s : h[s] = f[x] + h[s \ {x}]}
  <2> SUFFICES ASSUME Bad # {} PROVE FALSE
    OBVIOUS
  <2>1. PICK s \in Bad : \A x \in s : s \ {x} \notin Bad
    BY MinimalSubset
  <2>2. PICK x \in s : h[s] # f[x] + h[s \ {x}]
    OBVIOUS
  <2> DEFINE y == First(s)
  <2>3. y \in s /\ h[s] = f[y] + h[s \ {y}]
    BY <1>2, <1>3
  <2> HIDE DEF y
  <2>4. x # y
    BY <2>2, <2>3
  <2>5. s \ {x} \in SUBSET S /\ s \ {y} \in SUBSET S /\ (s \ {x}) \ {y} = (s \ {y}) \ {x}
    OBVIOUS
  <2>6. h[s \ {y}] = f[x] + h[(s \ {y}) \ {x}]
    BY <2>1, <2>3, <2>4, <2>5
  <2>7. h[s \ {x}] = f[y] + h[(s \ {x}) \ {y}]
    BY <2>1, <2>3, <2>4, <2>5
  <2>8. h[(s \ {x}) \ {y}] \in Nat /\ f[x] \in Nat /\ f[y] \in Nat
    BY <1>4, <2>3
  <2>9. h[(s \ {y}) \ {x}] = h[(s \ {x}) \ {y}]
    BY <2>5
  <2>10. \A a, b, c \in Nat : a + (b + c) = b + (a + c)
    OBVIOUS
  <2>11. h[s] = f[x] + h[s \ {x}]
    BY <2>3, <2>6, <2>7, <2>8, <2>9, <2>10
  <2> QED
    BY <2>2, <2>11
<1>6. h \in [SUBSET S -> Nat] /\ h[{}] = 0
  <2>1. h = [s \in SUBSET S |-> h[s]]
    BY <1>1 DEF Adds
  <2> QED
    BY <1>2, <1>4, <2>1
<1> QED
  BY <1>1, <1>5, <1>6 DEF SumsOf

\* A sum depends on the function's values on the set only.
LEMMA SumAgrees ==
  ASSUME NEW S, IsFiniteSet(S), NEW U \in SUBSET S, NEW f, NEW g, NEW h,
         SumsOf(f, S, h), \A x \in S : f[x] \in Nat, \A x \in U : g[x] = f[x]
  PROVE  SumFunctionOnSet(g, U) = h[U]
<1>1. IsFiniteSet(U) /\ \A x \in U : g[x] \in Nat
  BY FS_Subset
<1>2. PICK k : SumsOf(g, U, k) /\ k[U] = SumFunctionOnSet(g, U)
  BY <1>1, Sums
<1> DEFINE Bad == {s \in SUBSET U : k[s] # h[s]}
<1>3. Bad = {}
  <2> SUFFICES ASSUME Bad # {} PROVE FALSE
    OBVIOUS
  <2>1. PICK s \in Bad : \A x \in s : s \ {x} \notin Bad
    BY <1>1, MinimalSubset
  <2>2. PICK x \in s : TRUE
    BY <1>2 DEF SumsOf
  <2>3. k[s \ {x}] = h[s \ {x}]
    BY <2>1
  <2>4. k[s] = g[x] + k[s \ {x}] /\ h[s] = f[x] + h[s \ {x}] /\ g[x] = f[x]
    BY <1>2 DEF SumsOf
  <2> QED
    BY <2>3, <2>4
<1> QED
  BY <1>2, <1>3

\* What the ledger needs of a sum.
LEMMA SumFacts ==
  ASSUME NEW S, IsFiniteSet(S), NEW f, \A x \in S : f[x] \in Nat
  PROVE  /\ SumFunctionOnSet(f, S) \in Nat
         /\ S = {} => SumFunctionOnSet(f, S) = 0
         /\ \A x \in S : SumFunctionOnSet(f, S) = f[x] + SumFunctionOnSet(f, S \ {x})
         /\ \A g : (\A x \in S : g[x] = f[x]) => SumFunctionOnSet(g, S) = SumFunctionOnSet(f, S)
<1>1. PICK h : SumsOf(f, S, h) /\ h[S] = SumFunctionOnSet(f, S)
  BY Sums
<1>2. ASSUME NEW U \in SUBSET S, NEW g, \A x \in U : g[x] = f[x]
      PROVE  SumFunctionOnSet(g, U) = h[U]
  BY <1>1, <1>2, SumAgrees
<1>3. \A x \in S : SumFunctionOnSet(f, S \ {x}) = h[S \ {x}]
  BY <1>2
<1>4. \A g : (\A x \in S : g[x] = f[x]) => SumFunctionOnSet(g, S) = h[S]
  BY <1>2
<1>5. h[S] \in Nat /\ (S = {} => h[S] = 0)
  BY <1>1 DEF SumsOf
<1>6. \A x \in S : h[S] = f[x] + h[S \ {x}]
  BY <1>1 DEF SumsOf
<1>7. \A x \in S : SumFunctionOnSet(f, S) = f[x] + SumFunctionOnSet(f, S \ {x})
  BY <1>1, <1>3, <1>6
<1> QED
  BY <1>1, <1>4, <1>5, <1>7

\* A sum of nothing but zeros is zero.
LEMMA SumOfZeros ==
  ASSUME NEW S, IsFiniteSet(S), NEW f, \A x \in S : f[x] = 0
  PROVE  SumFunctionOnSet(f, S) = 0
<1>1. PICK h : SumsOf(f, S, h) /\ h[S] = SumFunctionOnSet(f, S)
  BY Sums
<1> DEFINE Bad == {s \in SUBSET S : h[s] # 0}
<1>2. Bad = {}
  <2> SUFFICES ASSUME Bad # {} PROVE FALSE
    OBVIOUS
  <2>1. PICK s \in Bad : \A x \in s : s \ {x} \notin Bad
    BY MinimalSubset
  <2>2. PICK x \in s : TRUE
    BY <1>1 DEF SumsOf
  <2>3. h[s] = f[x] + h[s \ {x}] /\ f[x] = 0
    BY <1>1 DEF SumsOf
  <2>4. h[s \ {x}] = 0
    BY <2>1
  <2> QED
    BY <2>3, <2>4
<1> QED
  BY <1>1, <1>2

\* A sum of parts that fall short of their exact values by less than a unit
\* each falls short by less than as many units.
LEMMA SumOfRounded ==
  ASSUME NEW S, IsFiniteSet(S), NEW f, NEW g,
         \A x \in S : /\ f[x] \in Nat /\ g[x] \in Nat
                      /\ BpsDenominator * f[x] <= g[x]
                      /\ g[x] <= BpsDenominator * f[x] + (BpsDenominator - 1)
  PROVE  /\ BpsDenominator * SumFunctionOnSet(f, S) <= SumFunctionOnSet(g, S)
         /\ SumFunctionOnSet(g, S)
              <= BpsDenominator * SumFunctionOnSet(f, S) + (BpsDenominator - 1) * Cardinality(S)
<1>1. PICK h : SumsOf(f, S, h) /\ h[S] = SumFunctionOnSet(f, S)
  BY Sums
<1>2. PICK k : SumsOf(g, S, k) /\ k[S] = SumFunctionOnSet(g, S)
  BY Sums
<1> DEFINE Rounded(s) == /\ 10000 * h[s] <= k[s]
                         /\ k[s] <= 10000 * h[s] + 9999 * Cardinality(s)
           Bad == {s \in SUBSET S : ~Rounded(s)}
<1>3. \A s \in SUBSET S : h[s] \in Nat /\ k[s] \in Nat
  BY <1>1, <1>2 DEF SumsOf
<1>4. ASSUME NEW s \in SUBSET S, \A x \in s : Rounded(s \ {x})
      PROVE  Rounded(s)
  <2>1. CASE s = {}
    <3>1. h[s] = 0 /\ k[s] = 0 /\ Cardinality(s) = 0
      BY <1>1, <1>2, <2>1, FS_EmptySet DEF SumsOf
    <3> QED
      BY <3>1
  <2>2. CASE s # {}
    <3>1. PICK x \in s : TRUE
      BY <2>2
    <3> DEFINE u == s \ {x}
    <3>2. IsFiniteSet(s) /\ u \in SUBSET S /\ x \in S
      BY FS_Subset
    <3>3. Cardinality(s) \in Nat /\ Cardinality(u) = Cardinality(s) - 1 /\ Cardinality(u) \in Nat
      BY <3>2, FS_RemoveElement, FS_Subset, FS_CardinalityType
    <3>4. h[s] = f[x] + h[u] /\ k[s] = g[x] + k[u]
      BY <1>1, <1>2 DEF SumsOf
    <3>5. /\ f[x] \in Nat /\ g[x] \in Nat
          /\ 10000 * f[x] <= g[x] /\ g[x] <= 10000 * f[x] + 9999
      BY <3>2 DEF BpsDenominator
    <3>6. Rounded(u)
      BY <1>4
    <3>7. h[u] \in Nat /\ k[u] \in Nat
      BY <1>3, <3>2
    <3> HIDE DEF u
    <3> QED
      BY <3>3, <3>4, <3>5, <3>6, <3>7
  <2> QED
    BY <2>1, <2>2
<1> HIDE DEF Rounded
<1>5. Bad = {}
  <2> SUFFICES ASSUME Bad # {} PROVE FALSE
    OBVIOUS
  <2>1. PICK s \in Bad : \A x \in s : s \ {x} \notin Bad
    BY MinimalSubset
  <2>2. \A x \in s : Rounded(s \ {x})
    BY <2>1
  <2> QED
    BY <1>4, <2>2
<1>6. Rounded(S)
  BY <1>5
<1> QED
  BY <1>1, <1>2, <1>6 DEF BpsDenominator, Rounded

\* The sum of sums.
LEMMA SumOfSums ==
  ASSUME NEW S, IsFiniteSet(S), NEW f, NEW g, NEW e,
         \A x \in S : f[x] \in Nat /\ g[x] \in Nat /\ e[x] \in Nat /\ f[x] + g[x] = e[x]
  PROVE  SumFunctionOnSet(f, S) + SumFunctionOnSet(g, S) = SumFunctionOnSet(e, S)
<1>1. PICK h : SumsOf(f, S, h) /\ h[S] = SumFunctionOnSet(f, S)
  BY Sums
<1>2. PICK k : SumsOf(g, S, k) /\ k[S] = SumFunctionOnSet(g, S)
  BY Sums
<1>3. PICK m : SumsOf(e, S, m) /\ m[S] = SumFunctionOnSet(e, S)
  BY Sums
<1> DEFINE Bad == {s \in SUBSET S : h[s] + k[s] # m[s]}
<1>4. Bad = {}
  <2> SUFFICES ASSUME Bad # {} PROVE FALSE
    OBVIOUS
  <2>1. PICK s \in Bad : \A x \in s : s \ {x} \notin Bad
    BY MinimalSubset
  <2>2. PICK x \in s : TRUE
    <3>1. h[{}] + k[{}] = m[{}]
      BY <1>1, <1>2, <1>3 DEF SumsOf
    <3> QED
      BY <3>1
  <2> DEFINE u == s \ {x}
  <2>3. u \in SUBSET S /\ x \in S
    OBVIOUS
  <2>4. h[s] = f[x] + h[u] /\ k[s] = g[x] + k[u] /\ m[s] = e[x] + m[u]
    BY <1>1, <1>2, <1>3 DEF SumsOf
  <2>5. h[u] \in Nat /\ k[u] \in Nat /\ m[u] \in Nat
    BY <1>1, <1>2, <1>3, <2>3 DEF SumsOf
  <2>6. h[u] + k[u] = m[u]
    BY <2>1, <2>3
  <2>7. f[x] \in Nat /\ g[x] \in Nat /\ e[x] \in Nat /\ f[x] + g[x] = e[x]
    BY <2>3
  <2> HIDE DEF u
  <2>8. h[s] + k[s] = m[s]
    BY <2>4, <2>5, <2>6, <2>7
  <2> QED
    BY <2>8
<1> QED
  BY <1>1, <1>2, <1>3, <1>4

-----------------------------------------------------------------------------
(* Sums over the ledger. *)

Fields == {"grossAmount", "platformFee", "developerShare"}

\* Total, and the rows of a code, for any ledger r.
TotalOf(r, I, field) == SumFunctionOnSet([i \in DOMAIN r |-> r[i].fees[field]], I)
RowsWith(r, c) == {i \in DOMAIN r : r[i].fees.referralCode = c}
SharesOf(r) == [c \in Codes |-> TotalOf(r, RowsWith(r, c), "developerShare")]

\* A settlement adds its amounts to the sums it belongs to and changes no other.
LEMMA TotalAppend ==
  ASSUME NEW r \in Seq(Settled), NEW row \in Settled, NEW field \in Fields, NEW I \in SUBSET DOMAIN r
  PROVE  /\ TotalOf(r, I, field) \in Nat
         /\ TotalOf(Append(r, row), I, field) = TotalOf(r, I, field)
         /\ TotalOf(Append(r, row), I \cup {Len(r) + 1}, field)
              = row.fees[field] + TotalOf(r, I, field)
<1> DEFINE q == Append(r, row)
           n == Len(r) + 1
           f == [i \in DOMAIN r |-> r[i].fees[field]]
           g == [i \in DOMAIN q |-> q[i].fees[field]]
<1>1. /\ DOMAIN r = 1..Len(r) /\ DOMAIN q = 1..n /\ Len(r) \in Nat
      /\ q[n] = row /\ \A i \in DOMAIN r : q[i] = r[i]
  OBVIOUS
<1>2. ASSUME NEW x \in Settled PROVE x.fees[field] \in Nat
  BY DEF Settled, Breakdown, Fields
<1>3. \A i \in DOMAIN q : q[i] \in Settled /\ g[i] \in Nat
  BY <1>1, <1>2
<1>4. \A i \in DOMAIN r : f[i] = g[i] /\ f[i] \in Nat
  BY <1>1, <1>3
<1>5. g[n] = row.fees[field]
  BY <1>1
<1>6. IsFiniteSet(I) /\ IsFiniteSet(I \cup {n})
  <2>1. IsFiniteSet(1..Len(r))
    BY <1>1, FS_Interval
  <2>2. IsFiniteSet(I)
    BY <1>1, <2>1, FS_Subset
  <2> QED
    BY <2>2, FS_AddElement
<1> HIDE DEF f, g
<1>7. SumFunctionOnSet(f, I) \in Nat
  BY <1>4, <1>6, SumFacts
<1>8. SumFunctionOnSet(g, I) = SumFunctionOnSet(f, I)
  BY <1>4, <1>6, SumFacts
<1>9. SumFunctionOnSet(g, I \cup {n}) = g[n] + SumFunctionOnSet(g, I)
  <2> DEFINE J == I \cup {n}
  <2>1. \A i \in J : g[i] \in Nat
    BY <1>1, <1>3
  <2>2. n \in J /\ J \ {n} = I
    BY <1>1
  <2>3. IsFiniteSet(J)
    BY <1>6
  <2> HIDE DEF J
  <2>4. \A i \in J : SumFunctionOnSet(g, J) = g[i] + SumFunctionOnSet(g, J \ {i})
    BY <2>1, <2>3, SumFacts
  <2>5. SumFunctionOnSet(g, J) = g[n] + SumFunctionOnSet(g, I)
    BY <2>2, <2>4
  <2> QED
    BY <2>5 DEF J
<1> QED
  BY <1>5, <1>7, <1>8, <1>9 DEF TotalOf, f, g

\* The rows of a code when a settlement is added.
LEMMA RowsAppend ==
  ASSUME NEW r \in Seq(Settled), NEW row \in Settled, NEW c
  PROVE  /\ RowsWith(r, c) \in SUBSET DOMAIN r
         /\ DOMAIN Append(r, row) = DOMAIN r \cup {Len(r) + 1}
         /\ RowsWith(Append(r, row), c) = IF row.fees.referralCode = c
                                          THEN RowsWith(r, c) \cup {Len(r) + 1}
                                          ELSE RowsWith(r, c)
<1> DEFINE q == Append(r, row)
<1>1. /\ DOMAIN r = 1..Len(r) /\ DOMAIN q = 1..(Len(r) + 1) /\ Len(r) \in Nat
      /\ q[Len(r) + 1] = row /\ \A i \in DOMAIN r : q[i] = r[i]
  OBVIOUS
<1> QED
  BY <1>1 DEF RowsWith

\* The shares of the codes add up to the shares of the rows.
ShareSum(r) == SumFunction(SharesOf(r)) = TotalOf(r, DOMAIN r, "developerShare")

\* No code is credited with more than its rate of the fees it brought.
ShareRate(r, bps) ==
  \A c \in Codes : BpsDenominator * TotalOf(r, RowsWith(r, c), "developerShare")
                     <= bps * TotalOf(r, RowsWith(r, c), "platformFee")

\* A settlement adds its share to its code's credit, or has none without a code.
LEMMA ShareSumKept ==
  ASSUME NEW r \in Seq(Settled), NEW row \in Settled, ShareSum(r),
         row.fees.referralCode = NoCode => row.fees.developerShare = 0
  PROVE  ShareSum(Append(r, row))
<1> DEFINE q == Append(r, row)
           d == row.fees.developerShare
           x == SharesOf(r)
           y == SharesOf(q)
           c == row.fees.referralCode
<1>1. d \in Nat /\ c \in Codes \cup {NoCode} /\ "developerShare" \in Fields
  BY DEF Settled, Breakdown, Fields
<1>2. TotalOf(q, DOMAIN q, "developerShare") = d + TotalOf(r, DOMAIN r, "developerShare")
  BY <1>1, RowsAppend, TotalAppend
<1>3. DOMAIN x = Codes /\ DOMAIN y = Codes
  BY DEF SharesOf
<1>4. \A e \in Codes : x[e] \in Nat /\ y[e] = IF e = c THEN d + x[e] ELSE x[e]
  <2> SUFFICES ASSUME NEW e \in Codes
               PROVE  x[e] \in Nat /\ y[e] = IF e = c THEN d + x[e] ELSE x[e]
    OBVIOUS
  <2>1. /\ x[e] = TotalOf(r, RowsWith(r, e), "developerShare")
        /\ y[e] = TotalOf(q, RowsWith(q, e), "developerShare")
    BY DEF SharesOf
  <2>2. RowsWith(r, e) \in SUBSET DOMAIN r
    BY RowsAppend
  <2>3. /\ TotalOf(r, RowsWith(r, e), "developerShare") \in Nat
        /\ TotalOf(q, RowsWith(r, e), "developerShare") = TotalOf(r, RowsWith(r, e), "developerShare")
        /\ TotalOf(q, RowsWith(r, e) \cup {Len(r) + 1}, "developerShare")
             = row.fees["developerShare"] + TotalOf(r, RowsWith(r, e), "developerShare")
    <3> HIDE DEF x, y, c
    <3> QED
      BY <1>1, <2>2, TotalAppend
  <2>4. RowsWith(q, e) = IF e = c THEN RowsWith(r, e) \cup {Len(r) + 1} ELSE RowsWith(r, e)
    BY RowsAppend
  <2> QED
    BY <2>1, <2>3, <2>4
<1> HIDE DEF x, y
<1>5. \A e \in Codes : y[e] \in Nat
  BY <1>1, <1>4
<1>6. SumFunction(y) = SumFunctionOnSet(y, Codes) /\ SumFunction(x) = SumFunctionOnSet(x, Codes)
  BY <1>3 DEF SumFunction
<1>7. SumFunctionOnSet(y, Codes) = d + SumFunctionOnSet(x, Codes)
  <2>1. CASE c = NoCode
    <3>1. \A e \in Codes : y[e] = x[e]
      BY <1>4, <2>1, NoCodeAssumption
    <3>2. SumFunctionOnSet(x, Codes) \in Nat
      BY <1>4, CodesAssumption, SumFacts
    <3>3. SumFunctionOnSet(y, Codes) = SumFunctionOnSet(x, Codes)
      BY <1>4, <3>1, CodesAssumption, SumFacts
    <3> QED
      BY <2>1, <3>2, <3>3
  <2>2. CASE c \in Codes
    <3> DEFINE others == Codes \ {c}
    <3>1. IsFiniteSet(others) /\ \A e \in others : x[e] \in Nat /\ y[e] = x[e]
      BY <1>4, CodesAssumption, FS_Subset
    <3>2. SumFunctionOnSet(y, Codes) = y[c] + SumFunctionOnSet(y, others)
      BY <1>5, <2>2, CodesAssumption, SumFacts
    <3>3. SumFunctionOnSet(x, Codes) = x[c] + SumFunctionOnSet(x, others)
      BY <1>4, <2>2, CodesAssumption, SumFacts
    <3> HIDE DEF others
    <3>4. SumFunctionOnSet(y, others) = SumFunctionOnSet(x, others)
      BY <3>1, SumFacts
    <3>5. SumFunctionOnSet(x, others) \in Nat /\ x[c] \in Nat /\ y[c] = d + x[c]
      BY <1>4, <2>2, <3>1, SumFacts
    <3> QED
      BY <1>1, <3>2, <3>3, <3>4, <3>5
  <2> QED
    BY <1>1, <2>1, <2>2
<1> QED
  BY <1>2, <1>6, <1>7 DEF ShareSum, x, y

\* Each row's share is at most the rate of its fee, and so are their sums.
LEMMA ShareRateKept ==
  ASSUME NEW r \in Seq(Settled), NEW row \in Settled, NEW bps \in Bps, ShareRate(r, bps),
         BpsDenominator * row.fees.developerShare <= bps * row.fees.platformFee
  PROVE  ShareRate(Append(r, row), bps)
<1> SUFFICES ASSUME NEW c \in Codes
             PROVE  LET q == Append(r, row)
                    IN  BpsDenominator * TotalOf(q, RowsWith(q, c), "developerShare")
                          <= bps * TotalOf(q, RowsWith(q, c), "platformFee")
  BY DEF ShareRate
<1> DEFINE q == Append(r, row)
           d == row.fees.developerShare
           p == row.fees.platformFee
           share == TotalOf(r, RowsWith(r, c), "developerShare")
           fee == TotalOf(r, RowsWith(r, c), "platformFee")
<1>1. d \in Nat /\ p \in Nat /\ "developerShare" \in Fields /\ "platformFee" \in Fields
  BY DEF Settled, Breakdown, Fields
<1>2. RowsWith(r, c) \in SUBSET DOMAIN r
  BY RowsAppend
<1>3. /\ share \in Nat /\ TotalOf(q, RowsWith(r, c), "developerShare") = share
      /\ TotalOf(q, RowsWith(r, c) \cup {Len(r) + 1}, "developerShare") = d + share
  BY <1>1, <1>2, TotalAppend
<1>4. /\ fee \in Nat /\ TotalOf(q, RowsWith(r, c), "platformFee") = fee
      /\ TotalOf(q, RowsWith(r, c) \cup {Len(r) + 1}, "platformFee") = p + fee
  BY <1>1, <1>2, TotalAppend
<1>5. BpsDenominator * share <= bps * fee
  BY DEF ShareRate
<1>6. \/ RowsWith(q, c) = RowsWith(r, c)
      \/ RowsWith(q, c) = RowsWith(r, c) \cup {Len(r) + 1}
  BY RowsAppend
<1>7. bps \in Nat /\ BpsDenominator \in Nat
  <2>1. BpsDenominator \in Nat
    BY DEF BpsDenominator
  <2>2. \A m \in Nat : \A k \in 0..m : k \in Nat
    OBVIOUS
  <2> QED
    BY <2>1, <2>2 DEF Bps
<1>8. BpsDenominator * d <= bps * p
  OBVIOUS
<1> HIDE DEF d, p, share, fee
<1>9. BpsDenominator * (d + share) <= bps * (p + fee)
  <2>1. BpsDenominator * (d + share) = BpsDenominator * d + BpsDenominator * share
    BY <1>1, <1>3, <1>7
  <2>2. bps * (p + fee) = bps * p + bps * fee
    BY <1>1, <1>4, <1>7
  <2>3. \A k, l, m, n \in Nat : k <= m /\ l <= n => k + l <= m + n
    OBVIOUS
  <2>4. /\ bps * p \in Nat /\ bps * fee \in Nat
        /\ BpsDenominator * d \in Nat /\ BpsDenominator * share \in Nat
    BY <1>1, <1>3, <1>4, <1>7
  <2> QED
    BY <1>5, <1>8, <2>1, <2>2, <2>3, <2>4
<1> QED
  BY <1>3, <1>4, <1>5, <1>6, <1>9

-----------------------------------------------------------------------------
(* The ledger. *)

\* The tiers of a row's seller that were live when it was settled.
Own(f, row) ==
  {k \in DOMAIN f.premiumTiers :
     /\ f.premiumTiers[k].seller = row.seller
     /\ f.premiumTiers[k].expiresAt = NoExpiry \/ row.at < f.premiumTiers[k].expiresAt}

\* A row that is not free was charged the rate of one of them, if there is one.
Personal(f, row) ==
  ~row.fees.freeTierApplied =>
    IF Own(f, row) = {}
    THEN row.fees.effectiveFeeBps = f.platformFeeBps
    ELSE \E k \in Own(f, row) : row.fees.effectiveFeeBps = f.premiumTiers[k].feeBps

\* The inductive invariant.
IInv ==
  /\ LedgerTypeOK
  /\ \A i \in DOMAIN rows : Sound(rows[i].fees) /\ Personal(cfg, rows[i])
  /\ ShareSum(rows) /\ ShareRate(rows, cfg.developerShareBps)

LEMMA InvInit == LedgerInit => IInv
<1> SUFFICES ASSUME LedgerInit PROVE IInv
  OBVIOUS
<1>1. LedgerTypeOK
  BY TimeAssumption DEF LedgerInit, LedgerTypeOK
<1>2. rows = <<>> /\ DOMAIN rows = {}
  BY DEF LedgerInit
<1>4. \A field : TotalOf(rows, {}, field) = 0
  BY FS_EmptySet, SumOfZeros DEF TotalOf
<1>5. \A c : RowsWith(rows, c) = {}
  BY <1>2 DEF RowsWith
<1>6. ShareSum(rows)
  <2>1. SharesOf(rows) = [c \in Codes |-> 0]
    BY <1>4, <1>5 DEF SharesOf
  <2>2. SumFunction(SharesOf(rows)) = SumFunctionOnSet([c \in Codes |-> 0], Codes)
    BY <2>1 DEF SumFunction
  <2>3. SumFunctionOnSet([c \in Codes |-> 0], Codes) = 0
    BY CodesAssumption, SumOfZeros
  <2> QED
    BY <1>2, <1>4, <2>2, <2>3 DEF ShareSum
<1>7. ShareRate(rows, cfg.developerShareBps)
  <2>1. cfg.developerShareBps \in Bps
    BY <1>1, ConfigsAssumption DEF LedgerTypeOK, Config
  <2>2. \A b \in Bps : BpsDenominator * 0 <= b * 0
    BY DEF Bps, BpsDenominator
  <2> QED
    BY <1>4, <1>5, <2>1, <2>2 DEF ShareRate
<1> QED
  BY <1>1, <1>2, <1>6, <1>7 DEF IInv

LEMMA SettleStep ==
  ASSUME IInv, NEW s \in Addresses, NEW g \in Amounts, NEW c \in Codes \cup {NoCode},
         SettleWithFees(s, g, c)
  PROVE  IInv'
<1> DEFINE f == Compute(cfg, g, s, c, 0, now)
           row == [seller |-> s, at |-> now, fees |-> f]
<1>1. LedgerTypeOK /\ cfg \in Config /\ g \in Nat
  BY ConfigsAssumption, AmountsAssumption DEF IInv, LedgerTypeOK
<1>2. Sound(f)
  BY <1>1, ComputeSound
<1>3. Personal(cfg, row)
  <2> SUFFICES ASSUME ~f.freeTierApplied
               PROVE  IF Own(cfg, row) = {}
                      THEN f.effectiveFeeBps = cfg.platformFeeBps
                      ELSE \E k \in Own(cfg, row) :
                             f.effectiveFeeBps = cfg.premiumTiers[k].feeBps
    BY DEF Personal
  <2>1. f.effectiveFeeBps = ResolveFeeBps(cfg, s, now)
    BY DEF Compute
  <2>2. now \in Int
    BY <1>1, TimeAssumption DEF LedgerTypeOK
  <2>3. \A k \in DOMAIN cfg.premiumTiers : cfg.premiumTiers[k].expiresAt \in Nat \cup {NoExpiry}
    <3> DEFINE tiers == cfg.premiumTiers
    <3>1. tiers \in Seq(PremiumTier)
      BY <1>1 DEF Config
    <3> HIDE DEF tiers
    <3>2. \A k \in DOMAIN tiers : tiers[k] \in PremiumTier
      BY <3>1
    <3>3. \A k \in DOMAIN tiers : tiers[k].expiresAt \in Nat \cup {NoExpiry}
      BY <3>2 DEF PremiumTier
    <3> QED
      BY <3>3 DEF tiers
  <2>4. row.seller = s /\ row.at = now
    OBVIOUS
  <2> HIDE DEF f, row
  <2>5. \A k \in DOMAIN cfg.premiumTiers :
          k \in Own(cfg, row) <=> TierLive(cfg.premiumTiers[k], s, now)
    BY <2>2, <2>3, <2>4 DEF Own, TierLive
  <2>6. Own(cfg, row) \subseteq DOMAIN cfg.premiumTiers
    BY DEF Own
  <2> QED
    BY <1>1, <2>1, <2>5, <2>6, RateOfTier
<1>4. row \in Settled
  <2>1. now \in Nat
    BY <1>1, TimeAssumption DEF LedgerTypeOK
  <2> HIDE DEF f
  <2> QED
    BY <1>2, <2>1 DEF Sound, Settled
<1>5. rows' = Append(rows, row) /\ cfg' = cfg /\ now' = now
  BY DEF SettleWithFees
<1>6. row.fees.referralCode = NoCode => row.fees.developerShare = 0
  BY DEF Compute, DeveloperShare
<1>7. BpsDenominator * row.fees.developerShare <= cfg.developerShareBps * row.fees.platformFee
  <2>1. cfg.developerShareBps \in Bps
    BY <1>1 DEF Config
  <2>2. row.fees.platformFee = f.platformFee /\ row.fees.developerShare = f.developerShare
    OBVIOUS
  <2>3. f.platformFee \in Nat
    <3> HIDE DEF f
    <3> QED
      BY <1>2 DEF Sound, Breakdown
  <2>4. \/ f.developerShare = 0
        \/ f.developerShare = Portion(f.platformFee, cfg.developerShareBps)
    BY DEF Compute, DeveloperShare
  <2> HIDE DEF f
  <2>5. CASE f.developerShare = 0
    <3>1. \A k \in Nat, b \in Bps : b * k \in Nat
      BY DEF Bps, BpsDenominator
    <3> QED
      BY <2>1, <2>2, <2>3, <2>5, <3>1 DEF BpsDenominator
  <2>6. CASE f.developerShare = Portion(f.platformFee, cfg.developerShareBps)
    <3>1. BpsDenominator * Portion(f.platformFee, cfg.developerShareBps)
            <= f.platformFee * cfg.developerShareBps
      BY <2>1, <2>3, PortionBounds
    <3>2. \A k \in Nat, b \in Bps : k * b = b * k
      BY DEF Bps, BpsDenominator
    <3> QED
      BY <2>1, <2>2, <2>3, <2>6, <3>1, <3>2
  <2> QED
    BY <2>4, <2>5, <2>6
<1> HIDE DEF row, f
<1>9. rows \in Seq(Settled)
  BY <1>1 DEF LedgerTypeOK
<1>10. /\ rows' \in Seq(Settled)
      /\ \A i \in DOMAIN rows' : rows'[i] = row \/ (i \in DOMAIN rows /\ rows'[i] = rows[i])
  BY <1>4, <1>5, <1>9
<1>11. LedgerTypeOK'
  BY <1>1, <1>5, <1>10 DEF LedgerTypeOK
<1>12. row.fees = f
  BY DEF row
<1>13. ASSUME NEW i \in DOMAIN rows' PROVE Sound(rows'[i].fees) /\ Personal(cfg', rows'[i])
  <2>1. CASE rows'[i] = row
    BY <1>2, <1>3, <1>5, <1>12, <2>1
  <2>2. CASE i \in DOMAIN rows /\ rows'[i] = rows[i]
    BY <1>5, <2>2 DEF IInv
  <2> QED
    BY <1>10, <2>1, <2>2
<1>15. ShareSum(rows')
  BY <1>4, <1>5, <1>6, <1>9, ShareSumKept DEF IInv
<1>16. ShareRate(rows', cfg'.developerShareBps)
  <2>1. cfg.developerShareBps \in Bps
    BY <1>1 DEF Config
  <2> QED
    BY <1>4, <1>5, <1>7, <1>9, <2>1, ShareRateKept DEF IInv
<1> QED
  BY <1>11, <1>13, <1>15, <1>16 DEF IInv

LEMMA InvStep == IInv /\ [LedgerNext]_ledgerVars => IInv'
<1> SUFFICES ASSUME IInv, [LedgerNext]_ledgerVars PROVE IInv'
  OBVIOUS
<1>1. CASE ClockTick
  <2>1. LedgerTypeOK'
    BY <1>1, TimeAssumption DEF IInv, LedgerTypeOK, ClockTick
  <2> QED
    BY <1>1, <2>1 DEF IInv, ClockTick
<1>2. CASE UNCHANGED ledgerVars
  BY <1>2 DEF IInv, LedgerTypeOK, ledgerVars
<1> QED
  BY <1>1, <1>2, SettleStep DEF LedgerNext

LEMMA Invariant == LedgerSpec => []IInv
BY InvInit, InvStep, PTL DEF LedgerSpec

\* Every ledger the engine writes is well typed: no amount is negative.
THEOREM TypeCorrect == LedgerSpec => []LedgerTypeOK
<1>1. IInv => LedgerTypeOK
  BY DEF IInv
<1> QED
  BY Invariant, <1>1, PTL

\* What a seller is charged over all its settlements stays within one base unit
\* per settlement of its rates, and the rest is the seller's.
THEOREM FeesRounded == LedgerSpec => []FeesWithinRate
<1>1. ASSUME IInv PROVE FeesWithinRate
  <2> SUFFICES ASSUME NEW s \in Addresses
               PROVE  LET I == RowsOf(s)
                          charged == BpsDenominator * Total(I, "platformFee")
                      IN /\ charged <= Owed(I)
                         /\ Owed(I) <= charged + (BpsDenominator - 1) * Cardinality(I)
                         /\ Total(I, "platformFee") + Total(I, "netToSeller")
                              = Total(I, "grossAmount")
    BY DEF FeesWithinRate
  <2> DEFINE I == RowsOf(s)
             fee == [i \in DOMAIN rows |-> rows[i].fees["platformFee"]]
             net == [i \in DOMAIN rows |-> rows[i].fees["netToSeller"]]
             gross == [i \in DOMAIN rows |-> rows[i].fees["grossAmount"]]
             owed == [i \in DOMAIN rows |->
                        rows[i].fees.grossAmount * rows[i].fees.effectiveFeeBps]
  <2>1. I \subseteq DOMAIN rows /\ IsFiniteSet(I)
    <3>1. rows \in Seq(Settled)
      BY <1>1 DEF IInv, LedgerTypeOK
    <3>2. DOMAIN rows = 1..Len(rows) /\ Len(rows) \in Nat
      BY <3>1
    <3>3. IsFiniteSet(DOMAIN rows)
      BY <3>2, FS_Interval
    <3>4. I \subseteq DOMAIN rows
      BY DEF RowsOf
    <3> QED
      BY <3>3, <3>4, FS_Subset
  <2>2. ASSUME NEW i \in I
        PROVE  /\ fee[i] \in Nat /\ net[i] \in Nat /\ gross[i] \in Nat /\ owed[i] \in Nat
               /\ fee[i] + net[i] = gross[i]
               /\ BpsDenominator * fee[i] <= owed[i]
               /\ owed[i] <= BpsDenominator * fee[i] + (BpsDenominator - 1)
    <3> DEFINE b == rows[i].fees
    <3>1. Sound(b)
      BY <1>1, <2>1 DEF IInv
    <3> HIDE DEF I
    <3>2. /\ fee[i] = b.platformFee /\ net[i] = b.netToSeller /\ gross[i] = b.grossAmount
          /\ owed[i] = b.grossAmount * b.effectiveFeeBps
      BY <2>1, <2>2
    <3> HIDE DEF b, fee, net, gross, owed
    <3>3. /\ b.platformFee \in Nat /\ b.netToSeller \in Nat /\ b.grossAmount \in Nat
          /\ b.effectiveFeeBps \in Nat
      <4>1. b \in Breakdown
        BY <3>1 DEF Sound
      <4>2. Bps \subseteq Nat
        BY DEF Bps, BpsDenominator
      <4> QED
        BY <4>1, <4>2 DEF Breakdown
    <3>4. b.grossAmount * b.effectiveFeeBps \in Nat
      BY <3>3
    <3> DEFINE w == b.grossAmount * b.effectiveFeeBps
    <3>5. w \in Nat /\ BpsDenominator * b.platformFee <= w
          /\ w < BpsDenominator * b.platformFee + BpsDenominator
      BY <3>1, <3>4 DEF Sound
    <3>6. b.platformFee + b.netToSeller = b.grossAmount
      BY <3>1 DEF Sound
    <3>7. owed[i] = w
      BY <3>2
    <3> HIDE DEF w
    <3> QED
      BY <3>2, <3>3, <3>5, <3>6, <3>7 DEF BpsDenominator
  <2> HIDE DEF I, fee, net, gross, owed
  <2>3. /\ BpsDenominator * SumFunctionOnSet(fee, I) <= SumFunctionOnSet(owed, I)
        /\ SumFunctionOnSet(owed, I)
             <= BpsDenominator * SumFunctionOnSet(fee, I) + (BpsDenominator - 1) * Cardinality(I)
    BY <2>1, <2>2, SumOfRounded
  <2>4. SumFunctionOnSet(fee, I) + SumFunctionOnSet(net, I) = SumFunctionOnSet(gross, I)
    BY <2>1, <2>2, SumOfSums
  <2> QED
    BY <2>3, <2>4 DEF Total, Owed, fee, net, gross, owed, I
<1>2. QED
  BY Invariant, <1>1, PTL

\* Premium rates go to their seller only, end when their tier does, and a tier
\* that has ended hides none.
THEOREM PremiumPersonal == LedgerSpec => []PremiumIsPersonal
<1>1. IInv => PremiumIsPersonal
  BY DEF IInv, Personal, Own, PremiumIsPersonal
<1> QED
  BY Invariant, <1>1, PTL

\* What the referral codes are credited with adds up to the shares of all
\* settlements, each at most its rate of the fees it brought (referral-service.ts,
\* getReferralStats).
THEOREM SharesAccounted == LedgerSpec => []StatsAccountForShares
<1>1. IInv => StatsAccountForShares
  <2> SUFFICES ASSUME IInv PROVE StatsAccountForShares
    OBVIOUS
  <2>1. \A c \in Codes :
          /\ ReferralStats(c).totalDeveloperShare = TotalOf(rows, RowsWith(rows, c), "developerShare")
          /\ ReferralStats(c).totalPlatformFee = TotalOf(rows, RowsWith(rows, c), "platformFee")
    BY DEF ReferralStats, ReferralRows, RowsWith, Total, TotalOf
  <2>2. [c \in Codes |-> ReferralStats(c).totalDeveloperShare] = SharesOf(rows)
    BY <2>1 DEF SharesOf
  <2>3. Total(DOMAIN rows, "developerShare") = TotalOf(rows, DOMAIN rows, "developerShare")
    BY DEF Total, TotalOf
  <2> QED
    BY <2>1, <2>2, <2>3 DEF IInv, ShareSum, ShareRate, StatsAccountForShares
<1> QED
  BY Invariant, <1>1, PTL
=============================================================================
