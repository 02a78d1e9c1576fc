---------------------------- MODULE StoreProofs ----------------------------
(***************************************************************************)
(* What the arithmetic of Money guarantees for every amount, and that of   *)
(* Ocr for every invoice number, and what each transaction of InvoiceStore *)
(* does to its tables: the facts that the proofs about the modules above   *)
(* them rest on.                                                           *)
(***************************************************************************)
EXTENDS InvoiceStore, Ocr, FiniteSetTheorems, TLAPS

\* Rounding half up with a positive denominator yields an integer.
LEMMA RoundHalfUpType ==
    ASSUME NEW n \in Int, NEW d \in Nat \ {0}
    PROVE  RoundHalfUp(n, d) \in Int
BY DEF RoundHalfUp

\* roundOre is symmetric about zero: what it makes of minus a fraction is
\* minus what it makes of the fraction.  Math.round alone is not.
THEOREM RoundOreSymmetric ==
    ASSUME NEW n \in Int, NEW d \in Nat \ {0}
    PROVE  RoundOre(-n, d) = -RoundOre(n, d)
<1>1. CASE n = 0
  <2>1. RoundHalfUp(0, d) = 0
    BY DEF RoundHalfUp
  <2>2. QED
    BY <1>1, <2>1 DEF RoundOre
<1>2. CASE n # 0
  <2>1. RoundHalfUp(n, d) \in Int /\ RoundHalfUp(-n, d) \in Int
    BY RoundHalfUpType
  <2>2. -(-n) = n
    OBVIOUS
  <2>3. QED
    BY <1>2, <2>1, <2>2 DEF RoundOre
<1>3. QED
  BY <1>1, <1>2

\* A credit note mirrors an invoice line by negating its quantity alone; net,
\* VAT and gross of the mirrored line are then exactly minus the original's,
\* whatever the price and the rate, and even for a quantity below zero.
THEOREM MirroredLineCancels ==
    ASSUME NEW quantity \in Int, NEW price \in Int, NEW rate \in Nat
    PROVE  LET line   == CalculateLine(quantity, price, rate)
               mirror == CalculateLine(-quantity, price, rate)
           IN  /\ mirror.netOre = -line.netOre
               /\ mirror.vatOre = -line.vatOre
               /\ mirror.grossOre = -line.grossOre
<1> DEFINE net == quantity * price
           vat == RoundOre(net * rate, 10000)
<1>1. net \in Int /\ net * rate \in Int
  OBVIOUS
<1>2. (-quantity) * price = -net
  OBVIOUS
<1>3. (-net) * rate = -(net * rate)
  OBVIOUS
<1>4. vat \in Int
  BY <1>1, RoundHalfUpType DEF RoundOre
<1>5. RoundOre((-net) * rate, 10000) = -vat
  BY <1>1, <1>3, RoundOreSymmetric
<1> HIDE DEF net, vat
<1>6. CalculateLine(quantity, price, rate)
        = [netOre |-> net, vatOre |-> vat, grossOre |-> net + vat]
  BY DEF CalculateLine, net, vat
<1>7. CalculateLine(-quantity, price, rate)
        = [netOre |-> -net, vatOre |-> -vat, grossOre |-> (-net) + (-vat)]
  BY <1>2, <1>5 DEF CalculateLine
<1>8. QED
  BY <1>1, <1>4, <1>6, <1>7

\* Late interest is a natural number of öre, so accruing it never lowers a
\* debt.
LEMMA LateInterestNat ==
    ASSUME NEW gross \in Int, NEW days \in Int
    PROVE  CalculateLateInterest(gross, days) \in Nat
<1>1. CASE days <= 0 \/ gross <= 0
  BY <1>1 DEF CalculateLateInterest
<1>2. CASE days > 0 /\ gross > 0
  <2> DEFINE p == gross * days
  <2>1. p \in Nat
    BY <1>2
  <2>2. CalculateLateInterest(gross, days) = RoundOre(p * (200 + 800), 10000 * 365)
    BY <1>2 DEF CalculateLateInterest, REFERENCE_RATE_BASIS_POINTS,
                LATE_INTEREST_MARKUP_BASIS_POINTS
  <2> HIDE DEF p
  <2>3. QED
    BY <2>1, <2>2 DEF RoundOre, RoundHalfUp
<1>3. QED
  BY <1>1, <1>2

\* Interest never shrinks as an invoice gets later: a day more owes at least
\* as much.  The nightly job relies on it when it charges only the increment
\* over what it charged before.
THEOREM LateInterestMonotonic ==
    ASSUME NEW gross \in Int, NEW days \in Int, NEW more \in Int, days <= more
    PROVE  CalculateLateInterest(gross, days) <= CalculateLateInterest(gross, more)
<1>1. CASE days <= 0 \/ gross <= 0
  <2>1. CalculateLateInterest(gross, days) = 0
    BY <1>1 DEF CalculateLateInterest
  <2>2. QED
    BY <2>1, LateInterestNat
<1>2. CASE days > 0 /\ gross > 0
  <2> DEFINE p == gross * days
             q == gross * more
  <2>1. p \in Nat /\ q \in Nat /\ p <= q
    <3>1. q - p = gross * (more - days)
      OBVIOUS
    <3>2. gross * (more - days) >= 0
      BY <1>2
    <3>3. p \in Nat /\ q \in Int
      BY <1>2
    <3>4. QED
      BY <3>1, <3>2, <3>3
  <2>2. /\ CalculateLateInterest(gross, days) = RoundOre(p * (200 + 800), 10000 * 365)
        /\ CalculateLateInterest(gross, more) = RoundOre(q * (200 + 800), 10000 * 365)
    BY <1>2 DEF CalculateLateInterest, REFERENCE_RATE_BASIS_POINTS,
                LATE_INTEREST_MARKUP_BASIS_POINTS
  <2> HIDE DEF p, q
  <2>3. QED
    BY <2>1, <2>2 DEF RoundOre, RoundHalfUp
<1>3. QED
  BY <1>1, <1>2

\* A whole quotient is the last multiple that fits.
LEMMA Quotient ==
    ASSUME NEW a \in Int, NEW b \in Nat \ {0}
    PROVE  /\ a \div b \in Int
           /\ b * (a \div b) <= a /\ a < b * (a \div b) + b
OBVIOUS

\* Rounding half up is at most half a unit off, and exactly half a unit only
\* when it rounds up.
LEMMA RoundHalfUpNear ==
    ASSUME NEW n \in Int, NEW d \in Nat \ {0}
    PROVE  /\ RoundHalfUp(n, d) \in Int
           /\ 2 * (RoundHalfUp(n, d) * d) <= 2 * n + d
           /\ 2 * n < 2 * (RoundHalfUp(n, d) * d) + d
<1>0. PICK r : r = RoundHalfUp(n, d)
  OBVIOUS
<1> DEFINE a == 2 * n + d
           b == 2 * d
<1>1. a \in Int /\ b \in Nat \ {0} /\ r = a \div b
  BY <1>0 DEF RoundHalfUp
<1>2. r \in Int /\ b * r <= a /\ a < b * r + b
  <2> HIDE DEF a, b
  <2>1. QED
    BY <1>1, Quotient
<1>3. b * r = 2 * (r * d)
  BY <1>2
<1>4. r * d \in Int
  BY <1>2
<1>5. QED
  BY <1>0, <1>2, <1>3, <1>4

\* roundOre returns the integer nearest to its fraction, and of the two nearest
\* to a half the one further from zero, for every fraction.
THEOREM RoundsToNearest ==
    ASSUME NEW n \in Int, NEW d \in Nat \ {0}
    PROVE  RoundOre(n, d) \in Int /\ IsNearest(RoundOre(n, d), n, d)
<1>1. ASSUME NEW m \in Nat, NEW r, r = RoundHalfUp(m, d)
      PROVE  /\ r \in Int /\ r * d \in Int
             /\ 2 * Magnitude(r * d - m) <= d
             /\ 2 * Magnitude(r * d - m) = d => r * d > m
  <2>0. m \in Int /\ r \in Int
    BY <1>1, RoundHalfUpNear
  <2>1. PICK p : p = r * d
    OBVIOUS
  <2>2. p \in Int
    BY <2>0, <2>1
  <2>3. 2 * p <= 2 * m + d /\ 2 * m < 2 * p + d
    BY <1>1, <2>0, <2>1, RoundHalfUpNear
  <2>4. 2 * Magnitude(p - m) <= d /\ (2 * Magnitude(p - m) = d => p > m)
    BY <2>2, <2>3 DEF Magnitude
  <2>5. QED
    BY <2>0, <2>1, <2>2, <2>4
<1>2. CASE n >= 0
  <2>1. PICK r : r = RoundHalfUp(n, d)
    OBVIOUS
  <2>2. /\ r \in Int /\ r * d \in Int /\ 2 * Magnitude(r * d - n) <= d
        /\ 2 * Magnitude(r * d - n) = d => r * d > n
    BY <1>1, <1>2, <2>1
  <2>3. 2 * Magnitude(r * d - n) = d => Magnitude(r * d) > Magnitude(n)
    BY <1>2, <2>2 DEF Magnitude
  <2>4. RoundOre(n, d) = r
    BY <1>2, <2>1 DEF RoundOre
  <2>5. QED
    BY <2>2, <2>3, <2>4 DEF IsNearest
<1>3. CASE n < 0
  <2>1. PICK r : r = RoundHalfUp(-n, d)
    OBVIOUS
  <2>2. /\ r \in Int /\ r * d \in Int /\ 2 * Magnitude(r * d - (-n)) <= d
        /\ 2 * Magnitude(r * d - (-n)) = d => r * d > -n
    BY <1>1, <1>3, <2>1
  <2>3. PICK p : p = r * d
    OBVIOUS
  <2>4. Magnitude((-p) - n) = Magnitude(p - (-n))
    BY <2>2, <2>3 DEF Magnitude
  <2>5. 2 * Magnitude((-p) - n) = d => Magnitude(-p) > Magnitude(n)
    BY <1>3, <2>2, <2>3, <2>4 DEF Magnitude
  <2>6. (-r) * d = -p
    BY <2>2, <2>3
  <2>7. RoundOre(n, d) = -r
    BY <1>3, <2>1 DEF RoundOre
  <2>8. QED
    BY <2>2, <2>3, <2>4, <2>5, <2>6, <2>7 DEF IsNearest
<1>4. QED
  BY <1>2, <1>3

\* The VAT of a line is its net at the line's rate to the nearest öre, for every
\* quantity, price and rate.
THEOREM VatIsNearest ==
    ASSUME NEW quantity \in Int, NEW price \in Int, NEW rate \in Nat
    PROVE  LET line == CalculateLine(quantity, price, rate)
           IN  /\ line.netOre = quantity * price
               /\ line.grossOre = line.netOre + line.vatOre
               /\ IsNearest(line.vatOre, line.netOre * rate, 10000)
<1> DEFINE net == quantity * price
           vat == RoundOre(net * rate, 10000)
<1>1. net * rate \in Int
  OBVIOUS
<1>2. IsNearest(vat, net * rate, 10000)
  BY <1>1, RoundsToNearest
<1> HIDE DEF net, vat
<1>3. CalculateLine(quantity, price, rate)
        = [netOre |-> net, vatOre |-> vat, grossOre |-> net + vat]
  BY DEF CalculateLine, net, vat
<1>4. QED
  BY <1>2, <1>3 DEF net

\* Late interest is ten percent a year of the gross, to the nearest öre over the
\* whole period, however many nights it is accrued in.
THEOREM InterestIsNearest ==
    ASSUME NEW gross \in Nat \ {0}, NEW days \in Nat
    PROVE  IsNearest(CalculateLateInterest(gross, days), gross * days, 3650)
<1>1. CASE days = 0
  BY <1>1 DEF CalculateLateInterest, IsNearest, Magnitude
<1>2. CASE days > 0
  <2>1. PICK p : p = gross * days
    OBVIOUS
  <2>2. PICK r : r = RoundOre(p * 1000, 3650000)
    OBVIOUS
  <2>3. p \in Nat /\ CalculateLateInterest(gross, days) = r
    BY <1>2, <2>1, <2>2 DEF CalculateLateInterest, REFERENCE_RATE_BASIS_POINTS,
                            LATE_INTEREST_MARKUP_BASIS_POINTS
  <2>4. r \in Int /\ IsNearest(r, p * 1000, 3650000)
    BY <2>2, <2>3, RoundsToNearest
  <2>5. IsNearest(r, p, 3650)
    BY <2>3, <2>4 DEF IsNearest, Magnitude
  <2>6. QED
    BY <2>1, <2>3, <2>5
<1>3. QED
  BY <1>1, <1>2

-----------------------------------------------------------------------------
(* Sums over finite sets                                                   *)

\* Induction over the subsets of a finite set, by a set of the good ones and
\* not by a predicate: what is good as soon as all that is smaller is good
\* holds of every subset.
LEMMA SubsetInduction ==
    ASSUME NEW S, IsFiniteSet(S), NEW Good,
           \A T \in SUBSET S : (\A U \in SUBSET T : U # T => U \in Good) => T \in Good
    PROVE  SUBSET S \subseteq Good
<1> DEFINE Bad == {T \in SUBSET S : T \notin Good}
           Less == StrictSubsetOrdering(S)
<1>1. IsWellFoundedOn(Less, SUBSET S)
  BY FS_StrictSubsetOrderingWellFounded, FS_FiniteSubsetsOfFinite
<1>2. SUFFICES ASSUME Bad # {} PROVE FALSE
  OBVIOUS
<1> HIDE DEF Less, Bad
<1>3. Bad \subseteq SUBSET S
  BY DEF Bad
<1>4. PICK T \in Bad : \A U \in Bad : <<U, T>> \notin Less
  BY <1>1, <1>2, <1>3, WFMin
<1>5. \A U \in SUBSET T : U # T => U \in Good
  BY <1>3, <1>4 DEF Bad, Less, StrictSubsetOrdering
<1>6. QED
  BY <1>3, <1>4, <1>5 DEF Bad

\* What a fold picks next.
Pick(s) == CHOOSE x \in s : TRUE

\* The recursion of the fold, unfolded once.
Unfolded(f, g, S) ==
    [s \in SUBSET S |-> IF s = {} THEN 0 ELSE f[Pick(s)] + g[s \ {Pick(s)}]]

\* g sums f, element by picked element, over every subset of S.
Sums(g, f, S) ==
    \A s \in SUBSET S :
        g[s] = IF s = {} THEN 0 ELSE f[Pick(s)] + g[s \ {Pick(s)}]

\* The fold of the library is the recursive function written out above.
LEMMA SumIs ==
    ASSUME NEW f, NEW S
    PROVE  SumFunctionOnSet(f, S) = (CHOOSE g : g = Unfolded(f, g, S))[S]
BY DEF SumFunctionOnSet, FoldFunctionOnSet, MapThenFoldSet, Unfolded, Pick

\* A function that is its own unfolding sums f over every subset.
LEMMA UnfoldedSums ==
    ASSUME NEW f, NEW S, NEW g, g = Unfolded(f, g, S)
    PROVE  Sums(g, f, S)
<1>1. ASSUME NEW s \in SUBSET S
      PROVE  g[s] = IF s = {} THEN 0 ELSE f[Pick(s)] + g[s \ {Pick(s)}]
  <2>1. g[s] = Unfolded(f, g, S)[s]
    OBVIOUS
  <2>2. QED
    BY <2>1 DEF Unfolded
<1>2. QED
  BY <1>1 DEF Sums

\* What is picked of a set is in it.
LEMMA PickIn == ASSUME NEW s, s # {} PROVE Pick(s) \in s
BY DEF Pick

\* Two functions that sum f agree wherever both are defined.
LEMMA SumsAgree ==
    ASSUME NEW f, NEW S, IsFiniteSet(S), NEW T \in SUBSET S,
           NEW g, Sums(g, f, S), NEW h, Sums(h, f, T)
    PROVE  g[T] = h[T]
<1> DEFINE Good == {s \in SUBSET S : s \subseteq T => g[s] = h[s]}
<1>1. ASSUME NEW s \in SUBSET S, \A u \in SUBSET s : u # s => u \in Good
      PROVE  s \in Good
  <2>1. SUFFICES ASSUME s \subseteq T PROVE g[s] = h[s]
    OBVIOUS
  <2>2. /\ g[s] = IF s = {} THEN 0 ELSE f[Pick(s)] + g[s \ {Pick(s)}]
        /\ h[s] = IF s = {} THEN 0 ELSE f[Pick(s)] + h[s \ {Pick(s)}]
    BY <2>1 DEF Sums
  <2>3. CASE s # {}
    <3>1. s \ {Pick(s)} \in SUBSET s /\ s \ {Pick(s)} # s
      BY <2>3, PickIn
    <3>2. g[s \ {Pick(s)}] = h[s \ {Pick(s)}]
      BY <1>1, <2>1, <3>1
    <3>3. QED
      BY <2>2, <2>3, <3>2
  <2>4. QED
    BY <2>2, <2>3
<1>2. SUBSET S \subseteq Good
  <2> HIDE DEF Good
  <2>1. QED
    BY <1>1, SubsetInduction
<1>3. QED
  BY <1>2

\* There is such a function for every finite set: the recursion of the fold
\* has a solution, built from those of the smaller sets.
LEMMA UnfoldedExists ==
    ASSUME NEW f, NEW S, IsFiniteSet(S)
    PROVE  \A T \in SUBSET S : \E g : g = Unfolded(f, g, T)
<1> DEFINE Good == {T \in SUBSET S : \E g : g = Unfolded(f, g, T)}
           Any(T) == CHOOSE g : g = Unfolded(f, g, T)
<1>1. ASSUME NEW T \in SUBSET S, \A U \in SUBSET T : U # T => U \in Good
      PROVE  T \in Good
  <2>1. ASSUME NEW U \in SUBSET T, U # T
        PROVE  Sums(Any(U), f, U)
    <3>1. \E g : g = Unfolded(f, g, U)
      BY <1>1, <2>1
    <3>2. Any(U) = Unfolded(f, Any(U), U)
      BY <3>1
    <3> HIDE DEF Any
    <3>3. QED
      BY <3>2, UnfoldedSums
  <2> DEFINE below == T \ {Pick(T)}
             g == [s \in SUBSET T |->
                      IF s # T THEN Any(s)[s]
                      ELSE IF T = {} THEN 0 ELSE f[Pick(T)] + Any(below)[below]]
  <2> HIDE DEF Any
  <2>2. ASSUME NEW s \in SUBSET T
        PROVE  g[s] = IF s = {} THEN 0 ELSE f[Pick(s)] + g[s \ {Pick(s)}]
    <3>1. CASE s = T
      <4>1. T # {} => below \in SUBSET T /\ below # T
        BY PickIn
      <4>2. QED
        BY <3>1, <4>1
    <3>2. CASE s # T
      <4> DEFINE u == s \ {Pick(s)}
      <4>1. /\ u \in SUBSET T /\ u \in SUBSET s /\ s \in SUBSET S /\ IsFiniteSet(s)
            /\ s # {} => u # T
        BY <3>2, FS_Subset
      <4>2. g[s] = Any(s)[s] /\ (s # {} => g[u] = Any(u)[u])
        BY <3>2, <4>1
      <4>3. Sums(Any(s), f, s) /\ (s # {} => Sums(Any(u), f, u))
        BY <2>1, <3>2, <4>1
      <4> HIDE DEF g, u
      <4>4. s # {} => Any(s)[u] = Any(u)[u]
        BY <4>1, <4>3, SumsAgree
      <4>5. Any(s)[s] = IF s = {} THEN 0 ELSE f[Pick(s)] + Any(s)[u]
        BY <4>3 DEF Sums, u
      <4>6. QED
        BY <4>2, <4>4, <4>5 DEF u
    <3>3. QED
      BY <3>1, <3>2
  <2> HIDE DEF g
  <2>3. Unfolded(f, g, T) = [s \in SUBSET T |-> g[s]]
    BY <2>2 DEF Unfolded
  <2>4. g = [s \in SUBSET T |-> g[s]]
    BY DEF g
  <2>5. QED
    BY <2>3, <2>4
<1>2. SUBSET S \subseteq Good
  <2> HIDE DEF Good
  <2>1. QED
    BY <1>1, SubsetInduction
<1>3. QED
  BY <1>2

\* A sum is the element picked and the sum of the others.
LEMMA SumByPick ==
    ASSUME NEW f, NEW S, IsFiniteSet(S)
    PROVE  SumFunctionOnSet(f, S) =
               IF S = {} THEN 0
               ELSE f[Pick(S)] + SumFunctionOnSet(f, S \ {Pick(S)})
<1> DEFINE Any(T) == CHOOSE g : g = Unfolded(f, g, T)
           rest == S \ {Pick(S)}
<1>1. ASSUME NEW T \in SUBSET S
      PROVE  Sums(Any(T), f, T)
  <2>1. \E g : g = Unfolded(f, g, T)
    BY UnfoldedExists
  <2>2. Any(T) = Unfolded(f, Any(T), T)
    BY <2>1
  <2> HIDE DEF Any
  <2>3. QED
    BY <2>2, UnfoldedSums
<1>2. /\ SumFunctionOnSet(f, S) = Any(S)[S]
      /\ SumFunctionOnSet(f, rest) = Any(rest)[rest]
  BY SumIs
<1> HIDE DEF Any
<1>3. Sums(Any(S), f, S) /\ Sums(Any(rest), f, rest) /\ rest \in SUBSET S
  BY <1>1
<1>4. Any(S)[S] = IF S = {} THEN 0 ELSE f[Pick(S)] + Any(S)[rest]
  BY <1>3 DEF Sums
<1> HIDE DEF rest
<1>5. Any(S)[rest] = Any(rest)[rest]
  BY <1>3, SumsAgree
<1>6. QED
  BY <1>2, <1>4, <1>5 DEF rest

\* Nothing sums to zero.
LEMMA SumEmpty == \A f : SumFunctionOnSet(f, {}) = 0
BY SumByPick, FS_EmptySet

\* Integers sum to an integer.
LEMMA SumType ==
    ASSUME NEW f, NEW S, IsFiniteSet(S), \A x \in S : f[x] \in Int
    PROVE  SumFunctionOnSet(f, S) \in Int
<1> DEFINE Good == {T \in SUBSET S : SumFunctionOnSet(f, T) \in Int}
<1>1. ASSUME NEW T \in SUBSET S, \A U \in SUBSET T : U # T => U \in Good
      PROVE  T \in Good
  <2>1. IsFiniteSet(T)
    BY FS_Subset
  <2>2. CASE T = {}
    BY <2>2, SumEmpty
  <2>3. CASE T # {}
    <3>1. Pick(T) \in T /\ T \ {Pick(T)} \in SUBSET T /\ T \ {Pick(T)} # T
      BY <2>3, PickIn
    <3>2. SumFunctionOnSet(f, T \ {Pick(T)}) \in Int /\ f[Pick(T)] \in Int
      BY <1>1, <3>1
    <3>3. SumFunctionOnSet(f, T) = f[Pick(T)] + SumFunctionOnSet(f, T \ {Pick(T)})
      BY <2>1, <2>3, SumByPick
    <3>4. QED
      BY <3>2, <3>3
  <2>4. QED
    BY <2>2, <2>3
<1>2. SUBSET S \subseteq Good
  <2> HIDE DEF Good
  <2>1. QED
    BY <1>1, SubsetInduction
<1>3. QED
  BY <1>2

\* Any element may be taken out, not only the one the fold picks: the order
\* of summation does not matter.
LEMMA SumTakeOut ==
    ASSUME NEW f, NEW S, IsFiniteSet(S), \A x \in S : f[x] \in Int, NEW x \in S
    PROVE  SumFunctionOnSet(f, S) = f[x] + SumFunctionOnSet(f, S \ {x})
<1> DEFINE Of(T) == SumFunctionOnSet(f, T)
           Good == {T \in SUBSET S : \A y \in T : Of(T) = f[y] + Of(T \ {y})}
<1>1. \A T \in SUBSET S : IsFiniteSet(T) /\ Of(T) \in Int
  BY FS_Subset, SumType
<1>2. ASSUME NEW T \in SUBSET S, \A U \in SUBSET T : U # T => U \in Good,
             NEW y \in T
      PROVE  Of(T) = f[y] + Of(T \ {y})
  <2> DEFINE p == Pick(T)
  <2>1. p \in T
    BY PickIn
  <2>2. Of(T) = f[p] + Of(T \ {p})
    BY <1>1, SumByPick
  <2>3. CASE y # p
    <3> HIDE DEF p, Of
    <3>1. /\ T \ {p} \in SUBSET T /\ T \ {p} # T /\ y \in T \ {p}
          /\ T \ {y} \in SUBSET T /\ T \ {y} # T /\ p \in T \ {y}
          /\ (T \ {p}) \ {y} = (T \ {y}) \ {p}
      BY <2>1, <2>3
    <3>2. /\ Of(T \ {p}) = f[y] + Of((T \ {p}) \ {y})
          /\ Of(T \ {y}) = f[p] + Of((T \ {y}) \ {p})
      BY <1>2, <3>1
    <3>3. f[y] \in Int /\ f[p] \in Int /\ Of((T \ {p}) \ {y}) \in Int
      BY <1>1, <2>1
    <3>4. Of(T) = f[p] + (f[y] + Of((T \ {p}) \ {y}))
      BY <2>2, <3>2
    <3>5. Of(T \ {y}) = f[p] + Of((T \ {p}) \ {y})
      BY <3>1, <3>2
    <3>6. QED
      BY <3>3, <3>4, <3>5
  <2>4. QED
    BY <2>2, <2>3
<1>3. SUBSET S \subseteq Good
  <2>1. \A T \in SUBSET S : (\A U \in SUBSET T : U # T => U \in Good) => T \in Good
    <3> HIDE DEF Of
    <3>1. QED
      BY <1>2
  <2> HIDE DEF Good
  <2>2. QED
    BY <2>1, SubsetInduction
<1>4. QED
  BY <1>3

\* Functions that are equal on a set have the same sum over it.
LEMMA SumSame ==
    ASSUME NEW f, NEW g, NEW S, IsFiniteSet(S),
           \A x \in S : f[x] \in Int /\ f[x] = g[x]
    PROVE  SumFunctionOnSet(f, S) = SumFunctionOnSet(g, S)
<1> DEFINE Good == {T \in SUBSET S : SumFunctionOnSet(f, T) = SumFunctionOnSet(g, T)}
<1>1. ASSUME NEW T \in SUBSET S, \A U \in SUBSET T : U # T => U \in Good
      PROVE  T \in Good
  <2>1. IsFiniteSet(T)
    BY FS_Subset
  <2>2. CASE T = {}
    BY <2>2, SumEmpty
  <2>3. CASE T # {}
    <3>1. Pick(T) \in T /\ T \ {Pick(T)} \in SUBSET T /\ T \ {Pick(T)} # T
      BY <2>3, PickIn
    <3>2. SumFunctionOnSet(f, T \ {Pick(T)}) = SumFunctionOnSet(g, T \ {Pick(T)})
      BY <1>1, <3>1
    <3>3. /\ SumFunctionOnSet(f, T) = f[Pick(T)] + SumFunctionOnSet(f, T \ {Pick(T)})
          /\ SumFunctionOnSet(g, T) = g[Pick(T)] + SumFunctionOnSet(g, T \ {Pick(T)})
      BY <2>1, <2>3, SumByPick
    <3>4. QED
      BY <3>1, <3>2, <3>3
  <2>4. QED
    BY <2>2, <2>3
<1>2. SUBSET S \subseteq Good
  <2> HIDE DEF Good
  <2>1. QED
    BY <1>1, SubsetInduction
<1>3. QED
  BY <1>2

\* Induction over a finite set, one element at a time.
LEMMA ElementInduction ==
    ASSUME NEW S, IsFiniteSet(S), NEW Good, {} \in Good,
           \A T \in SUBSET S : \A x \in T : T \ {x} \in Good => T \in Good
    PROVE  S \in Good
<1>1. ASSUME NEW T \in SUBSET S, \A U \in SUBSET T : U # T => U \in Good
      PROVE  T \in Good
  <2>1. CASE T # {}
    <3>1. PICK x : x \in T
      BY <2>1
    <3>2. T \ {x} \in SUBSET T /\ T \ {x} # T
      BY <3>1
    <3>3. QED
      BY <1>1, <3>1, <3>2
  <2>2. QED
    BY <2>1
<1>2. QED
  BY <1>1, SubsetInduction

\* Zeros sum to zero.
LEMMA SumZero ==
    ASSUME NEW f, NEW S, IsFiniteSet(S), \A x \in S : f[x] = 0
    PROVE  SumFunctionOnSet(f, S) = 0
<1> DEFINE Good == {T \in SUBSET S : SumFunctionOnSet(f, T) = 0}
<1>1. ASSUME NEW T \in SUBSET S, NEW x \in T, T \ {x} \in Good
      PROVE  T \in Good
  <2>1. IsFiniteSet(T) /\ \A y \in T : f[y] \in Int
    BY FS_Subset
  <2>2. SumFunctionOnSet(f, T) = f[x] + SumFunctionOnSet(f, T \ {x})
    BY <2>1, SumTakeOut
  <2>3. QED
    BY <1>1, <2>2
<1>2. {} \in Good
  BY SumEmpty
<1> HIDE DEF Good
<1>3. S \in Good
  BY <1>1, <1>2, ElementInduction
<1>4. QED
  BY <1>3 DEF Good

\* Sums add up element by element.
LEMMA SumAddsUp ==
    ASSUME NEW f, NEW g, NEW h, NEW S, IsFiniteSet(S),
           \A x \in S : f[x] \in Int /\ g[x] \in Int /\ h[x] = f[x] + g[x]
    PROVE  SumFunctionOnSet(h, S) = SumFunctionOnSet(f, S) + SumFunctionOnSet(g, S)
<1> DEFINE Good == {T \in SUBSET S :
               SumFunctionOnSet(h, T) = SumFunctionOnSet(f, T) + SumFunctionOnSet(g, T)}
<1>1. ASSUME NEW T \in SUBSET S, NEW x \in T, T \ {x} \in Good
      PROVE  T \in Good
  <2>1. /\ IsFiniteSet(T) /\ IsFiniteSet(T \ {x})
        /\ \A y \in T : f[y] \in Int /\ g[y] \in Int /\ h[y] \in Int
    BY FS_Subset
  <2>2. SumFunctionOnSet(f, T) = f[x] + SumFunctionOnSet(f, T \ {x})
    BY <2>1, SumTakeOut
  <2>3. SumFunctionOnSet(g, T) = g[x] + SumFunctionOnSet(g, T \ {x})
    BY <2>1, SumTakeOut
  <2>4. SumFunctionOnSet(h, T) = h[x] + SumFunctionOnSet(h, T \ {x})
    BY <2>1, SumTakeOut
  <2>5. SumFunctionOnSet(f, T \ {x}) \in Int /\ SumFunctionOnSet(g, T \ {x}) \in Int
    BY <2>1, SumType
  <2>6. QED
    BY <1>1, <2>1, <2>2, <2>3, <2>4, <2>5
<1>2. {} \in Good
  BY SumEmpty
<1> HIDE DEF Good
<1>3. S \in Good
  BY <1>1, <1>2, ElementInduction
<1>4. QED
  BY <1>3 DEF Good

\* The sum of what is negated is negated.
LEMMA SumNegated ==
    ASSUME NEW f, NEW g, NEW S, IsFiniteSet(S),
           \A x \in S : f[x] \in Int /\ g[x] = -f[x]
    PROVE  SumFunctionOnSet(g, S) = -SumFunctionOnSet(f, S)
<1> DEFINE h == [x \in S |-> 0]
<1>1. \A x \in S : f[x] \in Int /\ g[x] \in Int /\ h[x] = f[x] + g[x] /\ h[x] = 0
  OBVIOUS
<1> HIDE DEF h
<1>2. SumFunctionOnSet(h, S) = SumFunctionOnSet(f, S) + SumFunctionOnSet(g, S)
  BY <1>1, SumAddsUp
<1>3. SumFunctionOnSet(h, S) = 0
  BY <1>1, SumZero
<1>4. SumFunctionOnSet(f, S) \in Int /\ SumFunctionOnSet(g, S) \in Int
  BY <1>1, SumType
<1>5. QED
  BY <1>2, <1>3, <1>4

\* A function that differs in one element differs by that in its sum.
LEMMA SumChanged ==
    ASSUME NEW f, NEW g, NEW S, IsFiniteSet(S), NEW x \in S,
           \A y \in S : f[y] \in Int /\ g[y] \in Int,
           \A y \in S \ {x} : g[y] = f[y]
    PROVE  SumFunctionOnSet(g, S) = SumFunctionOnSet(f, S) - f[x] + g[x]
<1>1. IsFiniteSet(S \ {x})
  BY FS_Subset
<1>2. SumFunctionOnSet(f, S \ {x}) = SumFunctionOnSet(g, S \ {x})
  BY <1>1, SumSame
<1>3. SumFunctionOnSet(f, S) = f[x] + SumFunctionOnSet(f, S \ {x})
  BY SumTakeOut
<1>4. SumFunctionOnSet(g, S) = g[x] + SumFunctionOnSet(g, S \ {x})
  BY SumTakeOut
<1>5. SumFunctionOnSet(f, S \ {x}) \in Int
  BY <1>1, SumType
<1>6. QED
  BY <1>2, <1>3, <1>4, <1>5

\* A sum is that of a part and of the rest.
LEMMA SumSplit ==
    ASSUME NEW f, NEW S, IsFiniteSet(S), \A x \in S : f[x] \in Int, NEW T \in SUBSET S
    PROVE  SumFunctionOnSet(f, S) =
               SumFunctionOnSet(f, T) + SumFunctionOnSet(f, S \ T)
<1> DEFINE Good == {U \in SUBSET T :
               SumFunctionOnSet(f, S) =
                   SumFunctionOnSet(f, U) + SumFunctionOnSet(f, S \ U)}
<1>0. IsFiniteSet(T)
  BY FS_Subset
<1>1. ASSUME NEW U \in SUBSET T, NEW x \in U, U \ {x} \in Good
      PROVE  U \in Good
  <2>1. /\ IsFiniteSet(U) /\ IsFiniteSet(U \ {x}) /\ IsFiniteSet(S \ U)
        /\ IsFiniteSet(S \ (U \ {x}))
        /\ \A y \in U : f[y] \in Int
        /\ x \in S \ (U \ {x}) /\ (S \ (U \ {x})) \ {x} = S \ U
    BY FS_Subset
  <2>2. SumFunctionOnSet(f, U) = f[x] + SumFunctionOnSet(f, U \ {x})
    BY <2>1, SumTakeOut
  <2>3. SumFunctionOnSet(f, S \ (U \ {x})) = f[x] + SumFunctionOnSet(f, S \ U)
    <3> DEFINE V == S \ (U \ {x})
    <3>1. /\ IsFiniteSet(V) /\ x \in V /\ V \ {x} = S \ U
          /\ \A y \in V : f[y] \in Int
      BY <2>1
    <3> HIDE DEF V
    <3>2. SumFunctionOnSet(f, V) = f[x] + SumFunctionOnSet(f, V \ {x})
      BY <3>1, SumTakeOut
    <3>3. QED
      BY <3>1, <3>2 DEF V
  <2>4. SumFunctionOnSet(f, U \ {x}) \in Int
    BY <2>1, SumType
  <2>5. SumFunctionOnSet(f, S \ U) \in Int
    BY <2>1, SumType
  <2>6. f[x] \in Int
    OBVIOUS
  <2>7. QED
    BY <1>1, <2>2, <2>3, <2>4, <2>5, <2>6
<1>2. {} \in Good
  <2>1. S \ {} = S /\ SumFunctionOnSet(f, S) \in Int
    BY SumType
  <2>2. QED
    BY <2>1, SumEmpty
<1> HIDE DEF Good
<1>3. T \in Good
  BY <1>0, <1>1, <1>2, ElementInduction
<1>4. QED
  BY <1>3 DEF Good

\* The elements of S under key k.
Under(key, S, k) == {x \in S : key[x] = k}

\* A sum is the sum, over the keys, of the sums under each key.
LEMMA SumByKey ==
    ASSUME NEW f, NEW S, IsFiniteSet(S), \A x \in S : f[x] \in Int,
           NEW K, IsFiniteSet(K), NEW key, \A x \in S : key[x] \in K,
           NEW g, \A k \in K : g[k] = SumFunctionOnSet(f, Under(key, S, k))
    PROVE  SumFunctionOnSet(f, S) = SumFunctionOnSet(g, K)
<1> DEFINE Part(T, k) == Under(key, T, k)
           Keyed(T) == [k \in K |-> SumFunctionOnSet(f, Part(T, k))]
           Good == {T \in SUBSET S :
               SumFunctionOnSet(f, T) = SumFunctionOnSet(Keyed(T), K)}
<1>0. \A T \in SUBSET S :
          /\ IsFiniteSet(T)
          /\ \A k \in K : IsFiniteSet(Part(T, k)) /\ Keyed(T)[k] \in Int
  <2>1. ASSUME NEW T \in SUBSET S
        PROVE  IsFiniteSet(T) /\ \A k \in K : IsFiniteSet(Part(T, k))
    <3>1. IsFiniteSet(T)
      BY FS_Subset
    <3>2. \A k \in K : Part(T, k) \in SUBSET T
      BY DEF Under
    <3> HIDE DEF Part
    <3>3. QED
      BY <3>1, <3>2, FS_Subset
  <2>2. ASSUME NEW T \in SUBSET S, NEW k \in K
        PROVE  SumFunctionOnSet(f, Part(T, k)) \in Int
    <3>1. IsFiniteSet(Part(T, k)) /\ \A x \in Part(T, k) : f[x] \in Int
      BY <2>1 DEF Under
    <3> HIDE DEF Part
    <3>2. QED
      BY <3>1, SumType
  <2> HIDE DEF Part
  <2>3. QED
    BY <2>1, <2>2
<1>1. ASSUME NEW T \in SUBSET S, NEW x \in T, T \ {x} \in Good
      PROVE  T \in Good
  <2> DEFINE U == T \ {x}
             k == key[x]
  <2>1. k \in K /\ U \in SUBSET S
    OBVIOUS
  <2>2. \A j \in K \ {k} : Part(T, j) = Part(U, j)
    BY DEF Under
  <2>3. x \in Part(T, k) /\ Part(T, k) \ {x} = Part(U, k)
    BY DEF Under
  <2>4. /\ \A y \in T : f[y] \in Int
        /\ \A y \in Part(T, k) : f[y] \in Int
        /\ IsFiniteSet(Part(T, k))
    BY <1>0, <2>1 DEF Under
  <2> HIDE DEF U, k, Part
  <2>5. Keyed(T)[k] = f[x] + Keyed(U)[k]
    <3>1. SumFunctionOnSet(f, Part(T, k)) = f[x] + SumFunctionOnSet(f, Part(T, k) \ {x})
      BY <2>3, <2>4, SumTakeOut
    <3>2. QED
      BY <2>1, <2>3, <3>1
  <2>6. \A j \in K \ {k} : Keyed(T)[j] = Keyed(U)[j]
    BY <2>2
  <2>7. \A j \in K : Keyed(U)[j] \in Int /\ Keyed(T)[j] \in Int
    BY <1>0, <2>1
  <2>8. SumFunctionOnSet(f, U) = SumFunctionOnSet(Keyed(U), K)
    BY <1>1 DEF U
  <2>9. SumFunctionOnSet(f, T) = f[x] + SumFunctionOnSet(f, U)
    BY <1>0, <2>4, SumTakeOut DEF U
  <2> HIDE DEF Keyed
  <2>10. SumFunctionOnSet(Keyed(T), K)
            = SumFunctionOnSet(Keyed(U), K) - Keyed(U)[k] + Keyed(T)[k]
    BY <2>1, <2>6, <2>7, SumChanged
  <2>11. SumFunctionOnSet(Keyed(U), K) \in Int
    BY <2>7, SumType
  <2>12. SumFunctionOnSet(f, T) = SumFunctionOnSet(Keyed(T), K)
    BY <2>1, <2>4, <2>5, <2>7, <2>8, <2>9, <2>10, <2>11
  <2>13. QED
    BY <2>12
<1>2. {} \in Good
  <2>1. \A k \in K : Part({}, k) = {}
    BY DEF Under
  <2> HIDE DEF Part
  <2>2. \A k \in K : Keyed({})[k] = 0
    BY <2>1, SumEmpty
  <2> HIDE DEF Keyed
  <2>3. SumFunctionOnSet(Keyed({}), K) = 0
    BY <2>2, SumZero
  <2>4. QED
    BY <2>3, SumEmpty
<1>3. S \in Good
  <2> HIDE DEF Good
  <2>1. QED
    BY <1>1, <1>2, ElementInduction
<1>4. \A k \in K : Keyed(S)[k] \in Int /\ Keyed(S)[k] = g[k]
  BY <1>0
<1>5. SumFunctionOnSet(f, S) = SumFunctionOnSet(Keyed(S), K)
  BY <1>3
<1> HIDE DEF Keyed
<1>6. QED
  BY <1>4, <1>5, SumSame

\* The sum over one element.
LEMMA SumSingle ==
    ASSUME NEW f, NEW x, f[x] \in Int
    PROVE  SumFunctionOnSet(f, {x}) = f[x]
<1>1. IsFiniteSet({x}) /\ {x} \ {x} = {} /\ \A y \in {x} : f[y] \in Int
  BY FS_Singleton
<1>2. SumFunctionOnSet(f, {x}) = f[x] + SumFunctionOnSet(f, {x} \ {x})
  BY <1>1, SumTakeOut
<1>3. QED
  BY <1>1, <1>2, SumEmpty

\* A sum over one set is the sum over another that matches it one to one.
LEMMA SumMoved ==
    ASSUME NEW f, NEW S, IsFiniteSet(S), \A x \in S : f[x] \in Int,
           NEW h, NEW T, IsFiniteSet(T), \A x \in S : h[x] \in T,
           \A x, y \in S : h[x] = h[y] => x = y,
           \A z \in T : \E x \in S : h[x] = z,
           NEW g, \A x \in S : g[h[x]] = f[x]
    PROVE  SumFunctionOnSet(f, S) = SumFunctionOnSet(g, T)
<1>1. ASSUME NEW z \in T
      PROVE  g[z] = SumFunctionOnSet(f, Under(h, S, z))
  <2>1. PICK x \in S : h[x] = z
    OBVIOUS
  <2>2. Under(h, S, z) = {x}
    BY <2>1 DEF Under
  <2>3. SumFunctionOnSet(f, {x}) = f[x]
    BY SumSingle
  <2>4. QED
    BY <2>1, <2>2, <2>3
<1>2. QED
  BY <1>1, SumByKey

-----------------------------------------------------------------------------
(* Payment references                                                      *)

\* What each position adds to the Luhn sum.
LuhnTerms(digits) ==
    [i \in DOMAIN digits |->
        IF (Len(digits) - i) % 2 = 0 THEN Doubled(digits[i]) ELSE digits[i]]

\* Two sums that differ by less than ten.
Close(s, t) == s # t /\ s - t < 10 /\ t - s < 10

\* Doubling a digit keeps it a digit, and two different digits different: a
\* digit that is doubled is told from any other.
LEMMA DoubledDigits ==
    /\ \A d \in Digit : Doubled(d) \in Digit
    /\ \A d, e \in Digit : Doubled(d) = Doubled(e) => d = e
BY DEF Doubled, Digit

\* Only 0 and 9 may change places, one of them doubled, without a trace.
LEMMA SwapsShow ==
    ASSUME NEW a \in Digit, NEW b \in Digit, a # b, {a, b} # {0, 9}
    PROVE  Close(Doubled(a) + b, Doubled(b) + a)
BY DEF Doubled, Digit, Close

\* Every position adds a digit.
LEMMA LuhnTermsType ==
    ASSUME NEW digits \in Seq(Digit)
    PROVE  /\ IsFiniteSet(DOMAIN digits)
           /\ DOMAIN LuhnTerms(digits) = DOMAIN digits
           /\ \A i \in DOMAIN digits : LuhnTerms(digits)[i] \in Digit
           /\ LuhnSum(digits) = SumFunctionOnSet(LuhnTerms(digits), DOMAIN digits)
           /\ LuhnSum(digits) \in Int
<1>1. IsFiniteSet(DOMAIN digits)
  <2>1. DOMAIN digits = 1 .. Len(digits) /\ Len(digits) \in Nat
    OBVIOUS
  <2>2. QED
    BY <2>1, FS_Interval
<1>2. DOMAIN LuhnTerms(digits) = DOMAIN digits
  BY DEF LuhnTerms
<1>3. ASSUME NEW i \in DOMAIN digits
      PROVE  LuhnTerms(digits)[i] \in Digit
  <2>1. digits[i] \in Digit
    OBVIOUS
  <2>2. QED
    BY <2>1, DoubledDigits DEF LuhnTerms
<1>4. LuhnSum(digits) = SumFunctionOnSet(LuhnTerms(digits), DOMAIN digits)
  BY <1>2 DEF LuhnSum, LuhnTerms, SumFunction
<1>5. \A i \in DOMAIN digits : LuhnTerms(digits)[i] \in Int
  BY <1>3 DEF Digit
<1>6. SumFunctionOnSet(LuhnTerms(digits), DOMAIN digits) \in Int
  BY <1>1, <1>5, SumType
<1>7. QED
  BY <1>1, <1>2, <1>3, <1>4, <1>6

\* A change of the sum by less than ten changes the check digit.
LEMMA CheckDigitTells ==
    ASSUME NEW s \in Int, NEW t \in Int, Close(s, t)
    PROVE  (10 - (t % 10)) % 10 # (10 - (s % 10)) % 10
BY DEF Close

\* The check digit is a digit.
LEMMA CheckDigitType ==
    ASSUME NEW digits \in Seq(Digit)
    PROVE  LuhnCheckDigit(digits) \in Digit
<1>1. LuhnSum(digits) \in Int
  BY LuhnTermsType
<1>2. QED
  BY <1>1 DEF LuhnCheckDigit, Digit

\* The control, position by position: the last digit but one tells the
\* length, the last is the check digit of all before it.
LEMMA Control ==
    ASSUME NEW typed \in Seq(Digit), Len(typed) >= 2
    PROVE  LET n    == Len(typed)
               body == SubSeq(typed, 1, n - 1)
           IN  /\ body \in Seq(Digit)
               /\ Len(body) = n - 1
               /\ \A i \in 1 .. n - 1 : body[i] = typed[i]
               /\ BankAccepts(typed) <=>
                     LuhnCheckDigit(body) = typed[n] /\ typed[n - 1] = n % 10
BY DEF BankAccepts, IsValidLuhn, Seqs!Front, Seqs!Last

\* The reference of an invoice number, and what the bank sees in it.
LEMMA ReferencePrinted ==
    ASSUME NEW digits \in Seq(Digit), digits # <<>>
    PROVE  LET reference == OcrReference(digits)
               n         == Len(digits) + 2
           IN  /\ reference \in Seq(Digit)
               /\ Len(reference) = n /\ n \in Nat /\ n >= 3
               /\ reference[n - 1] = n % 10
               /\ BankAccepts(reference)
<1> DEFINE n == Len(digits) + 2
           withLength == Append(digits, LengthDigit(digits))
           reference == Append(withLength, LuhnCheckDigit(withLength))
<1>1. n \in Nat /\ n >= 3 /\ LengthDigit(digits) = n % 10 /\ n % 10 \in Digit
  BY DEF LengthDigit, Digit
<1>2. /\ withLength \in Seq(Digit)
      /\ Len(withLength) = n - 1
      /\ withLength[n - 1] = n % 10
  BY <1>1
<1>3. LuhnCheckDigit(withLength) \in Digit
  BY <1>2, CheckDigitType
<1> HIDE DEF withLength
<1>4. /\ reference \in Seq(Digit)
      /\ Len(reference) = n
      /\ reference[n] = LuhnCheckDigit(withLength)
      /\ reference[n - 1] = n % 10
      /\ SubSeq(reference, 1, n - 1) = withLength
  BY <1>1, <1>2, <1>3
<1>5. OcrReference(digits) = reference
  BY DEF OcrReference, withLength
<1> HIDE DEF reference
<1>6. BankAccepts(reference)
  <2>1. n - 1 \in Nat /\ n >= 2
    BY <1>1
  <2> HIDE DEF n
  <2>2. QED
    BY <1>4, <2>1, Control
<1>7. QED
  BY <1>1, <1>4, <1>5, <1>6

\* What tells a length other than its own is refused.
LEMMA WrongLengthRefused ==
    ASSUME NEW typed \in Seq(Digit), Len(typed) >= 2,
           typed[Len(typed) - 1] # Len(typed) % 10
    PROVE  ~BankAccepts(typed)
BY Control

\* So is what has the check digit of a sum that it does not have.
LEMMA WrongSumRefused ==
    ASSUME NEW reference \in Seq(Digit), NEW typed \in Seq(Digit),
           Len(reference) >= 2, Len(typed) = Len(reference),
           BankAccepts(reference),
           typed[Len(typed)] = reference[Len(typed)],
           LET sum(s) == LuhnSum(SubSeq(s, 1, Len(s) - 1))
           IN  Close(sum(reference), sum(typed))
    PROVE  ~BankAccepts(typed)
<1> DEFINE a == SubSeq(reference, 1, Len(reference) - 1)
           b == SubSeq(typed, 1, Len(typed) - 1)
<1>1. a \in Seq(Digit) /\ b \in Seq(Digit)
  BY Control
<1>2. LuhnSum(a) \in Int /\ LuhnSum(b) \in Int
  BY <1>1, LuhnTermsType
<1>3. Close(LuhnSum(a), LuhnSum(b))
  OBVIOUS
<1>4. LuhnCheckDigit(a) = reference[Len(reference)]
  BY Control
<1>5. BankAccepts(typed) => LuhnCheckDigit(b) = typed[Len(typed)]
  BY Control
<1> HIDE DEF a, b
<1>6. LuhnCheckDigit(b) # LuhnCheckDigit(a)
  BY <1>2, <1>3, CheckDigitTells DEF LuhnCheckDigit
<1>7. QED
  BY <1>4, <1>5, <1>6

\* One digit of a sum that differs changes it by less than ten.
LEMMA OneDigitShows ==
    ASSUME NEW f, NEW g, NEW S, IsFiniteSet(S), NEW x \in S,
           \A z \in S : f[z] \in Digit /\ g[z] \in Digit,
           \A z \in S \ {x} : g[z] = f[z],
           g[x] # f[x]
    PROVE  Close(SumFunctionOnSet(f, S), SumFunctionOnSet(g, S))
<1>1. \A z \in S : f[z] \in Int /\ g[z] \in Int
  BY DEF Digit
<1>2. SumFunctionOnSet(g, S) = SumFunctionOnSet(f, S) - f[x] + g[x]
  BY <1>1, SumChanged
<1>3. SumFunctionOnSet(f, S) \in Int
  BY <1>1, SumType
<1>4. PICK d, e : d = f[x] /\ e = g[x]
  OBVIOUS
<1>5. d \in 0 .. 9 /\ e \in 0 .. 9 /\ d # e
  BY <1>4 DEF Digit
<1>6. SumFunctionOnSet(g, S) = SumFunctionOnSet(f, S) - d + e
  BY <1>2, <1>4
<1>7. QED
  BY <1>3, <1>5, <1>6 DEF Close

\* Two that differ change it as the two together do.
LEMMA TwoDigitsShow ==
    ASSUME NEW f, NEW g, NEW S, IsFiniteSet(S), NEW x \in S, NEW y \in S, x # y,
           \A z \in S : f[z] \in Digit /\ g[z] \in Digit,
           \A z \in S \ {x, y} : g[z] = f[z],
           Close(f[x] + f[y], g[x] + g[y])
    PROVE  Close(SumFunctionOnSet(f, S), SumFunctionOnSet(g, S))
<1> DEFINE h == [z \in S |-> IF z = x THEN g[x] ELSE f[z]]
<1>1. \A z \in S : f[z] \in Int /\ g[z] \in Int /\ h[z] \in Int
  BY DEF Digit
<1>2. /\ \A z \in S \ {x} : h[z] = f[z]
      /\ \A z \in S \ {y} : g[z] = h[z]
      /\ h[x] = g[x] /\ h[y] = f[y]
  OBVIOUS
<1> HIDE DEF h
<1>3. SumFunctionOnSet(h, S) = SumFunctionOnSet(f, S) - f[x] + h[x]
  BY <1>1, <1>2, SumChanged
<1>4. SumFunctionOnSet(g, S) = SumFunctionOnSet(h, S) - h[y] + g[y]
  BY <1>1, <1>2, SumChanged
<1>5. SumFunctionOnSet(f, S) \in Int
  BY <1>1, SumType
<1>6. QED
  BY <1>1, <1>2, <1>3, <1>4, <1>5 DEF Close

\* One digit of a body that differs shows in its Luhn sum.
LEMMA WrongDigitShows ==
    ASSUME NEW a \in Seq(Digit), NEW b \in Seq(Digit), Len(a) = Len(b),
           NEW i \in 1 .. Len(a), a[i] # b[i],
           \A j \in 1 .. Len(a) : j # i => a[j] = b[j]
    PROVE  Close(LuhnSum(a), LuhnSum(b))
<1>1. DOMAIN a = 1 .. Len(a) /\ DOMAIN b = DOMAIN a /\ Len(a) \in Nat
  OBVIOUS
<1>2. PICK f, g, S : f = LuhnTerms(a) /\ g = LuhnTerms(b) /\ S = DOMAIN a
  OBVIOUS
<1>3. /\ IsFiniteSet(S) /\ \A j \in S : f[j] \in Digit /\ g[j] \in Digit
      /\ LuhnSum(a) = SumFunctionOnSet(f, S)
      /\ LuhnSum(b) = SumFunctionOnSet(g, S)
  BY <1>1, <1>2, LuhnTermsType
<1>4. \A j \in S \ {i} : g[j] = f[j]
  BY <1>1, <1>2 DEF LuhnTerms
<1>5. g[i] # f[i]
  <2>1. a[i] \in Digit /\ b[i] \in Digit
    BY <1>1
  <2>2. QED
    BY <1>1, <1>2, <2>1, DoubledDigits DEF LuhnTerms
<1>6. i \in S
  BY <1>1, <1>2
<1>7. Close(SumFunctionOnSet(f, S), SumFunctionOnSet(g, S))
  BY <1>3, <1>4, <1>5, <1>6, OneDigitShows
<1>8. QED
  BY <1>3, <1>7

\* Of two neighbours one is doubled.
LEMMA Parity ==
    ASSUME NEW n \in Int, NEW i \in Int
    PROVE  (n - (i - 1)) % 2 = 0 <=> (n - i) % 2 # 0
<1>1. PICK k \in Int : k = n - i
  OBVIOUS
<1>2. n - (i - 1) = k + 1 /\ n - i = k
  BY <1>1
<1>3. (k + 1) % 2 = 0 <=> k % 2 # 0
  OBVIOUS
<1>4. QED
  BY <1>2, <1>3

\* So do two neighbours that changed places, unless they are 0 and 9: one of
\* them is doubled and the other not.
LEMMA SwapShows ==
    ASSUME NEW a \in Seq(Digit), NEW b \in Seq(Digit), Len(a) = Len(b),
           NEW i \in 2 .. Len(a), a[i - 1] # a[i], {a[i - 1], a[i]} # {0, 9},
           b[i] = a[i - 1], b[i - 1] = a[i],
           \A j \in 1 .. Len(a) : j \notin {i - 1, i} => a[j] = b[j]
    PROVE  Close(LuhnSum(a), LuhnSum(b))
<1>0. (Len(a) - (i - 1)) % 2 = 0 <=> (Len(a) - i) % 2 # 0
  <2>1. Len(a) \in Int /\ i \in Int
    OBVIOUS
  <2>2. QED
    BY <2>1, Parity
<1>1. /\ DOMAIN a = 1 .. Len(a) /\ DOMAIN b = DOMAIN a /\ Len(a) \in Nat
      /\ i \in DOMAIN a /\ i - 1 \in DOMAIN a /\ i \in Int /\ i - 1 # i
  OBVIOUS
<1>2. PICK f, g, S : f = LuhnTerms(a) /\ g = LuhnTerms(b) /\ S = DOMAIN a
  OBVIOUS
<1>3. /\ IsFiniteSet(S) /\ \A j \in S : f[j] \in Digit /\ g[j] \in Digit
      /\ LuhnSum(a) = SumFunctionOnSet(f, S)
      /\ LuhnSum(b) = SumFunctionOnSet(g, S)
  BY <1>1, <1>2, LuhnTermsType
<1>4. \A j \in S \ {i - 1, i} : g[j] = f[j]
  BY <1>1, <1>2 DEF LuhnTerms
<1>5. PICK p, q : p = a[i - 1] /\ q = a[i]
  OBVIOUS
<1>6. p \in Digit /\ q \in Digit /\ p # q /\ {p, q} # {0, 9} /\ {q, p} # {0, 9}
  <2>1. a[i] \in Digit /\ a[i - 1] \in Digit
    BY <1>1
  <2>2. {q, p} = {p, q}
    OBVIOUS
  <2>3. QED
    BY <1>5, <2>1, <2>2
<1>7. /\ p \in Int /\ q \in Int /\ Doubled(p) \in Int /\ Doubled(q) \in Int
  BY <1>6, DoubledDigits, SMTT(20) DEF Digit
<1>8. Close(Doubled(p) + q, Doubled(q) + p) /\ Close(Doubled(q) + p, Doubled(p) + q)
  BY <1>6, SwapsShow
<1>9. Close(f[i - 1] + f[i], g[i - 1] + g[i])
  <2>1. CASE (Len(a) - i) % 2 = 0
    <3>1. (Len(a) - (i - 1)) % 2 # 0
      BY <2>1, <1>0
    <3>2. f[i] = Doubled(q) /\ f[i - 1] = p /\ g[i] = Doubled(p) /\ g[i - 1] = q
      BY <1>1, <1>2, <1>5, <2>1, <3>1 DEF LuhnTerms
    <3>3. f[i - 1] + f[i] = Doubled(q) + p /\ g[i - 1] + g[i] = Doubled(p) + q
      BY <1>7, <3>2
    <3>4. QED
      BY <1>8, <3>3
  <2>2. CASE (Len(a) - i) % 2 # 0
    <3>1. (Len(a) - (i - 1)) % 2 = 0
      BY <2>2, <1>0
    <3>2. f[i] = q /\ f[i - 1] = Doubled(p) /\ g[i] = p /\ g[i - 1] = Doubled(q)
      BY <1>1, <1>2, <1>5, <2>2, <3>1 DEF LuhnTerms
    <3>3. f[i - 1] + f[i] = Doubled(p) + q /\ g[i - 1] + g[i] = Doubled(q) + p
      BY <1>7, <3>2
    <3>4. QED
      BY <1>8, <3>3
  <2>3. QED
    BY <2>1, <2>2
<1>10. i \in S /\ i - 1 \in S
  BY <1>1, <1>2
<1>11. Close(SumFunctionOnSet(f, S), SumFunctionOnSet(g, S))
  BY <1>1, <1>3, <1>4, <1>9, <1>10, TwoDigitsShow
<1>12. QED
  BY <1>3, <1>11

\* A reference as far as a mistake in it is concerned: a body, whose last
\* digit tells the length, and a check digit.
Printed(reference, n, body) ==
    /\ reference \in Seq(Digit) /\ Len(reference) = n /\ n \in Nat /\ n >= 3
    /\ reference[n - 1] = n % 10
    /\ BankAccepts(reference)
    /\ body \in Seq(Digit) /\ Len(body) = n - 1
    /\ body = SubSeq(reference, 1, n - 1)
    /\ \A i \in 1 .. n - 1 : body[i] = reference[i]
    /\ \A i \in 1 .. n : reference[i] \in Digit

\* A digit typed wrong is noticed, wherever it is.
LEMMA WrongDigitCaught ==
    ASSUME NEW reference, NEW n, NEW body, Printed(reference, n, body),
           NEW entered \in Seq(Digit), Len(entered) = n,
           NEW i \in 1 .. n, entered[i] # reference[i],
           \A j \in 1 .. n : j # i => entered[j] = reference[j]
    PROVE  ~BankAccepts(entered)
<1> USE DEF Printed
<1>1. PICK part : part = SubSeq(entered, 1, n - 1)
  OBVIOUS
<1>2. /\ part \in Seq(Digit) /\ Len(part) = n - 1
      /\ \A j \in 1 .. n - 1 : part[j] = entered[j]
      /\ BankAccepts(entered) => LuhnCheckDigit(part) = entered[n]
  BY <1>1, Control
<1>3. CASE i = n
  <2>1. \A j \in 1 .. n - 1 : part[j] = body[j]
    BY <1>2, <1>3
  <2>2. part = body
    BY <1>2, <2>1
  <2>3. LuhnCheckDigit(body) = reference[n]
    BY Control
  <2>4. QED
    BY <1>2, <1>3, <2>2, <2>3
<1>4. CASE i = n - 1
  BY <1>4, WrongLengthRefused
<1>5. CASE i \in 1 .. n - 2
  <2>1. /\ i \in 1 .. Len(body) /\ body[i] # part[i] /\ Len(part) = Len(body)
        /\ \A j \in 1 .. Len(body) : j # i => body[j] = part[j]
    BY <1>2, <1>5
  <2>2. Close(LuhnSum(body), LuhnSum(part))
    BY <1>2, <2>1, WrongDigitShows
  <2>3. entered[n] = reference[n]
    BY <1>5
  <2>4. QED
    BY <1>1, <2>2, <2>3, WrongSumRefused
<1>6. QED
  BY <1>3, <1>4, <1>5

\* So are two neighbours that were swapped.
LEMMA SwapCaught ==
    ASSUME NEW reference, NEW n, NEW body, Printed(reference, n, body),
           NEW entered \in Seq(Digit), Len(entered) = n,
           NEW i \in 2 .. n, reference[i - 1] # reference[i],
           {reference[i - 1], reference[i]} # {0, 9},
           entered[i] = reference[i - 1], entered[i - 1] = reference[i],
           \A j \in 1 .. n : j \notin {i - 1, i} => entered[j] = reference[j]
    PROVE  ~BankAccepts(entered)
<1> USE DEF Printed
<1>1. CASE i \in {n - 1, n}
  <2>1. entered[n - 1] # n % 10
    BY <1>1
  <2>2. QED
    BY <2>1, WrongLengthRefused
<1>2. CASE i \in 2 .. n - 2
  <2>1. PICK part : part = SubSeq(entered, 1, n - 1)
    OBVIOUS
  <2>2. /\ part \in Seq(Digit) /\ Len(part) = n - 1
        /\ \A j \in 1 .. n - 1 : part[j] = entered[j]
    BY <2>1, Control
  <2>3. /\ body[i - 1] = reference[i - 1] /\ body[i] = reference[i]
        /\ i \in 2 .. Len(body) /\ body \in Seq(Digit)
        /\ body[i - 1] # body[i] /\ {body[i - 1], body[i]} # {0, 9}
    <3>1. body[i - 1] = reference[i - 1] /\ body[i] = reference[i]
      BY <1>2
    <3>2. i \in 2 .. Len(body) /\ body \in Seq(Digit)
      BY <1>2
    <3>3. QED
      BY <3>1, <3>2
  <2>4. part[i] = body[i - 1] /\ part[i - 1] = body[i] /\ Len(part) = Len(body)
    BY <1>2, <2>2, <2>3
  <2>5. \A j \in 1 .. Len(body) : j \notin {i - 1, i} => body[j] = part[j]
    BY <1>2, <2>2
  <2>6. Close(LuhnSum(body), LuhnSum(part))
    BY <2>2, <2>3, <2>4, <2>5, SwapShows
  <2>7. entered[n] = reference[n]
    BY <1>2
  <2>8. QED
    BY <2>1, <2>6, <2>7, WrongSumRefused, SMTT(20)
<1>3. QED
  BY <1>1, <1>2

\* A digit of the number left out or added leaves the wrong length behind.
LEMMA WrongLengthCaught ==
    ASSUME NEW reference, NEW n, NEW body, Printed(reference, n, body),
           NEW i \in 1 .. n - 2, NEW digit \in Digit
    PROVE  /\ ~BankAccepts(Seqs!RemoveAt(reference, i))
           /\ ~BankAccepts(Seqs!InsertAt(reference, i, digit))
<1> USE DEF Printed
<1>1. PICK head, from, rest : /\ head = SubSeq(reference, 1, i - 1)
                              /\ from = SubSeq(reference, i, n)
                              /\ rest = SubSeq(reference, i + 1, n)
  OBVIOUS
<1>2. /\ head \in Seq(Digit) /\ Len(head) = i - 1
      /\ from \in Seq(Digit) /\ Len(from) = n - i + 1
      /\ rest \in Seq(Digit) /\ Len(rest) = n - i
      /\ from[n - i] = reference[n - 1]
      /\ rest[n - i - 1] = reference[n - 1]
  BY <1>1, SMTT(20)
<1>3. PICK shorter : shorter = head \o rest
  OBVIOUS
<1>4. /\ shorter \in Seq(Digit) /\ Len(shorter) = n - 1
      /\ shorter[n - 2] = reference[n - 1]
  BY <1>2, <1>3, SMTT(20)
<1>5. PICK longer : longer = head \o <<digit>> \o from
  OBVIOUS
<1>6. /\ longer \in Seq(Digit) /\ Len(longer) = n + 1
      /\ longer[n] = reference[n - 1]
  BY <1>2, <1>5, SMTT(20)
<1>7. n % 10 # (n - 1) % 10 /\ n % 10 # (n + 1) % 10
  OBVIOUS
<1>8. ~BankAccepts(shorter)
  BY <1>4, <1>7, WrongLengthRefused
<1>9. ~BankAccepts(longer)
  BY <1>6, <1>7, WrongLengthRefused
<1>10. QED
  BY <1>1, <1>3, <1>5, <1>8, <1>9 DEF Seqs!RemoveAt, Seqs!InsertAt

\* Whatever the invoice number, its payment reference is taken as printed and
\* refused with a single mistake: a digit wrong anywhere, one of the number
\* left out or added, or two neighbours swapped, 0 and 9 excepted.
THEOREM MistakesCaught ==
    ASSUME NEW digits \in Seq(Digit), digits # <<>>
    PROVE  CatchesMistakes(OcrReference(digits))
<1>1. PICK reference, n, body : /\ reference = OcrReference(digits)
                                /\ n = Len(reference)
                                /\ body = SubSeq(reference, 1, n - 1)
  OBVIOUS
<1>2. Printed(reference, n, body)
  <2>1. /\ reference \in Seq(Digit) /\ n \in Nat /\ n >= 3
        /\ reference[n - 1] = n % 10 /\ BankAccepts(reference)
    BY <1>1, ReferencePrinted
  <2>2. /\ body \in Seq(Digit) /\ Len(body) = n - 1
        /\ \A i \in 1 .. n - 1 : body[i] = reference[i]
    <3>1. Len(reference) = n /\ n >= 2
      BY <1>1, <2>1
    <3>2. QED
      BY <1>1, <2>1, <3>1, Control
  <2>3. QED
    BY <1>1, <2>1, <2>2 DEF Printed
<1>3. reference \in Seq(Digit) /\ DOMAIN reference = 1 .. n /\ n \in Nat /\ n = Len(reference)
  BY <1>2 DEF Printed
<1>4. ASSUME NEW i \in 1 .. n, NEW typed \in Digit \ {0}
      PROVE  ~BankAccepts([reference EXCEPT ![i] = (@ + typed) % 10])
  <2>1. PICK wrong : wrong = (reference[i] + typed) % 10
    OBVIOUS
  <2>2. wrong \in Digit /\ wrong # reference[i]
    <3>1. PICK r : r = reference[i]
      OBVIOUS
    <3>2. r \in 0 .. 9 /\ typed \in 1 .. 9
      BY <1>3, <3>1 DEF Digit
    <3>3. (r + typed) % 10 \in 0 .. 9 /\ (r + typed) % 10 # r
      BY <3>2
    <3>4. QED
      BY <2>1, <3>1, <3>3 DEF Digit
  <2>3. PICK entered : entered = [reference EXCEPT ![i] = wrong]
    OBVIOUS
  <2>4. /\ entered \in Seq(Digit) /\ Len(entered) = n /\ entered[i] = wrong
        /\ \A j \in 1 .. n : j # i => entered[j] = reference[j]
    BY <1>3, <2>2, <2>3
  <2>5. ~BankAccepts(entered)
    BY <1>2, <2>2, <2>4, WrongDigitCaught
  <2>6. QED
    BY <2>1, <2>3, <2>5
<1>5. ASSUME NEW i \in 1 .. n - 2
      PROVE  /\ ~BankAccepts(Seqs!RemoveAt(reference, i))
             /\ \A digit \in Digit : ~BankAccepts(Seqs!InsertAt(reference, i, digit))
  <2>1. 0 \in Digit
    BY DEF Digit
  <2>2. QED
    BY <1>2, <2>1, WrongLengthCaught
<1>6. ASSUME NEW i \in 2 .. n, reference[i - 1] # reference[i],
             {reference[i - 1], reference[i]} # {0, 9}
      PROVE  ~BankAccepts([reference EXCEPT ![i] = reference[i - 1],
                                            ![i - 1] = reference[i]])
  <2>1. PICK entered : entered = [reference EXCEPT ![i] = reference[i - 1],
                                                   ![i - 1] = reference[i]]
    OBVIOUS
  <2>2. /\ entered \in Seq(Digit) /\ Len(entered) = n
        /\ entered[i] = reference[i - 1] /\ entered[i - 1] = reference[i]
        /\ \A j \in 1 .. n : j \notin {i - 1, i} => entered[j] = reference[j]
    BY <1>3, <2>1
  <2>3. ~BankAccepts(entered)
    BY <1>2, <1>6, <2>2, SwapCaught, ZenonT(30)
  <2>4. QED
    BY <2>1, <2>3
<1>7. BankAccepts(reference)
  BY <1>2 DEF Printed
<1>8. (1 .. n) \ {1} = 2 .. n
  BY <1>3
<1>9. QED
  BY <1>1, <1>3, <1>4, <1>5, <1>6, <1>7, <1>8 DEF CatchesMistakes

-----------------------------------------------------------------------------
(* The lines of an invoice, and their totals by rate                       *)

LineItem == [quantity: Int, unitPriceOre: Int, vatRate: VatRates]

\* A list of lines: what Money's operators are applied to.
LineList(lines) ==
    IsFiniteSet(DOMAIN lines) /\ \A i \in DOMAIN lines : lines[i] \in LineItem

NetAt(lines) == [i \in DOMAIN lines |-> Calculated(lines)[i].netOre]
VatAt(lines) == [i \in DOMAIN lines |-> Calculated(lines)[i].vatOre]

TotalsOf(lines) == SumLines(Calculated(lines))

\* The lines of one rate, which the VAT return and the SIE file total.
AtRate(lines, rate) == RestrictValues(lines, LAMBDA item : item.vatRate = rate)
RateTotals(lines, rate) == TotalsOf(AtRate(lines, rate))

\* There are finitely many rates.
LEMMA RatesFinite == IsFiniteSet(VatRates)
<1> DEFINE upTo(n) == 0 .. n
<1>1. \A n \in Nat : IsFiniteSet(upTo(n))
  BY FS_Interval
<1>2. VatRates \in SUBSET upTo(2500)
  BY DEF VatRates
<1> HIDE DEF upTo
<1>3. IsFiniteSet(upTo(2500))
  BY <1>1
<1>4. QED
  BY <1>2, <1>3, FS_Subset

\* A line's figures are integers, and a line without VAT has none.
LEMMA LineFigures ==
    ASSUME NEW lines, LineList(lines), NEW i \in DOMAIN lines
    PROVE  /\ NetAt(lines)[i] \in Int /\ VatAt(lines)[i] \in Int
           /\ lines[i].vatRate = 0 => VatAt(lines)[i] = 0
<1> DEFINE net == lines[i].quantity * lines[i].unitPriceOre
           rate == lines[i].vatRate
<1>1. lines[i].quantity \in Int /\ lines[i].unitPriceOre \in Int /\ rate \in VatRates
  BY DEF LineList, LineItem
<1>2. net \in Int /\ net * rate \in Int
  BY <1>1 DEF VatRates
<1>3. NetAt(lines)[i] = net /\ VatAt(lines)[i] = RoundOre(net * rate, 10000)
  BY DEF NetAt, VatAt, Calculated, CalculateLine
<1>4. \A n \in Int : RoundOre(n, 10000) \in Int
  BY RoundHalfUpType DEF RoundOre
<1>5. rate = 0 => net * rate = 0
  BY <1>1, <1>2
<1>6. RoundOre(0, 10000) = 0
  BY DEF RoundOre, RoundHalfUp
<1> HIDE DEF net, rate
<1>7. QED
  BY <1>2, <1>3, <1>4, <1>5, <1>6 DEF rate

\* The totals of a list are the sums of its lines' figures: integers.
LEMMA TotalsAreSums ==
    ASSUME NEW lines, LineList(lines)
    PROVE  /\ TotalsOf(lines).netTotalOre = SumFunctionOnSet(NetAt(lines), DOMAIN lines)
           /\ TotalsOf(lines).vatTotalOre = SumFunctionOnSet(VatAt(lines), DOMAIN lines)
           /\ TotalsOf(lines).grossTotalOre =
                TotalsOf(lines).netTotalOre + TotalsOf(lines).vatTotalOre
           /\ TotalsOf(lines).netTotalOre \in Int /\ TotalsOf(lines).vatTotalOre \in Int
<1>1. /\ DOMAIN Calculated(lines) = DOMAIN lines
      /\ DOMAIN NetAt(lines) = DOMAIN lines /\ DOMAIN VatAt(lines) = DOMAIN lines
  BY DEF Calculated, NetAt, VatAt
<1>2. TotalsOf(lines) =
        [netTotalOre |-> SumFunction(NetAt(lines)),
         vatTotalOre |-> SumFunction(VatAt(lines)),
         grossTotalOre |-> SumFunction(NetAt(lines)) + SumFunction(VatAt(lines))]
  BY <1>1 DEF TotalsOf, SumLines, NetAt, VatAt
<1>3. /\ SumFunction(NetAt(lines)) = SumFunctionOnSet(NetAt(lines), DOMAIN lines)
      /\ SumFunction(VatAt(lines)) = SumFunctionOnSet(VatAt(lines), DOMAIN lines)
  BY <1>1 DEF SumFunction
<1>4. /\ IsFiniteSet(DOMAIN lines)
      /\ \A i \in DOMAIN lines : NetAt(lines)[i] \in Int /\ VatAt(lines)[i] \in Int
  BY LineFigures DEF LineList
<1>5. /\ SumFunctionOnSet(NetAt(lines), DOMAIN lines) \in Int
      /\ SumFunctionOnSet(VatAt(lines), DOMAIN lines) \in Int
  BY <1>4, SumType
<1>6. QED
  BY <1>2, <1>3, <1>5

\* On an invoice of any lines and however late it is, every figure is the
\* integer nearest to what it is defined to be.
THEOREM FiguresNearest ==
    ASSUME NEW lines, LineList(lines), NEW days \in Nat
    PROVE  NearestFigures(lines, days)
<1>1. ASSUME NEW i \in DOMAIN lines
      PROVE  LET line == Calculated(lines)[i]
             IN  IsNearest(line.vatOre, line.netOre * lines[i].vatRate, 10000)
  <2>1. PICK quantity, price, rate : /\ quantity = lines[i].quantity
                                     /\ price = lines[i].unitPriceOre
                                     /\ rate = lines[i].vatRate
    OBVIOUS
  <2>2. quantity \in Int /\ price \in Int /\ rate \in Nat
    BY <2>1 DEF LineList, LineItem, VatRates
  <2>3. Calculated(lines)[i] = CalculateLine(quantity, price, rate)
    BY <2>1 DEF Calculated
  <2>4. \A q \in Int, p \in Int, r \in Nat :
            IsNearest(CalculateLine(q, p, r).vatOre, CalculateLine(q, p, r).netOre * r, 10000)
    BY VatIsNearest
  <2>5. IsNearest(CalculateLine(quantity, price, rate).vatOre,
                  CalculateLine(quantity, price, rate).netOre * rate, 10000)
    BY <2>2, <2>4
  <2>6. QED
    BY <2>1, <2>3, <2>5
<1>2. PICK gross : gross = TotalsOf(lines).grossTotalOre
  OBVIOUS
<1>3. gross \in Int
  BY <1>2, TotalsAreSums
<1>4. gross > 0 => IsNearest(CalculateLateInterest(gross, days), gross * days, 3650)
  BY <1>3, InterestIsNearest
<1>5. QED
  BY <1>1, <1>2, <1>4 DEF NearestFigures, TotalsOf

\* The lines of a rate are those of the whole that have it.
LEMMA RateLines ==
    ASSUME NEW lines, LineList(lines), NEW rate
    PROVE  /\ DOMAIN AtRate(lines, rate) = {i \in DOMAIN lines : lines[i].vatRate = rate}
           /\ \A i \in DOMAIN AtRate(lines, rate) :
                i \in DOMAIN lines /\ AtRate(lines, rate)[i] = lines[i]
           /\ LineList(AtRate(lines, rate))
<1> DEFINE those == {i \in DOMAIN lines : lines[i].vatRate = rate}
<1>1. AtRate(lines, rate) = [i \in those |-> lines[i]]
  BY DEF AtRate, RestrictValues, Restrict
<1>2. IsFiniteSet(those)
  BY FS_Subset DEF LineList
<1>3. \A i \in those : i \in DOMAIN lines /\ lines[i] \in LineItem
  BY DEF LineList
<1> HIDE DEF those
<1>4. DOMAIN AtRate(lines, rate) = those /\ \A i \in those : AtRate(lines, rate)[i] = lines[i]
  BY <1>1
<1>5. LineList(AtRate(lines, rate))
  BY <1>2, <1>3, <1>4 DEF LineList
<1>6. QED
  BY <1>3, <1>4, <1>5 DEF those

\* Each of them has its figures from the whole.
LEMMA RateFigures ==
    ASSUME NEW lines, LineList(lines), NEW rate, NEW i \in DOMAIN AtRate(lines, rate)
    PROVE  /\ NetAt(AtRate(lines, rate))[i] = NetAt(lines)[i]
           /\ VatAt(AtRate(lines, rate))[i] = VatAt(lines)[i]
<1> DEFINE some == AtRate(lines, rate)
<1>1. i \in DOMAIN some /\ i \in DOMAIN lines /\ some[i] = lines[i]
  BY RateLines
<1> HIDE DEF some
<1>2. NetAt(some)[i] = NetAt(lines)[i] /\ VatAt(some)[i] = VatAt(lines)[i]
  BY <1>1 DEF NetAt, VatAt, Calculated
<1>3. QED
  BY <1>2 DEF some

\* The rates of a document add up to its totals: what the VAT return and the
\* SIE file say of an invoice, rate by rate, is what its customer is asked
\* for, for any lines; and the lines without VAT have none.
THEOREM RatesAddUp ==
    ASSUME NEW lines, LineList(lines)
    PROVE  LET net == [rate \in VatRates |-> RateTotals(lines, rate).netTotalOre]
               vat == [rate \in VatRates |-> RateTotals(lines, rate).vatTotalOre]
           IN  /\ SumFunctionOnSet(net, VatRates) = TotalsOf(lines).netTotalOre
               /\ SumFunctionOnSet(vat, VatRates) = TotalsOf(lines).vatTotalOre
               /\ \A rate \in VatRates : net[rate] \in Int /\ vat[rate] \in Int
               /\ vat[0] = 0
<1> DEFINE net == [rate \in VatRates |-> RateTotals(lines, rate).netTotalOre]
           vat == [rate \in VatRates |-> RateTotals(lines, rate).vatTotalOre]
           rateOf == [i \in DOMAIN lines |-> lines[i].vatRate]
<1>1. /\ IsFiniteSet(DOMAIN lines)
      /\ \A i \in DOMAIN lines : NetAt(lines)[i] \in Int /\ VatAt(lines)[i] \in Int
      /\ \A i \in DOMAIN lines : rateOf[i] \in VatRates
  BY LineFigures DEF LineList, LineItem
<1>2. IsFiniteSet(VatRates)
  BY RatesFinite
<1>3. ASSUME NEW rate \in VatRates
      PROVE  /\ net[rate] = SumFunctionOnSet(NetAt(lines), Under(rateOf, DOMAIN lines, rate))
             /\ vat[rate] = SumFunctionOnSet(VatAt(lines), Under(rateOf, DOMAIN lines, rate))
             /\ net[rate] \in Int /\ vat[rate] \in Int
             /\ rate = 0 => vat[rate] = 0
  <2> DEFINE some == AtRate(lines, rate)
             those == DOMAIN some
  <2>1. /\ LineList(some)
        /\ those = Under(rateOf, DOMAIN lines, rate)
        /\ \A i \in those : /\ i \in DOMAIN lines /\ some[i] = lines[i]
                            /\ lines[i].vatRate = rate
                            /\ NetAt(some)[i] = NetAt(lines)[i]
                            /\ VatAt(some)[i] = VatAt(lines)[i]
    <3>1. Under(rateOf, DOMAIN lines, rate) = {i \in DOMAIN lines : lines[i].vatRate = rate}
      BY DEF Under
    <3>2. LineList(some)
      BY RateLines
    <3>3. those = {i \in DOMAIN lines : lines[i].vatRate = rate}
      BY RateLines, ZenonT(30)
    <3>4. ASSUME NEW i \in those
          PROVE  /\ some[i] = lines[i]
                 /\ NetAt(some)[i] = NetAt(lines)[i]
                 /\ VatAt(some)[i] = VatAt(lines)[i]
      <4>1. some[i] = lines[i]
        BY RateLines
      <4>2. NetAt(some)[i] = NetAt(lines)[i] /\ VatAt(some)[i] = VatAt(lines)[i]
        BY RateFigures
      <4>3. QED
        BY <4>1, <4>2
    <3>5. \A i \in those : i \in DOMAIN lines /\ lines[i].vatRate = rate
      BY <3>3
    <3> HIDE DEF some
    <3>6. QED
      BY <3>1, <3>2, <3>3, <3>4, <3>5
  <2>2. /\ net[rate] = TotalsOf(some).netTotalOre
        /\ vat[rate] = TotalsOf(some).vatTotalOre
    BY DEF RateTotals
  <2> HIDE DEF some, net, vat
  <2>3. /\ net[rate] = SumFunctionOnSet(NetAt(some), those) /\ net[rate] \in Int
        /\ vat[rate] = SumFunctionOnSet(VatAt(some), those) /\ vat[rate] \in Int
    BY <2>1, <2>2, TotalsAreSums
  <2>4. /\ IsFiniteSet(those)
        /\ \A i \in those : NetAt(some)[i] \in Int /\ VatAt(some)[i] \in Int
    BY <1>1, <2>1 DEF LineList
  <2>5. /\ SumFunctionOnSet(NetAt(some), those) = SumFunctionOnSet(NetAt(lines), those)
        /\ SumFunctionOnSet(VatAt(some), those) = SumFunctionOnSet(VatAt(lines), those)
    BY <2>1, <2>4, SumSame
  <2>6. rate = 0 => SumFunctionOnSet(VatAt(some), those) = 0
    <3>1. rate = 0 => \A i \in those : VatAt(some)[i] = 0
      BY <2>1, LineFigures
    <3>2. QED
      BY <2>4, <3>1, SumZero
  <2>7. QED
    BY <2>1, <2>3, <2>5, <2>6
<1> HIDE DEF net, vat, rateOf
<1>4. /\ SumFunctionOnSet(NetAt(lines), DOMAIN lines) = SumFunctionOnSet(net, VatRates)
      /\ SumFunctionOnSet(VatAt(lines), DOMAIN lines) = SumFunctionOnSet(vat, VatRates)
  BY <1>1, <1>2, <1>3, SumByKey
<1>5. 0 \in VatRates
  BY DEF VatRates
<1>6. QED
  BY <1>3, <1>4, <1>5, TotalsAreSums DEF net, vat

\* The lines of a credit note are a list again, each the opposite of the line
\* it mirrors, at the same rate.
LEMMA MirroredLines ==
    ASSUME NEW lines, LineList(lines)
    PROVE  /\ LineList(Mirrored(lines))
           /\ DOMAIN Mirrored(lines) = DOMAIN lines
           /\ \A i \in DOMAIN lines :
                /\ Mirrored(lines)[i].vatRate = lines[i].vatRate
                /\ NetAt(Mirrored(lines))[i] = -NetAt(lines)[i]
                /\ VatAt(Mirrored(lines))[i] = -VatAt(lines)[i]
<1>1. DOMAIN Mirrored(lines) = DOMAIN lines
  BY DEF Mirrored
<1>2. ASSUME NEW i \in DOMAIN lines
      PROVE  /\ Mirrored(lines)[i] \in LineItem
             /\ Mirrored(lines)[i].quantity = -lines[i].quantity
             /\ Mirrored(lines)[i].unitPriceOre = lines[i].unitPriceOre
             /\ Mirrored(lines)[i].vatRate = lines[i].vatRate
  <2>1. lines[i] \in LineItem
    BY DEF LineList
  <2>2. Mirrored(lines)[i] = [lines[i] EXCEPT !.quantity = -lines[i].quantity]
    BY DEF Mirrored
  <2>3. QED
    BY <2>1, <2>2 DEF LineItem
<1>3. LineList(Mirrored(lines))
  BY <1>1, <1>2 DEF LineList
<1>4. ASSUME NEW i \in DOMAIN lines
      PROVE  /\ NetAt(Mirrored(lines))[i] = -NetAt(lines)[i]
             /\ VatAt(Mirrored(lines))[i] = -VatAt(lines)[i]
  <2> DEFINE quantity == lines[i].quantity
             price == lines[i].unitPriceOre
             rate == lines[i].vatRate
  <2>1. quantity \in Int /\ price \in Int /\ rate \in Nat
    BY DEF LineList, LineItem, VatRates
  <2>2. /\ Calculated(lines)[i] = CalculateLine(quantity, price, rate)
        /\ Calculated(Mirrored(lines))[i] = CalculateLine(-quantity, price, rate)
    BY <1>1, <1>2 DEF Calculated
  <2>3. /\ CalculateLine(-quantity, price, rate).netOre
             = -CalculateLine(quantity, price, rate).netOre
        /\ CalculateLine(-quantity, price, rate).vatOre
             = -CalculateLine(quantity, price, rate).vatOre
    BY <2>1, MirroredLineCancels
  <2>4. QED
    BY <1>1, <2>2, <2>3 DEF NetAt, VatAt
<1>5. QED
  BY <1>1, <1>2, <1>3, <1>4

\* A credit note, whose VAT is rounded line by line on its own, is the exact
\* opposite of its invoice, in net, VAT and gross: for any lines.
THEOREM MirroredTotalsCancel ==
    ASSUME NEW lines, LineList(lines)
    PROVE  LET totals == TotalsOf(lines)
               mirror == TotalsOf(Mirrored(lines))
           IN  /\ mirror.netTotalOre = -totals.netTotalOre
               /\ mirror.vatTotalOre = -totals.vatTotalOre
               /\ mirror.grossTotalOre = -totals.grossTotalOre
<1>1. /\ IsFiniteSet(DOMAIN lines)
      /\ \A i \in DOMAIN lines : NetAt(lines)[i] \in Int /\ VatAt(lines)[i] \in Int
  BY LineFigures DEF LineList
<1>2. /\ SumFunctionOnSet(NetAt(Mirrored(lines)), DOMAIN lines)
           = -SumFunctionOnSet(NetAt(lines), DOMAIN lines)
      /\ SumFunctionOnSet(VatAt(Mirrored(lines)), DOMAIN lines)
           = -SumFunctionOnSet(VatAt(lines), DOMAIN lines)
  BY <1>1, MirroredLines, SumNegated
<1>3. QED
  BY <1>2, MirroredLines, TotalsAreSums

\* So it is at every rate: what a credit takes out of the VAT return is what
\* its invoice put in.
THEOREM MirroredRatesCancel ==
    ASSUME NEW lines, LineList(lines), NEW rate
    PROVE  /\ RateTotals(Mirrored(lines), rate).netTotalOre
                = -RateTotals(lines, rate).netTotalOre
           /\ RateTotals(Mirrored(lines), rate).vatTotalOre
                = -RateTotals(lines, rate).vatTotalOre
<1> DEFINE some == AtRate(lines, rate)
           mirror == AtRate(Mirrored(lines), rate)
           those == DOMAIN some
<1>1. /\ LineList(some) /\ LineList(mirror)
      /\ DOMAIN mirror = those
      /\ \A i \in those : /\ NetAt(mirror)[i] = -NetAt(some)[i]
                          /\ VatAt(mirror)[i] = -VatAt(some)[i]
  <2>1. LineList(Mirrored(lines))
    BY MirroredLines
  <2>2. LineList(mirror) /\ LineList(some)
    BY <2>1, RateLines
  <2>3. those = {i \in DOMAIN lines : lines[i].vatRate = rate}
    BY RateLines, ZenonT(30)
  <2> DEFINE opposite == Mirrored(lines)
  <2>0. LineList(opposite) /\ mirror = AtRate(opposite, rate)
    BY <2>1
  <2> HIDE DEF opposite, mirror
  <2>4. DOMAIN mirror = {i \in DOMAIN opposite : opposite[i].vatRate = rate}
    <3>1. LineList(opposite)
      BY <2>0
    <3>2. DOMAIN AtRate(opposite, rate) = {i \in DOMAIN opposite : opposite[i].vatRate = rate}
      BY <3>1, RateLines, ZenonT(30)
    <3>3. QED
      BY <2>0, <3>2
  <2>5. DOMAIN mirror = those
    BY <2>3, <2>4, MirroredLines DEF opposite
  <2>6. ASSUME NEW i \in those
        PROVE  /\ NetAt(mirror)[i] = -NetAt(some)[i]
               /\ VatAt(mirror)[i] = -VatAt(some)[i]
    <3>1. i \in DOMAIN lines /\ i \in DOMAIN mirror
      BY <2>3, <2>5
    <3>2. NetAt(some)[i] = NetAt(lines)[i] /\ VatAt(some)[i] = VatAt(lines)[i]
      BY RateFigures
    <3>3. /\ NetAt(mirror)[i] = NetAt(opposite)[i]
          /\ VatAt(mirror)[i] = VatAt(opposite)[i]
      BY <2>0, <3>1, RateFigures
    <3>4. /\ NetAt(opposite)[i] = -NetAt(lines)[i]
          /\ VatAt(opposite)[i] = -VatAt(lines)[i]
      BY <3>1, MirroredLines DEF opposite
    <3> HIDE DEF some
    <3>5. QED
      BY <3>1, <3>2, <3>3, <3>4
  <2>7. QED
    BY <2>2, <2>5, <2>6
<1>2. /\ RateTotals(lines, rate) = TotalsOf(some)
      /\ RateTotals(Mirrored(lines), rate) = TotalsOf(mirror)
  BY DEF RateTotals
<1> HIDE DEF some, mirror
<1>3. /\ IsFiniteSet(those)
      /\ \A i \in those : NetAt(some)[i] \in Int /\ VatAt(some)[i] \in Int
  BY <1>1, LineFigures DEF LineList
<1>4. /\ SumFunctionOnSet(NetAt(mirror), those) = -SumFunctionOnSet(NetAt(some), those)
      /\ SumFunctionOnSet(VatAt(mirror), those) = -SumFunctionOnSet(VatAt(some), those)
  BY <1>1, <1>3, SumNegated
<1>5. QED
  BY <1>1, <1>2, <1>4, TotalsAreSums

-----------------------------------------------------------------------------
(* The ledger                                                              *)

Ledger == [Docs -> [TransactionType -> Entry]]

\* m is the ledger l with one row more.
IsPosted(l, m, d, t, amount) ==
    /\ m \in Ledger
    /\ \A e \in Docs, u \in TransactionType :
        m[e][u] = IF e = d /\ u = t
                  THEN [rows |-> l[e][u].rows + 1, sum |-> l[e][u].sum + amount]
                  ELSE l[e][u]

\* A posting adds its row where it says and nowhere else.
LEMMA PostedEffect ==
    ASSUME NEW l \in Ledger, NEW d \in Docs, NEW t \in TransactionType,
           NEW amount \in Int
    PROVE  IsPosted(l, Posted(l, d, t, amount), d, t, amount)
BY DEF IsPosted, Posted, Ledger, Entry

\* The same of a posting made only for a positive amount.
LEMMA PostedIfPositiveEffect ==
    ASSUME NEW l \in Ledger, NEW d \in Docs, NEW t \in TransactionType,
           NEW amount \in Int
    PROVE  /\ amount > 0 =>
                /\ IsPosted(l, PostedIfPositive(l, d, t, amount, 1), d, t, amount)
                /\ IsPosted(l, PostedIfPositive(l, d, t, amount, -1), d, t, -amount)
           /\ ~(amount > 0) =>
                /\ PostedIfPositive(l, d, t, amount, 1) = l
                /\ PostedIfPositive(l, d, t, amount, -1) = l
<1>1. 1 * amount = amount /\ (-1) * amount = -amount /\ -amount \in Int
  OBVIOUS
<1>2. /\ IsPosted(l, Posted(l, d, t, amount), d, t, amount)
      /\ IsPosted(l, Posted(l, d, t, -amount), d, t, -amount)
  BY <1>1, PostedEffect
<1>3. QED
  BY <1>1, <1>2 DEF PostedIfPositive

-----------------------------------------------------------------------------
(* What the transactions of the store leave is a store again               *)

\* A row stays a row when one of the fields that handlers write changes.
LEMMA RowUpdateType ==
    ASSUME NEW row \in InvoiceRow
    PROVE  /\ \A v \in RowStatus : [row EXCEPT !.status = v] \in InvoiceRow
           /\ \A v \in Nat :
                /\ [row EXCEPT !.lateFee = v] \in InvoiceRow
                /\ [row EXCEPT !.reminderFee = v] \in InvoiceRow
                /\ [row EXCEPT !.reminderSentAt = v] \in InvoiceRow
BY DEF InvoiceRow

\* What each transaction of the store leaves is a row and a ledger again.
WritesOK == invoice' \in [Docs -> InvoiceRow] /\ ledger' \in Ledger

\* Each transaction keeps the types of the tables it writes.
LEMMA StoreWritesType ==
    ASSUME StoreTypeOK, NEW d \in Docs
    PROVE  /\ \A n \in Nat, gross \in Int, due \in Nat :
                CreateInvoiceWithItems(d, n, gross, due) => WritesOK
           /\ MarkSent(d) => WritesOK
           /\ DeleteDraftInvoice(d) => WritesOK
           /\ \A amount \in Int : MarkPaidWithin(d, amount) => WritesOK
           /\ \A note \in Docs, n \in Nat, due \in Nat,
                 before \in [lateFee: Nat, reminderFee: Nat] :
                CreateCreditNote(d, note, n, before, due) => WritesOK
           /\ \A due \in Nat : ChargeReminderFee(d, due) => WritesOK
           /\ \A due \in Nat : MarkReminderSent(d, due) => WritesOK
           /\ \A fee \in Nat, amount \in Int :
                ApplyOverdueTx(d, fee, amount) => WritesOK
<1>1. invoice \in [Docs -> InvoiceRow] /\ ledger \in Ledger
  BY DEF StoreTypeOK, Ledger
<1>2. /\ \A t \in TransactionType, a \in Int : Posted(ledger, d, t, a) \in Ledger
      /\ \A l \in Ledger, t \in TransactionType, a \in Int :
            /\ PostedIfPositive(l, d, t, a, 1) \in Ledger
            /\ PostedIfPositive(l, d, t, a, -1) \in Ledger
  BY <1>1, PostedEffect, PostedIfPositiveEffect DEF IsPosted
<1>3. ASSUME NEW n \in Nat, NEW gross \in Int, NEW due \in Nat,
             CreateInvoiceWithItems(d, n, gross, due) PROVE WritesOK
  BY <1>1, <1>3 DEF WritesOK, CreateInvoiceWithItems, NoRow, InvoiceRow, RowStatus, InvoiceStatus
<1>4. ASSUME MarkSent(d) PROVE WritesOK
  <2>1. ledger' \in Ledger
    BY <1>1, <1>2, <1>4 DEF MarkSent, TransactionType, InvoiceRow
  <2>2. invoice' = [invoice EXCEPT ![d] = [invoice[d] EXCEPT !.status = "SENT"]]
    BY <1>4 DEF MarkSent
  <2>3. QED
    BY <1>1, <2>1, <2>2, RowUpdateType DEF WritesOK, RowStatus, InvoiceStatus
<1>5. ASSUME DeleteDraftInvoice(d) PROVE WritesOK
  BY <1>1, <1>5 DEF WritesOK, DeleteDraftInvoice, InvoiceRow, RowStatus
<1>6. ASSUME NEW amount \in Int, MarkPaidWithin(d, amount) PROVE WritesOK
  <2>1. ledger' \in Ledger
    BY <1>2, <1>6 DEF MarkPaidWithin, TransactionType
  <2>2. invoice' = [invoice EXCEPT ![d] = [invoice[d] EXCEPT !.status = "PAID"]]
    BY <1>6 DEF MarkPaidWithin
  <2>3. QED
    BY <1>1, <2>1, <2>2, RowUpdateType DEF WritesOK, RowStatus, InvoiceStatus
<1>7. ASSUME NEW note \in Docs, NEW n \in Nat, NEW due \in Nat,
             NEW before \in [lateFee: Nat, reminderFee: Nat],
             CreateCreditNote(d, note, n, before, due) PROVE WritesOK
  <2> DEFINE issued == Posted(ledger, d, "CREDIT_NOTE_ISSUED", -invoice[d].gross)
             late == PostedIfPositive(issued, d, "LATE_FEE_WAIVED", before.lateFee, -1)
             credited == [invoice[d] EXCEPT !.status = "CREDITED"]
             row == [NoRow EXCEPT
                        !.type = "CREDIT_NOTE", !.status = "SENT", !.number = n,
                        !.gross = -invoice[d].gross, !.due = due, !.credits = {d}]
  <2>1. invoice[d] \in InvoiceRow /\ -invoice[d].gross \in Int
    BY <1>1 DEF InvoiceRow
  <2>2. issued \in Ledger
    BY <1>2, <2>1 DEF TransactionType
  <2>3. before.lateFee \in Int /\ before.reminderFee \in Int
    OBVIOUS
  <2>4. ledger' \in Ledger
    <3> HIDE DEF issued
    <3>1. late \in Ledger
      BY <1>2, <2>2, <2>3 DEF TransactionType
    <3>2. ledger' = PostedIfPositive(late, d, "REMINDER_FEE_WAIVED", before.reminderFee, -1)
      BY <1>7 DEF CreateCreditNote, issued
    <3> HIDE DEF late
    <3>3. QED
      BY <1>2, <2>3, <3>1, <3>2 DEF TransactionType
  <2>5. credited \in InvoiceRow
    BY <2>1 DEF InvoiceRow, RowStatus, InvoiceStatus
  <2>6. row \in InvoiceRow
    BY <2>1 DEF InvoiceRow, RowStatus, InvoiceStatus, NoRow
  <2>7. invoice' = [invoice EXCEPT ![d] = credited, ![note] = row]
    BY <1>7 DEF CreateCreditNote
  <2> HIDE DEF credited, row
  <2>8. invoice' \in [Docs -> InvoiceRow]
    BY <1>1, <2>5, <2>6, <2>7
  <2>9. QED
    BY <2>4, <2>8 DEF WritesOK
<1>8. ASSUME NEW due \in Nat, ChargeReminderFee(d, due) PROVE WritesOK
  <2> DEFINE row == [invoice[d] EXCEPT !.reminderFee = REMINDER_FEE_ORE,
                                       !.reminderSentAt = due]
  <2>1. row \in InvoiceRow
    <3> REMINDER_FEE_ORE \in Nat
      BY DEF REMINDER_FEE_ORE
    <3>1. [invoice[d] EXCEPT !.reminderFee = REMINDER_FEE_ORE] \in InvoiceRow
      BY <1>1, RowUpdateType
    <3>2. row = [[invoice[d] EXCEPT !.reminderFee = REMINDER_FEE_ORE]
                    EXCEPT !.reminderSentAt = due]
      BY DEF InvoiceRow
    <3>3. QED
      BY <3>1, <3>2, RowUpdateType
  <2>2. ledger' \in Ledger
    BY <1>2, <1>8 DEF ChargeReminderFee, TransactionType, REMINDER_FEE_ORE
  <2>3. invoice' = [invoice EXCEPT ![d] = row]
    BY <1>8 DEF ChargeReminderFee
  <2> HIDE DEF row
  <2>4. QED
    BY <1>1, <2>1, <2>2, <2>3 DEF WritesOK
<1>9. ASSUME NEW due \in Nat, MarkReminderSent(d, due) PROVE WritesOK
  BY <1>1, <1>9 DEF WritesOK, MarkReminderSent, InvoiceRow
<1>10. ASSUME NEW fee \in Nat, NEW amount \in Int, ApplyOverdueTx(d, fee, amount) PROVE WritesOK
  <2> DEFINE row == [invoice[d] EXCEPT !.status = "OVERDUE", !.lateFee = fee]
  <2>1. row \in InvoiceRow
    <3>1. [invoice[d] EXCEPT !.status = "OVERDUE"] \in InvoiceRow
      BY <1>1, RowUpdateType DEF RowStatus, InvoiceStatus
    <3>2. row = [[invoice[d] EXCEPT !.status = "OVERDUE"] EXCEPT !.lateFee = fee]
      BY DEF InvoiceRow
    <3>3. QED
      BY <3>1, <3>2, RowUpdateType
  <2>2. ledger' \in Ledger
    BY <1>1, <1>2, <1>10 DEF ApplyOverdueTx, TransactionType
  <2>3. invoice' = [invoice EXCEPT ![d] = row]
    BY <1>10 DEF ApplyOverdueTx
  <2> HIDE DEF row
  <2>4. QED
    BY <1>1, <2>1, <2>2, <2>3 DEF WritesOK
<1>11. QED
  BY <1>3, <1>4, <1>5, <1>6, <1>7, <1>8, <1>9, <1>10

-----------------------------------------------------------------------------
(* What the transactions of the store do, read off their definitions once  *)

\* What is left alone of invoice e, and the one row posted to d's ledger.
Same(e) ==
    /\ invoice'[e] = invoice[e]
    /\ \A u \in TransactionType : ledger'[e][u] = ledger[e][u]

Posts(d, t, amount) ==
    \A u \in TransactionType :
        ledger'[d][u] = IF u = t
                        THEN [rows |-> ledger[d][u].rows + 1,
                              sum |-> ledger[d][u].sum + amount]
                        ELSE ledger[d][u]

PostsNothing(d) == \A u \in TransactionType : ledger'[d][u] = ledger[d][u]

CreateChanges(d, n, gross, due) ==
    /\ \A e \in Docs \ {d} : Same(e)
    /\ invoice[d].status = "ABSENT"
    /\ invoice'[d] = [NoRow EXCEPT !.status = "DRAFT", !.number = n,
                                   !.gross = gross, !.due = due]
    /\ PostsNothing(d)

\* createInvoiceWithItems writes one row, and posts nothing.
LEMMA CreateEffect ==
    ASSUME StoreTypeOK, NEW d \in Docs, NEW n, NEW gross, NEW due,
           CreateInvoiceWithItems(d, n, gross, due)
    PROVE  CreateChanges(d, n, gross, due)
BY DEF StoreTypeOK, CreateInvoiceWithItems, CreateChanges, Same, PostsNothing

\* markSent changes one status and posts the total.
LEMMA SendEffect ==
    ASSUME StoreTypeOK, NEW d \in Docs, MarkSent(d)
    PROVE  /\ \A e \in Docs \ {d} : Same(e)
           /\ invoice'[d] = [invoice[d] EXCEPT !.status = "SENT"]
           /\ Posts(d, "INVOICE_CREATED", invoice[d].gross)
<1>1. invoice[d].gross \in Int /\ ledger \in Ledger
  BY DEF StoreTypeOK, InvoiceRow, Ledger
<1>2. /\ \A e \in Docs \ {d} : invoice'[e] = invoice[e]
      /\ invoice'[d] = [invoice[d] EXCEPT !.status = "SENT"]
      /\ ledger' = Posted(ledger, d, "INVOICE_CREATED", invoice[d].gross)
  BY DEF StoreTypeOK, MarkSent
<1>3. "INVOICE_CREATED" \in TransactionType
  BY DEF TransactionType
<1>4. QED
  <2>1. IsPosted(ledger, ledger', d, "INVOICE_CREATED", invoice[d].gross)
    BY <1>1, <1>2, <1>3, PostedEffect
  <2>2. QED
    BY <1>2, <2>1 DEF IsPosted, Same, Posts

\* deleteDraftInvoice takes one draft away and posts nothing.
LEMMA DeleteEffect ==
    ASSUME StoreTypeOK, NEW d \in Docs, DeleteDraftInvoice(d)
    PROVE  /\ \A e \in Docs \ {d} : Same(e)
           /\ invoice'[d] = [invoice[d] EXCEPT !.status = "DELETED"]
           /\ PostsNothing(d)
BY DEF StoreTypeOK, DeleteDraftInvoice, Same, PostsNothing

\* markPaidWithin changes one status and posts the payment.
LEMMA PayEffect ==
    ASSUME StoreTypeOK, NEW d \in Docs, NEW amount \in Int,
           MarkPaidWithin(d, amount)
    PROVE  /\ \A e \in Docs \ {d} : Same(e)
           /\ invoice'[d] = [invoice[d] EXCEPT !.status = "PAID"]
           /\ Posts(d, "PAYMENT_RECEIVED", amount)
<1>1. ledger \in Ledger /\ "PAYMENT_RECEIVED" \in TransactionType
  BY DEF StoreTypeOK, Ledger, TransactionType
<1>2. /\ \A e \in Docs \ {d} : invoice'[e] = invoice[e]
      /\ invoice'[d] = [invoice[d] EXCEPT !.status = "PAID"]
      /\ ledger' = Posted(ledger, d, "PAYMENT_RECEIVED", amount)
  BY DEF StoreTypeOK, MarkPaidWithin
<1>3. IsPosted(ledger, ledger', d, "PAYMENT_RECEIVED", amount)
  BY <1>1, <1>2, PostedEffect
<1>4. QED
  BY <1>2, <1>3 DEF IsPosted, Same, Posts

CreditChanges(d, note, n, before, today) ==
    /\ d # note
    /\ \A e \in Docs \ {d, note} : Same(e)
    /\ invoice[note].status = "ABSENT"
    /\ invoice'[d] = [invoice[d] EXCEPT !.status = "CREDITED"]
    /\ invoice'[note] = [NoRow EXCEPT
            !.type = "CREDIT_NOTE", !.status = "SENT", !.number = n,
            !.gross = -invoice[d].gross, !.due = today, !.credits = {d}]
    /\ PostsNothing(note)
    /\ ledger'[d]["CREDIT_NOTE_ISSUED"] =
            [rows |-> ledger[d]["CREDIT_NOTE_ISSUED"].rows + 1,
             sum |-> ledger[d]["CREDIT_NOTE_ISSUED"].sum + (-invoice[d].gross)]
    /\ ledger'[d]["LATE_FEE_WAIVED"] =
            IF before.lateFee > 0
            THEN [rows |-> ledger[d]["LATE_FEE_WAIVED"].rows + 1,
                  sum |-> ledger[d]["LATE_FEE_WAIVED"].sum + (-before.lateFee)]
            ELSE ledger[d]["LATE_FEE_WAIVED"]
    /\ ledger'[d]["REMINDER_FEE_WAIVED"] =
            IF before.reminderFee > 0
            THEN [rows |-> ledger[d]["REMINDER_FEE_WAIVED"].rows + 1,
                  sum |-> ledger[d]["REMINDER_FEE_WAIVED"].sum + (-before.reminderFee)]
            ELSE ledger[d]["REMINDER_FEE_WAIVED"]
    /\ \A u \in TransactionType \ {"CREDIT_NOTE_ISSUED", "LATE_FEE_WAIVED",
                                   "REMINDER_FEE_WAIVED"} :
            ledger'[d][u] = ledger[d][u]

\* The original and the note are two documents: one is open, one absent.
LEMMA CreditEffect ==
    ASSUME StoreTypeOK, NEW d \in Docs, NEW note \in Docs, NEW n \in Nat,
           NEW today \in Nat, NEW before \in [lateFee: Nat, reminderFee: Nat],
           CreateCreditNote(d, note, n, before, today)
    PROVE  CreditChanges(d, note, n, before, today)
<1> DEFINE issued == Posted(ledger, d, "CREDIT_NOTE_ISSUED", -invoice[d].gross)
           late == PostedIfPositive(issued, d, "LATE_FEE_WAIVED", before.lateFee, -1)
<1>1. /\ ledger \in Ledger /\ -invoice[d].gross \in Int
      /\ before.lateFee \in Int /\ before.reminderFee \in Int
      /\ "CREDIT_NOTE_ISSUED" \in TransactionType
      /\ "LATE_FEE_WAIVED" \in TransactionType
      /\ "REMINDER_FEE_WAIVED" \in TransactionType
  BY DEF StoreTypeOK, Ledger, InvoiceRow, TransactionType
<1>2. d # note
  BY DEF CreateCreditNote, IsOpen, OpenStatuses
<1>3. /\ \A e \in Docs \ {d, note} : invoice'[e] = invoice[e]
      /\ invoice[note].status = "ABSENT"
      /\ invoice'[d] = [invoice[d] EXCEPT !.status = "CREDITED"]
      /\ invoice'[note] = [NoRow EXCEPT
                    !.type = "CREDIT_NOTE", !.status = "SENT", !.number = n,
                    !.gross = -invoice[d].gross, !.due = today, !.credits = {d}]
      /\ ledger' = PostedIfPositive(late, d, "REMINDER_FEE_WAIVED", before.reminderFee, -1)
  BY <1>2 DEF StoreTypeOK, CreateCreditNote
<1>4. IsPosted(ledger, issued, d, "CREDIT_NOTE_ISSUED", -invoice[d].gross)
  BY <1>1, PostedEffect
<1> HIDE DEF issued
<1>5. IF before.lateFee > 0
      THEN IsPosted(issued, late, d, "LATE_FEE_WAIVED", -before.lateFee)
      ELSE late = issued
  <2>1. issued \in Ledger
    BY <1>4 DEF IsPosted
  <2>2. QED
    BY <1>1, <2>1, PostedIfPositiveEffect
<1>6. late \in Ledger
  BY <1>4, <1>5 DEF IsPosted
<1> HIDE DEF late
<1>7. IF before.reminderFee > 0
      THEN IsPosted(late, ledger', d, "REMINDER_FEE_WAIVED", -before.reminderFee)
      ELSE ledger' = late
  BY <1>1, <1>3, <1>6, PostedIfPositiveEffect
<1>8. \A e \in Docs \ {d}, u \in TransactionType : ledger'[e][u] = ledger[e][u]
  <2> TAKE e \in Docs \ {d}, u \in TransactionType
  <2>1. issued[e][u] = ledger[e][u]
    BY <1>4 DEF IsPosted
  <2>2. late[e][u] = issued[e][u]
    BY <1>5 DEF IsPosted
  <2>3. ledger'[e][u] = late[e][u]
    BY <1>7 DEF IsPosted
  <2>4. QED
    BY <2>1, <2>2, <2>3
<1>9. \A u \in TransactionType :
        /\ issued[d][u] = IF u = "CREDIT_NOTE_ISSUED"
                          THEN [rows |-> ledger[d][u].rows + 1,
                                sum |-> ledger[d][u].sum + (-invoice[d].gross)]
                          ELSE ledger[d][u]
        /\ late[d][u] = IF u = "LATE_FEE_WAIVED" /\ before.lateFee > 0
                        THEN [rows |-> issued[d][u].rows + 1,
                              sum |-> issued[d][u].sum + (-before.lateFee)]
                        ELSE issued[d][u]
        /\ ledger'[d][u] = IF u = "REMINDER_FEE_WAIVED" /\ before.reminderFee > 0
                           THEN [rows |-> late[d][u].rows + 1,
                                 sum |-> late[d][u].sum + (-before.reminderFee)]
                           ELSE late[d][u]
  BY <1>4, <1>5, <1>7 DEF IsPosted
<1>10. (\A e \in Docs \ {d, note} : Same(e)) /\ PostsNothing(note)
  BY <1>2, <1>3, <1>8 DEF Same, PostsNothing
<1>11. /\ ledger'[d]["CREDIT_NOTE_ISSUED"] = issued[d]["CREDIT_NOTE_ISSUED"]
       /\ issued[d]["LATE_FEE_WAIVED"] = ledger[d]["LATE_FEE_WAIVED"]
       /\ ledger'[d]["LATE_FEE_WAIVED"] = late[d]["LATE_FEE_WAIVED"]
       /\ late[d]["REMINDER_FEE_WAIVED"] = ledger[d]["REMINDER_FEE_WAIVED"]
       /\ \A u \in TransactionType \ {"CREDIT_NOTE_ISSUED", "LATE_FEE_WAIVED",
                                        "REMINDER_FEE_WAIVED"} :
            ledger'[d][u] = ledger[d][u]
  BY <1>1, <1>9
<1>12. QED
  BY <1>1, <1>2, <1>3, <1>9, <1>10, <1>11, ZenonT(40) DEF CreditChanges

\* chargeReminderFee writes and posts the fee together.
LEMMA ChargeEffect ==
    ASSUME StoreTypeOK, NEW d \in Docs, NEW today \in Nat,
           ChargeReminderFee(d, today)
    PROVE  /\ \A e \in Docs \ {d} : Same(e)
           /\ invoice'[d] = [invoice[d] EXCEPT !.reminderFee = REMINDER_FEE_ORE,
                                               !.reminderSentAt = today]
           /\ Posts(d, "REMINDER_FEE_ADDED", REMINDER_FEE_ORE)
<1>1. /\ ledger \in Ledger /\ "REMINDER_FEE_ADDED" \in TransactionType
      /\ REMINDER_FEE_ORE \in Int
  BY DEF StoreTypeOK, Ledger, TransactionType, REMINDER_FEE_ORE
<1>2. /\ \A e \in Docs \ {d} : invoice'[e] = invoice[e]
      /\ invoice'[d] = [invoice[d] EXCEPT !.reminderFee = REMINDER_FEE_ORE,
                                          !.reminderSentAt = today]
      /\ ledger' = Posted(ledger, d, "REMINDER_FEE_ADDED", REMINDER_FEE_ORE)
  BY DEF StoreTypeOK, ChargeReminderFee
<1>3. IsPosted(ledger, ledger', d, "REMINDER_FEE_ADDED", REMINDER_FEE_ORE)
  BY <1>1, <1>2, PostedEffect
<1>4. QED
  BY <1>2, <1>3 DEF IsPosted, Same, Posts

\* markReminderSent writes the date alone.
LEMMA StampEffect ==
    ASSUME StoreTypeOK, NEW d \in Docs, NEW today \in Nat,
           MarkReminderSent(d, today)
    PROVE  /\ \A e \in Docs \ {d} : Same(e)
           /\ invoice'[d] = [invoice[d] EXCEPT !.reminderSentAt = today]
           /\ PostsNothing(d)
BY DEF StoreTypeOK, MarkReminderSent, Same, PostsNothing

\* The overdue transaction writes status and fee, and posts a positive increment.
LEMMA OverdueEffect ==
    ASSUME StoreTypeOK, NEW d \in Docs, NEW fee \in Nat, NEW increment \in Int,
           ApplyOverdueTx(d, fee, increment)
    PROVE  /\ \A e \in Docs \ {d} : Same(e)
           /\ invoice'[d] = [invoice[d] EXCEPT !.status = "OVERDUE", !.lateFee = fee]
           /\ IF increment > 0 THEN Posts(d, "LATE_FEE_ADDED", increment)
                               ELSE PostsNothing(d)
<1>1. ledger \in Ledger /\ "LATE_FEE_ADDED" \in TransactionType
  BY DEF StoreTypeOK, Ledger, TransactionType
<1>2. /\ \A e \in Docs \ {d} : invoice'[e] = invoice[e]
      /\ invoice'[d] = [invoice[d] EXCEPT !.status = "OVERDUE", !.lateFee = fee]
      /\ ledger' = PostedIfPositive(ledger, d, "LATE_FEE_ADDED", increment, 1)
  BY DEF StoreTypeOK, ApplyOverdueTx
<1>3. IF increment > 0
      THEN IsPosted(ledger, ledger', d, "LATE_FEE_ADDED", increment)
      ELSE ledger' = ledger
  BY <1>1, <1>2, PostedIfPositiveEffect
<1>4. QED
  BY <1>2, <1>3 DEF IsPosted, Same, Posts, PostsNothing

-----------------------------------------------------------------------------
(* The same, field by field                                                *)

\* The fields nobody writes after the INSERT, and those that hold fees.
Fixed(d) ==
    /\ invoice'[d].type = invoice[d].type
    /\ invoice'[d].gross = invoice[d].gross
    /\ invoice'[d].due = invoice[d].due
    /\ invoice'[d].credits = invoice[d].credits

FeesKept(d) ==
    /\ invoice'[d].lateFee = invoice[d].lateFee
    /\ invoice'[d].reminderFee = invoice[d].reminderFee
    /\ invoice'[d].reminderSentAt = invoice[d].reminderSentAt

Moves(d, from, to) == invoice[d].status = from /\ invoice'[d].status = to
Closes(d, to) == IsOpen(d) /\ invoice'[d].status = to

\* One row is added to d's ledger, or none.
Adds(d, t, amount) ==
    \A u \in TransactionType :
        /\ Sum(d, u)' = IF u = t THEN Sum(d, u) + amount ELSE Sum(d, u)
        /\ Rows(d, u)' = IF u = t THEN Rows(d, u) + 1 ELSE Rows(d, u)

AddsNothing(d) ==
    \A u \in TransactionType : Sum(d, u)' = Sum(d, u) /\ Rows(d, u)' = Rows(d, u)

NewRow(d) ==
    /\ invoice[d].status = "ABSENT"
    /\ invoice'[d].lateFee = 0
    /\ invoice'[d].reminderFee = 0
    /\ invoice'[d].reminderSentAt = 0
    /\ AddsNothing(d)

\* A row posted is a row and an amount added to its type, and nothing else.
LEMMA PostsAdds ==
    ASSUME NEW d \in Docs
    PROVE  /\ \A t \in TransactionType, amount \in Int :
                Posts(d, t, amount) => Adds(d, t, amount)
           /\ PostsNothing(d) => AddsNothing(d)
<1>1. ASSUME NEW t \in TransactionType, NEW amount \in Int, Posts(d, t, amount),
             NEW u \in TransactionType
      PROVE  /\ Sum(d, u)' = IF u = t THEN Sum(d, u) + amount ELSE Sum(d, u)
             /\ Rows(d, u)' = IF u = t THEN Rows(d, u) + 1 ELSE Rows(d, u)
  <2>1. CASE u = t
    <3>1. ledger'[d][u] = [rows |-> ledger[d][u].rows + 1,
                           sum |-> ledger[d][u].sum + amount]
      BY <1>1, <2>1 DEF Posts
    <3>2. /\ ledger'[d][u].sum = ledger[d][u].sum + amount
          /\ ledger'[d][u].rows = ledger[d][u].rows + 1
      BY <3>1
    <3>3. QED
      BY <2>1, <3>2 DEF Sum, Rows
  <2>2. CASE u # t
    BY <1>1, <2>2 DEF Posts, Sum, Rows
  <2>3. QED
    BY <2>1, <2>2
<1>2. QED
  BY <1>1 DEF PostsNothing, Adds, AddsNothing, Sum, Rows
=============================================================================
