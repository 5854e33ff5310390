----------------------------- MODULE DataLemmas -----------------------------
(***************************************************************************)
(* What the proofs about several components need of numbers, sets and      *)
(* sequences.  The least element of a set of naturals stands in for        *)
(* induction: a claim that fails somewhere fails at a least number.        *)
(***************************************************************************)
EXTENDS Integers, Sequences, FiniteSets, FiniteSetsExt, FiniteSetTheorems,
        FunctionTheorems, SequenceTheorems, WellFoundedInduction, TLAPS

\* A set of naturals that is not empty has a least element.
LEMMA LeastNatural ==
    ASSUME NEW T \in SUBSET Nat, T # {}
    PROVE  \E n \in T : \A m \in T : n <= m
<1>1. PICK n \in T : \A m \in T : <<m, n>> \notin OpToRel(<, Nat)
  BY NatLessThanWellFounded, WFMin, Zenon
<1>2. \A m \in T : ~ (m < n)
  BY <1>1, Zenon DEF OpToRel
<1>3. QED
  BY <1>2

\* The least of a set of naturals that is not empty is one of them.
LEMMA LeastIsIn ==
    ASSUME NEW T \in SUBSET Nat, T # {}
    PROVE  Min(T) \in T /\ \A m \in T : Min(T) <= m
<1>1. \E n \in T : \A m \in T : n <= m
  BY LeastNatural
<1>2. QED
  BY <1>1 DEF Min

\* The lesser of two numbers.
LEMMA LesserIs ==
    ASSUME NEW a \in Int, NEW b \in Int
    PROVE  Min({a, b}) = IF a <= b THEN a ELSE b
<1> DEFINE least == IF a <= b THEN a ELSE b
<1>1. least \in {a, b} /\ \A n \in {a, b} : least <= n
  OBVIOUS
<1>2. \A x \in {a, b} : (\A n \in {a, b} : x <= n) => x = least
  OBVIOUS
<1>3. QED
  BY <1>1, <1>2 DEF Min

LEMMA GreaterIs ==
    ASSUME NEW a \in Int, NEW b \in Int
    PROVE  Max({a, b}) = IF b <= a THEN a ELSE b
<1> DEFINE most == IF b <= a THEN a ELSE b
<1>1. most \in {a, b} /\ \A n \in {a, b} : most >= n
  OBVIOUS
<1>2. \A x \in {a, b} : (\A n \in {a, b} : x >= n) => x = most
  OBVIOUS
<1>3. QED
  BY <1>1, <1>2 DEF Max

\* The greatest of a set of numbers that has one.
LEMMA GreatestIs ==
    ASSUME NEW S, S \subseteq Nat, NEW top \in S, \A n \in S : n <= top
    PROVE  Max(S) = top
<1>1. \A x \in S : (\A y \in S : x >= y) => x = top
  OBVIOUS
<1>2. \A y \in S : top >= y
  OBVIOUS
<1> QED
  BY <1>1, <1>2 DEF Max

\* A set of naturals that has a bound has a greatest element.
LEMMA GreatestIsIn ==
    ASSUME NEW S, S \subseteq Nat, S # {}, NEW bound \in Nat, \A n \in S : n <= bound
    PROVE  Max(S) \in S /\ \A n \in S : n <= Max(S)
<1> DEFINE T == {b \in Nat : \A n \in S : n <= b}
<1>1. PICK least \in T : \A b \in T : least <= b
  BY LeastNatural
<1>2. least \in S
  <2>1. CASE least = 0
    <3>1. PICK n \in S : TRUE
      OBVIOUS
    <3>2. n \in Nat /\ n <= 0
      BY <1>1, <2>1
    <3>3. QED
      BY <2>1, <3>2
  <2>2. CASE least # 0
    <3>1. least - 1 \in Nat /\ least - 1 \notin T
      BY <1>1, <2>2
    <3>2. PICK n \in S : ~(n <= least - 1)
      BY <3>1
    <3>3. n = least
      BY <1>1, <3>2
    <3>4. QED
      BY <3>3
  <2>3. QED
    BY <2>1, <2>2
<1>3. Max(S) = least
  BY <1>1, <1>2, GreatestIs
<1>4. QED
  BY <1>1, <1>2, <1>3

\* A finite set of numbers that is not empty has a first and a last: a set of
\* least cardinality that had not would lose an element and still have not.
HasEnds(S) == \E low, high \in S : \A n \in S : low <= n /\ n <= high

EndlessSize(k) ==
    \E S : /\ IsFiniteSet(S) /\ S \subseteq Int /\ S # {}
           /\ Cardinality(S) = k /\ ~HasEnds(S)

LEMMA OneMoreHasEnds ==
    ASSUME NEW S, S \subseteq Int, S # {}, NEW x \in S,
           S \ {x} # {} => HasEnds(S \ {x})
    PROVE  HasEnds(S)
<1>1. CASE S \ {x} = {}
  <2>1. \A n \in S : n = x /\ n \in Int
    BY <1>1
  <2>2. QED
    BY <2>1 DEF HasEnds
<1>2. CASE S \ {x} # {}
  <2>1. PICK low \in S \ {x}, high \in S \ {x} :
             \A n \in S \ {x} : low <= n /\ n <= high
    BY <1>2 DEF HasEnds
  <2> DEFINE least == IF x <= low THEN x ELSE low
             most == IF high <= x THEN x ELSE high
  <2>2. least \in S /\ most \in S /\ x \in Int /\ low \in Int /\ high \in Int
    OBVIOUS
  <2>3. ASSUME NEW n \in S PROVE least <= n /\ n <= most
    <3>1. n \in Int /\ (n = x \/ (low <= n /\ n <= high))
      BY <2>1
    <3>2. QED
      BY <2>2, <3>1
  <2> HIDE DEF least, most
  <2>4. QED
    BY <2>2, <2>3 DEF HasEnds
<1>3. QED
  BY <1>1, <1>2

LEMMA NoneIsEndless ==
    ASSUME NEW k \in Nat, EndlessSize(k)
    PROVE  FALSE
<1> DEFINE T == {n \in Nat : EndlessSize(n)}
<1>1. T \in SUBSET Nat /\ T # {}
  BY Zenon
<1>2. PICK n \in T : \A m \in T : n <= m
  <2> HIDE DEF T
  <2>1. QED
    BY <1>1, LeastNatural
<1>3. EndlessSize(n) /\ n \in Nat
  BY <1>2
<1>4. PICK S : /\ IsFiniteSet(S) /\ S \subseteq Int /\ S # {}
               /\ Cardinality(S) = n /\ ~HasEnds(S)
  BY <1>3, Zenon DEF EndlessSize
<1>5. PICK x \in S : TRUE
  BY <1>4
<1>6. IsFiniteSet(S \ {x}) /\ Cardinality(S \ {x}) = n - 1 /\ S \ {x} \subseteq Int
  BY <1>4, <1>5, FS_RemoveElement
<1>7. n - 1 \in Nat
  BY <1>6, FS_CardinalityType
<1>8. ~EndlessSize(n - 1)
  <2>1. ~(n <= n - 1)
    BY <1>3
  <2>2. QED
    BY <1>2, <1>7, <2>1
<1>9. S \ {x} # {} => HasEnds(S \ {x})
  BY <1>6, <1>8, Zenon DEF EndlessSize
<1>10. QED
  BY <1>4, <1>5, <1>9, OneMoreHasEnds, Zenon

LEMMA EndsAreIn ==
    ASSUME NEW S, IsFiniteSet(S), S \subseteq Int, S # {}
    PROVE  /\ Max(S) \in S /\ \A n \in S : n <= Max(S)
           /\ Min(S) \in S /\ \A n \in S : Min(S) <= n
<1>1. Cardinality(S) \in Nat
  BY FS_CardinalityType
<1>2. ~EndlessSize(Cardinality(S))
  BY <1>1, NoneIsEndless, Zenon
<1>3. HasEnds(S)
  BY <1>2, Zenon DEF EndlessSize
<1>4. PICK low \in S, high \in S : \A n \in S : low <= n /\ n <= high
  BY <1>3 DEF HasEnds
<1>5. Max(S) \in S /\ \A y \in S : Max(S) >= y
  BY <1>4 DEF Max
<1>6. Min(S) \in S /\ \A y \in S : Min(S) <= y
  BY <1>4 DEF Min
<1>7. QED
  BY <1>5, <1>6

\* The greatest and the least of the values of a function over a finite set.
IsImage(V, f, L) ==
    /\ IsFiniteSet(L)
    /\ \A l \in L : f[l] \in V /\ f[l] \in Int
    /\ \A v \in V : \E l \in L : v = f[l]

LEMMA ValuesAreFinite ==
    ASSUME NEW L, NEW f, NEW V, IsImage(V, f, L)
    PROVE  IsFiniteSet(V)
<1> DEFINE g == [l \in L |-> f[l]]
<1>1. g \in [L -> V] /\ IsFiniteSet(L)
  BY DEF IsImage
<1>2. \A v \in V : \E l \in L : g[l] = v
  BY DEF IsImage
<1> HIDE DEF g
<1>3. g \in Surjection(L, V)
  BY <1>1, <1>2, Fun_IsSurj
<1>4. QED
  BY <1>1, <1>3, FS_Surjection

LEMMA ValuesAre ==
    ASSUME NEW L, NEW f, NEW V, IsImage(V, f, L), L # {}
    PROVE  /\ Max(V) \in Int /\ Min(V) \in Int
           /\ \A l \in L : f[l] <= Max(V) /\ Min(V) <= f[l]
           /\ \E l \in L : Max(V) = f[l]
           /\ \E l \in L : Min(V) = f[l]
<1>1. IsFiniteSet(V)
  BY ValuesAreFinite
<1>2. V \subseteq Int /\ V # {}
  BY DEF IsImage
<1>3. /\ Max(V) \in V /\ \A n \in V : n <= Max(V)
      /\ Min(V) \in V /\ \A n \in V : Min(V) <= n
  BY <1>1, <1>2, EndsAreIn
<1>4. QED
  BY <1>2, <1>3 DEF IsImage

LEMMA ValuesOrNoneAre ==
    ASSUME NEW L, NEW f, NEW V, IsImage(V, f, L)
    PROVE  /\ Max({0} \cup V) \in Nat
           /\ \A l \in L : f[l] <= Max({0} \cup V)
           /\ Max({0} \cup V) = 0 \/ \E l \in L : Max({0} \cup V) = f[l]
<1> DEFINE W == {0} \cup V
<1>1. IsFiniteSet(V)
  BY ValuesAreFinite
<1>2. IsFiniteSet(W)
  <2>1. IsFiniteSet({0})
    BY FS_Singleton, Zenon
  <2>2. QED
    BY <1>1, <2>1, FS_Union, Zenon
<1>3. W \subseteq Int /\ W # {} /\ 0 \in W /\ V \subseteq W /\ \A n \in W : n = 0 \/ n \in V
  BY DEF IsImage
<1> HIDE DEF W
<1>4. Max(W) \in W /\ \A n \in W : n <= Max(W)
  BY <1>2, <1>3, EndsAreIn
<1>5. Max(W) \in Int /\ 0 <= Max(W)
  BY <1>3, <1>4, Zenon
<1> DEFINE m == Max(W)
<1>6. m \in Nat
  <2>1. m \in Int /\ 0 <= m
    BY <1>5
  <2> HIDE DEF m
  <2>2. QED
    BY <2>1
<1>7. QED
  BY <1>3, <1>4, <1>6 DEF W, IsImage

\* A set with at most one element more has at most one element more.
LEMMA OneMore ==
    ASSUME NEW S, IsFiniteSet(S), NEW x, NEW T, T \subseteq S \cup {x}
    PROVE  IsFiniteSet(T) /\ Cardinality(T) <= Cardinality(S) + 1
<1>1. IsFiniteSet(S \cup {x}) /\ Cardinality(S \cup {x}) <= Cardinality(S) + 1
  <2>1. Cardinality(S) \in Nat
    BY FS_CardinalityType
  <2>2. QED
    BY <2>1, FS_AddElement
<1>2. IsFiniteSet(T) /\ Cardinality(T) <= Cardinality(S \cup {x})
  BY <1>1, FS_Subset
<1>3. Cardinality(S) \in Nat /\ Cardinality(T) \in Nat /\ Cardinality(S \cup {x}) \in Nat
  BY <1>1, <1>2, FS_CardinalityType
<1>4. QED
  BY <1>1, <1>2, <1>3

\* A part of a finite set is finite and no larger.
LEMMA NoMore ==
    ASSUME NEW S, IsFiniteSet(S), NEW T, T \subseteq S
    PROVE  IsFiniteSet(T) /\ Cardinality(T) <= Cardinality(S)
BY FS_Subset
-----------------------------------------------------------------------------
\* What is left of a number when it is divided and rounded down.
LEMMA QuotientIs ==
    ASSUME NEW a \in Nat, NEW b \in Nat \ {0}
    PROVE  a \div b \in Nat /\ (a \div b) * b <= a /\ a < (a \div b) * b + b
OBVIOUS

LEMMA ProductGrows ==
    ASSUME NEW a \in Int, NEW b \in Int, NEW c \in Nat, a <= b
    PROVE  a * c <= b * c
OBVIOUS

LEMMA QuotientBelow ==
    ASSUME NEW a \in Nat, NEW b \in Nat \ {0}, NEW n \in Nat
    PROVE  /\ a <= n * b => a \div b <= n
           /\ a < n * b => a \div b < n
<1> DEFINE q == a \div b
<1>1. q \in Nat /\ q * b <= a
  BY QuotientIs
<1> HIDE DEF q
<1>2. (n + 1) * b = n * b + b /\ n * b \in Nat /\ q * b \in Nat
  BY <1>1
<1>3. q >= n + 1 => (n + 1) * b <= q * b
  BY <1>1, ProductGrows
<1>4. q >= n => n * b <= q * b
  BY <1>1, ProductGrows
<1>5. QED
  BY <1>1, <1>2, <1>3, <1>4 DEF q

\* A fraction that is no less has a quotient that is no less.
LEMMA QuotientGrows ==
    ASSUME NEW a \in Nat, NEW b \in Nat \ {0}, NEW c \in Nat, NEW d \in Nat \ {0},
           a * d <= c * b
    PROVE  a \div b <= c \div d
<1> DEFINE p == a \div b
           q == c \div d
<1>1. p \in Nat /\ p * b <= a /\ q \in Nat /\ c < q * d + d
  BY QuotientIs
<1> HIDE DEF p, q
<1>2. (q + 1) * d = q * d + d
  BY <1>1
<1>3. ASSUME p >= q + 1 PROVE FALSE
  <2>1. (q + 1) * b <= p * b
    BY <1>1, <1>3, ProductGrows
  <2>2. (q + 1) * b <= a /\ (q + 1) * b \in Nat
    BY <1>1, <2>1
  <2>3. ((q + 1) * b) * d <= a * d
    BY <2>2, ProductGrows
  <2>4. c + 1 <= (q + 1) * d
    BY <1>1, <1>2
  <2>5. (c + 1) * b <= ((q + 1) * d) * b
    BY <1>1, <2>4, ProductGrows
  <2>6. (c + 1) * b = c * b + b /\ ((q + 1) * d) * b = ((q + 1) * b) * d
    BY <1>1
  <2>7. QED
    BY <1>1, <2>3, <2>5, <2>6
<1>4. QED
  BY <1>1, <1>3 DEF p, q

-----------------------------------------------------------------------------
\* What a sequence holds, when it grows at its end and is read at its head.
LEMMA RangeAppend ==
    ASSUME NEW M, NEW s \in Seq(M), NEW m \in M
    PROVE  Range(Append(s, m)) = Range(s) \cup {m}
<1>1. /\ Append(s, m) \in Seq(M) /\ Len(Append(s, m)) = Len(s) + 1
      /\ \A i \in 1 .. Len(s) : Append(s, m)[i] = s[i]
      /\ Append(s, m)[Len(s) + 1] = m /\ Len(s) \in Nat
  BY AppendProperties, LenProperties
<1>2. DOMAIN s = 1 .. Len(s) /\ DOMAIN Append(s, m) = 1 .. Len(s) + 1
  BY <1>1, LenProperties
<1>3. QED
  BY <1>1, <1>2 DEF Range

LEMMA RangeHeadTail ==
    ASSUME NEW M, NEW s \in Seq(M), s # <<>>
    PROVE  Range(s) = {Head(s)} \cup Range(Tail(s))
<1>1. /\ Tail(s) \in Seq(M) /\ Len(Tail(s)) = Len(s) - 1
      /\ \A i \in 1 .. Len(Tail(s)) : Tail(s)[i] = s[i + 1]
      /\ Len(s) \in Nat \ {0} /\ Head(s) = s[1]
  BY HeadTailProperties, EmptySeq
<1>2. DOMAIN s = 1 .. Len(s) /\ DOMAIN Tail(s) = 1 .. Len(s) - 1
  BY <1>1, LenProperties
<1>3. ASSUME NEW x \in Range(s) PROVE x \in {Head(s)} \cup Range(Tail(s))
  <2>1. PICK i \in 1 .. Len(s) : x = s[i]
    BY <1>1, <1>2 DEF Range
  <2>2. i = 1 \/ (i - 1 \in 1 .. Len(s) - 1 /\ Tail(s)[i - 1] = s[i])
    BY <1>1
  <2>3. QED
    BY <1>1, <1>2, <2>1, <2>2 DEF Range
<1>4. ASSUME NEW x \in {Head(s)} \cup Range(Tail(s)) PROVE x \in Range(s)
  <2>1. CASE x = Head(s)
    BY <1>1, <1>2, <2>1 DEF Range
  <2>2. CASE x \in Range(Tail(s))
    <3>1. PICK i \in 1 .. Len(s) - 1 : x = Tail(s)[i]
      BY <1>2, <2>2 DEF Range
    <3>2. i + 1 \in 1 .. Len(s) /\ s[i + 1] = x
      BY <1>1, <3>1
    <3>3. QED
      BY <1>2, <3>2 DEF Range
  <2>3. QED
    BY <2>1, <2>2
<1>5. QED
  BY <1>3, <1>4

LEMMA RangeIsIn ==
    ASSUME NEW M, NEW s \in Seq(M)
    PROVE  Range(s) \subseteq M
<1>1. s \in [1 .. Len(s) -> M]
  BY LenProperties
<1>2. QED
  BY <1>1, Fun_RangeProperties

LEMMA RangeOfNone == Range(<<>>) = {}
<1>1. <<>> \in Seq({}) /\ Len(<<>>) = 0
  BY EmptySeq
<1>2. DOMAIN <<>> = 1 .. Len(<<>>) /\ 1 .. 0 = {}
  BY <1>1, LenProperties
<1>3. QED
  BY <1>1, <1>2 DEF Range

\* A sequence without repetition stays one when it grows by something new,
\* and when its head is taken.
LEMMA AppendSingle ==
    ASSUME NEW M, NEW s \in Seq(M), IsInjective(s), NEW m \in M \ Range(s)
    PROVE  IsInjective(Append(s, m))
<1>1. /\ Append(s, m) \in Seq(M) /\ Len(Append(s, m)) = Len(s) + 1
      /\ \A i \in 1 .. Len(s) : Append(s, m)[i] = s[i]
      /\ Append(s, m)[Len(s) + 1] = m /\ Len(s) \in Nat
  BY AppendProperties, LenProperties
<1>2. DOMAIN s = 1 .. Len(s) /\ DOMAIN Append(s, m) = 1 .. Len(s) + 1
  BY <1>1, LenProperties
<1>3. \A i \in 1 .. Len(s) : s[i] # m
  BY <1>2 DEF Range
<1>4. QED
  BY <1>1, <1>2, <1>3 DEF IsInjective

LEMMA TailSingle ==
    ASSUME NEW M, NEW s \in Seq(M), IsInjective(s), s # <<>>
    PROVE  IsInjective(Tail(s)) /\ Head(s) \notin Range(Tail(s))
<1>1. /\ Tail(s) \in Seq(M) /\ Len(Tail(s)) = Len(s) - 1
      /\ \A i \in 1 .. Len(Tail(s)) : Tail(s)[i] = s[i + 1]
      /\ Len(s) \in Nat \ {0} /\ Head(s) = s[1]
  BY HeadTailProperties, EmptySeq
<1>2. DOMAIN s = 1 .. Len(s) /\ DOMAIN Tail(s) = 1 .. Len(s) - 1
  BY <1>1, LenProperties
<1>3. \A i, j \in 1 .. Len(s) : s[i] = s[j] => i = j
  BY <1>2 DEF IsInjective
<1>4. IsInjective(Tail(s))
  <2>1. ASSUME NEW i \in 1 .. Len(s) - 1, NEW j \in 1 .. Len(s) - 1, Tail(s)[i] = Tail(s)[j]
        PROVE  i = j
    <3>1. i + 1 \in 1 .. Len(s) /\ j + 1 \in 1 .. Len(s) /\ s[i + 1] = s[j + 1]
      BY <1>1, <2>1
    <3>2. QED
      BY <1>3, <3>1
  <2>2. QED
    BY <1>2, <2>1 DEF IsInjective
<1>5. ASSUME NEW i \in 1 .. Len(s) - 1 PROVE Tail(s)[i] # Head(s)
  <2>1. i + 1 \in 1 .. Len(s) /\ 1 \in 1 .. Len(s) /\ i + 1 # 1
    BY <1>1
  <2>2. QED
    BY <1>1, <1>3, <2>1
<1>6. QED
  BY <1>2, <1>4, <1>5 DEF Range

\* How often m is in a sequence.
Places(s, m) == {i \in 1 .. Len(s) : s[i] = m}
Times(s, m) == Cardinality(Places(s, m))

LEMMA PlacesAreFinite ==
    ASSUME NEW M, NEW s \in Seq(M), NEW m
    PROVE  IsFiniteSet(Places(s, m)) /\ Times(s, m) \in Nat
<1>1. Len(s) \in Nat
  BY LenProperties
<1>2. IsFiniteSet(1 .. Len(s))
  BY <1>1, FS_Interval
<1>3. IsFiniteSet(Places(s, m))
  BY <1>2, FS_Subset DEF Places
<1>4. QED
  BY <1>3, FS_CardinalityType DEF Times

LEMMA TimesInNone ==
    ASSUME NEW m
    PROVE  Times(<<>>, m) = 0
<1>1. Places(<<>>, m) = {}
  BY DEF Places
<1>2. QED
  BY <1>1, FS_EmptySet DEF Times

LEMMA TimesAppend ==
    ASSUME NEW M, NEW s \in Seq(M), NEW n \in M, NEW m
    PROVE  Times(Append(s, n), m) = Times(s, m) + IF n = m THEN 1 ELSE 0
<1>1. /\ Append(s, n) \in Seq(M) /\ Len(Append(s, n)) = Len(s) + 1
      /\ \A i \in 1 .. Len(s) : Append(s, n)[i] = s[i]
      /\ Append(s, n)[Len(s) + 1] = n /\ Len(s) \in Nat
  BY AppendProperties, LenProperties
<1>2. IsFiniteSet(Places(s, m)) /\ Times(s, m) \in Nat
  BY PlacesAreFinite
<1>3. CASE n = m
  <2>1. Places(Append(s, n), m) = Places(s, m) \cup {Len(s) + 1}
    BY <1>1, <1>3 DEF Places
  <2>2. Len(s) + 1 \notin Places(s, m)
    BY <1>1 DEF Places
  <2>3. QED
    BY <1>2, <1>3, <2>1, <2>2, FS_AddElement DEF Times
<1>4. CASE n # m
  <2>1. Places(Append(s, n), m) = Places(s, m)
    BY <1>1, <1>4 DEF Places
  <2>2. QED
    BY <1>2, <1>4, <2>1 DEF Times
<1>5. QED
  BY <1>3, <1>4

LEMMA TimesHeadTail ==
    ASSUME NEW M, NEW s \in Seq(M), s # <<>>, NEW m
    PROVE  Times(s, m) = Times(Tail(s), m) + IF Head(s) = m THEN 1 ELSE 0
<1>1. /\ Tail(s) \in Seq(M) /\ Len(Tail(s)) = Len(s) - 1
      /\ \A i \in 1 .. Len(Tail(s)) : Tail(s)[i] = s[i + 1]
      /\ Len(s) \in Nat \ {0} /\ Head(s) = s[1]
  BY HeadTailProperties, EmptySeq
<1> DEFINE later == Places(s, m) \ {1}
           shift == [i \in Places(Tail(s), m) |-> i + 1]
<1>2. /\ IsFiniteSet(Places(s, m)) /\ IsFiniteSet(Places(Tail(s), m))
      /\ Times(s, m) \in Nat /\ Times(Tail(s), m) \in Nat
  BY <1>1, PlacesAreFinite
<1>3. shift \in Bijection(Places(Tail(s), m), later)
  <2>1. shift \in [Places(Tail(s), m) -> later]
    BY <1>1 DEF Places
  <2>2. \A i, j \in Places(Tail(s), m) : shift[i] = shift[j] => i = j
    BY <1>1 DEF Places
  <2>3. ASSUME NEW j \in later PROVE \E i \in Places(Tail(s), m) : shift[i] = j
    <3>1. j - 1 \in Places(Tail(s), m)
      BY <1>1 DEF Places
    <3>2. j \in Int
      BY DEF Places
    <3>3. shift[j - 1] = j
      BY <3>1, <3>2
    <3>4. QED
      BY <3>1, <3>3
  <2> HIDE DEF shift, later
  <2>4. QED
    BY <2>1, <2>2, <2>3, Fun_IsBij
<1>4. IsFiniteSet(later) /\ Cardinality(later) = Times(Tail(s), m)
  <2>1. ExistsBijection(Places(Tail(s), m), later)
    BY <1>3, Fun_ExistsBij
  <2> HIDE DEF later
  <2>2. QED
    BY <1>2, <2>1, FS_Bijection DEF Times
<1>5. CASE Head(s) = m
  <2>1. Places(s, m) = later \cup {1} /\ 1 \notin later
    BY <1>1, <1>5 DEF Places
  <2> HIDE DEF later
  <2>2. Cardinality(later \cup {1}) = Cardinality(later) + 1
    BY <1>4, <2>1, FS_AddElement
  <2>3. QED
    BY <1>4, <1>5, <2>1, <2>2 DEF Times
<1>6. CASE Head(s) # m
  <2>1. Places(s, m) = later
    BY <1>1, <1>6 DEF Places
  <2> HIDE DEF later
  <2>2. QED
    BY <1>2, <1>4, <1>6, <2>1 DEF Times
<1>7. QED
  BY <1>5, <1>6

-----------------------------------------------------------------------------
(* The sum of a function over a finite set, as the library folds it: it     *)
(* peels off an element of its own choice, and any other would do.          *)
SumRule(f, sum, s) ==
    IF s = {} THEN 0
    ELSE LET x == CHOOSE x \in s : TRUE IN f[x] + sum[s \ {x}]

IsSum(f, S, sum) == sum = [s \in SUBSET S |-> SumRule(f, sum, s)]
SumOf(f, S) == CHOOSE sum : IsSum(f, S, sum)

LEMMA FoldIsSum ==
    ASSUME NEW f, NEW S
    PROVE  FoldFunctionOnSet(+, 0, f, S) = SumOf(f, S)[S]
BY Zenon DEF FoldFunctionOnSet, MapThenFoldSet, SumOf, IsSum, SumRule

\* The rule, kept by the sets of at most n elements.
SumUpTo(f, S, n, sum) ==
    /\ sum \in [SUBSET S -> Nat]
    /\ \A s \in SUBSET S : Cardinality(s) <= n => sum[s] = SumRule(f, sum, s)

\* The element x the rule peels off s.
Peels(f, S, s, x) ==
    /\ x \in s /\ f[x] \in Nat /\ s \ {x} \in SUBSET S
    /\ Cardinality(s) \in Nat /\ Cardinality(s \ {x}) = Cardinality(s) - 1
    /\ \A sum : SumRule(f, sum, s) = f[x] + sum[s \ {x}]

LEMMA SumRuleOfNone ==
    ASSUME NEW f, NEW sum
    PROVE  SumRule(f, sum, {}) = 0
BY DEF SumRule

LEMMA SumRulePeels ==
    ASSUME NEW S, IsFiniteSet(S), NEW f, f \in [S -> Nat], NEW s, s \in SUBSET S, s # {}
    PROVE  \E x : Peels(f, S, s, x)
<1> DEFINE x == CHOOSE x \in s : TRUE
<1>1. x \in s
  OBVIOUS
<1>2. \A sum : SumRule(f, sum, s) = f[x] + sum[s \ {x}]
  BY Zenon DEF SumRule
<1> HIDE DEF x
<1>3. f[x] \in Nat /\ s \ {x} \in SUBSET S
  BY <1>1
<1>4. IsFiniteSet(s) /\ Cardinality(s) \in Nat
  BY FS_Subset, FS_CardinalityType
<1>5. Cardinality(s \ {x}) = Cardinality(s) - 1
  BY <1>1, <1>4, FS_RemoveElement
<1>6. Peels(f, S, s, x)
  BY <1>1, <1>2, <1>3, <1>4, <1>5, Zenon DEF Peels
<1>7. QED
  BY <1>6

LEMMA SumsGrow ==
    ASSUME NEW S, IsFiniteSet(S), NEW f \in [S -> Nat], NEW n \in Nat,
           NEW sum, SumUpTo(f, S, n, sum)
    PROVE  \E more : SumUpTo(f, S, n + 1, more)
<1> DEFINE more == [s \in SUBSET S |-> IF Cardinality(s) <= n + 1 THEN SumRule(f, sum, s) ELSE 0]
<1>1. sum \in [SUBSET S -> Nat] /\ \A s \in SUBSET S : Cardinality(s) <= n => sum[s] = SumRule(f, sum, s)
  BY DEF SumUpTo
<1>2. ASSUME NEW s \in SUBSET S PROVE SumRule(f, sum, s) \in Nat
  <2>1. CASE s = {}
    BY <2>1, SumRuleOfNone
  <2>2. CASE s # {}
    <3>1. PICK x : Peels(f, S, s, x)
      BY <2>2, SumRulePeels, Zenon
    <3>2. f[x] \in Nat /\ sum[s \ {x}] \in Nat /\ SumRule(f, sum, s) = f[x] + sum[s \ {x}]
      BY <1>1, <3>1 DEF Peels
    <3>3. QED
      BY <3>2
  <2>3. QED
    BY <2>1, <2>2
<1>3. more \in [SUBSET S -> Nat]
  BY <1>2
<1>4. /\ \A s \in SUBSET S : Cardinality(s) <= n + 1 => more[s] = SumRule(f, sum, s)
      /\ \A s \in SUBSET S : Cardinality(s) \in Nat
  BY FS_Subset, FS_CardinalityType
<1> HIDE DEF more
<1>5. \A s \in SUBSET S : Cardinality(s) <= n => more[s] = sum[s]
  BY <1>1, <1>4
<1>6. ASSUME NEW s \in SUBSET S, Cardinality(s) <= n + 1
      PROVE  SumRule(f, sum, s) = SumRule(f, more, s)
  <2>1. CASE s = {}
    BY <2>1 DEF SumRule
  <2>2. CASE s # {}
    <3>1. PICK x : Peels(f, S, s, x)
      BY <2>2, SumRulePeels, Zenon
    <3>2. s \ {x} \in SUBSET S /\ Cardinality(s \ {x}) <= n
      BY <1>6, <3>1 DEF Peels
    <3>3. more[s \ {x}] = sum[s \ {x}]
      BY <1>5, <3>2
    <3>4. /\ SumRule(f, sum, s) = f[x] + sum[s \ {x}]
          /\ SumRule(f, more, s) = f[x] + more[s \ {x}]
      BY <3>1, Zenon DEF Peels
    <3>5. QED
      BY <3>3, <3>4
  <2>3. QED
    BY <2>1, <2>2
<1>7. SumUpTo(f, S, n + 1, more)
  BY <1>3, <1>4, <1>6 DEF SumUpTo
<1>8. QED
  BY <1>7

LEMMA SumExists ==
    ASSUME NEW S, IsFiniteSet(S), NEW f \in [S -> Nat]
    PROVE  /\ IsSum(f, S, SumOf(f, S)) /\ SumOf(f, S) \in [SUBSET S -> Nat]
<1> DEFINE Lacking == {n \in Nat : ~ \E sum : SumUpTo(f, S, n, sum)}
<1>1. Cardinality(S) \in Nat /\ \A s \in SUBSET S : Cardinality(s) <= Cardinality(S)
  BY FS_CardinalityType, FS_Subset
<1>2. Lacking = {}
  <2> SUFFICES ASSUME Lacking # {} PROVE FALSE
    OBVIOUS
  <2>1. PICK n \in Lacking : \A m \in Lacking : n <= m
    <3>1. Lacking \in SUBSET Nat
      OBVIOUS
    <3> HIDE DEF Lacking
    <3>2. QED
      BY <3>1, LeastNatural
  <2>2. n \in Nat /\ ~ \E sum : SumUpTo(f, S, n, sum)
    BY <2>1
  <2>3. n # 0
    <3> DEFINE none == [s \in SUBSET S |-> 0]
    <3>1. ASSUME NEW s \in SUBSET S, Cardinality(s) <= 0 PROVE s = {}
      <4>1. IsFiniteSet(s) /\ Cardinality(s) \in Nat
        BY FS_Subset, FS_CardinalityType
      <4>2. Cardinality(s) = 0
        BY <3>1, <4>1
      <4>3. QED
        BY <4>1, <4>2, FS_EmptySet
    <3>2. SumUpTo(f, S, 0, none)
      BY <3>1 DEF SumUpTo, SumRule
    <3>3. QED
      BY <2>2, <3>2
  <2>4. n - 1 \in Nat /\ (n - 1) + 1 = n /\ ~(n <= n - 1)
    BY <2>2, <2>3
  <2>5. n - 1 \notin Lacking
    BY <2>1, <2>4
  <2>6. \E sum : SumUpTo(f, S, n - 1, sum)
    BY <2>4, <2>5
  <2>7. \E sum : SumUpTo(f, S, (n - 1) + 1, sum)
    BY <2>4, <2>6, SumsGrow
  <2>8. QED
    BY <2>2, <2>4, <2>7
<1>3. PICK sum : SumUpTo(f, S, Cardinality(S), sum)
  BY <1>1, <1>2
<1>4. IsSum(f, S, sum)
  BY <1>1, <1>3 DEF SumUpTo, IsSum
<1>5. IsSum(f, S, SumOf(f, S))
  BY <1>4, Zenon DEF SumOf
<1> DEFINE any == SumOf(f, S)
<1>6. \A s \in SUBSET S : any[s] = SumRule(f, any, s)
  BY <1>5 DEF IsSum
<1> HIDE DEF any
<1> DEFINE Sizes == {n \in Nat : \E s \in SUBSET S : Cardinality(s) = n /\ any[s] \notin Nat}
<1>7. Sizes \in SUBSET Nat
  OBVIOUS
<1>8. ASSUME Sizes # {} PROVE FALSE
  <2>1. PICK n \in Sizes : \A m \in Sizes : n <= m
    <3> HIDE DEF Sizes
    <3>1. QED
      BY <1>7, <1>8, LeastNatural
  <2>2. PICK s \in SUBSET S : Cardinality(s) = n /\ any[s] \notin Nat
    BY <2>1, Zenon
  <2>3. s # {}
    <3>1. s = {} => any[s] = 0
      BY <1>6, SumRuleOfNone
    <3>2. QED
      BY <2>2, <3>1
  <2>4. PICK x : Peels(f, S, s, x)
    BY <2>3, SumRulePeels, Zenon
  <2>5. any[s] = f[x] + any[s \ {x}] /\ f[x] \in Nat
    BY <1>6, <2>4, Zenon DEF Peels
  <2>6. any[s \ {x}] \notin Nat
    BY <2>2, <2>5
  <2>7. s \ {x} \in SUBSET S /\ Cardinality(s \ {x}) = n - 1
    BY <2>2, <2>4, Zenon DEF Peels
  <2>8. n \in Nat /\ n - 1 \in Nat
    <3>1. n \in Nat
      BY <2>1
    <3>2. IsFiniteSet(s \ {x})
      BY <2>7, FS_Subset
    <3>3. QED
      BY <2>7, <3>1, <3>2, FS_CardinalityType
  <2>9. n - 1 \in Sizes
    BY <2>6, <2>7, <2>8, Zenon
  <2>10. n <= n - 1
    BY <2>1, <2>9, Zenon
  <2>11. QED
    BY <2>8, <2>10
<1>9. \A s \in SUBSET S : any[s] \in Nat
  <2>1. \A s \in SUBSET S : Cardinality(s) \in Nat
    BY FS_Subset, FS_CardinalityType
  <2>2. QED
    BY <1>8, <2>1
<1>10. any = [s \in SUBSET S |-> SumRule(f, any, s)]
  BY <1>5 DEF IsSum, any
<1>11. any \in [SUBSET S -> Nat]
  <2> DEFINE V == {SumRule(f, any, s) : s \in SUBSET S}
  <2>1. any \in [SUBSET S -> V]
    BY <1>10
  <2>2. QED
    BY <1>9, <2>1
<1>12. QED
  BY <1>5, <1>11 DEF any

\* Whichever element is taken out, it accounts for its own share.
Accounts(f, sum, s, a) == sum[s] = f[a] + sum[s \ {a}]

LEMMA AnyAccounts ==
    ASSUME NEW S, IsFiniteSet(S), NEW f, f \in [S -> Nat], NEW n \in Nat,
           \A t \in SUBSET S, b \in S :
               b \in t /\ Cardinality(t) = n - 1 => Accounts(f, SumOf(f, S), t, b),
           NEW s \in SUBSET S, Cardinality(s) = n, NEW a \in s
    PROVE  Accounts(f, SumOf(f, S), s, a)
<1> DEFINE sum == SumOf(f, S)
<1>1. sum \in [SUBSET S -> Nat] /\ \A t \in SUBSET S : sum[t] = SumRule(f, sum, t)
  BY SumExists DEF IsSum
<1> HIDE DEF sum
<1>2. PICK x : Peels(f, S, s, x)
  BY SumRulePeels, Zenon
<1>3. /\ x \in s /\ f[x] \in Nat /\ s \ {x} \in SUBSET S /\ Cardinality(s \ {x}) = n - 1
      /\ sum[s] = f[x] + sum[s \ {x}]
  BY <1>1, <1>2, Zenon DEF Peels
<1>4. CASE x = a
  BY <1>3, <1>4 DEF Accounts, sum
<1>5. CASE x # a
  <2> DEFINE rest == (s \ {x}) \ {a}
  <2>1. a \in s \ {x} /\ x \in s \ {a} /\ (s \ {a}) \ {x} = rest /\ a \in S /\ x \in S
    BY <1>3, <1>5
  <2>2. s \ {a} \in SUBSET S /\ Cardinality(s \ {a}) = n - 1
    <3>1. IsFiniteSet(s)
      BY FS_Subset
    <3>2. QED
      BY <3>1, FS_RemoveElement
  <2>3. sum[s \ {x}] = f[a] + sum[rest]
    BY <1>3, <2>1, Zenon DEF Accounts, sum
  <2>4. sum[s \ {a}] = f[x] + sum[rest]
    <3>1. Accounts(f, SumOf(f, S), s \ {a}, x)
      BY <2>1, <2>2, Zenon
    <3>2. sum[s \ {a}] = f[x] + sum[(s \ {a}) \ {x}]
      BY <3>1, Zenon DEF Accounts, sum
    <3>3. QED
      BY <2>1, <3>2
  <2>5. rest \in SUBSET S
    BY <1>3
  <2> HIDE DEF rest
  <2>6. sum[rest] \in Nat /\ f[a] \in Nat
    BY <1>1, <2>1, <2>5
  <2>7. sum[s] = f[a] + sum[s \ {a}]
    BY <1>3, <2>3, <2>4, <2>6
  <2>8. QED
    BY <2>7 DEF Accounts, sum
<1>6. QED
  BY <1>4, <1>5

LEMMA SumIs ==
    ASSUME NEW S, IsFiniteSet(S), NEW f, f \in [S -> Nat]
    PROVE  /\ SumOf(f, S) \in [SUBSET S -> Nat]
           /\ SumOf(f, S)[S] = FoldFunctionOnSet(+, 0, f, S)
           /\ SumOf(f, S)[{}] = 0
           /\ \A s \in SUBSET S, a \in S : a \in s => Accounts(f, SumOf(f, S), s, a)
<1> DEFINE Right(n) == \A t \in SUBSET S, b \in S :
                          b \in t /\ Cardinality(t) = n => Accounts(f, SumOf(f, S), t, b)
           Lacking == {n \in Nat : ~Right(n)}
<1>1. ASSUME Lacking # {} PROVE FALSE
  <2>1. PICK n \in Lacking : \A m \in Lacking : n <= m
    <3>1. Lacking \in SUBSET Nat
      OBVIOUS
    <3> HIDE DEF Lacking
    <3>2. QED
      BY <1>1, <3>1, LeastNatural
  <2>2. n \in Nat /\ ~Right(n)
    BY <2>1, Zenon
  <2>3. Right(n - 1)
    <3>1. CASE n = 0
      <4>1. \A t \in SUBSET S : Cardinality(t) \in Nat
        BY FS_Subset, FS_CardinalityType
      <4>2. \A t \in SUBSET S : Cardinality(t) # n - 1
        BY <3>1, <4>1
      <4>3. QED
        BY <4>2, Zenon
    <3>2. CASE n # 0
      <4>1. n - 1 \in Nat /\ ~(n <= n - 1)
        BY <2>2, <3>2
      <4>2. n - 1 \notin Lacking
        BY <2>1, <4>1, Zenon
      <4>3. QED
        BY <4>1, <4>2, Zenon
    <3>3. QED
      BY <3>1, <3>2
  <2>4. Right(n)
    BY <2>2, <2>3, AnyAccounts, Zenon
  <2>5. QED
    BY <2>2, <2>4, Zenon
<1>2. ASSUME NEW s \in SUBSET S, NEW a \in S, a \in s
      PROVE  Accounts(f, SumOf(f, S), s, a)
  <2>1. Cardinality(s) \in Nat
    BY FS_Subset, FS_CardinalityType
  <2>2. Right(Cardinality(s))
    BY <1>1, <2>1, Zenon
  <2>3. QED
    BY <1>2, <2>2, Zenon
<1>3. SumOf(f, S)[{}] = 0
  <2> DEFINE sum == SumOf(f, S)
  <2>1. IsSum(f, S, sum)
    BY SumExists, Zenon
  <2> HIDE DEF sum
  <2>2. sum[{}] = SumRule(f, sum, {})
    BY <2>1 DEF IsSum
  <2>3. QED
    BY <2>2, SumRuleOfNone, Zenon DEF sum
<1>4. SumOf(f, S)[S] = FoldFunctionOnSet(+, 0, f, S)
  BY FoldIsSum, Zenon
<1>5. SumOf(f, S) \in [SUBSET S -> Nat]
  BY SumExists, Zenon
<1>6. QED
  BY <1>2, <1>3, <1>4, <1>5, Zenon
=============================================================================
