--------------------------- MODULE HumanIds_proofs ---------------------------
(***************************************************************************)
(* Proofs about module HumanIds, for any number of projects and requests,  *)
(* any files, any base and any width: ids are unique, those of a project   *)
(* whose pattern finds no others have no gaps, and a creation that nobody  *)
(* crossed finds its id free while the digits last.                        *)
(*                                                                         *)
(* The first half is about the text order of ids, on which "the last id"   *)
(* rests: padded to the width, and with more digits beyond it, the texts   *)
(* of numbers are linearly ordered, so that a finite set of ids has a last *)
(* one.  Where an induction is called for it is done with the least        *)
(* natural number of a set of counterexamples.                             *)
(***************************************************************************)
EXTENDS HumanIds, FiniteSetTheorems, SequenceTheorems, WellFoundedInduction, TLAPS

----------------------------------------------------------------------------
(* Least numbers and powers *)

LEMMA LeastNumber ==
    ASSUME NEW S \in SUBSET Nat, S # {}
    PROVE  \E n \in S : \A m \in S : n <= m
<1> DEFINE R == OpToRel(<, Nat)
<1>1. R = {p \in Nat \X Nat : p[1] < p[2]}
  BY Zenon DEF OpToRel
<1>2. IsWellFoundedOn(R, Nat) /\ S \subseteq Nat
  BY Zenon, NatLessThanWellFounded
<1> HIDE DEF R
<1>3. PICK n \in S : \A m \in S : <<m, n>> \notin R
  BY <1>2, WFMin
<1>4. \A m \in S : ~(m < n)
  BY <1>1, <1>3
<1> QED
  BY <1>4

\* The first powers of the base, as a function on 0..n.
PowersUpTo(n, g) ==
    /\ g \in [0..n -> Nat]
    /\ g[0] = 1 /\ \A k \in 1..n : g[k] = Base * g[k - 1]

LEMMA SomePowers == \A n \in Nat : \E g : PowersUpTo(n, g)
<1> DEFINE Bad == {n \in Nat : ~ \E g : PowersUpTo(n, g)}
<1>1. SUFFICES ASSUME Bad # {} PROVE FALSE
  OBVIOUS
<1>2. PICK n \in Bad : \A m \in Bad : n <= m
  BY <1>1, LeastNumber
<1>3. n \in Nat /\ ~ \E g : PowersUpTo(n, g)
  BY <1>2
<1>4. CASE n = 0
  <2>1. PowersUpTo(0, [k \in 0..0 |-> 1])
    BY DEF PowersUpTo
  <2> QED
    BY <1>3, <1>4, <2>1
<1>5. CASE n > 0
  <2>1. n - 1 \in Nat /\ n - 1 \notin Bad
    BY <1>2, <1>3, <1>5
  <2>2. PICK g : PowersUpTo(n - 1, g)
    BY <2>1
  <2> DEFINE h == [k \in 0..n |-> IF k = n THEN Base * g[n - 1] ELSE g[k]]
  <2>3. \A k \in 0..n : h[k] \in Nat
    BY <1>3, <1>5, <2>2, ConstantsAssumption DEF PowersUpTo
  <2>4. h \in [0..n -> Nat] /\ h[0] = 1
    BY <1>3, <1>5, <2>2, <2>3 DEF PowersUpTo
  <2>5. \A k \in 1..n : h[k] = Base * h[k - 1]
    BY <1>3, <1>5, <2>2 DEF PowersUpTo
  <2>6. PowersUpTo(n, h)
    BY <2>4, <2>5 DEF PowersUpTo
  <2> QED
    BY <1>3, <2>6
<1> QED
  BY <1>3, <1>4, <1>5

LEMMA OnlyPowers ==
    ASSUME NEW m \in Nat, NEW n \in Nat, NEW g, NEW h, PowersUpTo(m, g), PowersUpTo(n, h),
           NEW k \in 0..m, k \in 0..n
    PROVE  g[k] = h[k]
<1> DEFINE Bad == {i \in Nat : i <= m /\ i <= n /\ g[i] # h[i]}
<1>1. SUFFICES ASSUME Bad # {} PROVE FALSE
  OBVIOUS
<1>2. PICK i \in Bad : \A j \in Bad : i <= j
  BY <1>1, LeastNumber
<1>3. i # 0
  BY <1>2 DEF PowersUpTo
<1>4. i - 1 \in Nat /\ i - 1 \notin Bad
  BY <1>2, <1>3
<1>5. g[i - 1] = h[i - 1]
  BY <1>2, <1>4
<1>6. g[i] = Base * g[i - 1] /\ h[i] = Base * h[i - 1]
  BY <1>2, <1>3 DEF PowersUpTo
<1> QED
  BY <1>2, <1>5, <1>6

\* The recursive definition has a solution.
LEMMA PowerDef ==
    /\ Power[0] = 1
    /\ \A k \in Nat : Power[k] \in Nat /\ Power[k + 1] = Base * Power[k]
<1> DEFINE Up(n) == CHOOSE g : PowersUpTo(n, g)
           P == [n \in Nat |-> Up(n)[n]]
<1>1. \A n \in Nat : PowersUpTo(n, Up(n))
  BY SomePowers
<1> HIDE DEF Up
<1>2. \A n \in Nat : P[n] = Up(n)[n] /\ P[n] \in Nat
  BY <1>1 DEF PowersUpTo
<1>3. P[0] = 1
  BY <1>1, <1>2 DEF PowersUpTo
<1>4. ASSUME NEW n \in Nat, n # 0
      PROVE  P[n] = Base * P[n - 1]
  <2>1. n - 1 \in Nat /\ n \in 1..n /\ n - 1 \in 0..(n - 1) /\ n - 1 \in 0..n
    BY <1>4
  <2>2. Up(n)[n] = Base * Up(n)[n - 1]
    BY <1>1, <2>1 DEF PowersUpTo
  <2>3. Up(n)[n - 1] = Up(n - 1)[n - 1]
    BY <1>1, <2>1, OnlyPowers
  <2> QED
    BY <1>2, <2>1, <2>2, <2>3
<1>5. P = [k \in Nat |-> IF k = 0 THEN 1 ELSE Base * P[k - 1]]
  <2>1. \A k \in Nat : P[k] = IF k = 0 THEN 1 ELSE Base * P[k - 1]
    BY <1>3, <1>4
  <2>2. P = [k \in Nat |-> P[k]]
    OBVIOUS
  <2> HIDE DEF P
  <2> QED
    BY <2>1, <2>2
<1> HIDE DEF P
<1>6. Power = CHOOSE f : f = [k \in Nat |-> IF k = 0 THEN 1 ELSE Base * f[k - 1]]
  BY DEF Power
<1>7. Power = [k \in Nat |-> IF k = 0 THEN 1 ELSE Base * Power[k - 1]]
  <2> DEFINE Solves(f) == f = [k \in Nat |-> IF k = 0 THEN 1 ELSE Base * f[k - 1]]
  <2>1. Solves(P)
    BY <1>5
  <2>2. Power = CHOOSE f : Solves(f)
    BY <1>6
  <2> HIDE DEF Solves
  <2>3. Solves(Power)
    BY <2>1, <2>2
  <2> QED
    BY <2>3 DEF Solves
<1>8. Power[0] = 1 /\ \A k \in Nat : Power[k + 1] = Base * Power[k]
  <2>1. \A k \in Nat : k + 1 \in Nat /\ k + 1 # 0 /\ (k + 1) - 1 = k
    OBVIOUS
  <2>2. \A k \in Nat : Power[k] = IF k = 0 THEN 1 ELSE Base * Power[k - 1]
    BY <1>7
  <2> QED
    BY <2>1, <2>2
<1> DEFINE Bad == {k \in Nat : Power[k] \notin Nat}
<1>9. Bad = {}
  <2>1. SUFFICES ASSUME Bad # {} PROVE FALSE
    OBVIOUS
  <2>2. PICK k \in Bad : \A j \in Bad : k <= j
    BY <2>1, LeastNumber
  <2>3. k # 0
    BY <1>8, <2>2
  <2>4. k - 1 \in Nat /\ k - 1 \notin Bad /\ (k - 1) + 1 = k
    BY <2>2, <2>3
  <2>5. Power[k - 1] \in Nat /\ Power[k] = Base * Power[k - 1]
    BY <1>8, <2>4
  <2>6. \A x \in Nat : Base * x \in Nat
    BY ConstantsAssumption
  <2> QED
    BY <2>2, <2>5, <2>6
<1> QED
  BY <1>8, <1>9

LEMMA PowersGrow ==
    /\ \A k \in Nat : Power[k] > 0 /\ k < Power[k]
    /\ \A j, k \in Nat : j <= k => Power[j] <= Power[k]
<1>1. \A x, y \in Nat : y = Base * x /\ x > 0 => y > x
  BY ConstantsAssumption
<1> DEFINE Bad == {k \in Nat : Power[k] <= k}
<1>2. Bad = {}
  <2>1. SUFFICES ASSUME Bad # {} PROVE FALSE
    OBVIOUS
  <2>2. PICK k \in Bad : \A j \in Bad : k <= j
    BY <2>1, LeastNumber
  <2>3. k # 0
    BY <2>2, PowerDef
  <2>4. k - 1 \in Nat /\ k - 1 \notin Bad /\ (k - 1) + 1 = k
    BY <2>2, <2>3
  <2>5. /\ Power[k - 1] \in Nat /\ Power[k] \in Nat
        /\ Power[k] = Base * Power[k - 1] /\ Power[k - 1] > k - 1
    BY <2>4, PowerDef
  <2>6. Power[k] > Power[k - 1]
    BY <1>1, <2>4, <2>5
  <2> QED
    BY <2>2, <2>4, <2>5, <2>6
<1>3. \A k \in Nat : Power[k] \in Nat /\ Power[k] > 0 /\ k < Power[k]
  BY <1>2, PowerDef
<1>4. \A k \in Nat : Power[k] < Power[k + 1]
  BY <1>1, <1>3, PowerDef
<1>5. ASSUME NEW j \in Nat
      PROVE  \A k \in Nat : j <= k => Power[j] <= Power[k]
  <2> DEFINE Less == {k \in Nat : j <= k /\ Power[k] < Power[j]}
  <2>1. SUFFICES ASSUME Less # {} PROVE FALSE
    BY <1>3
  <2>2. PICK k \in Less : \A i \in Less : k <= i
    BY <2>1, LeastNumber
  <2>3. k \in Nat /\ j < k
    BY <1>3, <2>2
  <2>4. k - 1 \in Nat /\ j <= k - 1 /\ k - 1 \notin Less /\ (k - 1) + 1 = k
    BY <2>2, <2>3
  <2>5. Power[k - 1] >= Power[j] /\ Power[k - 1] < Power[k]
    BY <1>3, <1>4, <2>4
  <2> QED
    BY <1>3, <2>2, <2>4, <2>5
<1> QED
  BY <1>3, <1>5
----------------------------------------------------------------------------
(* Lengths and digits *)

\* A number is written with as many digits as it needs, and no fewer than Width.
LEMMA LengthFits ==
    ASSUME NEW n \in Nat
    PROVE  /\ Length(n) \in Nat /\ Width <= Length(n) /\ n < Power[Length(n)]
           /\ Length(n) > Width => Power[Length(n) - 1] <= n
<1> DEFINE Fits == {k \in Nat : Width <= k /\ n < Power[k]}
           Right(k) == n < Power[k] /\ (k > Width => n >= Power[k - 1])
<1>1. Width \in Nat /\ Width + n \in Nat
  BY ConstantsAssumption
<1>2. Width + n \in Fits
  <2>1. n < Power[n] /\ Power[n] <= Power[Width + n] /\ Power[n] \in Nat
        /\ Power[Width + n] \in Nat
    BY <1>1, PowersGrow, PowerDef
  <2> QED
    BY <1>1, <2>1
<1>3. PICK k \in Fits : \A j \in Fits : k <= j
  BY <1>2, LeastNumber
<1>4. k \in Width..(Width + n)
  BY <1>1, <1>2, <1>3
<1>5. Right(k)
  <2>1. ASSUME k > Width PROVE n >= Power[k - 1]
    <3>1. k - 1 \in Nat /\ k - 1 \notin Fits /\ Width <= k - 1
      BY <1>1, <1>3, <2>1
    <3>2. Power[k - 1] \in Nat
      BY <3>1, PowerDef
    <3> QED
      BY <3>1, <3>2
  <2> QED
    BY <1>3, <2>1
<1>6. Length(n) = CHOOSE j \in Width..(Width + n) : Right(j)
  BY DEF Length
<1> HIDE DEF Right
<1>7. Length(n) \in Width..(Width + n) /\ Right(Length(n))
  BY <1>4, <1>5, <1>6
<1>8. Length(n) \in Nat /\ Width <= Length(n)
  BY <1>1, <1>7
<1>9. Power[Length(n)] \in Nat /\ (Length(n) > Width => Power[Length(n) - 1] \in Nat)
  BY <1>1, <1>8, PowerDef
<1> QED
  BY <1>7, <1>8, <1>9 DEF Right

\* Numbers are padded to Width digits as long as they fit.
LEMMA ShortLength ==
    ASSUME NEW n \in Nat, n < Power[Width]
    PROVE  Length(n) = Width
<1>1. Width \in Nat
  BY ConstantsAssumption
<1>2. SUFFICES ASSUME Length(n) > Width PROVE FALSE
  BY <1>1, LengthFits
<1>3. Length(n) - 1 \in Nat /\ Width <= Length(n) - 1
  BY <1>1, <1>2, LengthFits
<1>4. Power[Width] <= Power[Length(n) - 1] /\ Power[Length(n) - 1] <= n
  BY <1>1, <1>2, <1>3, PowersGrow, LengthFits
<1> QED
  BY <1>1, <1>3, <1>4, PowerDef

Factor(n) == Power[Length(n)]

LEMMA FactorIsPositive == \A n \in Nat : Factor(n) \in Nat /\ Factor(n) > 0
BY LengthFits, PowerDef, PowersGrow DEF Factor

LEMMA DigitsAreTotal ==
    ASSUME NEW m \in Nat \ {0}, NEW n \in Nat \ {0}, m # n
    PROVE  DigitsAfter(m, n) \/ DigitsAfter(n, m)
<1>1. Factor(m) \in Nat /\ Factor(m) > 0 /\ Factor(n) \in Nat /\ Factor(n) > 0
  BY FactorIsPositive
<1>2. Length(m) \in Nat /\ Length(n) \in Nat
  BY LengthFits
<1>3. m * Factor(n) \in Nat /\ n * Factor(m) \in Nat
  BY <1>1
<1>4. CASE m * Factor(n) # n * Factor(m)
  BY <1>3, <1>4 DEF DigitsAfter, Factor
<1>5. CASE m * Factor(n) = n * Factor(m)
  <2>1. Length(m) # Length(n)
    <3>1. SUFFICES ASSUME Length(m) = Length(n) PROVE FALSE
      OBVIOUS
    <3>2. Factor(m) = Factor(n)
      BY <3>1 DEF Factor
    <3>3. \A x \in Nat : x > 0 /\ m * x = n * x => m = n
      OBVIOUS
    <3> QED
      BY <1>1, <1>5, <3>2, <3>3
  <2> QED
    BY <1>2, <1>5, <2>1 DEF DigitsAfter, Factor
<1> QED
  BY <1>4, <1>5

LEMMA ProductsAreOrdered ==
    ASSUME NEW m \in Nat, NEW n \in Nat, NEW k \in Nat, NEW x \in Nat, NEW y \in Nat,
           NEW z \in Nat, x > 0, y > 0, z > 0
    PROVE  /\ m * y > n * x /\ n * z >= k * y => m * z > k * x
           /\ m * y >= n * x /\ n * z > k * y => m * z > k * x
           /\ m * y = n * x /\ n * z = k * y => m * z = k * x
OBVIOUS

LEMMA DigitsAreTransitive ==
    ASSUME NEW m \in Nat \ {0}, NEW n \in Nat \ {0}, NEW k \in Nat \ {0},
           DigitsAfter(m, n), DigitsAfter(n, k)
    PROVE  DigitsAfter(m, k)
<1> DEFINE x == Factor(m)
           y == Factor(n)
           z == Factor(k)
<1>1. /\ x \in Nat /\ x > 0 /\ y \in Nat /\ y > 0 /\ z \in Nat /\ z > 0
      /\ m \in Nat /\ n \in Nat /\ k \in Nat
  BY FactorIsPositive
<1>2. Length(m) \in Nat /\ Length(n) \in Nat /\ Length(k) \in Nat
  BY LengthFits
<1>3. m * y > n * x \/ (m * y = n * x /\ Length(m) > Length(n))
  BY DEF DigitsAfter, Factor
<1>4. n * z > k * y \/ (n * z = k * y /\ Length(n) > Length(k))
  BY DEF DigitsAfter, Factor
<1>5. m * z > k * x \/ (m * z = k * x /\ Length(m) > Length(k)) => DigitsAfter(m, k)
  BY DEF DigitsAfter, Factor
<1> HIDE DEF x, y, z
<1>6. m * y \in Nat /\ n * x \in Nat /\ n * z \in Nat /\ k * y \in Nat
  BY <1>1
<1>7. /\ m * y > n * x /\ n * z >= k * y => m * z > k * x
      /\ m * y >= n * x /\ n * z > k * y => m * z > k * x
      /\ m * y = n * x /\ n * z = k * y => m * z = k * x
  BY <1>1, ProductsAreOrdered
<1> QED
  BY <1>2, <1>3, <1>4, <1>5, <1>6, <1>7
----------------------------------------------------------------------------
(* The last id *)

LEMMA TextIsTotal ==
    ASSUME NEW i \in Id, NEW j \in Id, i # j
    PROVE  TextAfter(i, j) \/ TextAfter(j, i)
<1>1. /\ i.project \in Projects /\ j.project \in Projects
      /\ i.number \in Nat \ {0} /\ j.number \in Nat \ {0}
  BY DEF Id
<1>2. CASE i.project = j.project
  <2>1. i.number # j.number
    BY <1>2 DEF Id
  <2> QED
    BY <1>1, <1>2, <2>1, DigitsAreTotal DEF TextAfter
<1>3. CASE i.project # j.project
  <2>1. Rank[i.project] \in Nat /\ Rank[j.project] \in Nat
    BY <1>1, ConstantsAssumption
  <2>2. Rank[i.project] # Rank[j.project]
    BY <1>1, <1>3, ConstantsAssumption
  <2> QED
    BY <1>3, <2>1, <2>2 DEF TextAfter
<1> QED
  BY <1>2, <1>3

LEMMA TextIsTransitive ==
    ASSUME NEW i \in Id, NEW j \in Id, NEW k \in Id, TextAfter(i, j), TextAfter(j, k)
    PROVE  TextAfter(i, k)
<1>1. /\ i.project \in Projects /\ j.project \in Projects /\ k.project \in Projects
      /\ i.number \in Nat \ {0} /\ j.number \in Nat \ {0} /\ k.number \in Nat \ {0}
  BY DEF Id
<1>2. Rank[i.project] \in Nat /\ Rank[j.project] \in Nat /\ Rank[k.project] \in Nat
  BY <1>1, ConstantsAssumption
<1>3. CASE i.project = j.project /\ j.project = k.project
  BY <1>1, <1>3, DigitsAreTransitive DEF TextAfter
<1>4. CASE ~(i.project = j.project /\ j.project = k.project)
  <2>1. Rank[i.project] > Rank[k.project]
    BY <1>2, <1>4 DEF TextAfter
  <2>2. i.project # k.project
    BY <1>2, <2>1
  <2> QED
    BY <2>1, <2>2 DEF TextAfter
<1> QED
  BY <1>3, <1>4

HasLast(ids) == \E i \in ids : \A j \in ids \ {i} : TextAfter(i, j)

\* Ids have a last one as long as they are finitely many.
LEMMA LastExists ==
    ASSUME NEW ids \in SUBSET Id, IsFiniteSet(ids), ids # {}
    PROVE  HasLast(ids)
<1> DEFINE Lacking(n) == \E S \in SUBSET Id : /\ IsFiniteSet(S) /\ S # {} /\ Cardinality(S) = n
                                              /\ ~HasLast(S)
           Bad == {n \in Nat : Lacking(n)}
<1>1. SUFFICES ASSUME ~HasLast(ids) PROVE FALSE
  OBVIOUS
<1>2. Cardinality(ids) \in Nat
  BY FS_CardinalityType
<1>3. Bad # {}
  <2>1. Lacking(Cardinality(ids))
    BY <1>1
  <2> HIDE DEF Lacking
  <2> QED
    BY <1>2, <2>1
<1>4. PICK n \in Bad : \A m \in Bad : n <= m
  <2>1. Bad \in SUBSET Nat
    OBVIOUS
  <2> HIDE DEF Bad
  <2> QED
    BY <1>3, <2>1, LeastNumber
<1>5. PICK S \in SUBSET Id : /\ IsFiniteSet(S) /\ S # {} /\ Cardinality(S) = n
                             /\ ~HasLast(S)
  BY <1>4
<1>6. PICK i : i \in S
  BY <1>5
<1> DEFINE T == S \ {i}
<1>7. IsFiniteSet(T) /\ Cardinality(T) = n - 1 /\ T \in SUBSET Id /\ i \in Id
  BY <1>5, <1>6, FS_RemoveElement
<1>8. n \in Nat
  BY <1>4
<1>9. CASE T = {}
  BY <1>5, <1>6, <1>9 DEF HasLast
<1>10. CASE T # {}
  <2>1. HasLast(T)
    <3>1. SUFFICES ASSUME ~HasLast(T) PROVE FALSE
      OBVIOUS
    <3>2. Lacking(n - 1)
      BY <1>7, <1>10, <3>1
    <3>3. n - 1 \in Nat
      BY <1>7, FS_CardinalityType
    <3> HIDE DEF Lacking
    <3>4. n - 1 \in Bad
      BY <3>2, <3>3
    <3> QED
      BY <1>4, <1>8, <3>4
  <2>2. PICK k \in T : \A j \in T \ {k} : TextAfter(k, j)
    BY <2>1 DEF HasLast
  <2>3. k \in Id /\ k # i /\ k \in S
    BY <1>7, <2>2
  <2>4. CASE TextAfter(k, i)
    <3>1. \A j \in S \ {k} : TextAfter(k, j)
      BY <2>2, <2>4
    <3> QED
      BY <1>5, <2>3, <3>1 DEF HasLast
  <2>5. CASE TextAfter(i, k)
    <3>1. ASSUME NEW j \in S \ {i}
          PROVE  TextAfter(i, j)
      <4>1. j \in Id /\ (j = k \/ TextAfter(k, j))
        BY <2>2, <3>1
      <4> QED
        BY <1>7, <2>3, <2>5, <4>1, TextIsTransitive
    <3> QED
      BY <1>5, <1>6, <3>1 DEF HasLast
  <2> QED
    BY <1>7, <2>3, <2>4, <2>5, TextIsTotal
<1> QED
  BY <1>9, <1>10

LEMMA LastIsLast ==
    ASSUME NEW ids \in SUBSET Id, IsFiniteSet(ids), ids # {}
    PROVE  Last(ids) \in ids /\ \A j \in ids \ {Last(ids)} : TextAfter(Last(ids), j)
<1> DEFINE P(i) == \A j \in ids \ {i} : TextAfter(i, j)
<1>1. \E i \in ids : P(i)
  BY LastExists DEF HasLast
<1>2. Last(ids) = CHOOSE i \in ids : P(i)
  BY DEF Last
<1> HIDE DEF P
<1>3. Last(ids) \in ids /\ P(Last(ids))
  BY <1>1, <1>2
<1> QED
  BY <1>3 DEF P

LEMMA NextNumberType ==
    ASSUME NEW ids \in SUBSET Id, IsFiniteSet(ids)
    PROVE  NextNumber(ids) \in Nat \ {0}
<1>1. CASE ids = {}
  BY <1>1 DEF NextNumber
<1>2. CASE ids # {}
  <2>1. Last(ids) \in Id
    BY <1>2, LastIsLast
  <2> QED
    BY <1>2, <2>1 DEF NextNumber, Id
<1> QED
  BY <1>1, <1>2

\* The number after the last one is not there, if the last id is one of the
\* project and no number is longer than Width.
LEMMA NextIsFree ==
    ASSUME NEW ids \in SUBSET Id, IsFiniteSet(ids), ids # {},
           \A i \in ids : i.number < Power[Width]
    PROVE  [project |-> Last(ids).project, number |-> NextNumber(ids)] \notin ids
<1> DEFINE l == Last(ids)
           n == [project |-> l.project, number |-> l.number + 1]
           W == Power[Width]
<1>1. l \in ids /\ \A j \in ids \ {l} : TextAfter(l, j)
  BY LastIsLast
<1>2. l \in Id /\ l.number \in Nat /\ NextNumber(ids) = l.number + 1
  BY <1>1 DEF Id, NextNumber
<1> HIDE DEF l
<1>3. SUFFICES ASSUME n \in ids PROVE FALSE
  BY <1>2 DEF l
<1>4. n # l /\ n.project = l.project /\ n.number = l.number + 1
  <2>1. n.project = l.project /\ n.number = l.number + 1
    OBVIOUS
  <2>2. n.number # l.number
    BY <1>2, <2>1
  <2> QED
    BY <2>1, <2>2
<1>5. DigitsAfter(l.number, n.number)
  BY <1>1, <1>3, <1>4 DEF TextAfter
<1>6. Length(l.number) = Width /\ Length(n.number) = Width
  BY <1>1, <1>2, <1>3, <1>4, ShortLength
<1>7. W \in Nat /\ W > 0 /\ Width \in Nat
  BY PowerDef, PowersGrow, ConstantsAssumption
<1>8. l.number * W > (l.number + 1) * W \/ Width > Width
  BY <1>4, <1>5, <1>6 DEF DigitsAfter
<1> HIDE DEF W
<1>9. \A x \in Nat : ~(x * W > (x + 1) * W)
  BY <1>7
<1> QED
  BY <1>2, <1>7, <1>8, <1>9
----------------------------------------------------------------------------
(* Handlers *)

LEMMA HandlerIsRequest == \A q \in Handler : q # NoRequest
BY DEF Handler, NoRequest

LEMMA RequestType ==
    ASSUME TypeOK, NEW r \in Requests
    PROVE  /\ req[r] # NoRequest => req[r] \in Handler
           /\ Mine(r) \in SUBSET Id
           /\ req[r].phase \in {"reading", "inserting", "closing"} => req[r] # NoRequest
BY DEF TypeOK, Mine, Handler, NoRequest

LEMMA AfterRowType ==
    ASSUME NEW q \in Handler, q.rows # <<>>
    PROVE  /\ AfterRow(q) \in Handler
           /\ AfterRow(q).phase \in {"reading", "closing"}
           /\ AfterRow(q).phase = "closing" <=> AfterRow(q).rows = <<>>
           /\ AfterRow(q).project = q.project /\ AfterRow(q).mine = q.mine
           /\ AfterRow(q).created = q.created /\ AfterRow(q).doomed = q.doomed
           /\ AfterRow(q).failed = q.failed
<1>1. q.rows \in Seq(Kinds)
  BY DEF Handler
<1>2. Tail(q.rows) \in Seq(Kinds) /\ (Len(q.rows) = 1 <=> Tail(q.rows) = <<>>)
  <2>1. Tail(q.rows) \in Seq(Kinds) /\ Len(Tail(q.rows)) = Len(q.rows) - 1
    BY <1>1, HeadTailProperties
  <2>2. Len(q.rows) \in Nat \ {0}
    BY <1>1, EmptySeq
  <2>3. Tail(q.rows) = <<>> <=> Len(Tail(q.rows)) = 0
    BY <2>1, EmptySeq
  <2> QED
    BY <2>1, <2>2, <2>3
<1> QED
  BY <1>2 DEF AfterRow, Handler

LEMMA RowFailsType ==
    ASSUME NEW q \in Handler, q.rows # <<>>
    PROVE  /\ RowFails(q) \in Handler
           /\ RowFails(q).phase \in {"reading", "closing"}
           /\ RowFails(q).phase = "closing" <=> RowFails(q).rows = <<>>
           /\ RowFails(q).project = q.project /\ RowFails(q).mine = q.mine
           /\ RowFails(q).created = q.created
           /\ q.doomed => RowFails(q).doomed
<1> DEFINE a == AfterRow(q)
<1>1. /\ a \in Handler /\ a.phase \in {"reading", "closing"}
      /\ a.phase = "closing" <=> a.rows = <<>>
      /\ a.project = q.project /\ a.mine = q.mine /\ a.created = q.created
      /\ a.doomed = q.doomed
  BY AfterRowType
<1> HIDE DEF a
<1>2. RowFails(q) = IF q.upload THEN [a EXCEPT !.failed = @ + 1] ELSE [a EXCEPT !.doomed = TRUE]
  BY DEF RowFails, a
<1>3. CASE q.upload
  <2> DEFINE f == [a EXCEPT !.failed = @ + 1]
  <2>1. RowFails(q) = f
    BY <1>2, <1>3
  <2>2. f \in Handler
    BY <1>1 DEF Handler
  <2>3. /\ f.phase = a.phase /\ f.rows = a.rows /\ f.project = a.project
        /\ f.mine = a.mine /\ f.created = a.created /\ f.doomed = a.doomed
    BY <1>1 DEF Handler
  <2> HIDE DEF f
  <2> QED
    BY <1>1, <2>1, <2>2, <2>3
<1>4. CASE ~q.upload
  <2> DEFINE f == [a EXCEPT !.doomed = TRUE]
  <2>1. RowFails(q) = f
    BY <1>2, <1>4
  <2>2. f \in Handler
    BY <1>1 DEF Handler
  <2>3. /\ f.phase = a.phase /\ f.rows = a.rows /\ f.project = a.project
        /\ f.mine = a.mine /\ f.created = a.created /\ f.doomed
    BY <1>1 DEF Handler
  <2> HIDE DEF f
  <2> QED
    BY <1>1, <2>1, <2>2, <2>3
<1> QED
  BY <1>3, <1>4

LEMMA FlushFailsType ==
    ASSUME NEW q \in Handler, q.rows # <<>>
    PROVE  /\ FlushFails(q) \in Handler
           /\ FlushFails(q).phase \in {"reading", "closing"}
           /\ FlushFails(q).phase = "closing" <=> FlushFails(q).rows = <<>>
           /\ FlushFails(q).mine = {} /\ FlushFails(q).doomed
<1> DEFINE f == RowFails(q)
<1>1. /\ f \in Handler /\ f.phase \in {"reading", "closing"}
      /\ f.phase = "closing" <=> f.rows = <<>>
  BY RowFailsType
<1> HIDE DEF f
<1>2. FlushFails(q) = [f EXCEPT !.mine = {}, !.doomed = TRUE]
  BY DEF FlushFails, f
<1> QED
  BY <1>1, <1>2 DEF Handler

LEMMA FoundIsFinite ==
    ASSUME IdsInv, NEW r \in Requests, req[r] # NoRequest
    PROVE  Found(r) \in SUBSET Id /\ IsFiniteSet(Found(r))
<1>1. Mine(r) = req[r].mine /\ Mine(r) \in SUBSET Id /\ stored \in SUBSET Id
  BY RequestType DEF Mine, IdsInv, TypeOK
<1>2. IsFiniteSet(stored \cup Mine(r))
  BY FS_Union DEF IdsInv
<1>3. Found(r) \in SUBSET (stored \cup Mine(r))
  BY <1>1 DEF Found
<1> QED
  BY <1>1, <1>2, <1>3, FS_Subset

\* What session r shows of itself: nothing but its own record.
LEMMA SameRecord ==
    ASSUME NEW s, req'[s] = req[s], stored' = stored
    PROVE  Mine(s)' = Mine(s) /\ Found(s)' = Found(s) /\ NextId(s)' = NextId(s)
BY DEF Mine, Found, NextId

\* Session r goes on, with record g; all else stays right.
LEMMA OneGoesOn ==
    ASSUME IdsInv, NEW r \in Requests, NEW g \in {NoRequest} \cup Handler,
           req' = [req EXCEPT ![r] = g], stored' = stored, deleted' = deleted,
           g = NoRequest \/ (g # NoRequest /\ IsFiniteSet(g.mine) /\ g.mine \cap stored = {}
               /\ (\A s \in Requests \ {r} : g.mine \cap Mine(s) = {})
               /\ (~g.doomed => Cardinality(g.mine) = g.created)),
           g # NoRequest => RowsAreTakenInTurn(r)' /\ NextIsNext(r)' /\ IdsFollow(r)'
    PROVE  IdsInv'
<1>1. req \in [Requests -> {NoRequest} \cup Handler] /\ stored \in SUBSET Id
      /\ deleted \in SUBSET stored
  BY DEF IdsInv, TypeOK
<1>2. req'[r] = g /\ \A s \in Requests \ {r} : req'[s] = req[s]
  BY <1>1
<1>3. TypeOK'
  BY <1>1 DEF TypeOK
<1>4. \A s \in Requests \ {r} : Mine(s)' = Mine(s) /\ Found(s)' = Found(s) /\ NextId(s)' = NextId(s)
  BY <1>2, SameRecord
<1>5. Mine(r)' = IF g = NoRequest THEN {} ELSE g.mine
  BY <1>2 DEF Mine
<1>6. /\ IsFiniteSet(Mine(r)') /\ Mine(r)' \cap stored = {}
      /\ \A s \in Requests \ {r} : Mine(r)' \cap Mine(s) = {}
      /\ g # NoRequest /\ ~g.doomed => Cardinality(g.mine) = g.created
  BY <1>5, FS_EmptySet
<1>7. ASSUME NEW s \in Requests
      PROVE  IsFiniteSet(Mine(s))' /\ IdsAreUnique(s)'
  <2>1. CASE s = r
    <3>1. \A t \in Requests \ {r} : Mine(r)' \cap Mine(t)' = {}
      BY <1>4, <1>6
    <3> QED
      BY <1>2, <1>6, <2>1, <3>1 DEF IdsAreUnique
  <2>2. CASE s # r
    <3>1. IsFiniteSet(Mine(s)) /\ IdsAreUnique(s) /\ Mine(s)' = Mine(s) /\ req'[s] = req[s]
      BY <1>2, <1>4, <2>2 DEF IdsInv
    <3>2. \A t \in Requests \ {s} : Mine(s)' \cap Mine(t)' = {}
      <4> SUFFICES ASSUME NEW t \in Requests \ {s}
                   PROVE  Mine(s)' \cap Mine(t)' = {}
        OBVIOUS
      <4>1. CASE t = r
        BY <1>6, <2>2, <3>1, <4>1
      <4>2. CASE t # r
        BY <1>4, <3>1, <4>2 DEF IdsAreUnique
      <4> QED
        BY <4>1, <4>2
    <3> QED
      BY <3>1, <3>2 DEF IdsAreUnique
  <2> QED
    BY <2>1, <2>2
<1>8. ASSUME NEW s \in Requests, req'[s] # NoRequest
      PROVE  RowsAreTakenInTurn(s)' /\ NextIsNext(s)' /\ IdsFollow(s)'
  <2>1. CASE s = r
    BY <1>2, <1>8, <2>1
  <2>2. CASE s # r
    <3>1. /\ RowsAreTakenInTurn(s) /\ NextIsNext(s) /\ IdsFollow(s)
          /\ req'[s] = req[s] /\ Mine(s)' = Mine(s) /\ Found(s)' = Found(s)
          /\ NextId(s)' = NextId(s)
      BY <1>2, <1>4, <1>8, <2>2 DEF IdsInv
    <3> QED
      BY <3>1 DEF RowsAreTakenInTurn, NextIsNext, IdsFollow, NoGapBefore
  <2> QED
    BY <2>1, <2>2
<1> QED
  BY <1>3, <1>7, <1>8 DEF IdsInv, NoGapBefore
----------------------------------------------------------------------------
(* The steps of a request *)

LEMMA StartStep ==
    ASSUME IdsInv, NEW r \in Requests, NEW p \in Projects, NEW rows \in Seq(Kinds),
           NEW upload \in BOOLEAN, Start(r, p, rows, upload)
    PROVE  IdsInv'
<1> DEFINE g == [phase |-> IF rows = <<>> THEN "closing" ELSE "reading",
                 project |-> p, rows |-> rows, upload |-> upload, next |-> 0, mine |-> {},
                 created |-> 0, failed |-> 0, doomed |-> FALSE, crossed |-> FALSE]
<1>1. req' = [req EXCEPT ![r] = g] /\ stored' = stored /\ deleted' = deleted
  BY DEF Start
<1>2. /\ g \in Handler /\ g.mine = {} /\ g.created = 0 /\ g.rows = rows
      /\ g.phase = IF rows = <<>> THEN "closing" ELSE "reading"
  BY DEF Handler
<1>3. req'[r] = g
  BY <1>1 DEF IdsInv, TypeOK
<1> HIDE DEF g
<1>4. Mine(r)' = {}
  BY <1>2, <1>3 DEF Mine
<1>5. RowsAreTakenInTurn(r)' /\ NextIsNext(r)' /\ IdsFollow(r)'
  BY <1>2, <1>3, <1>4 DEF RowsAreTakenInTurn, NextIsNext, IdsFollow
<1> QED
  BY <1>1, <1>2, <1>5, OneGoesOn, FS_EmptySet

\* What an unread, refused or failed row leaves of the session.
LEMMA PassOver ==
    ASSUME IdsInv, NEW r \in Requests, req[r] # NoRequest, NEW g \in Handler,
           req' = [req EXCEPT ![r] = g], stored' = stored, deleted' = deleted,
           g.phase \in {"reading", "closing"}, g.phase = "closing" <=> g.rows = <<>>,
           \/ g.mine = {} /\ g.doomed
           \/ /\ g.mine = req[r].mine /\ g.project = req[r].project
              /\ g.created = req[r].created /\ (req[r].doomed => g.doomed)
    PROVE  IdsInv'
<1>1. req'[r] = g
  BY DEF IdsInv, TypeOK
<1>2. Mine(r) = req[r].mine /\ Mine(r)' = g.mine
  BY <1>1, HandlerIsRequest DEF Mine
<1>3. RowsAreTakenInTurn(r) /\ IdsFollow(r) /\ IdsAreUnique(r) /\ IsFiniteSet(Mine(r))
  BY DEF IdsInv
<1>4. IsFiniteSet(g.mine) /\ g.mine \cap stored = {}
      /\ (\A s \in Requests \ {r} : g.mine \cap Mine(s) = {})
      /\ (~g.doomed => Cardinality(g.mine) = g.created)
  BY <1>2, <1>3, FS_EmptySet DEF IdsAreUnique
<1>5. RowsAreTakenInTurn(r)' /\ NextIsNext(r)'
  BY <1>1, <1>2, <1>3 DEF RowsAreTakenInTurn, NextIsNext
<1>6. IdsFollow(r)'
  BY <1>1, <1>2, <1>3 DEF IdsFollow, NoGapBefore
<1> QED
  BY <1>4, <1>5, <1>6, OneGoesOn

LEMMA RowLost ==
    ASSUME IdsInv, NEW r \in Requests,
           ReadRefused(r) \/ BuildFails(r) \/ InsertRefused(r) \/ InsertTaken(r)
    PROVE  IdsInv'
<1> DEFINE q == req[r]
<1>1. q # NoRequest /\ q \in Handler /\ q.phase \in {"reading", "inserting"}
  BY RequestType DEF IdsInv, ReadRefused, BuildFails, InsertRefused, InsertTaken
<1>2. q.rows # <<>>
  BY <1>1 DEF IdsInv, RowsAreTakenInTurn
<1> DEFINE f == RowFails(q)
           l == FlushFails(q)
<1>3. /\ stored' = stored /\ deleted' = deleted
      /\ req' = [req EXCEPT ![r] = f] \/ req' = [req EXCEPT ![r] = l]
  BY DEF ReadRefused, BuildFails, InsertRefused, InsertTaken
<1>4. CASE req' = [req EXCEPT ![r] = f]
  <2>1. /\ f \in Handler /\ f.phase \in {"reading", "closing"}
        /\ f.phase = "closing" <=> f.rows = <<>>
        /\ f.project = q.project /\ f.mine = q.mine /\ f.created = q.created
        /\ q.doomed => f.doomed
    BY <1>1, <1>2, RowFailsType
  <2> HIDE DEF f
  <2> QED
    BY <1>1, <1>3, <1>4, <2>1, PassOver
<1>5. CASE req' = [req EXCEPT ![r] = l]
  <2>1. /\ l \in Handler /\ l.phase \in {"reading", "closing"}
        /\ l.phase = "closing" <=> l.rows = <<>>
        /\ l.mine = {} /\ l.doomed
    BY <1>1, <1>2, FlushFailsType
  <2> HIDE DEF l
  <2> QED
    BY <1>1, <1>3, <1>5, <2>1, PassOver
<1> QED
  BY <1>3, <1>4, <1>5

LEMMA ReadLastStep ==
    ASSUME IdsInv, NEW r \in Requests, ReadLast(r)
    PROVE  IdsInv'
<1> DEFINE q == req[r]
           crossed == \E s \in Requests \ {r} : Concerns(s, r)
           g == [q EXCEPT !.phase = "inserting", !.next = NextNumber(Found(r)),
                          !.crossed = crossed]
<1>1. q # NoRequest /\ q \in Handler /\ q.phase = "reading" /\ ~q.doomed
  BY RequestType DEF IdsInv, ReadLast
<1>2. req' = [req EXCEPT ![r] = g] /\ stored' = stored /\ deleted' = deleted
  BY DEF ReadLast
<1>3. Found(r) \in SUBSET Id /\ IsFiniteSet(Found(r))
  BY <1>1, FoundIsFinite
<1>4. NextNumber(Found(r)) \in Nat \ {0}
  BY <1>3, NextNumberType
<1>5. crossed \in BOOLEAN
  OBVIOUS
<1> HIDE DEF crossed
<1>6. /\ g \in Handler /\ g.phase = "inserting" /\ g.next = NextNumber(Found(r))
      /\ g.rows = q.rows /\ g.mine = q.mine /\ g.project = q.project
      /\ g.created = q.created /\ g.doomed = q.doomed
  BY <1>1, <1>4, <1>5 DEF Handler
<1> HIDE DEF g
<1>7. req'[r] = g
  BY <1>2 DEF IdsInv, TypeOK
<1>8. /\ Mine(r) = q.mine /\ Mine(r)' = q.mine
      /\ Found(r)' = Found(r)
  BY <1>1, <1>2, <1>6, <1>7, HandlerIsRequest DEF Mine, Found
<1>9. RowsAreTakenInTurn(r) /\ IdsFollow(r) /\ IdsAreUnique(r) /\ IsFiniteSet(Mine(r))
  BY <1>1 DEF IdsInv
<1>10. RowsAreTakenInTurn(r)' /\ NextIsNext(r)'
  BY <1>1, <1>4, <1>6, <1>7, <1>8, <1>9 DEF RowsAreTakenInTurn, NextIsNext
<1>11. ASSUME Finds[q.project] = {q.project}
       PROVE  NoGapBefore([project |-> q.project, number |-> NextNumber(Found(r))],
                          stored \cup q.mine)
  <2>1. CASE Found(r) = {}
    BY <2>1 DEF NextNumber, NoGapBefore
  <2>2. CASE Found(r) # {}
    <3> DEFINE l == Last(Found(r))
    <3>1. l \in Found(r)
      BY <1>3, <2>2, LastIsLast
    <3>2. l \in Id /\ l \in stored \cup q.mine /\ l.project = q.project
      BY <1>3, <1>11, <3>1 DEF Found
    <3>3. NextNumber(Found(r)) = l.number + 1
      BY <2>2 DEF NextNumber
    <3> HIDE DEF l
    <3>4. l = [project |-> q.project, number |-> (l.number + 1) - 1] /\ l.number \in Nat
      BY <3>2 DEF Id
    <3> QED
      BY <3>2, <3>3, <3>4 DEF NoGapBefore
  <2> QED
    BY <2>1, <2>2
<1>12. NextId(r)' = [project |-> q.project, number |-> NextNumber(Found(r))]
  BY <1>6, <1>7 DEF NextId
<1>13. IdsFollow(r)'
  <2>1. \A i \in Mine(r)' : NoGapBefore(i, stored' \cup Mine(r)') = NoGapBefore(i, stored \cup Mine(r))
    BY <1>2, <1>8
  <2> QED
    BY <1>2, <1>6, <1>7, <1>8, <1>9, <1>11, <1>12, <2>1 DEF IdsFollow, NoGapBefore
<1> QED
  BY <1>1, <1>2, <1>6, <1>8, <1>9, <1>10, <1>13, OneGoesOn DEF IdsAreUnique

LEMMA InsertDoneStep ==
    ASSUME IdsInv, NEW r \in Requests, InsertDone(r)
    PROVE  IdsInv'
<1> DEFINE q == req[r]
           n == NextId(r)
           a == AfterRow(q)
           g == [a EXCEPT !.mine = q.mine \cup {n}, !.created = q.created + 1]
<1>1. q # NoRequest /\ q \in Handler /\ q.phase = "inserting"
  BY RequestType DEF IdsInv, InsertDone
<1>2. /\ req' = [req EXCEPT ![r] = g] /\ stored' = stored /\ deleted' = deleted
      /\ n \notin stored \cup q.mine /\ ~Held(r)
  BY DEF InsertDone
<1>3. RowsAreTakenInTurn(r) /\ IdsFollow(r) /\ IdsAreUnique(r) /\ IsFiniteSet(Mine(r))
  BY <1>1 DEF IdsInv
<1>4. q.rows # <<>> /\ ~q.doomed /\ q.next > 0 /\ \A i \in q.mine : i.project = q.project
  BY <1>1, <1>3 DEF RowsAreTakenInTurn
<1>5. Mine(r) = q.mine
  BY <1>1 DEF Mine
<1>6. n = [project |-> q.project, number |-> q.next] /\ n \in Id
  BY <1>1, <1>4 DEF NextId, Handler, Id
<1>7. /\ a \in Handler /\ a.phase \in {"reading", "closing"}
      /\ a.phase = "closing" <=> a.rows = <<>>
      /\ a.project = q.project /\ a.mine = q.mine /\ a.created = q.created
      /\ a.doomed = q.doomed
  BY <1>1, <1>4, AfterRowType
<1> HIDE DEF a, n
<1>8. g \in Handler
  <2>1. q.mine \cup {n} \in SUBSET Id /\ q.created + 1 \in Nat
    BY <1>1, <1>6 DEF Handler
  <2> QED
    BY <1>7, <2>1 DEF Handler
<1>9. /\ g.phase = a.phase /\ g.rows = a.rows /\ g.project = q.project
      /\ g.mine = q.mine \cup {n} /\ g.created = q.created + 1 /\ ~g.doomed
  BY <1>4, <1>7 DEF Handler
<1> HIDE DEF g
<1>10. req'[r] = g
  BY <1>2 DEF IdsInv, TypeOK
<1>11. Mine(r)' = q.mine \cup {n}
  BY <1>8, <1>9, <1>10, HandlerIsRequest DEF Mine
<1>12. IsFiniteSet(g.mine) /\ Cardinality(g.mine) = g.created
  <2>1. Cardinality(q.mine) = q.created
    BY <1>1, <1>3, <1>4 DEF IdsAreUnique
  <2> QED
    BY <1>2, <1>3, <1>5, <1>9, <2>1, FS_AddElement
<1>13. g.mine \cap stored = {} /\ \A s \in Requests \ {r} : g.mine \cap Mine(s) = {}
  BY <1>2, <1>3, <1>5, <1>9 DEF IdsAreUnique, Held, n
<1>14. RowsAreTakenInTurn(r)' /\ NextIsNext(r)'
  <2>1. \A i \in g.mine : i.project = g.project
    BY <1>4, <1>6, <1>9
  <2> QED
    BY <1>7, <1>9, <1>10, <2>1 DEF RowsAreTakenInTurn, NextIsNext
<1>15. IdsFollow(r)'
  <2>1. ASSUME Finds[q.project] = {q.project}, NEW i \in q.mine \cup {n}
        PROVE  NoGapBefore(i, stored \cup (q.mine \cup {n}))
    <3>1. NoGapBefore(i, stored \cup q.mine)
      BY <1>1, <1>3, <1>5, <2>1 DEF IdsFollow, n
    <3> QED
      BY <3>1 DEF NoGapBefore
  <2> QED
    BY <1>2, <1>7, <1>9, <1>10, <1>11, <2>1 DEF IdsFollow, NoGapBefore
<1> QED
  BY <1>2, <1>8, <1>9, <1>12, <1>13, <1>14, <1>15, OneGoesOn

LEMMA EndStep ==
    ASSUME IdsInv, NEW r \in Requests, Refuse(r) \/ Crash(r)
    PROVE  IdsInv'
BY OneGoesOn DEF Refuse, Crash

\* A deletion leaves the ids alone.
LEMMA OnlyDeletions ==
    ASSUME IdsInv, req' = req, stored' = stored, deleted' \in SUBSET stored
    PROVE  IdsInv'
<1>1. req' = req /\ stored' = stored
  OBVIOUS
<1>2. TypeOK'
  BY DEF IdsInv, TypeOK
<1>3. \A r \in Requests : Mine(r)' = Mine(r) /\ Found(r)' = Found(r) /\ NextId(r)' = NextId(r)
  BY <1>1, SameRecord
<1>4. ASSUME NEW r \in Requests
      PROVE  /\ IsFiniteSet(Mine(r))' /\ IdsAreUnique(r)'
             /\ req'[r] # NoRequest => RowsAreTakenInTurn(r)' /\ NextIsNext(r)' /\ IdsFollow(r)'
  <2>1. /\ IsFiniteSet(Mine(r)) /\ IdsAreUnique(r)
        /\ req[r] # NoRequest => RowsAreTakenInTurn(r) /\ NextIsNext(r) /\ IdsFollow(r)
    BY DEF IdsInv
  <2> QED
    BY <1>1, <1>3, <2>1
       DEF IdsAreUnique, RowsAreTakenInTurn, NextIsNext, IdsFollow, NoGapBefore
<1> QED
  BY <1>1, <1>2, <1>4 DEF IdsInv, NoGapBefore

\* What a commit of r leaves of another session.
LEMMA OthersAtCommit ==
    ASSUME IdsInv, NEW r \in Requests, Commit(r), NEW s \in Requests \ {r}
    PROVE  /\ req'[s] \in {NoRequest} \cup Handler
           /\ req'[s] = NoRequest <=> req[s] = NoRequest
           /\ Mine(s)' = Mine(s) /\ NextId(s)' = NextId(s)
           /\ req'[s] # NoRequest =>
                  /\ req'[s].phase = req[s].phase /\ req'[s].project = req[s].project
                  /\ req'[s].rows = req[s].rows /\ req'[s].next = req[s].next
                  /\ req'[s].mine = req[s].mine /\ req'[s].created = req[s].created
                  /\ req'[s].doomed = req[s].doomed
                  /\ req[s].phase = "inserting" /\ ~req'[s].crossed =>
                         ~req[s].crossed /\ ~Concerns(r, s)
<1> DEFINE g == [req[s] EXCEPT !.crossed = TRUE]
<1>1. req[s] \in {NoRequest} \cup Handler
  BY DEF IdsInv, TypeOK
<1>2. req'[s] = IF req[s].phase = "inserting" /\ Concerns(r, s) THEN g ELSE req[s]
  BY DEF Commit
<1>3. CASE req[s].phase = "inserting" /\ Concerns(r, s)
  <2>1. req[s] # NoRequest /\ req[s] \in Handler
    BY <1>1, <1>3 DEF NoRequest
  <2>2. g \in Handler
    BY <2>1 DEF Handler
  <2>3. /\ g.phase = req[s].phase /\ g.project = req[s].project /\ g.rows = req[s].rows
        /\ g.next = req[s].next /\ g.mine = req[s].mine /\ g.created = req[s].created
        /\ g.doomed = req[s].doomed /\ g.crossed
    BY <2>1 DEF Handler
  <2>4. req'[s] = g
    BY <1>2, <1>3
  <2> HIDE DEF g
  <2>5. Mine(s)' = Mine(s) /\ NextId(s)' = NextId(s)
    BY <2>1, <2>2, <2>3, <2>4, HandlerIsRequest DEF Mine, NextId
  <2> QED
    BY <2>1, <2>2, <2>3, <2>4, <2>5, HandlerIsRequest
<1>4. CASE ~(req[s].phase = "inserting" /\ Concerns(r, s))
  <2>1. req'[s] = req[s]
    BY <1>2, <1>4
  <2>2. Mine(s)' = Mine(s) /\ NextId(s)' = NextId(s)
    BY <2>1 DEF Mine, NextId
  <2> QED
    BY <1>1, <1>4, <2>1, <2>2
<1> QED
  BY <1>3, <1>4

LEMMA CommitStep ==
    ASSUME IdsInv, NEW r \in Requests, Commit(r)
    PROVE  IdsInv'
<1>1. req[r] # NoRequest /\ req[r] \in Handler /\ Mine(r) = req[r].mine
  BY RequestType DEF IdsInv, Commit, Mine
<1>2. /\ stored' = stored \cup Mine(r) /\ deleted' = deleted
      /\ req' \in [Requests -> {NoRequest} \cup Handler] /\ req'[r] = NoRequest
  <2>1. /\ stored' = stored \cup Mine(r) /\ deleted' = deleted /\ req'[r] = NoRequest
        /\ DOMAIN req' = Requests /\ req' = [s \in Requests |-> req'[s]]
    BY <1>1 DEF Commit
  <2>2. \A s \in Requests : req'[s] \in {NoRequest} \cup Handler
    BY <2>1, OthersAtCommit
  <2> HIDE DEF NoRequest, Handler
  <2> QED
    BY <2>1, <2>2
<1>3. /\ RowsAreTakenInTurn(r) /\ IdsFollow(r) /\ IdsAreUnique(r)
      /\ Mine(r) \in SUBSET Id /\ IsFiniteSet(Mine(r))
  BY <1>1, RequestType DEF IdsInv
<1>4. Mine(r)' = {}
  BY <1>2 DEF Mine
<1>5. TypeOK'
  BY <1>2, <1>3 DEF IdsInv, TypeOK
<1>6. IsFiniteSet(stored')
  BY <1>2, <1>3, FS_Union DEF IdsInv
<1>7. ASSUME NEW i \in stored', Finds[i.project] = {i.project}
      PROVE  NoGapBefore(i, stored')
  <2>1. CASE i \in stored
    BY <1>2, <1>7, <2>1 DEF IdsInv, NoGapBefore
  <2>2. CASE i \in Mine(r)
    <3>1. i.project = req[r].project
      BY <1>1, <1>3, <2>2 DEF RowsAreTakenInTurn
    <3> QED
      BY <1>2, <1>3, <1>7, <2>2, <3>1 DEF IdsFollow
  <2> QED
    BY <1>2, <2>1, <2>2
<1>8. ASSUME NEW s \in Requests
      PROVE  IsFiniteSet(Mine(s))' /\ IdsAreUnique(s)'
  <2>1. CASE s = r
    BY <1>2, <1>4, <2>1, FS_EmptySet DEF IdsAreUnique
  <2>2. CASE s # r
    <3>1. IsFiniteSet(Mine(s)) /\ IdsAreUnique(s) /\ Mine(s)' = Mine(s)
      BY <2>2, OthersAtCommit DEF IdsInv
    <3>2. Mine(s)' \cap stored' = {}
      BY <1>2, <1>3, <2>2, <3>1 DEF IdsAreUnique
    <3>3. \A t \in Requests \ {s} : Mine(s)' \cap Mine(t)' = {}
      <4> SUFFICES ASSUME NEW t \in Requests \ {s}
                   PROVE  Mine(s)' \cap Mine(t)' = {}
        OBVIOUS
      <4>1. Mine(t)' = {} \/ Mine(t)' = Mine(t)
        BY <1>4, OthersAtCommit
      <4> QED
        BY <3>1, <4>1 DEF IdsAreUnique
    <3>4. req'[s] # NoRequest /\ ~req'[s].doomed => Cardinality(req'[s].mine) = req'[s].created
      BY <2>2, <3>1, OthersAtCommit DEF IdsAreUnique
    <3> QED
      BY <3>1, <3>2, <3>3, <3>4 DEF IdsAreUnique
  <2> QED
    BY <2>1, <2>2
<1>9. ASSUME NEW s \in Requests, req'[s] # NoRequest
      PROVE  RowsAreTakenInTurn(s)' /\ NextIsNext(s)' /\ IdsFollow(s)'
  <2>1. s \in Requests \ {r}
    BY <1>2, <1>9
  <2>2. /\ req[s] # NoRequest
        /\ Mine(s)' = Mine(s) /\ NextId(s)' = NextId(s)
        /\ req'[s].phase = req[s].phase /\ req'[s].project = req[s].project
        /\ req'[s].rows = req[s].rows /\ req'[s].next = req[s].next
        /\ req'[s].mine = req[s].mine /\ req'[s].doomed = req[s].doomed
    BY <1>9, <2>1, OthersAtCommit
  <2>3. req[s].phase = "inserting" /\ ~req'[s].crossed => ~req[s].crossed /\ ~Concerns(r, s)
    BY <1>9, <2>1, OthersAtCommit
  <2>4. RowsAreTakenInTurn(s) /\ NextIsNext(s) /\ IdsFollow(s)
    BY <2>2 DEF IdsInv
  <2>5. RowsAreTakenInTurn(s)'
    BY <2>2, <2>4 DEF RowsAreTakenInTurn
  <2>6. ~Concerns(r, s) => Found(s)' = Found(s)
    BY <1>2, <2>2 DEF Concerns, Found
  <2>7. NextIsNext(s)'
    BY <2>2, <2>3, <2>4, <2>6 DEF NextIsNext
  <2>8. IdsFollow(s)'
    BY <1>2, <2>2, <2>4 DEF IdsFollow, NoGapBefore
  <2> QED
    BY <2>5, <2>7, <2>8
<1> QED
  BY <1>5, <1>6, <1>7, <1>8, <1>9 DEF IdsInv

LEMMA InitStep ==
    ASSUME Init
    PROVE  IdsInv
<1>1. TypeOK /\ stored = {} /\ \A r \in Requests : req[r] = NoRequest /\ Mine(r) = {}
  BY DEF Init, TypeOK, Mine
<1> QED
  BY <1>1, FS_EmptySet DEF IdsInv, IdsAreUnique

LEMMA NextStep ==
    ASSUME IdsInv, [Next]_vars
    PROVE  IdsInv'
<1>1. ASSUME NEW r \in Requests, NEW p \in Projects,
             Create(r, p) \/ Clone(r, p) \/ Upload(r, p)
      PROVE  IdsInv'
  <2>1. CASE Create(r, p)
    <3>1. PICK kind \in Kinds : Start(r, p, <<kind>>, FALSE)
      BY <2>1 DEF Create
    <3>2. <<kind>> \in Seq(Kinds) /\ FALSE \in BOOLEAN
      OBVIOUS
    <3> QED
      BY <3>1, <3>2, StartStep
  <2>2. CASE Clone(r, p)
    <3>1. Start(r, p, <<"fine">>, FALSE)
      BY <2>2 DEF Clone
    <3>2. "fine" \in Kinds
      BY DEF Kinds
    <3>3. <<"fine">> \in Seq(Kinds) /\ FALSE \in BOOLEAN
      BY <3>2
    <3> QED
      BY <3>1, <3>3, StartStep
  <2>3. CASE Upload(r, p)
    <3>1. PICK rows \in Files : Start(r, p, rows, TRUE)
      BY <2>3 DEF Upload
    <3> QED
      BY <3>1, StartStep, ConstantsAssumption
  <2> QED
    BY <1>1, <2>1, <2>2, <2>3
<1>2. ASSUME NEW r \in Requests, Proceed(r)
      PROVE  IdsInv'
  BY <1>2, ReadLastStep, RowLost, CommitStep, EndStep DEF Proceed
<1>3. ASSUME NEW i \in stored, Delete(i)
      PROVE  IdsInv'
  <2>1. req' = req /\ stored' = stored /\ deleted' \in SUBSET stored
    BY <1>3 DEF Delete, IdsInv, TypeOK
  <2> QED
    BY <2>1, OnlyDeletions
<1>4. ASSUME UNCHANGED vars PROVE IdsInv'
  BY <1>4, OnlyDeletions DEF vars, IdsInv, TypeOK
<1> QED
  BY <1>1, <1>2, <1>3, <1>4, InsertDoneStep, EndStep DEF Next

\* Whatever requests run next to each other, two rows never have one id,
\* committed or about to be, and an upload that can commit holds what it
\* reports as created (create_test_case, create_defect, bulk_upload_test_cases).
THEOREM IdsStayUnique == Spec => []IdsInv
<1>1. Init => IdsInv
  BY InitStep
<1>2. IdsInv /\ [Next]_vars => IdsInv'
  BY NextStep
<1> QED
  BY <1>1, <1>2, PTL DEF Spec
----------------------------------------------------------------------------
(* What the invariant is for *)

\* Finitely many numbers each of which has the one before it start at one and
\* leave none out.
LEMMA NoGapsAtAll ==
    ASSUME NEW S \in SUBSET (Nat \ {0}), IsFiniteSet(S),
           \A n \in S : n = 1 \/ n - 1 \in S
    PROVE  S = 1..Cardinality(S)
<1> DEFINE c == Cardinality(S)
           Missing == {n \in Nat : n > 0 /\ n \notin S}
<1>1. c \in Nat
  BY FS_CardinalityType
<1> HIDE DEF c
<1>2. Missing # {}
  <2>1. SUFFICES ASSUME Missing = {} PROVE FALSE
    OBVIOUS
  <2>2. 1..(c + 1) \in SUBSET S
    BY <1>1, <2>1
  <2>3. Cardinality(1..(c + 1)) <= c
    BY <2>2, FS_Subset DEF c
  <2>4. Cardinality(1..(c + 1)) = c + 1
    <3> DEFINE d == c + 1
    <3>1. 1 \in Int /\ d \in Int /\ ~(1 > d) /\ d - 1 + 1 = d
      BY <1>1
    <3> HIDE DEF d
    <3>2. Cardinality(1..d) = d
      BY <3>1, FS_Interval
    <3> QED
      BY <3>2 DEF d
  <2> QED
    BY <1>1, <2>3, <2>4
<1>3. PICK n \in Missing : \A m \in Missing : n <= m
  BY <1>2, LeastNumber
<1> DEFINE Above == {k \in S : k > n}
<1>4. Above = {}
  <2>1. SUFFICES ASSUME Above # {} PROVE FALSE
    OBVIOUS
  <2>2. Above \in SUBSET Nat
    OBVIOUS
  <2>3. PICK k \in Above : \A m \in Above : k <= m
    BY <2>1, <2>2, LeastNumber
  <2>4. k \in S /\ k \in Nat /\ k > n /\ n \in Nat /\ n > 0 /\ n \notin S
    BY <1>3, <2>3
  <2>5. k - 1 \in S
    BY <2>4
  <2>6. k - 1 \in Above
    BY <2>4, <2>5
  <2> QED
    BY <2>3, <2>4, <2>6
<1>5. n \in Nat /\ n > 0 /\ n \notin S /\ n - 1 \in Nat
  BY <1>3
<1>6. S = 1..(n - 1)
  <2>1. \A k \in 1..(n - 1) : k \in S
    BY <1>3, <1>5
  <2>2. \A k \in S : k \in 1..(n - 1)
    BY <1>4, <1>5
  <2> QED
    BY <2>1, <2>2
<1>7. Cardinality(1..(n - 1)) = n - 1
  <2>1. CASE n = 1
    <3>1. 1..(n - 1) = {}
      BY <2>1
    <3> QED
      BY <2>1, <3>1, FS_EmptySet
  <2>2. CASE n > 1
    <3>1. 1 \in Int /\ n - 1 \in Int /\ ~(1 > n - 1)
      BY <1>5, <2>2
    <3>2. Cardinality(1..(n - 1)) = n - 1 - 1 + 1
      BY <3>1, FS_Interval
    <3> QED
      BY <1>5, <3>2
  <2> QED
    BY <1>5, <2>1, <2>2
<1> QED
  BY <1>6, <1>7

LEMMA NoGapsNow == IdsInv => NumbersAreSequential
<1> SUFFICES ASSUME IdsInv, NEW p \in Projects, Finds[p] = {p}
             PROVE  LET numbers == {i.number : i \in {j \in stored : j.project = p}}
                    IN  numbers = 1..Cardinality(numbers)
  BY DEF NumbersAreSequential
<1> DEFINE ids == {j \in stored : j.project = p}
           numbers == {i.number : i \in ids}
           f == [i \in ids |-> i.number]
<1>1. ids \in SUBSET Id /\ IsFiniteSet(ids)
  <2>1. ids \in SUBSET stored /\ IsFiniteSet(stored) /\ stored \in SUBSET Id
    BY DEF IdsInv, TypeOK
  <2> QED
    BY <2>1, FS_Subset
<1>2. IsFiniteSet(numbers)
  <2>1. f \in Surjection(ids, numbers)
    BY DEF Surjection
  <2> HIDE DEF f, numbers, ids
  <2> QED
    BY <1>1, <2>1, FS_Surjection
<1>3. numbers \in SUBSET (Nat \ {0})
  BY <1>1 DEF Id
<1>4. ASSUME NEW n \in numbers
      PROVE  n = 1 \/ n - 1 \in numbers
  <2>1. PICK i \in ids : n = i.number
    OBVIOUS
  <2>2. NoGapBefore(i, stored)
    BY <2>1 DEF IdsInv
  <2>3. CASE [project |-> i.project, number |-> i.number - 1] \in stored
    <3> DEFINE b == [project |-> i.project, number |-> i.number - 1]
    <3>1. b.number = n - 1 /\ b \in ids
      BY <2>1, <2>3
    <3> HIDE DEF b, ids
    <3>2. \E k \in ids : n - 1 = k.number
      BY <3>1
    <3> QED
      BY <3>2
  <2> QED
    BY <2>1, <2>2, <2>3 DEF NoGapBefore
<1> HIDE DEF numbers
<1>5. numbers = 1..Cardinality(numbers)
  BY <1>2, <1>3, <1>4, NoGapsAtAll
<1> QED
  BY <1>5 DEF numbers

\* The stored numbers of a project start at one and have no gaps, however
\* requests overlap, fail or crash and whatever is deleted, as long as the
\* pattern of the project finds its own ids only (get_next_test_case_id).
THEOREM NumbersStaySequential == Spec => []NumbersAreSequential
BY IdsStayUnique, NoGapsNow, PTL

LEMMA TakenForAReason ==
    ASSUME IdsInv, NEW r \in Requests, InsertTaken(r)
    PROVE  req[r].crossed \/ RunOut(r) \/ Eclipsed(r)
<1> SUFFICES ASSUME ~req[r].crossed, ~RunOut(r), ~Eclipsed(r)
             PROVE  FALSE
  OBVIOUS
<1> DEFINE n == NextId(r)
<1>1. req[r] # NoRequest /\ req[r] \in Handler /\ req[r].phase = "inserting"
  BY RequestType DEF IdsInv, InsertTaken
<1>2. req[r].next = NextNumber(Found(r))
  BY <1>1 DEF IdsInv, NextIsNext
<1>3. n \in stored \cup req[r].mine
  BY DEF InsertTaken
<1>4. n = [project |-> req[r].project, number |-> NextNumber(Found(r))]
  BY <1>2 DEF NextId
<1>5. n \in Found(r)
  <2>1. n.project = req[r].project /\ req[r].project \in Finds[req[r].project]
    BY <1>1, <1>4, ConstantsAssumption DEF Handler
  <2> HIDE DEF n
  <2> QED
    BY <1>3, <2>1 DEF Found
<1>6. Found(r) \in SUBSET Id /\ IsFiniteSet(Found(r)) /\ Found(r) # {}
  BY <1>1, <1>5, FoundIsFinite
<1>7. Last(Found(r)).project = req[r].project
  BY <1>6 DEF Eclipsed
<1>8. \A i \in Found(r) : i.number < Power[Width]
  <2>1. Power[Width] \in Nat
    BY PowerDef, PowersGrow, ConstantsAssumption
  <2>2. \A i \in Found(r) : i.number \in Nat /\ ~(i.number >= Power[Width])
    BY <1>6 DEF RunOut, Id
  <2> QED
    BY <2>1, <2>2
<1> HIDE DEF n
<1> QED
  BY <1>4, <1>5, <1>6, <1>7, <1>8, NextIsFree

\* A creation whose id is taken has been crossed by another one, has run out of
\* digits, or was given the number after another project's id: a creation that
\* runs alone succeeds (create_test_case, clone_test_case, create_defect).
THEOREM LoneCreations == Spec => LoneCreationsSucceed
<1>1. IdsInv /\ [Next]_vars =>
          [\A r \in Requests : InsertTaken(r) =>
               req[r].crossed \/ RunOut(r) \/ Eclipsed(r)]_vars
  BY TakenForAReason
<1> QED
  BY <1>1, IdsStayUnique, PTL DEF Spec, LoneCreationsSucceed
=============================================================================
