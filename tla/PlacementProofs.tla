-------------------------- MODULE PlacementProofs --------------------------
(***************************************************************************)
(* Lemmas about the sizes of items, for the proofs about the stages that   *)
(* count them and rely on them.                                            *)
(***************************************************************************)
EXTENDS Placement, WellFoundedInduction, TLAPS

-----------------------------------------------------------------------------
(* Induction over the natural numbers, stated with sets *)

\* A set of natural numbers that is not empty has a least member.
LEMMA LeastElement ==
  ASSUME NEW T \in SUBSET Nat, T # {}
  PROVE  \E m \in T : \A n \in T : m <= n
<1>1. PICK m \in T : \A n \in T : <<n, m>> \notin OpToRel(<, Nat)
  BY NatLessThanWellFounded, WFMin, Zenon
<1>2. \A n \in T : <<n, m>> \notin {p \in Nat \X Nat : p[1] < p[2]}
  BY <1>1 DEF OpToRel
<1>3. \A n \in T : ~(n < m)
  BY <1>2
<1>. QED
  BY <1>3

\* A set that has 0, and with every number the next one, has all numbers.
LEMMA SetInduction ==
  ASSUME NEW T \in SUBSET Nat, 0 \in T, \A n \in T : n + 1 \in T
  PROVE  T = Nat
<1>. SUFFICES ASSUME Nat \ T # {} PROVE FALSE
  OBVIOUS
<1>1. PICK m \in Nat \ T : \A n \in Nat \ T : m <= n
  BY LeastElement
<1>2. m # 0 /\ m - 1 \in Nat /\ m - 1 \in T
  BY <1>1
<1>3. (m - 1) + 1 = m
  BY <1>2
<1>. QED
  BY <1>2, <1>3

-----------------------------------------------------------------------------
(* Arithmetic *)

\* The remainder of a multiple of c and a rest smaller than c is the rest.
LEMMA RemainderOfSum ==
  ASSUME NEW c \in Nat \ {0}, NEW k \in Nat, NEW r \in 0 .. c - 1
  PROVE  (c * k + r) % c = r
<1>. DEFINE x == c * k + r  q == x \div c  m == x % c
<1>1. c * k \in Nat /\ x \in Nat
  OBVIOUS
<1>2. q \in Int /\ m \in 0 .. c - 1 /\ x = c * q + m
  <2>. HIDE DEF x
  <2>. QED
    BY <1>1
<1>3. c * (k - q) = m - r
  BY <1>1, <1>2
<1>4. k - q \in Int
  BY <1>2
<1>5. k - q < 1
  <2>1. CASE k - q >= 1
    <3>1. c * (k - q) >= c
      BY <1>4, <2>1
    <3>. QED
      BY <1>2, <1>3, <3>1
  <2>. QED
    BY <1>4, <2>1
<1>6. k - q > -1
  <2>1. CASE k - q <= -1
    <3>1. c * (k - q) <= -c
      BY <1>4, <2>1
    <3>. QED
      BY <1>2, <1>3, <3>1
  <2>. QED
    BY <1>4, <2>1
<1>. QED
  BY <1>2, <1>3, <1>4, <1>5, <1>6

\* A page is a multiple of c; f is at a page boundary.
DividesPage(c) == 4096 % c = 0
AtPage(f)      == f % 4096 = 0

\* The padding up to a multiple of a divisor of the page size is the same for an
\* offset from a page boundary as for the offset itself.
LEMMA PaddingFromPage ==
  ASSUME NEW c \in Nat \ {0}, DividesPage(c), NEW f \in Nat, AtPage(f), NEW x \in Nat
  PROVE  AlignPadding(c, f + x) = AlignPadding(c, x)
<1>1. PICK p \in Nat : 4096 = c * p
  <2>1. 4096 = c * (4096 \div c) /\ 4096 \div c \in Nat
    BY DEF DividesPage
  <2>. QED
    BY <2>1
<1>2. PICK q \in Nat : f = 4096 * q
  <2>1. f = 4096 * (f \div 4096) /\ f \div 4096 \in Nat
    BY DEF AtPage
  <2>. QED
    BY <2>1
<1>3. PICK u \in Nat, r \in 0 .. c - 1 : x = c * u + r
  <2>. DEFINE u == x \div c  r == x % c
  <2>1. x = c * u + r /\ u \in Nat /\ r \in 0 .. c - 1
    OBVIOUS
  <2>. HIDE DEF u, r
  <2>. QED
    BY <2>1
<1>4. p * q + u \in Nat
  BY <1>1, <1>2, <1>3
<1>5. f + x = c * (p * q + u) + r
  <2>1. f = c * (p * q)
    BY <1>1, <1>2
  <2>. QED
    BY <1>1, <1>2, <1>3, <2>1
<1>6. (f + x) % c = r
  BY <1>3, <1>4, <1>5, RemainderOfSum
<1>7. x % c = r
  BY <1>3, RemainderOfSum
<1>. QED
  BY <1>6, <1>7 DEF AlignPadding

\* What Sums says for k, given what it says for k - 1.
SumStep(f, start, values, k) == IF k = 0 THEN start ELSE f[k - 1] + values[k]

LEMMA SumsUnfold ==
  ASSUME NEW start, NEW values, NEW n \in Nat
  PROVE  \A k \in 0 .. n :
           Sums(start, values, n)[k] = SumStep(Sums(start, values, n), start, values, k)
<1>. DEFINE D == 0 .. n
            Solves(f, m) == \A k \in D : k < m => f[k] = SumStep(f, start, values, k)
            T == {m \in Nat : \E f : Solves(f, m)}
<1>1. 0 \in T
  <2>1. \A k \in D : ~(k < 0)
    OBVIOUS
  <2>. QED
    BY <2>1
<1>2. ASSUME NEW m \in T PROVE m + 1 \in T
  <2>1. PICK f : Solves(f, m)
    OBVIOUS
  <2>. DEFINE g == [k \in D |-> SumStep(f, start, values, k)]
  <2>2. ASSUME NEW k \in D, k < m + 1 PROVE g[k] = SumStep(g, start, values, k)
    <3>1. CASE k = 0
      BY <3>1 DEF SumStep
    <3>2. CASE k # 0
      <4>1. k - 1 \in D /\ k - 1 < m
        BY <2>2, <3>2
      <4>2. g[k - 1] = f[k - 1]
        BY <2>1, <4>1
      <4>. QED
        BY <3>2, <4>2 DEF SumStep
    <3>. QED
      BY <3>1, <3>2
  <2>. HIDE DEF g, D
  <2>3. Solves(g, m + 1)
    BY <2>2
  <2>. QED
    BY <2>3
<1>3. T = Nat
  <2>1. T \in SUBSET Nat
    OBVIOUS
  <2>. HIDE DEF T
  <2>. QED
    BY <1>1, <1>2, <2>1, SetInduction
<1>4. n + 1 \in T
  <2>. HIDE DEF T
  <2>. QED
    BY <1>3
<1>5. PICK f : Solves(f, n + 1)
  BY <1>4
<1>. DEFINE g == [k \in D |-> f[k]]
<1>6. ASSUME NEW k \in D PROVE f[k] = SumStep(g, start, values, k)
  <2>1. f[k] = SumStep(f, start, values, k)
    BY <1>5
  <2>2. k # 0 => k - 1 \in D
    OBVIOUS
  <2>. QED
    BY <2>1, <2>2 DEF SumStep
<1>7. g = [k \in D |-> SumStep(g, start, values, k)]
  BY <1>6
<1>8. Sums(start, values, n) = CHOOSE h : h = [k \in D |-> SumStep(h, start, values, k)]
  BY DEF Sums, SumStep
<1>. HIDE DEF g
<1>9. Sums(start, values, n) = [k \in D |-> SumStep(Sums(start, values, n), start, values, k)]
  BY <1>7, <1>8
<1>. QED
  BY <1>9

\* Sums of integers are integers, each one by a value larger than the one before.
LEMMA SumsOfIntegers ==
  ASSUME NEW start \in Int, NEW values, NEW n \in Nat,
         \A k \in 1 .. n : values[k] \in Int
  PROVE  /\ \A k \in 0 .. n : Sums(start, values, n)[k] \in Int
         /\ Sums(start, values, n)[0] = start
         /\ \A k \in 1 .. n : Sums(start, values, n)[k]
                               = Sums(start, values, n)[k - 1] + values[k]
<1>. DEFINE sum == Sums(start, values, n)
            T == {k \in Nat : k <= n => sum[k] \in Int}
<1>1. \A k \in 0 .. n : sum[k] = SumStep(sum, start, values, k)
  BY SumsUnfold
<1>. HIDE DEF sum
<1>2. sum[0] = start
  BY <1>1 DEF SumStep
<1>3. \A k \in 1 .. n : sum[k] = sum[k - 1] + values[k]
  BY <1>1 DEF SumStep
<1>4. ASSUME NEW k \in T PROVE k + 1 \in T
  <2>. SUFFICES ASSUME k + 1 <= n PROVE sum[k + 1] \in Int
    OBVIOUS
  <2>1. k + 1 \in 1 .. n /\ (k + 1) - 1 = k /\ sum[k] \in Int
    OBVIOUS
  <2>. QED
    BY <1>3, <2>1
<1>5. T = Nat
  <2>1. T \in SUBSET Nat /\ 0 \in T
    BY <1>2
  <2>. HIDE DEF T
  <2>. QED
    BY <1>4, <2>1, SetInduction
<1>6. \A k \in 0 .. n : sum[k] \in Int
  BY <1>5
<1>. QED
  BY <1>2, <1>3, <1>6 DEF sum

\* Sums of natural numbers are natural numbers.
LEMMA SumsOfNaturals ==
  ASSUME NEW start \in Nat, NEW values, NEW n \in Nat,
         \A k \in 1 .. n : values[k] \in Nat
  PROVE  \A k \in 0 .. n : Sums(start, values, n)[k] \in Nat
<1>. DEFINE sum == Sums(start, values, n)
            T == {k \in Nat : k <= n => sum[k] \in Nat}
<1>1. sum[0] = start /\ \A k \in 1 .. n : sum[k] = sum[k - 1] + values[k]
  BY SumsOfIntegers
<1>. HIDE DEF sum
<1>2. ASSUME NEW k \in T PROVE k + 1 \in T
  <2>. SUFFICES ASSUME k + 1 <= n PROVE sum[k + 1] \in Nat
    OBVIOUS
  <2>1. k + 1 \in 1 .. n /\ (k + 1) - 1 = k /\ sum[k] \in Nat
    OBVIOUS
  <2>. QED
    BY <1>1, <2>1
<1>3. T = Nat
  <2>1. T \in SUBSET Nat /\ 0 \in T
    BY <1>1
  <2>. HIDE DEF T
  <2>. QED
    BY <1>2, <2>1, SetInduction
<1>. QED
  BY <1>3 DEF sum

\* Sums grow with what is summed.
LEMMA SumsGrow ==
  ASSUME NEW a \in Int, NEW b \in Int, a <= b, NEW v, NEW w, NEW n \in Nat,
         \A k \in 1 .. n : v[k] \in Int /\ w[k] \in Int /\ v[k] <= w[k]
  PROVE  \A k \in 0 .. n : Sums(a, v, n)[k] <= Sums(b, w, n)[k]
<1>. DEFINE V == Sums(a, v, n)
            W == Sums(b, w, n)
            T == {k \in Nat : k <= n => V[k] <= W[k]}
<1>1. /\ \A k \in 0 .. n : V[k] \in Int /\ W[k] \in Int
      /\ V[0] = a /\ W[0] = b
      /\ \A k \in 1 .. n : V[k] = V[k - 1] + v[k] /\ W[k] = W[k - 1] + w[k]
  BY SumsOfIntegers
<1>. HIDE DEF V, W
<1>2. ASSUME NEW k \in T PROVE k + 1 \in T
  <2>. SUFFICES ASSUME k + 1 <= n PROVE V[k + 1] <= W[k + 1]
    OBVIOUS
  <2>1. k \in 0 .. n /\ k + 1 \in 1 .. n /\ (k + 1) - 1 = k /\ V[k] <= W[k]
    OBVIOUS
  <2>2. V[k + 1] = V[k] + v[k + 1] /\ W[k + 1] = W[k] + w[k + 1]
    BY <1>1, <2>1
  <2>. QED
    BY <1>1, <2>1, <2>2
<1>3. T = Nat
  <2>1. T \in SUBSET Nat /\ 0 \in T
    BY <1>1
  <2>. HIDE DEF T
  <2>. QED
    BY <1>2, <2>1, SetInduction
<1>. QED
  BY <1>3 DEF V, W

\* The next multiple of c from x on is not behind the one from y on.
LEMMA PaddingGrows ==
  ASSUME NEW c \in Nat, NEW x \in Nat, NEW y \in Nat, x <= y
  PROVE  x + AlignPadding(c, x) <= y + AlignPadding(c, y)
<1>1. CASE c <= 1
  BY <1>1 DEF AlignPadding
<1>2. CASE c > 1
  <2>1. \A z \in Nat : \E q \in Nat : \E r \in 0 .. c - 1 :
                        z = c * q + r /\ z % c = r
    <3>. TAKE z \in Nat
    <3>. DEFINE q == z \div c  r == z % c
    <3>1. z = c * q + r /\ q \in Nat /\ r \in 0 .. c - 1
      BY <1>2
    <3>2. z % c = r
      OBVIOUS
    <3>. HIDE DEF q, r
    <3>. QED
      BY <3>1, <3>2
  <2>2. \A r \in 0 .. c - 1 : (c - r) % c = IF r = 0 THEN 0 ELSE c - r
    BY <1>2
  <2>3. \A z \in Nat : \E q \in Nat : /\ z + AlignPadding(c, z) = c * q
                                      /\ c * q < z + c /\ z <= c * q
    <3>. TAKE z \in Nat
    <3>1. PICK q \in Nat, r \in 0 .. c - 1 : z = c * q + r /\ z % c = r
      BY <2>1
    <3>2. AlignPadding(c, z) = (c - r) % c
      BY <1>2, <3>1 DEF AlignPadding
    <3>3. CASE r = 0
      <4>1. z = c * q
        <5>1. c * q + 0 = c * q
          OBVIOUS
        <5>. QED
          BY <3>1, <3>3, <5>1
      <4>2. AlignPadding(c, z) = 0
        BY <2>2, <3>2, <3>3
      <4>3. z + AlignPadding(c, z) = c * q /\ c * q < z + c /\ z <= c * q
        BY <1>2, <4>1, <4>2
      <4>. QED
        BY <4>3
    <3>4. CASE r # 0
      <4>1. c * (q + 1) = c * q + c /\ q + 1 \in Nat /\ c * q \in Nat
        OBVIOUS
      <4>2. z + AlignPadding(c, z) = c * (q + 1)
        BY <2>2, <3>1, <3>2, <3>4, <4>1
      <4>3. c * (q + 1) < z + c /\ z <= c * (q + 1)
        BY <3>1, <3>4, <4>1
      <4>. QED
        BY <4>1, <4>2, <4>3
    <3>. QED
      BY <3>3, <3>4
  <2>4. PICK p \in Nat : x + AlignPadding(c, x) = c * p /\ c * p < x + c
    BY <2>3
  <2>5. PICK q \in Nat : y + AlignPadding(c, y) = c * q /\ y <= c * q
    BY <2>3
  <2>6. c * p < c * q + c
    <3>1. c * p \in Nat /\ c * q \in Nat
      OBVIOUS
    <3>. QED
      BY <2>4, <2>5, <3>1
  <2>7. p <= q
    <3>. SUFFICES ASSUME p >= q + 1 PROVE FALSE
      OBVIOUS
    <3>1. c * p >= c * (q + 1)
      OBVIOUS
    <3>2. c * (q + 1) = c * q + c
      OBVIOUS
    <3>. QED
      BY <2>6, <3>1, <3>2
  <2>8. c * p <= c * q
    BY <2>7
  <2>. QED
    BY <2>4, <2>5, <2>8
<1>. QED
  BY <1>1, <1>2

-----------------------------------------------------------------------------
(* Sizes *)

\* Unsigned arithmetic stays within a word.
LEMMA WrapType ==
  ASSUME NEW x \in Nat
  PROVE  Wrap(x) \in Word
BY WordAssumption DEF Wrap, Word

\* An item is of the syntactic category its kind says.
LEMMA ItemByKind ==
  ASSUME NEW it \in Item
  PROVE  /\ it.kind \in {"INSTR", "LABEL", "DATA"}
         /\ it.kind = "INSTR" => it \in Instruction
         /\ it.kind = "LABEL" => it \in Label
         /\ it.kind = "DATA"  => it \in DataDirective
BY DEF Item, Instruction, Label, DataDirective

\* An instruction has a size under every symbol table, whatever its
\* displacement comes to.
LEMMA EncodedLengthType ==
  ASSUME NEW i \in Instruction, NEW table
  PROVE  EncodedLength(i, table) \in Nat
<1>1. DispLength(Displacement(i, table)) \in Nat
  BY DEF DispLength
<1>2. i.head \in Nat
  BY DEF Instruction
<1>3. i.extra \in ExtraEncoding
  BY DEF Instruction
<1>4. ExtraLength[i.extra] \in Nat
  BY <1>3 DEF ExtraEncoding, ExtraLength
<1>. QED
  BY <1>1, <1>2, <1>4 DEF EncodedLength

\* Padding is a size at every offset.
LEMMA AlignPaddingType ==
  ASSUME NEW align \in Nat, NEW at \in Nat
  PROVE  AlignPadding(align, at) \in Nat
<1>1. CASE align <= 1
  BY <1>1 DEF AlignPadding
<1>2. CASE align > 1
  <2>1. at % align \in 0 .. align - 1
    BY <1>2
  <2>2. align - (at % align) \in Nat
    BY <2>1
  <2>3. (align - (at % align)) % align \in Nat
    BY <1>2, <2>2
  <2>. QED
    BY <1>2, <2>3 DEF AlignPadding
<1>. QED
  BY <1>1, <1>2

\* The size of a unit of any directive that has units.
LEMMA UnitSizeType ==
  ASSUME NEW dir \in DefineKind \cup ReserveKind
  PROVE  UnitSize[dir] \in Nat
BY DEF DefineKind, ReserveKind, UnitSize

\* So is the estimate for any data directive.
LEMMA DataSizeType ==
  ASSUME NEW d \in DataDirective, NEW at \in Nat
  PROVE  estimateDataSize(d, at) \in Nat
<1>1. /\ d.dir \in DefineKind \cup ReserveKind \cup {"ALIGN"}
      /\ d.nums \in Nat /\ d.chars \in Nat /\ d.count \in Nat
  BY DEF DataDirective
<1>2. CASE d.dir = "ALIGN"
  <2>1. estimateDataSize(d, at) = AlignPadding(d.count, at)
    BY <1>2 DEF estimateDataSize, ReserveKind, DefineKind
  <2>. QED
    BY <1>1, <2>1, AlignPaddingType
<1>3. CASE d.dir \in ReserveKind
  <2>1. estimateDataSize(d, at) = UnitSize[d.dir] * d.count
    BY <1>3 DEF estimateDataSize, ReserveKind, DefineKind
  <2>2. UnitSize[d.dir] \in Nat
    BY <1>3, UnitSizeType
  <2>. QED
    BY <1>1, <2>1, <2>2
<1>4. CASE d.dir \in DefineKind
  <2>1. estimateDataSize(d, at) = estimateDataValues(d, UnitSize[d.dir])
    BY <1>4 DEF estimateDataSize, ReserveKind, DefineKind
  <2>2. UnitSize[d.dir] \in Nat
    BY <1>4, UnitSizeType
  <2>. DEFINE times == IF d.count > 1 THEN d.count ELSE 1
  <2>3. times \in Nat /\ d.nums + d.chars \in Nat
    BY <1>1
  <2>4. UnitSize[d.dir] * (d.nums + d.chars) * times \in Nat
    <3>. HIDE DEF times
    <3>. QED
      BY <2>2, <2>3
  <2>. QED
    BY <2>1, <2>4 DEF estimateDataValues
<1>. QED
  BY <1>1, <1>2, <1>3, <1>4

\* A word is not changed by wrapping around.
LEMMA WrapExact ==
  ASSUME NEW x \in Nat, x < WordSize
  PROVE  Wrap(x) = x
BY WordAssumption DEF Wrap, Word

\* Every item has a size at every offset.
LEMMA ItemSizeType ==
  ASSUME NEW it \in Item, NEW at \in Nat, NEW table
  PROVE  ItemSize(it, at, table) \in Nat
<1>1. CASE it.kind = "INSTR"
  BY <1>1, ItemByKind, EncodedLengthType DEF ItemSize
<1>2. CASE it.kind = "DATA"
  BY <1>2, ItemByKind, DataSizeType DEF ItemSize
<1>3. CASE it.kind = "LABEL"
  BY <1>3 DEF ItemSize
<1>. QED
  BY <1>1, <1>2, <1>3, ItemByKind

-----------------------------------------------------------------------------
(* How sizes grow *)

\* Instruction i may get longer, and cannot get shorter, when the symbol table
\* goes from t to u.
GrowsBetween(i, t, u) ==
  \/ i.terms = <<>>
  \/ /\ i.disp >= 0
     /\ \A k \in DOMAIN i.terms :
          /\ i.terms[k].sign = 1
          /\ TermValue(i.terms[k].name, t) \in Nat
          /\ TermValue(i.terms[k].name, u) \in Nat
          /\ TermValue(i.terms[k].name, t) <= TermValue(i.terms[k].name, u)

\* From 0 on, a larger displacement does not take fewer bytes.
LEMMA DispLengthGrows ==
  ASSUME NEW d \in Nat, NEW e \in Nat, d <= e
  PROVE  DispLength(d) <= DispLength(e)
BY DEF DispLength

\* The displacement of an instruction without symbols does not depend on them.
LEMMA ConstantDisplacement ==
  ASSUME NEW i, i.terms = <<>>, NEW table
  PROVE  Displacement(i, table) = i.disp
<1>1. Len(i.terms) = 0 /\ 0 \in 0 .. 0
  OBVIOUS
<1>. QED
  BY <1>1, SumsUnfold DEF Displacement, SumStep

LEMMA InstructionDispGrows ==
  ASSUME NEW i \in Instruction, NEW t, NEW u, GrowsBetween(i, t, u)
  PROVE  DispLength(Displacement(i, t)) <= DispLength(Displacement(i, u))
<1>. DEFINE n == Len(i.terms)
<1>1. i.terms \in Seq(SymbolTerm) /\ n \in Nat /\ i.disp \in Int
  BY DEF Instruction
<1>2. CASE i.terms = <<>>
  <2>1. DispLength(i.disp) <= DispLength(i.disp)
    BY DEF DispLength
  <2>. QED
    BY <1>2, <2>1, ConstantDisplacement
<1>3. CASE i.terms # <<>>
  <2>. DEFINE v == TermValues(i, t)
              w == TermValues(i, u)
  <2>1. i.disp \in Nat
    BY <1>1, <1>3 DEF GrowsBetween
  <2>2. ASSUME NEW k \in 1 .. n
        PROVE  v[k] \in Nat /\ w[k] \in Nat /\ v[k] <= w[k]
    <3>1. k \in DOMAIN i.terms
      BY <1>1
    <3>2. /\ i.terms[k].sign = 1
          /\ TermValue(i.terms[k].name, t) \in Nat
          /\ TermValue(i.terms[k].name, u) \in Nat
          /\ TermValue(i.terms[k].name, t) <= TermValue(i.terms[k].name, u)
      BY <1>3, <3>1 DEF GrowsBetween
    <3>3. /\ v[k] = i.terms[k].sign * TermValue(i.terms[k].name, t)
          /\ w[k] = i.terms[k].sign * TermValue(i.terms[k].name, u)
      BY <3>1 DEF TermValues
    <3>. QED
      BY <3>2, <3>3
  <2>. HIDE DEF v, w
  <2>3. n \in 0 .. n /\ Sums(i.disp, v, n)[n] \in Nat /\ Sums(i.disp, w, n)[n] \in Nat
    BY <1>1, <2>1, <2>2, SumsOfNaturals
  <2>4. Sums(i.disp, v, n)[n] <= Sums(i.disp, w, n)[n]
    BY <1>1, <2>1, <2>2, <2>3, SumsGrow
  <2>5. Displacement(i, t) = Sums(i.disp, v, n)[n] /\ Displacement(i, u) = Sums(i.disp, w, n)[n]
    BY DEF Displacement, v, w
  <2>. QED
    BY <2>3, <2>4, <2>5, DispLengthGrows
<1>. QED
  BY <1>2, <1>3

LEMMA EncodedLengthGrows ==
  ASSUME NEW i \in Instruction, NEW t, NEW u, GrowsBetween(i, t, u)
  PROVE  EncodedLength(i, t) <= EncodedLength(i, u)
<1>1. DispLength(Displacement(i, t)) <= DispLength(Displacement(i, u))
  BY InstructionDispGrows
<1>2. DispLength(Displacement(i, t)) \in Nat /\ DispLength(Displacement(i, u)) \in Nat
  BY DEF DispLength
<1>3. i.head \in Nat /\ ExtraLength[i.extra] \in Nat
  <2>1. i.head \in Nat /\ i.extra \in ExtraEncoding
    BY DEF Instruction
  <2>. QED
    BY <2>1 DEF ExtraEncoding, ExtraLength
<1>. QED
  BY <1>1, <1>2, <1>3 DEF EncodedLength

\* An item that begins further on does not end earlier.
LEMMA ItemEndGrows ==
  ASSUME NEW it \in Item, NEW at \in Nat, NEW later \in Nat, at <= later,
         NEW t, NEW u, it.kind = "INSTR" => GrowsBetween(it, t, u)
  PROVE  at + ItemSize(it, at, t) <= later + ItemSize(it, later, u)
<1>1. CASE it.kind = "INSTR"
  <2>1. it \in Instruction
    BY <1>1, ItemByKind
  <2>2. /\ ItemSize(it, at, t) = EncodedLength(it, t) /\ EncodedLength(it, t) \in Nat
        /\ ItemSize(it, later, u) = EncodedLength(it, u) /\ EncodedLength(it, u) \in Nat
    BY <1>1, <2>1, EncodedLengthType DEF ItemSize
  <2>3. EncodedLength(it, t) <= EncodedLength(it, u)
    BY <1>1, <2>1, EncodedLengthGrows
  <2>. QED
    BY <2>2, <2>3
<1>2. CASE it.kind = "LABEL"
  BY <1>2 DEF ItemSize
<1>3. CASE it.kind = "DATA"
  <2>1. it \in DataDirective
    BY <1>3, ItemByKind
  <2>2. /\ ItemSize(it, at, t) = estimateDataSize(it, at)
        /\ ItemSize(it, later, u) = estimateDataSize(it, later)
    BY <1>3 DEF ItemSize
  <2>3. /\ it.dir \in DefineKind \cup ReserveKind \cup {"ALIGN"} /\ it.count \in Nat
        /\ estimateDataSize(it, at) \in Nat /\ estimateDataSize(it, later) \in Nat
    BY <2>1, DataSizeType DEF DataDirective
  <2>4. CASE it.dir = "ALIGN"
    <3>1. \A x : estimateDataSize(it, x) = AlignPadding(it.count, x)
      BY <2>4 DEF estimateDataSize, ReserveKind, DefineKind
    <3>. QED
      BY <2>2, <2>3, <3>1, PaddingGrows
  <2>5. CASE it.dir # "ALIGN"
    <3>1. estimateDataSize(it, at) = estimateDataSize(it, later)
      BY <2>3, <2>5 DEF estimateDataSize
    <3>. QED
      BY <2>2, <2>3, <3>1
  <2>. QED
    BY <2>4, <2>5
<1>. QED
  BY <1>1, <1>2, <1>3, ItemByKind

=============================================================================
