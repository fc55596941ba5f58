---------------------------- MODULE LexerProofs -----------------------------
(***************************************************************************)
(* Proofs about Lexer: tokens are where their spans say, no character is   *)
(* lost, no word is split, and every INVALID token has its error.          *)
(***************************************************************************)
EXTENDS Lexer, FiniteSetTheorems, WellFoundedInduction, TLAPS

-----------------------------------------------------------------------------
(* Induction over the natural numbers, stated with sets *)

\* A set of natural numbers that is not empty has a least member.
LEMMA LeastElement ==
  ASSUME NEW T \in SUBSET Nat, T # {}
  PROVE  \E m \in T : \A n \in T : m <= n
<1>1. PICK m \in T : \A n \in T : <<n, m>> \notin OpToRel(<, Nat)
  BY NatLessThanWellFounded, WFMin, Zenon
<1>2. \A n \in T : <<n, m>> \notin {p \in Nat \X Nat : p[1] < p[2]}
  BY <1>1 DEF OpToRel
<1>3. \A n \in T : ~(n < m)
  BY <1>2
<1>. QED
  BY <1>3

\* A set that has 0, and with every number the next one, has all numbers.
LEMMA SetInduction ==
  ASSUME NEW T \in SUBSET Nat, 0 \in T, \A n \in T : n + 1 \in T
  PROVE  T = Nat
<1>. SUFFICES ASSUME Nat \ T # {} PROVE FALSE
  OBVIOUS
<1>1. PICK m \in Nat \ T : \A n \in Nat \ T : m <= n
  BY LeastElement
<1>2. m # 0 /\ m - 1 \in Nat /\ m - 1 \in T
  BY <1>1
<1>3. (m - 1) + 1 = m
  BY <1>2
<1>. QED
  BY <1>2, <1>3

-----------------------------------------------------------------------------
(* Characters and lines *)

LEMMA AtTheEnd ==
  ASSUME NEW p \in Int, peek(p) # NUL
  PROVE  p <= Len(code) /\ peek(p) = code[p]
BY DEF peek

\* A run ends, at the latest where the source does.
LEMMA RunEnds ==
  ASSUME code \in Seq(Char), NEW S, NUL \notin S, NEW p \in 1 .. Len(code) + 1
  PROVE  /\ EndOfRun(S, p) \in p .. Len(code) + 1
         /\ peek(EndOfRun(S, p)) \notin S
         /\ \A x \in p .. EndOfRun(S, p) - 1 : peek(x) \in S
<1>. DEFINE T == {q \in Nat : q \in p .. Len(code) + 1 /\ peek(q) \notin S}
<1>1. T \in SUBSET Nat /\ Len(code) + 1 \in T
  BY DEF peek
<1>2. PICK q \in T : \A r \in T : q <= r
  BY <1>1, LeastElement, Zenon
<1>3. q \in p .. Len(code) + 1 /\ peek(q) \notin S
  BY <1>2
<1>4. \A x \in p .. q - 1 : peek(x) \in S
  <2>. SUFFICES ASSUME NEW x \in p .. q - 1, peek(x) \notin S PROVE FALSE
    OBVIOUS
  <2>1. x \in Nat /\ x \in p .. Len(code) + 1 /\ x < q
    BY <1>3
  <2>2. x \in T
    BY <2>1
  <2>. HIDE DEF T
  <2>. QED
    BY <1>2, <2>1, <2>2
<1>. HIDE DEF T
<1>. QED
  BY <1>3, <1>4 DEF EndOfRun

\* A run that begins with a member has one.
LEMMA RunAdvances ==
  ASSUME code \in Seq(Char), NEW S, NUL \notin S, NEW p \in 1 .. Len(code) + 1,
         peek(p) \in S
  PROVE  EndOfRun(S, p) \in p + 1 .. Len(code) + 1
BY RunEnds

LEMMA CharsDiffer == Quote # Backslash /\ NUL # Quote /\ NUL # Backslash
BY DEF Quote, Backslash, NUL

LEMMA CharFacts ==
  /\ NUL \notin Space /\ NUL \notin Alnum \cup {"_"}
  /\ NUL \notin Letter \cup {"_"} /\ NUL \notin HexDigit /\ NUL \notin Digit
  /\ NUL \notin Char \ {NL, NUL}
  /\ NL \notin Space
<1>1. NUL \notin {"_"}
  BY DEF NUL
<1>2. NUL \notin Space /\ NL \notin Space /\ NUL \notin Alnum
  BY CharAssumption
<1>. QED
  BY <1>1, <1>2, CharAssumption DEF Alnum, Digit, HexDigit

\* The lexeme begins behind the white space.
LEMMA StartFacts ==
  ASSUME code \in Seq(Char), position \in 1 .. Len(code) + 1
  PROVE  /\ Start \in position .. Len(code) + 1
         /\ \A x \in position .. Start - 1 : code[x] \in Space
<1>1. /\ Start \in position .. Len(code) + 1
      /\ \A x \in position .. Start - 1 : peek(x) \in Space
  BY RunEnds, CharFacts DEF Start
<1>. QED
  BY <1>1 DEF peek

\* The newlines before a position are finitely many.
LEMMA NewlinesFinite ==
  ASSUME NEW p \in Nat, NEW q \in Nat
  PROVE  IsFiniteSet(Newlines(p, q)) /\ Cardinality(Newlines(p, q)) \in Nat
<1>1. IsFiniteSet(p .. q - 1)
  BY FS_Interval
<1>2. Newlines(p, q) \subseteq p .. q - 1
  BY DEF Newlines
<1>. QED
  BY <1>1, <1>2, FS_Subset, FS_CardinalityType

LEMMA LineOfIs ==
  ASSUME NEW p \in Nat
  PROVE  LineOf(p) = 1 + Cardinality(Newlines(1, p))
BY DEF LineOf, Newlines

\* Counting goes on from any position.
LEMMA LineAddsUp ==
  ASSUME NEW p \in Nat \ {0}, NEW q \in Nat, p <= q
  PROVE  LineOf(q) = LineOf(p) + Cardinality(Newlines(p, q))
<1>1. Newlines(1, q) = Newlines(1, p) \cup Newlines(p, q)
  BY DEF Newlines
<1>2. Newlines(1, p) \cap Newlines(p, q) = {}
  BY DEF Newlines
<1>3. Cardinality(Newlines(1, q)) = Cardinality(Newlines(1, p))
          + Cardinality(Newlines(p, q)) - Cardinality({})
  BY <1>1, <1>2, NewlinesFinite, FS_Union
<1>. QED
  BY <1>3, LineOfIs, FS_EmptySet, NewlinesFinite

\* There are no more lines than characters.
LEMMA LineBound ==
  ASSUME NEW p \in Nat \ {0}
  PROVE  LineOf(p) \in 1 .. p
<1>1. IsFiniteSet(1 .. p - 1) /\ Cardinality(1 .. p - 1) = p - 1
  BY FS_Interval
<1>2. Newlines(1, p) \subseteq 1 .. p - 1
  BY DEF Newlines
<1>3. Cardinality(Newlines(1, p)) <= p - 1
  BY <1>1, <1>2, FS_Subset
<1>4. Cardinality(Newlines(1, p)) \in Nat /\ 1 \in Nat
  BY NewlinesFinite
<1>5. LineOf(p) = 1 + Cardinality(Newlines(1, p))
  BY LineOfIs
<1>. QED
  BY <1>3, <1>4, <1>5

\* s is where the line of position p starts.
IsLineStart(s, p) ==
  /\ s \in 1 .. p
  /\ s = 1 \/ code[s - 1] = NL
  /\ \A y \in s .. p - 1 : code[y] # NL

\* The line start is kept up while characters are consumed.
LEMMA LineStartKept ==
  ASSUME position \in Nat, IsLineStart(lineStart, position),
         NEW to \in Nat, position <= to
  PROVE  IsLineStart(LineStartAfter(to), to)
<1>1. CASE Newlines(position, to) = {}
  <2>1. LineStartAfter(to) = lineStart
    BY <1>1 DEF LineStartAfter
  <2>2. \A y \in position .. to - 1 : code[y] # NL
    BY <1>1 DEF Newlines
  <2>. QED
    BY <2>1, <2>2 DEF IsLineStart
<1>2. CASE Newlines(position, to) # {}
  <2>. DEFINE T == {n \in Nat : to - n \in Newlines(position, to)}
  <2>1. PICK x \in Newlines(position, to) : TRUE
    BY <1>2
  <2>2. to - x \in Nat /\ to - (to - x) = x
    BY <2>1 DEF Newlines
  <2>3. T \in SUBSET Nat /\ T # {}
    BY <2>1, <2>2
  <2>4. PICK n \in T : \A k \in T : n <= k
    BY <2>3, LeastElement, Zenon
  <2>5. to - n \in Newlines(position, to)
    BY <2>4
  <2>6. \A y \in Newlines(position, to) : y <= to - n
    <3>. SUFFICES ASSUME NEW y \in Newlines(position, to) PROVE y <= to - n
      OBVIOUS
    <3>1. y \in Nat /\ to - y \in Nat /\ to - (to - y) = y
      BY DEF Newlines
    <3>2. to - y \in T
      BY <3>1
    <3>3. n \in Nat
      BY <2>4
    <3>. HIDE DEF T
    <3>. QED
      BY <2>4, <3>1, <3>2, <3>3
  <2>. HIDE DEF T
  <2>. DEFINE last == CHOOSE z \in Newlines(position, to) :
                        \A y \in Newlines(position, to) : y <= z
  <2>7. last \in Newlines(position, to) /\ \A y \in Newlines(position, to) : y <= last
    BY <2>5, <2>6
  <2>8. LineStartAfter(to) = 1 + last
    BY <1>2 DEF LineStartAfter
  <2>. HIDE DEF last
  <2>9. last \in position .. to - 1 /\ code[last] = NL
    BY <2>7 DEF Newlines
  <2>10. \A y \in last + 1 .. to - 1 : code[y] # NL
    <3>. SUFFICES ASSUME NEW y \in last + 1 .. to - 1, code[y] = NL PROVE FALSE
      OBVIOUS
    <3>1. y \in Newlines(position, to)
      BY <2>9 DEF Newlines
    <3>. QED
      BY <2>7, <2>9, <3>1
  <2>. QED
    BY <2>8, <2>9, <2>10 DEF IsLineStart
<1>. QED
  BY <1>1, <1>2

\* The column is the distance from it.
LEMMA ColumnIs ==
  ASSUME NEW p \in Nat \ {0}, NEW s, IsLineStart(s, p)
  PROVE  ColumnOf(p) = p - s + 1
<1>. DEFINE C == {x \in 1 .. p : \A y \in x .. p - 1 : code[y] # NL}
<1>1. C = s .. p
  <2>1. \A x \in s .. p : x \in C
    BY DEF IsLineStart
  <2>2. ASSUME NEW x \in C, x < s PROVE FALSE
    <3>1. s - 1 \in x .. p - 1 /\ code[s - 1] = NL
      BY <2>2 DEF IsLineStart
    <3>. QED
      BY <2>2, <3>1
  <2>3. C \subseteq 1 .. p /\ s \in 1 .. p
    BY DEF IsLineStart
  <2>. HIDE DEF C
  <2>4. \A x \in C : x \in s .. p
    <3>. SUFFICES ASSUME NEW x \in C PROVE x \in s .. p
      OBVIOUS
    <3>1. x \in 1 .. p /\ s \in 1 .. p /\ ~(x < s)
      BY <2>2, <2>3
    <3>. QED
      BY <3>1
  <2>. QED
    BY <2>1, <2>4
<1>2. Cardinality(s .. p) = p - s + 1
  BY FS_Interval DEF IsLineStart
<1>. QED
  BY <1>1, <1>2 DEF ColumnOf

\* A lexeme on one line is where the code says, although line and line start are
\* taken behind it.
LEMMA SpanLocates ==
  ASSUME code \in Seq(Char), position \in 1 .. Len(code) + 1,
         line = LineOf(position), IsLineStart(lineStart, position),
         NEW to \in Start .. Len(code) + 1, \A x \in Start .. to - 1 : code[x] # NL
  PROVE  SpanTo(to) = [line |-> LineOf(Start), column |-> ColumnOf(Start),
                       length |-> to - Start]
<1>1. Start \in Nat \ {0} /\ position \in Nat \ {0} /\ to \in Nat /\ position <= Start
      /\ Start <= to
  BY StartFacts
<1>2. LineAfter(to) = LineOf(to)
  BY <1>1, LineAddsUp DEF LineAfter
<1>3. LineOf(to) = LineOf(Start)
  <2>1. Newlines(1, to) = Newlines(1, Start)
    BY <1>1 DEF Newlines
  <2>. QED
    BY <1>1, <2>1, LineOfIs
<1>4. IsLineStart(LineStartAfter(to), to)
  BY <1>1, LineStartKept
<1>. DEFINE s == LineStartAfter(to)
<1>. HIDE DEF s
<1>5. IsLineStart(s, Start)
  BY <1>1, <1>4 DEF IsLineStart, s
<1>6. ColumnOf(Start) = Start - s + 1
  BY <1>1, <1>5, ColumnIs
<1>. QED
  BY <1>2, <1>3, <1>6 DEF SpanTo, s

-----------------------------------------------------------------------------
(* Numbers and strings: the two recursive functions are what they say, and *)
(* what they return has its type.                                          *)

ValueStep(f, n) ==
  IF n = 0 THEN 0 ELSE f[n - 1] * Base + DigitValue[peek(FirstDigit + n - 1)]

LEMMA ValueUnfolds ==
  ASSUME code \in Seq(Char)
  PROVE  \A n \in 0 .. Len(code) : ValueOf[n] = ValueStep(ValueOf, n)
<1>. DEFINE D == 0 .. Len(code)
            Solves(f, k) == \A n \in D : n < k => f[n] = ValueStep(f, n)
            T == {k \in Nat : \E f : Solves(f, k)}
<1>1. 0 \in T
  <2>1. \A n \in D : ~(n < 0)
    OBVIOUS
  <2>. QED
    BY <2>1
<1>2. ASSUME NEW k \in T PROVE k + 1 \in T
  <2>1. PICK f : Solves(f, k)
    OBVIOUS
  <2>. DEFINE g == [n \in D |-> ValueStep(f, n)]
  <2>2. ASSUME NEW n \in D, n < k + 1 PROVE g[n] = ValueStep(g, n)
    <3>1. CASE n = 0
      BY <3>1 DEF ValueStep
    <3>2. CASE n # 0
      <4>1. n - 1 \in D /\ n - 1 < k
        BY <2>2, <3>2
      <4>2. g[n - 1] = f[n - 1]
        BY <2>1, <4>1
      <4>3. ValueStep(f, n) = ValueStep(g, n)
        BY <4>2 DEF ValueStep
      <4>. QED
        BY <4>3
    <3>. QED
      BY <3>1, <3>2
  <2>. HIDE DEF g, D
  <2>3. Solves(g, k + 1)
    BY <2>2
  <2>. QED
    BY <2>3
<1>3. T = Nat
  <2>1. T \in SUBSET Nat
    OBVIOUS
  <2>. HIDE DEF T
  <2>. QED
    BY <1>1, <1>2, <2>1, SetInduction
<1>4. Len(code) + 1 \in T
  BY <1>3
<1>5. PICK f : Solves(f, Len(code) + 1)
  BY <1>4
<1>. DEFINE g == [n \in D |-> f[n]]
<1>6. ASSUME NEW n \in D PROVE f[n] = ValueStep(g, n)
  <2>1. f[n] = ValueStep(f, n)
    BY <1>5
  <2>2. n # 0 => n - 1 \in D
    OBVIOUS
  <2>. QED
    BY <2>1, <2>2 DEF ValueStep
<1>7. g = [n \in D |-> ValueStep(g, n)]
  BY <1>6
<1>8. ValueOf = CHOOSE h : h = [n \in D |-> ValueStep(h, n)]
  BY DEF ValueOf, ValueStep
<1>. HIDE DEF g
<1>9. ValueOf = [n \in D |-> ValueStep(ValueOf, n)]
  BY <1>7, <1>8
<1>. QED
  BY <1>9

LEMMA ValueOfDigitsIsNat ==
  ASSUME code \in Seq(Char), NEW n \in 0 .. Len(code), FirstDigit \in Nat,
         \A x \in FirstDigit .. FirstDigit + n - 1 : peek(x) \in HexDigit
  PROVE  ValueOf[n] \in Nat
<1>. DEFINE T == {k \in Nat : k <= n => ValueOf[k] \in Nat}
<1>1. 0 \in T
  BY ValueUnfolds DEF ValueStep
<1>2. ASSUME NEW k \in T PROVE k + 1 \in T
  <2>. SUFFICES ASSUME k + 1 <= n PROVE ValueOf[k + 1] \in Nat
    OBVIOUS
  <2>1. ValueOf[k] \in Nat
    OBVIOUS
  <2>2. /\ k + 1 \in 0 .. Len(code) /\ k + 1 # 0 /\ (k + 1) - 1 = k
        /\ FirstDigit + (k + 1) - 1 \in FirstDigit .. FirstDigit + n - 1
    OBVIOUS
  <2>. DEFINE d == DigitValue[peek(FirstDigit + (k + 1) - 1)]
  <2>3. d \in Nat
    <3>1. peek(FirstDigit + (k + 1) - 1) \in HexDigit
      BY <2>2
    <3>2. DigitValue \in [HexDigit -> 0 .. 15]
      BY CharAssumption
    <3>. QED
      BY <3>1, <3>2
  <2>4. ValueOf[k + 1] = ValueOf[k] * Base + d
    BY <2>2, ValueUnfolds DEF ValueStep
  <2>. HIDE DEF d
  <2>5. Base = 10 \/ Base = 16
    BY DEF Base
  <2>6. ValueOf[k] * 10 + d \in Nat /\ ValueOf[k] * 16 + d \in Nat
    BY <2>1, <2>3
  <2>. QED
    BY <2>4, <2>5, <2>6
<1>3. T = Nat
  <2>1. T \in SUBSET Nat
    OBVIOUS
  <2>. HIDE DEF T
  <2>. QED
    BY <1>1, <1>2, <2>1, SetInduction
<1>4. n \in T
  BY <1>3
<1>. QED
  BY <1>4

\* What is read from p on, given what is read from each later position.
StringStep(f, p) ==
  CASE p > Len(code) -> [closed |-> FALSE, to |-> p, text |-> <<>>, errors |-> <<>>]
    [] peek(p) = Quote -> [closed |-> TRUE, to |-> p + 1, text |-> <<>>, errors |-> <<>>]
    [] p = Len(code) /\ peek(p) = Backslash ->
         [closed |-> FALSE, to |-> p + 1, text |-> <<>>, errors |-> <<>>]
    [] p < Len(code) /\ peek(p) = Backslash ->
         [f[p + 2] EXCEPT !.text = <<Escaped(p + 1)>> \o @,
                          !.errors = EscapeErrors(p + 1) \o @]
    [] OTHER -> [f[p + 1] EXCEPT !.text = <<peek(p)>> \o @]

StringPositions == 1 .. Len(code) + 1

LEMMA StringStepLooksAhead ==
  ASSUME code \in Seq(Char), NEW p \in StringPositions, NEW f, NEW g,
         \A q \in StringPositions : q > p => f[q] = g[q]
  PROVE  StringStep(f, p) = StringStep(g, p)
<1>1. p \in Nat /\ Len(code) \in Nat /\ p <= Len(code) + 1
  BY DEF StringPositions
<1>2. CASE p > Len(code)
  <2>1. peek(p) = NUL /\ ~(p = Len(code)) /\ ~(p < Len(code))
    BY <1>1, <1>2 DEF peek
  <2>. QED
    BY <1>2, <2>1, CharsDiffer DEF StringStep
<1>3. CASE p <= Len(code)
  <2>1. f[p + 1] = g[p + 1]
    BY <1>1, <1>3 DEF StringPositions
  <2>2. p < Len(code) => f[p + 2] = g[p + 2]
    BY <1>1, <1>3 DEF StringPositions
  <2>3. ~(p > Len(code))
    BY <1>1, <1>3
  <2>4. CASE p < Len(code)
    BY <2>1, <2>2, <2>4, Zenon DEF StringStep
  <2>5. CASE p = Len(code)
    <3>1. ~(p < Len(code))
      BY <1>1, <2>5
    <3>2. CASE peek(p) = Quote
      BY <2>3, <3>1, <3>2, CharsDiffer DEF StringStep
    <3>3. CASE peek(p) = Backslash
      BY <2>3, <2>5, <3>1, <3>3, CharsDiffer DEF StringStep
    <3>4. CASE peek(p) # Quote /\ peek(p) # Backslash
      BY <2>1, <2>3, <3>1, <3>4 DEF StringStep
    <3>. QED
      BY <3>2, <3>3, <3>4
  <2>. QED
    BY <1>1, <1>3, <2>4, <2>5
<1>. QED
  BY <1>1, <1>2, <1>3

LEMMA StringUnfolds ==
  ASSUME code \in Seq(Char)
  PROVE  \A p \in StringPositions : StringFrom[p] = StringStep(StringFrom, p)
<1>. DEFINE Solves(f, k) == \A p \in StringPositions :
                              p + k > Len(code) + 1 => f[p] = StringStep(f, p)
            T == {k \in Nat : \E f : Solves(f, k)}
<1>1. 0 \in T
  <2>1. \A p \in StringPositions : ~(p + 0 > Len(code) + 1)
    BY DEF StringPositions
  <2>. QED
    BY <2>1
<1>2. ASSUME NEW k \in T PROVE k + 1 \in T
  <2>1. PICK f : Solves(f, k)
    OBVIOUS
  <2>. DEFINE g == [p \in StringPositions |-> StringStep(f, p)]
  <2>2. ASSUME NEW p \in StringPositions, p + (k + 1) > Len(code) + 1
        PROVE  g[p] = StringStep(g, p)
    <3>1. \A q \in StringPositions : q > p => f[q] = g[q]
      <4>. SUFFICES ASSUME NEW q \in StringPositions, q > p PROVE f[q] = g[q]
        OBVIOUS
      <4>1. q + k > Len(code) + 1
        BY <2>2 DEF StringPositions
      <4>. QED
        BY <2>1, <4>1
    <3>. HIDE DEF g
    <3>2. StringStep(f, p) = StringStep(g, p)
      BY <3>1, StringStepLooksAhead
    <3>. QED
      BY <3>2 DEF g
  <2>. HIDE DEF g
  <2>3. Solves(g, k + 1)
    BY <2>2
  <2>. QED
    BY <2>3
<1>3. T = Nat
  <2>1. T \in SUBSET Nat
    OBVIOUS
  <2>. HIDE DEF T
  <2>. QED
    BY <1>1, <1>2, <2>1, SetInduction
<1>4. Len(code) + 1 \in T
  BY <1>3
<1>5. PICK f : Solves(f, Len(code) + 1)
  BY <1>4
<1>. DEFINE g == [p \in StringPositions |-> f[p]]
<1>6. ASSUME NEW p \in StringPositions PROVE f[p] = StringStep(g, p)
  <2>1. p + (Len(code) + 1) > Len(code) + 1
    BY DEF StringPositions
  <2>2. f[p] = StringStep(f, p)
    BY <1>5, <2>1
  <2>3. \A q \in StringPositions : q > p => f[q] = g[q]
    OBVIOUS
  <2>. HIDE DEF g
  <2>. QED
    BY <2>2, <2>3, StringStepLooksAhead
<1>7. g = [p \in StringPositions |-> StringStep(g, p)]
  BY <1>6
<1>8. StringFrom = CHOOSE h : h = [p \in StringPositions |-> StringStep(h, p)]
  BY DEF StringFrom, StringStep, StringPositions
<1>. HIDE DEF g
<1>9. StringFrom = [p \in StringPositions |-> StringStep(StringFrom, p)]
  BY <1>7, <1>8
<1>. QED
  BY <1>9

\* The error points at the backslash of an escape.
IsEscapeError(e) == e.column \in DOMAIN code /\ code[e.column] = Backslash

IsString(string, p) ==
  /\ string \in [closed : BOOLEAN, to : p .. Len(code) + 1, text : Seq(Char), errors : Seq(Span)]
  /\ \A i \in DOMAIN string.errors : IsEscapeError(string.errors[i])

LEMMA EscapesAreChars ==
  ASSUME code \in Seq(Char), line \in Nat, position \in Nat, NEW p \in 2 .. Len(code)
  PROVE  /\ Escaped(p) \in Char
         /\ EscapeErrors(p) = <<>> \/ EscapeErrors(p) = <<UnknownEscape(p)>>
         /\ UnknownEscape(p) \in Span
         /\ UnknownEscape(p).column = p - 1
<1>1. p \in DOMAIN code /\ peek(p) = code[p] /\ code[p] \in Char
  BY DEF peek
<1>2. DOMAIN Escapes = {"n", "t", Quote, Backslash}
  BY DEF Escapes
<1>3. \A c \in DOMAIN Escapes : Escapes[c] \in {NL, "\t", Quote, Backslash}
  BY <1>2 DEF Escapes
<1>4. Escaped(p) \in Char
  BY <1>1, <1>3, CharAssumption DEF Escaped
<1>5. LineAfter(p) \in Nat
  <2>1. p \in Nat
    OBVIOUS
  <2>2. Cardinality(Newlines(position, p)) \in Nat
    BY <2>1, NewlinesFinite
  <2>. QED
    BY <2>2 DEF LineAfter
<1>. QED
  BY <1>4, <1>5 DEF EscapeErrors, UnknownEscape, Span

LEMMA StringReadStep ==
  ASSUME code \in Seq(Char), line \in Nat, position \in Nat,
         NEW p \in StringPositions,
         \A q \in StringPositions : q > p => IsString(StringFrom[q], q)
  PROVE  IsString(StringFrom[p], p)
<1>. DEFINE r == StringFrom[p]
<1>1. r = StringStep(StringFrom, p)
  BY StringUnfolds
<1>2. p \in Nat /\ Len(code) \in Nat /\ p <= Len(code) + 1 /\ p >= 1
  BY DEF StringPositions
<1>3. CASE p > Len(code)
  <2>1. r = [closed |-> FALSE, to |-> p, text |-> <<>>, errors |-> <<>>]
    <3>1. peek(p) = NUL /\ ~(p = Len(code)) /\ ~(p < Len(code))
      BY <1>2, <1>3 DEF peek
    <3>. HIDE DEF r
    <3>. QED
      BY <1>1, <1>3, <3>1, CharsDiffer DEF StringStep
  <2>. HIDE DEF r
  <2>2. IsString(r, p)
    BY <1>2, <2>1 DEF IsString
  <2>. QED
    BY <2>2 DEF r
<1>4. CASE p <= Len(code) /\ peek(p) = Quote
  <2>1. r = [closed |-> TRUE, to |-> p + 1, text |-> <<>>, errors |-> <<>>]
    <3>1. ~(p > Len(code))
      BY <1>2, <1>4
    <3>. HIDE DEF r
    <3>. QED
      BY <1>1, <1>4, <3>1, CharsDiffer DEF StringStep
  <2>. HIDE DEF r
  <2>2. IsString(r, p)
    BY <1>2, <1>4, <2>1 DEF IsString
  <2>. QED
    BY <2>2 DEF r
<1>5. CASE p = Len(code) /\ peek(p) = Backslash
  <2>1. r = [closed |-> FALSE, to |-> p + 1, text |-> <<>>, errors |-> <<>>]
    <3>1. ~(p > Len(code)) /\ ~(p < Len(code))
      BY <1>2, <1>5
    <3>. HIDE DEF r
    <3>. QED
      BY <1>1, <1>5, <3>1, CharsDiffer DEF StringStep
  <2>. HIDE DEF r
  <2>2. IsString(r, p)
    BY <1>2, <1>5, <2>1 DEF IsString
  <2>. QED
    BY <2>2 DEF r
<1>6. CASE p < Len(code) /\ peek(p) = Backslash
  <2>. DEFINE rest == StringFrom[p + 2]
  <2>1. r = [rest EXCEPT !.text = <<Escaped(p + 1)>> \o @,
                         !.errors = EscapeErrors(p + 1) \o @]
    <3>1. ~(p > Len(code)) /\ ~(p = Len(code))
      BY <1>2, <1>6
    <3>. HIDE DEF r
    <3>. QED
      BY <1>1, <1>6, <3>1, CharsDiffer DEF StringStep
  <2>2. p + 2 \in StringPositions /\ p + 2 > p
    BY <1>2, <1>6 DEF StringPositions
  <2>3. IsString(rest, p + 2)
    BY <2>2
  <2>4. /\ Escaped(p + 1) \in Char
        /\ EscapeErrors(p + 1) = <<>> \/ EscapeErrors(p + 1) = <<UnknownEscape(p + 1)>>
        /\ UnknownEscape(p + 1) \in Span
        /\ UnknownEscape(p + 1).column = p
    <3>1. p + 1 \in 2 .. Len(code) /\ (p + 1) - 1 = p
      BY <1>2, <1>6
    <3>. QED
      BY <3>1, EscapesAreChars
  <2>5. IsEscapeError(UnknownEscape(p + 1))
    <3>1. p \in DOMAIN code /\ code[p] = Backslash
      BY <1>2, <1>6 DEF peek
    <3>. QED
      BY <2>4, <3>1 DEF IsEscapeError
  <2>. DEFINE text == <<Escaped(p + 1)>> \o rest.text
              errs == EscapeErrors(p + 1) \o rest.errors
  <2>6. /\ rest.closed \in BOOLEAN /\ rest.to \in p + 2 .. Len(code) + 1
        /\ rest.text \in Seq(Char) /\ rest.errors \in Seq(Span)
        /\ \A i \in DOMAIN rest.errors : IsEscapeError(rest.errors[i])
    BY <2>3 DEF IsString
  <2>7. r = [closed |-> rest.closed, to |-> rest.to, text |-> text, errors |-> errs]
    BY <2>1, <2>3 DEF IsString
  <2>. HIDE DEF r, rest
  <2>8. text \in Seq(Char)
    BY <2>4, <2>6
  <2>9. errs \in Seq(Span) /\ \A i \in DOMAIN errs : IsEscapeError(errs[i])
    <3>1. CASE EscapeErrors(p + 1) = <<>>
      <4>1. \A s \in Seq(Span) : <<>> \o s = s
        OBVIOUS
      <4>2. errs = <<>> \o rest.errors
        BY <3>1
      <4>3. errs = rest.errors
        BY <2>6, <4>1, <4>2
      <4>. HIDE DEF errs
      <4>. QED
        BY <2>6, <4>3
    <3>2. CASE EscapeErrors(p + 1) = <<UnknownEscape(p + 1)>>
      <4>. DEFINE e == UnknownEscape(p + 1)
      <4>1. errs = <<e>> \o rest.errors
        BY <3>2
      <4>. HIDE DEF e
      <4>2. e \in Span /\ IsEscapeError(e)
        BY <2>4, <2>5 DEF e
      <4>. HIDE DEF errs
      <4>3. errs \in Seq(Span)
        BY <2>6, <4>1, <4>2
      <4>4. \A i \in DOMAIN errs :
              \/ errs[i] = e
              \/ i - 1 \in DOMAIN rest.errors /\ errs[i] = rest.errors[i - 1]
        BY <2>6, <4>1
      <4>. QED
        BY <2>6, <4>2, <4>3, <4>4
    <3>. QED
      BY <2>4, <3>1, <3>2
  <2>10. rest.to \in p .. Len(code) + 1
    BY <1>2, <2>6
  <2>. HIDE DEF text, errs
  <2>11. IsString(r, p)
    BY <2>6, <2>7, <2>8, <2>9, <2>10 DEF IsString
  <2>. QED
    BY <2>11 DEF r
<1>7. CASE p <= Len(code) /\ peek(p) # Quote /\ peek(p) # Backslash
  <2>. DEFINE rest == StringFrom[p + 1]
  <2>1. r = [rest EXCEPT !.text = <<peek(p)>> \o @]
    <3>1. ~(p > Len(code))
      BY <1>2, <1>7
    <3>. HIDE DEF r
    <3>. QED
      BY <1>1, <1>7, <3>1 DEF StringStep
  <2>2. p + 1 \in StringPositions /\ p + 1 > p
    BY <1>2, <1>7 DEF StringPositions
  <2>3. IsString(rest, p + 1)
    BY <2>2
  <2>4. peek(p) \in Char
    BY <1>2, <1>7 DEF peek
  <2>. DEFINE text == <<peek(p)>> \o rest.text
  <2>5. /\ rest.closed \in BOOLEAN /\ rest.to \in p + 1 .. Len(code) + 1
        /\ rest.text \in Seq(Char) /\ rest.errors \in Seq(Span)
        /\ \A i \in DOMAIN rest.errors : IsEscapeError(rest.errors[i])
    BY <2>3 DEF IsString
  <2>6. r = [closed |-> rest.closed, to |-> rest.to, text |-> text, errors |-> rest.errors]
    BY <2>1, <2>3 DEF IsString
  <2>. HIDE DEF r, rest
  <2>7. text \in Seq(Char)
    BY <2>4, <2>5
  <2>8. rest.to \in p .. Len(code) + 1
    BY <1>2, <2>5
  <2>. HIDE DEF text
  <2>9. IsString(r, p)
    BY <2>5, <2>6, <2>7, <2>8 DEF IsString
  <2>. QED
    BY <2>9 DEF r
<1>8. p > Len(code) \/ p <= Len(code)
  BY <1>2
<1>9. p < Len(code) \/ p = Len(code) \/ p > Len(code)
  BY <1>2
<1>. QED
  BY <1>3, <1>4, <1>5, <1>6, <1>7, <1>8, <1>9

\* What readString() returns has its type, and its errors point at backslashes.
LEMMA StringReads ==
  ASSUME code \in Seq(Char), line \in Nat, position \in Nat,
         NEW p \in StringPositions
  PROVE  IsString(StringFrom[p], p)
<1>. DEFINE Reads(q) == IsString(StringFrom[q], q)
            T == {k \in Nat : \A q \in StringPositions : q + k > Len(code) + 1 => Reads(q)}
<1>1. 0 \in T
  BY DEF StringPositions
<1>2. ASSUME NEW k \in T PROVE k + 1 \in T
  <2>1. k \in Nat /\ \A q \in StringPositions : q + k > Len(code) + 1 => Reads(q)
    OBVIOUS
  <2>2. ASSUME NEW q \in StringPositions, q + (k + 1) > Len(code) + 1 PROVE Reads(q)
    <3>1. \A x \in StringPositions : x > q => x + k > Len(code) + 1
      BY <2>1, <2>2 DEF StringPositions
    <3>2. \A x \in StringPositions : x > q => Reads(x)
      BY <2>1, <3>1
    <3>. QED
      BY <3>2, StringReadStep
  <2>. HIDE DEF Reads
  <2>. QED
    BY <2>1, <2>2
<1>3. T = Nat
  <2>1. T \in SUBSET Nat
    OBVIOUS
  <2>. HIDE DEF T
  <2>. QED
    BY <1>1, <1>2, <2>1, SetInduction
<1>4. Len(code) + 1 \in T
  <2>1. Len(code) + 1 \in Nat
    OBVIOUS
  <2>. HIDE DEF T
  <2>. QED
    BY <1>3, <2>1
<1>5. p + (Len(code) + 1) > Len(code) + 1
  BY DEF StringPositions
<1>. HIDE DEF Reads
<1>6. Reads(p)
  BY <1>4, <1>5
<1>. QED
  BY <1>6 DEF Reads

-----------------------------------------------------------------------------
(* The inductive invariant *)

\* Line and line start are kept in step with the position.
Counted == line = LineOf(position) /\ IsLineStart(lineStart, position)

\* Every token has its extent, the one at the end of the file excepted.
Paired == Len(tokens) = Len(extents) + IF status = "done" THEN 1 ELSE 0

\* Tokens have characters, all of them consumed.
Behind ==
  \A i \in DOMAIN extents : extents[i][1] <= extents[i][2] /\ extents[i][2] < position

WordChar == Alnum \cup {"_"}

IsWord(i) == tokens[i].type \in {"IDENTIFIER", "NUMBER"}

\* Words begin with one of their characters, and none follows them.
WordsDelimited ==
  \A i \in DOMAIN extents : IsWord(i) =>
    peek(extents[i][1]) \in WordChar /\ peek(extents[i][2] + 1) \notin WordChar

\* ErrorsMarkInvalidTokens, by the positions in the lists.
InvalidMarked ==
  /\ \A i \in DOMAIN tokens : tokens[i].type = "INVALID" =>
       \E k \in DOMAIN errors : errors[k] = tokens[i].span
  /\ \A k \in DOMAIN errors :
       \/ IsEscapeError(errors[k])
       \/ \E i \in DOMAIN tokens : tokens[i].type = "INVALID" /\ tokens[i].span = errors[k]

IInv ==
  /\ TypeOK
  /\ Counted
  /\ Paired
  /\ Behind
  /\ SpansLocateTokens
  /\ NoCharacterIsLost
  /\ WordsDelimited
  /\ InvalidMarked

-----------------------------------------------------------------------------
(* What consuming characters and appending a token do to it *)

LEMMA TypedFacts ==
  ASSUME TypeOK
  PROVE  /\ code \in Seq(Char) /\ position \in 1 .. Len(code) + 1
         /\ position \in Nat \ {0} /\ line \in Nat /\ Len(code) \in Nat
         /\ Start \in position .. Len(code) + 1 /\ Start \in Nat \ {0}
         /\ Start \in StringPositions
         /\ \A x \in position .. Start - 1 : code[x] \in Space
<1>1. code \in Seq(Char) /\ position \in 1 .. Len(code) + 1 /\ Len(code) \in Nat
      /\ line \in 1 .. Len(code) + 1
  BY DEF TypeOK
<1>2. /\ Start \in position .. Len(code) + 1
      /\ \A x \in position .. Start - 1 : code[x] \in Space
  BY <1>1, StartFacts
<1>. QED
  BY <1>1, <1>2 DEF StringPositions

LEMMA ConsumeCounts ==
  ASSUME TypeOK, Counted, NEW to \in Start .. Len(code) + 1, Consume(to), code' = code
  PROVE  /\ position' \in 1 .. Len(code') + 1
         /\ line' \in 1 .. Len(code') + 1
         /\ lineStart' \in 1 .. position'
         /\ Counted'
<1>1. /\ position \in Nat \ {0} /\ to \in Nat \ {0} /\ position <= to
      /\ Len(code) \in Nat /\ to <= Len(code) + 1 /\ to \in 1 .. Len(code) + 1
  BY TypedFacts
<1>2. position' = to /\ line' = LineAfter(to) /\ lineStart' = LineStartAfter(to)
  BY DEF Consume
<1>3. LineAfter(to) = LineOf(to)
  BY <1>1, LineAddsUp DEF LineAfter, Counted
<1>4. IsLineStart(LineStartAfter(to), to)
  BY <1>1, LineStartKept DEF Counted
<1>5. LineOf(to) \in 1 .. to
  BY <1>1, LineBound
<1>6. LineOf(position)' = LineOf(to)
  BY <1>2 DEF LineOf
<1>7. IsLineStart(lineStart, position)'
  BY <1>2, <1>4 DEF IsLineStart
<1>8. LineOf(to) \in 1 .. Len(code) + 1
  BY <1>1, <1>5
<1>9. LineStartAfter(to) \in 1 .. to
  BY <1>4 DEF IsLineStart
<1>. QED
  BY <1>1, <1>2, <1>3, <1>6, <1>7, <1>8, <1>9 DEF Counted

\* What has been left out before is left out for the same reason.
LEMMA LeftOutBefore ==
  ASSUME IInv, code' = code, position \in Nat, NEW p \in 1 .. position - 1,
         DOMAIN extents \subseteq DOMAIN extents',
         \A i \in DOMAIN extents : extents'[i] = extents[i],
         \A i \in DOMAIN extents' \ DOMAIN extents :
           extents'[i][1] \in Nat /\ position <= extents'[i][1]
  PROVE  \/ \E i \in DOMAIN extents' : p \in Extent(i)'
         \/ code'[p] \in Space
         \/ InComment(p)'
<1>1. CASE \E i \in DOMAIN extents : p \in Extent(i)
  BY <1>1 DEF Extent
<1>2. CASE code[p] \in Space
  BY <1>2
<1>3. CASE InComment(p)
  <2>1. PICK c \in 1 .. p :
          /\ code[c] = ";"
          /\ \A i \in DOMAIN extents : c \notin Extent(i)
          /\ \A x \in c .. p : code[x] \notin {NL, NUL}
    BY <1>3 DEF InComment
  <2>2. \A i \in DOMAIN extents' : c \notin Extent(i)'
    <3>. SUFFICES ASSUME NEW i \in DOMAIN extents' PROVE c \notin Extent(i)'
      OBVIOUS
    <3>1. CASE i \in DOMAIN extents
      BY <2>1, <3>1 DEF Extent
    <3>2. CASE i \notin DOMAIN extents
      <4>1. c < extents'[i][1] /\ c \in Nat /\ extents'[i][1] \in Nat
        BY <3>2
      <4>. QED
        BY <4>1 DEF Extent
    <3>. QED
      BY <3>1, <3>2
  <2>3. /\ code'[c] = ";"
        /\ \A x \in c .. p : code'[x] \notin {NL, NUL}
    BY <2>1
  <2>4. InComment(p)'
    BY <2>2, <2>3, Zenon DEF InComment
  <2>. QED
    BY <2>4
<1>. QED
  BY <1>1, <1>2, <1>3 DEF IInv, NoCharacterIsLost

LEMMA AppendFacts ==
  ASSUME NEW S, NEW s \in Seq(S), NEW e \in S
  PROVE  /\ Append(s, e) \in Seq(S)
         /\ Len(Append(s, e)) = Len(s) + 1
         /\ DOMAIN Append(s, e) = 1 .. Len(s) + 1
         /\ \A i \in 1 .. Len(s) : Append(s, e)[i] = s[i]
         /\ Append(s, e)[Len(s) + 1] = e
OBVIOUS

\* A token for what begins behind the white space, with the errors it needs.
LEMMA PushKeeps ==
  ASSUME IInv, status = "running",
         NEW type \in TokenType, NEW span \in Span, NEW to \in Start + 1 .. Len(code) + 1,
         NEW text \in Seq(Char), NEW value \in 0 .. MaxLong, NEW new \in Seq(Span),
         Push(type, span, to, text, value), errors' = errors \o new,
         (\A x \in Start .. to - 1 : code[x] # NL) => span = SpanTo(to),
         type \in {"IDENTIFIER", "NUMBER"} =>
           peek(Start) \in WordChar /\ peek(to) \notin WordChar,
         type = "INVALID" => \E k \in DOMAIN new : new[k] = span,
         \A k \in DOMAIN new : IsEscapeError(new[k]) \/ (type = "INVALID" /\ new[k] = span)
  PROVE  IInv'
<1>. DEFINE token == [type |-> type, span |-> span, text |-> text, value |-> value]
<1>1. /\ TypeOK /\ code' = code /\ status' = status
      /\ Consume(to) /\ position' = to
      /\ tokens' = Append(tokens, token)
      /\ extents' = Append(extents, <<Start, to - 1>>)
  BY DEF IInv, Push, Consume
<1>2. /\ code \in Seq(Char) /\ position \in Nat \ {0} /\ Len(code) \in Nat
      /\ Start \in Nat \ {0} /\ position <= Start /\ Start < to /\ to <= Len(code) + 1
      /\ to \in Nat /\ to \in Start .. Len(code) + 1
      /\ \A x \in position .. Start - 1 : code[x] \in Space
  BY <1>1, TypedFacts
<1>3. tokens \in Seq(Token) /\ errors \in Seq(Span)
      /\ extents \in Seq((1 .. Len(code)) \X (1 .. Len(code)))
  BY <1>1 DEF TypeOK
<1>4. token \in Token
  BY DEF Token
<1>count. PICK n \in Nat : n = Len(tokens)
  BY <1>3
<1>5. n = Len(tokens) /\ Len(extents) = n /\ DOMAIN extents = 1 .. n /\ DOMAIN tokens = 1 .. n
  BY <1>3, <1>count DEF IInv, Paired
<1>. DEFINE extent == <<Start, to - 1>>
<1>. DEFINE Places == (1 .. Len(code)) \X (1 .. Len(code))
<1>6. extent \in Places /\ extents \in Seq(Places)
  BY <1>2, <1>3
<1>7. extent[1] = Start /\ extent[2] = to - 1
  OBVIOUS
<1>8. token.type = type /\ token.span = span
  OBVIOUS
<1>places. \A i \in 1 .. n : extents[i][1] \in Nat /\ extents[i][2] \in Nat
  <2>1. \A i \in 1 .. n : extents[i] \in Places
    BY <1>5, <1>6
  <2>. QED
    BY <2>1
<1>. HIDE DEF token, extent, Places
<1>9. /\ DOMAIN tokens' = 1 .. n + 1 /\ Len(tokens') = n + 1
      /\ \A i \in 1 .. n : tokens'[i] = tokens[i]
      /\ tokens'[n + 1] = token /\ tokens' \in Seq(Token)
  BY <1>1, <1>3, <1>4, <1>5
<1>10. /\ DOMAIN extents' = 1 .. n + 1 /\ Len(extents') = n + 1
       /\ \A i \in 1 .. n : extents'[i] = extents[i]
       /\ extents'[n + 1] = extent /\ extents' \in Seq(Places)
  <2>1. extents' = Append(extents, extent)
    BY <1>1 DEF extent
  <2>. QED
    BY <1>5, <1>6, <2>1, AppendFacts
<1>11. errors' \in Seq(Span)
  BY <1>3
<1>12. /\ position' \in 1 .. Len(code') + 1 /\ line' \in 1 .. Len(code') + 1
       /\ lineStart' \in 1 .. position' /\ Counted'
  BY <1>1, <1>2, ConsumeCounts DEF IInv
<1>13. TypeOK'
  BY <1>1, <1>2, <1>9, <1>10, <1>11, <1>12 DEF TypeOK, Places
<1>14. Paired'
  BY <1>1, <1>9, <1>10 DEF Paired
<1>15. Behind'
  <2>1. ASSUME NEW i \in 1 .. n
        PROVE  extents'[i][1] <= extents'[i][2] /\ extents'[i][2] < position'
    <3>1. extents[i][1] <= extents[i][2] /\ extents[i][2] < position
      BY <1>5 DEF IInv, Behind
    <3>2. extents[i][1] \in Nat /\ extents[i][2] \in Nat /\ extents'[i] = extents[i]
      BY <1>10, <1>places
    <3>3. extents[i][2] < to
      BY <1>2, <3>1, <3>2
    <3>. QED
      BY <1>1, <3>1, <3>2, <3>3
  <2>2. extents'[n + 1][1] <= extents'[n + 1][2] /\ extents'[n + 1][2] < position'
    BY <1>1, <1>2, <1>7, <1>10
  <2>. QED
    BY <1>5, <1>10, <2>1, <2>2 DEF Behind
<1>16. SpansLocateTokens'
  <2>. SUFFICES ASSUME NEW i \in DOMAIN extents',
                       NL \notin {code'[x] : x \in Extent(i)'}
                PROVE  tokens'[i].span =
                         [line |-> LineOf(extents[i][1])', column |-> ColumnOf(extents[i][1])',
                          length |-> Cardinality(Extent(i)')]
    BY DEF SpansLocateTokens
  <2>1. LineOf(extents[i][1])' = LineOf(extents'[i][1])
    BY <1>1 DEF LineOf
  <2>2. ColumnOf(extents[i][1])' = ColumnOf(extents'[i][1])
    BY <1>1 DEF ColumnOf
  <2>3. CASE i \in 1 .. n
    <3>1. extents'[i] = extents[i] /\ tokens'[i] = tokens[i] /\ i \in DOMAIN extents
      BY <1>5, <1>9, <1>10, <2>3
    <3>2. Extent(i)' = Extent(i)
      BY <3>1 DEF Extent
    <3>3. NL \notin {code[x] : x \in Extent(i)}
      BY <1>1, <3>2
    <3>4. tokens[i].span = [line |-> LineOf(extents[i][1]), column |-> ColumnOf(extents[i][1]),
                            length |-> Cardinality(Extent(i))]
      BY <3>1, <3>3 DEF IInv, SpansLocateTokens
    <3>. QED
      BY <2>1, <2>2, <3>1, <3>2, <3>4
  <2>4. CASE i = n + 1
    <3>1. extents'[i][1] = Start /\ extents'[i][2] = to - 1 /\ tokens'[i].span = span
      BY <1>7, <1>8, <1>9, <1>10, <2>4
    <3>2. Extent(i)' = Start .. to - 1
      BY <3>1 DEF Extent
    <3>3. \A x \in Start .. to - 1 : code[x] # NL
      BY <1>1, <3>2
    <3>4. span = SpanTo(to)
      BY <3>3
    <3>5. SpanTo(to) = [line |-> LineOf(Start), column |-> ColumnOf(Start), length |-> to - Start]
      BY <1>1, <1>2, <3>3, SpanLocates DEF IInv, Counted, TypeOK
    <3>6. Cardinality(Start .. to - 1) = to - Start
      BY <1>2, FS_Interval
    <3>. QED
      BY <2>1, <2>2, <3>1, <3>2, <3>4, <3>5, <3>6
  <2>. QED
    BY <1>5, <1>10, <2>3, <2>4
<1>17. NoCharacterIsLost'
  <2>1. ASSUME NEW i \in DOMAIN extents', i > 1
        PROVE  extents'[i - 1][2] < extents'[i][1]
    <3>1. CASE i \in 1 .. n
      <4>1. i \in DOMAIN extents /\ i - 1 \in 1 .. n
        BY <1>5, <2>1, <3>1
      <4>2. extents[i - 1][2] < extents[i][1]
        BY <2>1, <4>1 DEF IInv, NoCharacterIsLost
      <4>. QED
        BY <1>10, <3>1, <4>1, <4>2
    <3>2. CASE i = n + 1
      <4>1. n \in 1 .. n /\ i - 1 = n
        BY <1>5, <2>1, <3>2
      <4>2. extents[n][2] < position /\ extents[n][2] \in Nat
        BY <1>5, <1>places, <4>1 DEF IInv, Behind
      <4>. QED
        BY <1>2, <1>7, <1>10, <3>2, <4>1, <4>2
    <3>. QED
      BY <1>5, <1>10, <3>1, <3>2
  <2>2. ASSUME NEW p \in 1 .. position' - 1
        PROVE  \/ \E i \in DOMAIN extents' : p \in Extent(i)'
               \/ code'[p] \in Space
               \/ InComment(p)'
    <3>1. CASE p < position
      <4>1. p \in 1 .. position - 1
        BY <1>1, <1>2, <3>1
      <4>2. DOMAIN extents \subseteq DOMAIN extents'
        BY <1>5, <1>10
      <4>3. \A i \in DOMAIN extents : extents'[i] = extents[i]
        BY <1>5, <1>10
      <4>4. \A i \in DOMAIN extents' \ DOMAIN extents :
              extents'[i][1] \in Nat /\ position <= extents'[i][1]
        <5>1. \A i \in DOMAIN extents' \ DOMAIN extents : i = n + 1
          BY <1>5, <1>10
        <5>. QED
          BY <1>2, <1>7, <1>10, <5>1
      <4>. QED
        BY <1>1, <1>2, <4>1, <4>2, <4>3, <4>4, LeftOutBefore
    <3>2. CASE position <= p /\ p < Start
      BY <1>1, <1>2, <3>2
    <3>3. CASE Start <= p
      <4>1. n + 1 \in DOMAIN extents' /\ p \in Start .. to - 1
        BY <1>1, <1>2, <1>5, <1>10, <3>3
      <4>2. p \in Extent(n + 1)'
        BY <1>7, <1>10, <4>1 DEF Extent
      <4>. QED
        BY <4>1, <4>2
    <3>. QED
      BY <1>1, <1>2, <3>1, <3>2, <3>3
  <2>. QED
    BY <2>1, <2>2 DEF NoCharacterIsLost
<1>18. WordsDelimited'
  <2>. SUFFICES ASSUME NEW i \in DOMAIN extents', IsWord(i)'
                PROVE  /\ peek(extents[i][1])' \in WordChar
                       /\ peek(extents[i][2] + 1)' \notin WordChar
    BY DEF WordsDelimited, WordChar
  <2>1. /\ peek(extents[i][1])' = peek(extents'[i][1])
        /\ peek(extents[i][2] + 1)' = peek(extents'[i][2] + 1)
    BY <1>1 DEF peek
  <2>2. CASE i \in 1 .. n
    <3>1. extents'[i] = extents[i] /\ tokens'[i] = tokens[i] /\ i \in DOMAIN extents
      BY <1>5, <1>9, <1>10, <2>2
    <3>2. IsWord(i)
      BY <3>1 DEF IsWord
    <3>3. peek(extents[i][1]) \in WordChar /\ peek(extents[i][2] + 1) \notin WordChar
      BY <3>1, <3>2 DEF IInv, WordsDelimited
    <3>. QED
      BY <2>1, <3>1, <3>3
  <2>3. CASE i = n + 1
    <3>1. extents'[i][1] = Start /\ extents'[i][2] + 1 = to
      BY <1>2, <1>7, <1>10, <2>3
    <3>2. type \in {"IDENTIFIER", "NUMBER"}
      BY <1>8, <1>9, <2>3 DEF IsWord
    <3>. QED
      BY <2>1, <3>1, <3>2
  <2>. QED
    BY <1>5, <1>10, <2>2, <2>3
<1>19. InvalidMarked'
  <2>. DEFINE m == Len(errors)
  <2>1. /\ m \in Nat /\ Len(new) \in Nat
        /\ DOMAIN errors = 1 .. m /\ DOMAIN new = 1 .. Len(new)
        /\ DOMAIN errors' = 1 .. m + Len(new)
        /\ \A k \in 1 .. m : errors'[k] = errors[k]
        /\ \A k \in 1 .. Len(new) : errors'[m + k] = new[k]
    BY <1>3
  <2>. HIDE DEF m
  <2>2. ASSUME NEW i \in DOMAIN tokens', tokens'[i].type = "INVALID"
        PROVE  \E k \in DOMAIN errors' : errors'[k] = tokens'[i].span
    <3>1. CASE i \in 1 .. n
      <4>1. PICK k \in DOMAIN errors : errors[k] = tokens[i].span
        BY <1>5, <1>9, <2>2, <3>1 DEF IInv, InvalidMarked
      <4>2. k \in DOMAIN errors' /\ errors'[k] = errors[k]
        BY <2>1
      <4>. QED
        BY <1>9, <3>1, <4>1, <4>2
    <3>2. CASE i = n + 1
      <4>1. PICK k \in DOMAIN new : new[k] = span
        BY <1>8, <1>9, <2>2, <3>2
      <4>2. m + k \in DOMAIN errors' /\ errors'[m + k] = new[k]
        BY <2>1
      <4>. QED
        BY <1>8, <1>9, <3>2, <4>1, <4>2
    <3>. QED
      BY <1>5, <1>9, <3>1, <3>2
  <2>3. ASSUME NEW k \in DOMAIN errors'
        PROVE  \/ IsEscapeError(errors[k])'
               \/ \E i \in DOMAIN tokens' :
                    tokens'[i].type = "INVALID" /\ tokens'[i].span = errors'[k]
    <3>1. IsEscapeError(errors[k])' <=> IsEscapeError(errors'[k])
      BY <1>1 DEF IsEscapeError
    <3>2. CASE k \in 1 .. m
      <4>1. errors'[k] = errors[k] /\ k \in DOMAIN errors
        BY <2>1, <3>2
      <4>2. \/ IsEscapeError(errors[k])
            \/ \E i \in DOMAIN tokens :
                 tokens[i].type = "INVALID" /\ tokens[i].span = errors[k]
        BY <4>1 DEF IInv, InvalidMarked
      <4>3. \A i \in DOMAIN tokens : i \in DOMAIN tokens' /\ tokens'[i] = tokens[i]
        BY <1>5, <1>9
      <4>. QED
        BY <3>1, <4>1, <4>2, <4>3
    <3>3. CASE k \notin 1 .. m
      <4>1. k - m \in DOMAIN new /\ m + (k - m) = k
        BY <2>1, <3>3
      <4>2. errors'[k] = new[k - m]
        BY <2>1, <4>1
      <4>3. IsEscapeError(new[k - m]) \/ (type = "INVALID" /\ new[k - m] = span)
        BY <4>1
      <4>4. n + 1 \in DOMAIN tokens'
        BY <1>5, <1>9
      <4>. QED
        BY <1>8, <1>9, <3>1, <4>2, <4>3, <4>4
    <3>. QED
      BY <3>2, <3>3
  <2>. QED
    BY <2>2, <2>3 DEF InvalidMarked
<1>. QED
  BY <1>12, <1>13, <1>14, <1>15, <1>16, <1>17, <1>18, <1>19 DEF IInv

\* What is consumed without a token.
LEMMA ConsumeKeeps ==
  ASSUME IInv, NEW to \in Start .. Len(code) + 1, Consume(to),
         UNCHANGED <<code, errors, extents>>,
         tokens' \in Seq(Token), \A i \in DOMAIN extents : tokens'[i] = tokens[i],
         status' \in {"running", "done", "threw"}, Paired', InvalidMarked',
         \A p \in Start .. to - 1 : InComment(p)
  PROVE  IInv'
<1>1. TypeOK /\ code' = code /\ extents' = extents /\ errors' = errors /\ position' = to
  BY DEF IInv, Consume
<1>2. /\ position \in Nat \ {0} /\ Start \in Nat /\ to \in Nat
      /\ position <= Start /\ Start <= to
      /\ \A x \in position .. Start - 1 : code[x] \in Space
  BY <1>1, TypedFacts
<1>3. /\ position' \in 1 .. Len(code') + 1 /\ line' \in 1 .. Len(code') + 1
      /\ lineStart' \in 1 .. position' /\ Counted'
  BY <1>1, ConsumeCounts DEF IInv
<1>4. TypeOK'
  BY <1>1, <1>3 DEF TypeOK
<1>5. Behind'
  <2>. SUFFICES ASSUME NEW i \in DOMAIN extents
                PROVE  extents[i][1] <= extents[i][2] /\ extents[i][2] < to
    BY <1>1 DEF Behind
  <2>1. extents[i][1] <= extents[i][2] /\ extents[i][2] < position
    BY DEF IInv, Behind
  <2>2. extents[i] \in (1 .. Len(code)) \X (1 .. Len(code))
    BY <1>1 DEF TypeOK
  <2>3. extents[i][2] \in Int
    BY <2>2
  <2>. QED
    BY <1>2, <2>1, <2>3
<1>6. SpansLocateTokens'
  <2>. SUFFICES ASSUME NEW i \in DOMAIN extents, NL \notin {code'[x] : x \in Extent(i)'}
                PROVE  tokens'[i].span =
                         [line |-> LineOf(extents[i][1])', column |-> ColumnOf(extents[i][1])',
                          length |-> Cardinality(Extent(i)')]
    BY <1>1 DEF SpansLocateTokens
  <2>1. LineOf(extents[i][1])' = LineOf(extents[i][1])
    BY <1>1 DEF LineOf
  <2>2. ColumnOf(extents[i][1])' = ColumnOf(extents[i][1])
    BY <1>1 DEF ColumnOf
  <2>3. Extent(i)' = Extent(i)
    BY <1>1 DEF Extent
  <2>4. NL \notin {code[x] : x \in Extent(i)}
    BY <1>1, <2>3
  <2>5. tokens[i].span = [line |-> LineOf(extents[i][1]), column |-> ColumnOf(extents[i][1]),
                          length |-> Cardinality(Extent(i))]
    BY <2>4 DEF IInv, SpansLocateTokens
  <2>. QED
    BY <2>1, <2>2, <2>3, <2>5
<1>7. NoCharacterIsLost'
  <2>1. \A i \in DOMAIN extents' : i > 1 => extents'[i - 1][2] < extents'[i][1]
    BY <1>1 DEF IInv, NoCharacterIsLost
  <2>2. ASSUME NEW p \in 1 .. position' - 1
        PROVE  \/ \E i \in DOMAIN extents' : p \in Extent(i)'
               \/ code'[p] \in Space
               \/ InComment(p)'
    <3>1. CASE p < position
      <4>1. p \in 1 .. position - 1
        BY <1>1, <1>2, <3>1
      <4>. QED
        BY <1>1, <1>2, <4>1, LeftOutBefore
    <3>2. CASE position <= p /\ p < Start
      BY <1>1, <1>2, <3>2
    <3>3. CASE Start <= p
      <4>1. p \in Start .. to - 1
        BY <1>1, <1>2, <3>3
      <4>2. InComment(p)
        BY <4>1
      <4>3. InComment(p)'
        <5>1. \A i : Extent(i)' = Extent(i)
          BY <1>1 DEF Extent
        <5>. QED
          BY <1>1, <4>2, <5>1 DEF InComment
      <4>. QED
        BY <4>3
    <3>. QED
      BY <1>1, <1>2, <3>1, <3>2, <3>3
  <2>. QED
    BY <2>1, <2>2 DEF NoCharacterIsLost
<1>8. WordsDelimited'
  <2>. SUFFICES ASSUME NEW i \in DOMAIN extents, IsWord(i)'
                PROVE  /\ peek(extents[i][1])' \in WordChar
                       /\ peek(extents[i][2] + 1)' \notin WordChar
    BY <1>1 DEF WordsDelimited, WordChar
  <2>1. /\ peek(extents[i][1])' = peek(extents[i][1])
        /\ peek(extents[i][2] + 1)' = peek(extents[i][2] + 1)
    BY <1>1 DEF peek
  <2>2. IsWord(i)
    BY DEF IsWord
  <2>. QED
    BY <2>1, <2>2 DEF IInv, WordsDelimited
<1>. QED
  BY <1>3, <1>4, <1>5, <1>6, <1>7, <1>8 DEF IInv

-----------------------------------------------------------------------------
(* The steps *)

LEMMA AtLexemeFacts ==
  ASSUME IInv, NEW S, AtLexeme(S)
  PROVE  /\ status = "running" /\ TypeOK
         /\ Start \in Nat \ {0} /\ Start \in 1 .. Len(code) /\ Len(code) \in Nat
         /\ peek(Start) = code[Start] /\ code[Start] \in S /\ code[Start] \in Char
         /\ Start + 1 \in Start + 1 .. Len(code) + 1
         /\ code \in Seq(Char) /\ Start \in 1 .. Len(code) + 1
         /\ position \in Nat /\ position <= Start
<1>1. TypeOK /\ status = "running" /\ Start <= Len(code) /\ peek(Start) \in S
  BY DEF IInv, AtLexeme
<1>2. /\ code \in Seq(Char) /\ Start \in Nat \ {0} /\ Len(code) \in Nat
      /\ position \in Nat /\ position <= Start
  BY <1>1, TypedFacts
<1>3. Start \in 1 .. Len(code) /\ peek(Start) = code[Start]
  BY <1>1, <1>2 DEF peek
<1>. QED
  BY <1>1, <1>2, <1>3

LEMMA SpanToType ==
  ASSUME TypeOK, Counted, NEW to \in Start .. Len(code) + 1
  PROVE  SpanTo(to) \in Span
<1>1. /\ position \in Nat \ {0} /\ Start \in Nat \ {0} /\ to \in Nat /\ line \in Nat
      /\ position <= Start /\ Start <= to
  BY TypedFacts
<1>2. LineAfter(to) \in Nat
  <2>1. Cardinality(Newlines(position, to)) \in Nat
    BY <1>1, NewlinesFinite
  <2>. QED
    BY <1>1, <2>1 DEF LineAfter
<1>3. LineStartAfter(to) \in Int
  <2>1. IsLineStart(LineStartAfter(to), to)
    BY <1>1, LineStartKept DEF Counted
  <2>. QED
    BY <2>1 DEF IsLineStart
<1>4. Start - LineStartAfter(to) + 1 \in Int /\ to - Start \in Nat
  BY <1>1, <1>3
<1>. QED
  BY <1>2, <1>4 DEF SpanTo, Span

LEMMA LexemeType ==
  ASSUME TypeOK, NEW to \in Start + 1 .. Len(code) + 1
  PROVE  Lexeme(to) \in Seq(Char)
<1>1. code \in Seq(Char) /\ Start \in Nat \ {0} /\ Len(code) \in Nat
  BY TypedFacts
<1>2. \A x \in Start .. to - 1 : x \in 1 .. Len(code)
  BY <1>1
<1>. QED
  BY <1>1, <1>2 DEF Lexeme

LEMMA TypesNamed ==
  {"END_OF_FILE", "NEWLINE", "IDENTIFIER", "NUMBER", "STRING", "INVALID"} \subseteq TokenType
BY DEF TokenType

LEMMA NoErrors ==
  ASSUME TypeOK
  PROVE  errors \o <<>> = errors /\ <<>> \in Seq(Span) /\ DOMAIN <<>> = {}
BY DEF TypeOK

\* A lexeme of the source as a token, without an error.
LEMMA PushLexemeKeeps ==
  ASSUME IInv, status = "running",
         NEW type \in TokenType, type # "INVALID",
         NEW to \in Start + 1 .. Len(code) + 1, NEW value \in 0 .. MaxLong,
         Push(type, SpanTo(to), to, Lexeme(to), value), UNCHANGED errors,
         type \in {"IDENTIFIER", "NUMBER"} =>
           peek(Start) \in WordChar /\ peek(to) \notin WordChar
  PROVE  IInv'
<1>1. TypeOK /\ Counted
  BY DEF IInv
<1>2. to \in Start .. Len(code) + 1
  BY <1>1, TypedFacts
<1>3. PICK span : span = SpanTo(to)
  OBVIOUS
<1>4. PICK text : text = Lexeme(to)
  OBVIOUS
<1>5. span \in Span /\ text \in Seq(Char)
  BY <1>1, <1>2, <1>3, <1>4, SpanToType, LexemeType
<1>6. Push(type, span, to, text, value)
  BY <1>3, <1>4
<1>7. PICK new : new = <<>>
  OBVIOUS
<1>8. new \in Seq(Span) /\ DOMAIN new = {} /\ errors' = errors \o new
  BY <1>1, <1>7, NoErrors
<1>. QED
  BY <1>3, <1>5, <1>6, <1>8, PushKeeps

\* An invalid lexeme and its error.
LEMMA PushInvalidKeeps ==
  ASSUME IInv, status = "running", NEW to \in Start + 1 .. Len(code) + 1, PushInvalid(to)
  PROVE  IInv'
<1>1. TypeOK /\ Counted
  BY DEF IInv
<1>2. to \in Start .. Len(code) + 1
  BY <1>1, TypedFacts
<1>3. PICK span : span = SpanTo(to)
  OBVIOUS
<1>4. PICK text : text = Lexeme(to)
  OBVIOUS
<1>5. span \in Span /\ text \in Seq(Char)
  BY <1>1, <1>2, <1>3, <1>4, SpanToType, LexemeType
<1>6. Push("INVALID", span, to, text, 0) /\ errors' = Append(errors, span)
  BY <1>3, <1>4 DEF PushInvalid
<1>7. PICK new : new = <<span>>
  OBVIOUS
<1>8. new \in Seq(Span) /\ DOMAIN new = {1} /\ new[1] = span
  BY <1>5, <1>7
<1>9. errors' = errors \o new
  <2>1. errors \in Seq(Span)
    BY <1>1 DEF TypeOK
  <2>2. \A s \in Seq(Span) : Append(s, span) = s \o <<span>>
    BY <1>5
  <2>. QED
    BY <1>6, <1>7, <2>1, <2>2
<1>10. 0 \in 0 .. MaxLong /\ "INVALID" \in TokenType
  BY MaxLongAssumption, TypesNamed
<1>. QED
  BY <1>3, <1>5, <1>6, <1>8, <1>9, <1>10, PushKeeps

LEMMA NewlineKeeps ==
  ASSUME IInv, Newline
  PROVE  IInv'
<1>1. /\ status = "running" /\ TypeOK /\ Start \in Nat \ {0} /\ Start \in 1 .. Len(code)
      /\ code[Start] = NL /\ Start + 1 \in Start + 1 .. Len(code) + 1
  BY AtLexemeFacts DEF Newline
<1>2. PICK to : to = Start + 1
  OBVIOUS
<1>3. PICK span : span = [line |-> line + 1, column |-> Start - lineStart - 1, length |-> 1]
  OBVIOUS
<1>4. span \in Span
  <2>1. line \in Nat /\ lineStart \in Int
    BY <1>1 DEF TypeOK
  <2>. QED
    BY <1>1, <1>3, <2>1 DEF Span
<1>5. PICK text : text = <<NL>>
  OBVIOUS
<1>6. text \in Seq(Char)
  <2>1. NL \in Char
    BY CharAssumption
  <2>. QED
    BY <1>5, <2>1
<1>7. Push("NEWLINE", span, to, text, 0)
  BY <1>2, <1>3, <1>5 DEF Newline
<1>8. PICK new : new = <<>>
  OBVIOUS
<1>9. new \in Seq(Span) /\ DOMAIN new = {} /\ errors' = errors \o new
  BY <1>1, <1>8, NoErrors DEF Newline
<1>10. ~(\A x \in Start .. to - 1 : code[x] # NL)
  BY <1>1, <1>2
<1>11. 0 \in 0 .. MaxLong /\ "NEWLINE" \in TokenType
  BY MaxLongAssumption, TypesNamed
<1>. QED
  BY <1>1, <1>2, <1>4, <1>6, <1>7, <1>9, <1>10, <1>11, PushKeeps

LEMMA CommentKeeps ==
  ASSUME IInv, skipComment
  PROVE  IInv'
<1>at. AtLexeme({";"})
  BY Zenon DEF skipComment
<1>1. /\ TypeOK /\ Start \in Nat \ {0} /\ Start \in 1 .. Len(code) /\ Len(code) \in Nat
      /\ code \in Seq(Char) /\ Start \in 1 .. Len(code) + 1
      /\ position \in Nat /\ position <= Start
  BY <1>at, AtLexemeFacts, Zenon
<1>semicolon. code[Start] = ";"
  <2>1. code[Start] \in {";"}
    BY <1>at, AtLexemeFacts, Zenon
  <2>. QED
    BY <2>1, Zenon
<1>2. PICK to : to = EndOfRun(Char \ {NL, NUL}, Start)
  OBVIOUS
<1>3. /\ to \in Start .. Len(code) + 1
      /\ \A x \in Start .. to - 1 : peek(x) \in Char \ {NL, NUL}
  BY <1>1, <1>2, CharFacts, RunEnds
<1>4. Consume(to) /\ UNCHANGED <<code, tokens, errors, extents, status>>
  BY <1>2, Zenon DEF skipComment
<1>5. ASSUME NEW p \in Start .. to - 1 PROVE InComment(p)
  <2>1. Start \in 1 .. p /\ p \in Nat
    BY <1>1
  <2>2. \A i \in DOMAIN extents : Start \notin Extent(i)
    <3>. SUFFICES ASSUME NEW i \in DOMAIN extents PROVE Start \notin Extent(i)
      OBVIOUS
    <3>1. extents[i] \in (1 .. Len(code)) \X (1 .. Len(code))
      BY <1>1 DEF TypeOK
    <3>2. extents[i][2] < position /\ extents[i][2] \in Nat
      BY <3>1 DEF IInv, Behind
    <3>. QED
      BY <1>1, <3>2 DEF Extent
  <2>3. \A x \in Start .. p : code[x] \notin {NL, NUL}
    <3>1. \A x \in Start .. p : x \in Start .. to - 1 /\ x <= Len(code)
      BY <1>1, <1>3
    <3>. QED
      BY <1>3, <3>1 DEF peek
  <2>. QED
    BY <1>semicolon, <2>1, <2>2, <2>3, Zenon DEF InComment
<1>6. Paired' /\ InvalidMarked'
  BY <1>4 DEF IInv, Paired, InvalidMarked, IsEscapeError
<1>7. tokens' \in Seq(Token) /\ status' \in {"running", "done", "threw"}
  BY <1>1, <1>4 DEF TypeOK
<1>. QED
  BY <1>3, <1>4, <1>5, <1>6, <1>7, ConsumeKeeps

LEMMA IdentifierKeeps ==
  ASSUME IInv, readIdentifier
  PROVE  IInv'
<1>1. /\ status = "running" /\ TypeOK /\ Start \in Nat \ {0} /\ Start \in 1 .. Len(code)
      /\ peek(Start) \in Letter \cup {"_"} /\ Len(code) \in Nat
  BY AtLexemeFacts DEF readIdentifier, AtLexeme
<1>2. PICK to : to = EndOfRun(WordChar, Start)
  OBVIOUS
<1>3. peek(Start) \in WordChar
  BY <1>1 DEF WordChar, Alnum
<1>4. to \in Start + 1 .. Len(code) + 1 /\ peek(to) \notin WordChar
  <2>1. code \in Seq(Char) /\ Start \in 1 .. Len(code) + 1
    BY AtLexemeFacts DEF readIdentifier
  <2>2. NUL \notin WordChar
    BY CharFacts DEF WordChar
  <2>. QED
    BY <1>2, <1>3, <2>1, <2>2, RunEnds, RunAdvances
<1>5. Push("IDENTIFIER", SpanTo(to), to, Lexeme(to), 0) /\ UNCHANGED errors
  BY <1>2 DEF readIdentifier, PushLexeme, WordChar
<1>6. 0 \in 0 .. MaxLong /\ "IDENTIFIER" \in TokenType
  BY MaxLongAssumption, TypesNamed
<1>. QED
  BY <1>1, <1>3, <1>4, <1>5, <1>6, PushLexemeKeeps

\* Where a number ends, and that nothing of a word follows it if it is one.
LEMMA NumberEnds ==
  ASSUME IInv, AtLexeme(Digit)
  PROVE  /\ EndOfNumber \in Start + 1 .. Len(code) + 1
         /\ IsNumber => /\ peek(EndOfNumber) \notin WordChar
                        /\ ValueOfDigits \in Nat
<1>1. /\ TypeOK /\ Start \in Nat \ {0} /\ Start \in 1 .. Len(code) /\ Len(code) \in Nat
      /\ peek(Start) \in Digit
  BY AtLexemeFacts DEF AtLexeme
<1>2. code \in Seq(Char)
  BY <1>1 DEF TypeOK
<1>. DEFINE S == IF IsHex THEN HexDigit ELSE Digit
<1>3. NUL \notin S /\ Digit \subseteq S /\ S \subseteq HexDigit
  BY CharFacts DEF Digit
<1>4. EndOfDigits = EndOfRun(S, FirstDigit)
  BY DEF EndOfDigits
<1>5. IsHex => Start + 2 \in 1 .. Len(code) + 1
  <2>1. ASSUME IsHex PROVE Start + 1 <= Len(code)
    <3>1. peek(Start + 1) \in {"x", "X"}
      BY <2>1 DEF IsHex
    <3>2. peek(Start + 1) # NUL
      BY <3>1 DEF NUL
    <3>3. Start + 1 \in Int
      BY <1>1
    <3>. QED
      BY <3>2, <3>3, AtTheEnd
  <2>. QED
    BY <1>1, <2>1
<1>6. FirstDigit \in 1 .. Len(code) + 1 /\ FirstDigit \in Nat /\ Start <= FirstDigit
      /\ (IsHex => FirstDigit = Start + 2) /\ (~IsHex => FirstDigit = Start)
  BY <1>1, <1>5 DEF FirstDigit
<1>. HIDE DEF S
<1>7. /\ EndOfDigits \in FirstDigit .. Len(code) + 1
      /\ peek(EndOfDigits) \notin S
      /\ \A x \in FirstDigit .. EndOfDigits - 1 : peek(x) \in S
  BY <1>2, <1>3, <1>4, <1>6, RunEnds
<1>8. EndOfDigits \in Start + 1 .. Len(code) + 1
  <2>1. CASE IsHex
    BY <1>1, <1>6, <1>7, <2>1
  <2>2. CASE ~IsHex
    <3>1. EndOfDigits # Start
      BY <1>1, <1>3, <1>7
    <3>. QED
      BY <1>1, <1>6, <1>7, <2>2, <3>1
  <2>. QED
    BY <2>1, <2>2
<1>. DEFINE e == EndOfRun(Letter \cup {"_"}, EndOfDigits)
<1>9. e \in EndOfDigits .. Len(code) + 1 /\ peek(e) \notin Letter \cup {"_"}
  <2>1. EndOfDigits \in 1 .. Len(code) + 1
    BY <1>1, <1>8
  <2>. QED
    BY <1>2, <2>1, CharFacts, RunEnds
<1>. HIDE DEF e
<1>10. e \in Start + 1 .. Len(code) + 1
  <2>1. Start \in Nat /\ Len(code) \in Nat
    BY <1>1
  <2>2. EndOfDigits \in Nat /\ Start + 1 <= EndOfDigits
    BY <1>8, <2>1
  <2>3. e \in EndOfDigits .. Len(code) + 1
    BY <1>9
  <2>. QED
    BY <2>1, <2>2, <2>3
<1>11. EndOfNumber \in Start + 1 .. Len(code) + 1
  <2>1. CASE HasDigits
    BY <1>10, <2>1 DEF EndOfNumber, e
  <2>2. CASE ~HasDigits
    <3>1. IsHex
      BY <2>2 DEF HasDigits
    <3>2. EndOfNumber = Start + 2
      BY <2>2 DEF EndOfNumber
    <3>. QED
      BY <1>1, <1>5, <3>1, <3>2
  <2>. QED
    BY <2>1, <2>2
<1>12. ASSUME IsNumber PROVE peek(EndOfNumber) \notin WordChar
  <2>1. EndOfNumber = EndOfDigits /\ EndOfNumber = e
    BY <1>12 DEF IsNumber, EndOfNumber, e
  <2>2. peek(EndOfNumber) \notin S /\ peek(EndOfNumber) \notin Letter \cup {"_"}
    <3>1. peek(EndOfDigits) \notin S
      BY <1>7
    <3>2. peek(e) \notin Letter \cup {"_"}
      BY <1>9
    <3>. QED
      BY <2>1, <3>1, <3>2, Zenon
  <2>. QED
    BY <1>3, <2>2 DEF WordChar, Alnum
<1>13. ValueOfDigits \in Nat
  <2>. DEFINE n == EndOfDigits - FirstDigit
  <2>1. n \in 0 .. Len(code) /\ FirstDigit + n - 1 = EndOfDigits - 1
    BY <1>6, <1>7
  <2>. HIDE DEF n
  <2>2. \A x \in FirstDigit .. FirstDigit + n - 1 : peek(x) \in HexDigit
    BY <1>3, <1>7, <2>1
  <2>3. ValueOf[n] \in Nat
    BY <1>2, <1>6, <2>1, <2>2, ValueOfDigitsIsNat
  <2>. QED
    BY <2>3 DEF ValueOfDigits, n
<1>. QED
  BY <1>11, <1>12, <1>13

LEMMA NumberKeeps ==
  ASSUME IInv, readNumber
  PROVE  IInv'
<1>1. status = "running" /\ peek(Start) \in Digit
  BY AtLexemeFacts DEF readNumber, AtLexeme
<1>2. PICK to : to = EndOfNumber
  OBVIOUS
<1>3. PICK value : value = ValueOfDigits
  OBVIOUS
<1>4. AtLexeme(Digit) /\ IsNumber /\ ValueOfDigits <= MaxLong
  BY DEF readNumber
<1>5. to \in Start + 1 .. Len(code) + 1 /\ peek(to) \notin WordChar /\ value \in Nat
  BY <1>2, <1>3, <1>4, NumberEnds
<1>6. value \in 0 .. MaxLong
  BY <1>3, <1>4, <1>5, MaxLongAssumption
<1>7. Push("NUMBER", SpanTo(to), to, Lexeme(to), value) /\ UNCHANGED errors
  BY <1>2, <1>3 DEF readNumber
<1>8. peek(Start) \in WordChar /\ "NUMBER" \in TokenType
  BY <1>1, TypesNamed DEF WordChar, Alnum
<1>. QED
  BY <1>1, <1>5, <1>6, <1>7, <1>8, PushLexemeKeeps

LEMMA InvalidNumberKeeps ==
  ASSUME IInv, readInvalidNumber
  PROVE  IInv'
<1>1. status = "running" /\ AtLexeme(Digit)
  BY DEF readInvalidNumber, AtLexeme
<1>2. PICK to : to = EndOfNumber
  OBVIOUS
<1>3. to \in Start + 1 .. Len(code) + 1
  BY <1>1, <1>2, NumberEnds
<1>4. PushInvalid(to)
  BY <1>2 DEF readInvalidNumber
<1>. QED
  BY <1>1, <1>3, <1>4, PushInvalidKeeps

LEMMA StringKeeps ==
  ASSUME IInv, readString
  PROVE  IInv'
<1>1. /\ status = "running" /\ TypeOK /\ code \in Seq(Char)
      /\ Start \in Nat \ {0} /\ Start \in 1 .. Len(code) /\ Len(code) \in Nat
      /\ position \in Nat
  BY AtLexemeFacts DEF readString
<1>2. PICK string \in {StringFrom[Start + 1]} :
        /\ Push(IF string.closed THEN "STRING" ELSE "INVALID",
                SpanTo(string.to), string.to, string.text, 0)
        /\ errors' = errors \o IF string.closed THEN string.errors
                               ELSE Append(string.errors, SpanTo(string.to))
  BY DEF readString
<1>3. IsString(string, Start + 1)
  <2>1. Start + 1 \in StringPositions
    BY <1>1 DEF StringPositions
  <2>2. line \in Nat
    BY <1>1 DEF TypeOK
  <2>. QED
    BY <1>1, <1>2, <2>1, <2>2, StringReads
<1>4. PICK to : to = string.to
  OBVIOUS
<1>5. PICK text : text = string.text
  OBVIOUS
<1>6. PICK errs : errs = string.errors
  OBVIOUS
<1>7. PICK span : span = SpanTo(to)
  OBVIOUS
<1>8. /\ to \in Start + 1 .. Len(code) + 1 /\ text \in Seq(Char) /\ errs \in Seq(Span)
      /\ string.closed \in BOOLEAN
      /\ \A k \in DOMAIN errs : IsEscapeError(errs[k])
  BY <1>3, <1>4, <1>5, <1>6 DEF IsString
<1>9. span \in Span
  <2>1. to \in Start .. Len(code) + 1
    BY <1>1, <1>8
  <2>. QED
    BY <1>1, <1>7, <2>1, SpanToType DEF IInv
<1>10. 0 \in 0 .. MaxLong /\ "STRING" \in TokenType /\ "INVALID" \in TokenType
  BY MaxLongAssumption, TypesNamed
<1>11. CASE string.closed
  <2>1. Push("STRING", span, to, text, 0) /\ errors' = errors \o errs
    BY <1>2, <1>4, <1>5, <1>6, <1>7, <1>11
  <2>. QED
    BY <1>1, <1>7, <1>8, <1>9, <1>10, <2>1, PushKeeps
<1>12. CASE ~string.closed
  <2>1. PICK new : new = Append(errs, span)
    OBVIOUS
  <2>2. Push("INVALID", span, to, text, 0) /\ errors' = errors \o new
    BY <1>2, <1>4, <1>5, <1>6, <1>7, <1>12, <2>1
  <2>3. /\ new \in Seq(Span) /\ DOMAIN new = 1 .. Len(errs) + 1
        /\ \A k \in 1 .. Len(errs) : new[k] = errs[k]
        /\ new[Len(errs) + 1] = span
    BY <1>8, <1>9, <2>1, AppendFacts
  <2>4. DOMAIN errs = 1 .. Len(errs) /\ Len(errs) \in Nat
    BY <1>8
  <2>5. \E k \in DOMAIN new : new[k] = span
    BY <2>3, <2>4
  <2>6. PICK type : type = "INVALID"
    OBVIOUS
  <2>7. /\ type \in TokenType /\ type \notin {"IDENTIFIER", "NUMBER"}
        /\ Push(type, span, to, text, 0)
    BY <1>10, <2>2, <2>6
  <2>8. \A k \in DOMAIN new : IsEscapeError(new[k]) \/ (type = "INVALID" /\ new[k] = span)
    BY <1>8, <2>3, <2>4, <2>6
  <2>9. errors' = errors \o new /\ new \in Seq(Span) /\ 0 \in 0 .. MaxLong
    BY <1>10, <2>2, <2>3
  <2>10. (\A x \in Start .. to - 1 : code[x] # NL) => span = SpanTo(to)
    BY <1>7
  <2>11. /\ status = "running" /\ to \in Start + 1 .. Len(code) + 1
         /\ text \in Seq(Char) /\ span \in Span
    BY <1>1, <1>8, <1>9
  <2>. QED
    BY <2>5, <2>7, <2>8, <2>9, <2>10, <2>11, PushKeeps
<1>. QED
  BY <1>11, <1>12

LEMMA PunctuateKeeps ==
  ASSUME IInv, Punctuate
  PROVE  IInv'
<1>1. /\ status = "running" /\ TypeOK /\ Start \in Nat \ {0} /\ Start \in 1 .. Len(code)
      /\ peek(Start) = code[Start] /\ code[Start] \in Char
      /\ code[Start] \in DOMAIN Punctuation
      /\ Start + 1 \in Start + 1 .. Len(code) + 1 /\ Start + 1 \in Start .. Len(code) + 1
  <2>. DEFINE S == DOMAIN Punctuation
  <2>1. AtLexeme(S)
    BY DEF Punctuate
  <2>. HIDE DEF S
  <2>2. /\ status = "running" /\ TypeOK /\ Start \in Nat \ {0} /\ Start \in 1 .. Len(code)
        /\ peek(Start) = code[Start] /\ code[Start] \in Char /\ code[Start] \in S
        /\ Len(code) \in Nat
    BY <2>1, AtLexemeFacts
  <2>. QED
    BY <2>2 DEF S
<1>2. PICK to : to = Start + 1
  OBVIOUS
<1>3. PICK type : type = Punctuation[peek(Start)]
  OBVIOUS
<1>4. PICK span : span = SpanTo(to)
  OBVIOUS
<1>5. PICK text : text = IF peek(Start) = "." THEN <<",">> ELSE <<peek(Start)>>
  OBVIOUS
<1>6. type \in TokenType
  BY <1>1, <1>3 DEF TokenType
<1>7. type \notin {"INVALID", "IDENTIFIER", "NUMBER"}
  BY <1>1, <1>3 DEF Punctuation
<1>8. span \in Span
  BY <1>1, <1>2, <1>4, SpanToType DEF IInv
<1>9. text \in Seq(Char)
  <2>1. "," \in Char /\ peek(Start) \in Char
    BY <1>1, CharAssumption
  <2>2. \A c \in Char : <<c>> \in Seq(Char)
    OBVIOUS
  <2>3. <<",">> \in Seq(Char) /\ <<peek(Start)>> \in Seq(Char)
    BY <2>1, <2>2, Zenon
  <2>. QED
    BY <1>5, <2>3
<1>10. Push(type, span, to, text, 0)
  BY <1>2, <1>3, <1>4, <1>5 DEF Punctuate
<1>11. PICK new : new = <<>>
  OBVIOUS
<1>12. new \in Seq(Span) /\ DOMAIN new = {} /\ errors' = errors \o new
  BY <1>1, <1>11, NoErrors DEF Punctuate
<1>13. 0 \in 0 .. MaxLong
  BY MaxLongAssumption
<1>. QED
  BY <1>1, <1>2, <1>4, <1>6, <1>7, <1>8, <1>9, <1>10, <1>12, <1>13, PushKeeps

LEMMA UnknownSymbolKeeps ==
  ASSUME IInv, UnknownSymbol
  PROVE  IInv'
<1>1. status = "running" /\ Start + 1 \in Start + 1 .. Len(code) + 1
  BY AtLexemeFacts, Zenon DEF UnknownSymbol
<1>2. PICK to : to = Start + 1
  OBVIOUS
<1>3. PushInvalid(to)
  BY <1>2, Zenon DEF UnknownSymbol
<1>. QED
  BY <1>1, <1>2, <1>3, PushInvalidKeeps

LEMMA EndOfFileKeeps ==
  ASSUME IInv, EndOfFile
  PROVE  IInv'
<1>1. TypeOK /\ status = "running"
  BY DEF IInv, EndOfFile
<1>2. Start \in Nat /\ Start \in Start .. Len(code) + 1
  BY <1>1, TypedFacts
<1>3. PICK to : to = Start
  OBVIOUS
<1>4. PICK token : token = [type |-> "END_OF_FILE", span |-> SpanTo(Start),
                            text |-> <<>>, value |-> 0]
  OBVIOUS
<1>5. token \in Token /\ token.type # "INVALID"
  <2>1. SpanTo(Start) \in Span
    BY <1>1, <1>2, SpanToType DEF IInv
  <2>2. <<>> \in Seq(Char) /\ 0 \in 0 .. MaxLong /\ "END_OF_FILE" \in TokenType
    BY MaxLongAssumption, TypesNamed
  <2>. QED
    BY <1>4, <2>1, <2>2 DEF Token
<1>6. /\ Consume(to) /\ UNCHANGED <<code, errors, extents>>
      /\ tokens' = Append(tokens, token) /\ status' = "done"
  BY <1>3, <1>4 DEF EndOfFile
<1>7. PICK n \in Nat : n = Len(tokens)
  BY <1>1 DEF TypeOK
<1>8. tokens \in Seq(Token) /\ extents \in Seq((1 .. Len(code)) \X (1 .. Len(code)))
  BY <1>1 DEF TypeOK
<1>9. Len(extents) = n /\ DOMAIN extents = 1 .. n /\ DOMAIN tokens = 1 .. n
  BY <1>1, <1>7, <1>8 DEF IInv, Paired
<1>10. /\ tokens' \in Seq(Token) /\ Len(tokens') = n + 1 /\ DOMAIN tokens' = 1 .. n + 1
       /\ \A i \in 1 .. n : tokens'[i] = tokens[i]
       /\ tokens'[n + 1] = token
  BY <1>5, <1>6, <1>7, <1>8, AppendFacts
<1>11. Paired'
  BY <1>6, <1>9, <1>10 DEF Paired
<1>12. InvalidMarked'
  <2>1. \A k \in DOMAIN errors : IsEscapeError(errors[k])' <=> IsEscapeError(errors[k])
    BY <1>6 DEF IsEscapeError
  <2>2. \A i \in DOMAIN tokens : i \in DOMAIN tokens' /\ tokens'[i] = tokens[i]
    BY <1>9, <1>10
  <2>3. \A i \in DOMAIN tokens' : tokens'[i].type = "INVALID" => i \in DOMAIN tokens
    BY <1>5, <1>9, <1>10
  <2>4. errors' = errors
    BY <1>6
  <2>5. ASSUME NEW i \in DOMAIN tokens', tokens'[i].type = "INVALID"
        PROVE  \E k \in DOMAIN errors : errors[k] = tokens'[i].span
    <3>1. i \in DOMAIN tokens /\ tokens'[i] = tokens[i]
      BY <2>2, <2>3, <2>5
    <3>. QED
      BY <2>5, <3>1 DEF IInv, InvalidMarked
  <2>6. ASSUME NEW k \in DOMAIN errors
        PROVE  \/ IsEscapeError(errors[k])'
               \/ \E i \in DOMAIN tokens' :
                    tokens'[i].type = "INVALID" /\ tokens'[i].span = errors[k]
    <3>1. \/ IsEscapeError(errors[k])
          \/ \E i \in DOMAIN tokens :
               tokens[i].type = "INVALID" /\ tokens[i].span = errors[k]
      BY DEF IInv, InvalidMarked
    <3>. QED
      BY <2>1, <2>2, <3>1
  <2>. QED
    BY <2>4, <2>5, <2>6 DEF InvalidMarked
<1>13. \A p \in Start .. to - 1 : InComment(p)
  BY <1>2, <1>3
<1>. QED
  BY <1>2, <1>3, <1>6, <1>9, <1>10, <1>11, <1>12, <1>13, ConsumeKeeps

LEMMA StutterKeeps ==
  ASSUME IInv, UNCHANGED <<code, position, line, lineStart, tokens, errors, extents>>,
         status' = status \/ (status = "running" /\ status' = "threw")
  PROVE  IInv'
<1>1. TypeOK'
  BY DEF IInv, TypeOK
<1>2. Counted' /\ Behind'
  BY DEF IInv, Counted, Behind, LineOf, IsLineStart
<1>3. Paired'
  BY DEF IInv, Paired
<1>4. SpansLocateTokens'
  BY DEF IInv, SpansLocateTokens, LineOf, ColumnOf, Extent
<1>5. NoCharacterIsLost'
  BY Zenon DEF IInv, NoCharacterIsLost, InComment, Extent
<1>6. WordsDelimited'
  BY DEF IInv, WordsDelimited, IsWord, WordChar, peek
<1>7. InvalidMarked'
  BY DEF IInv, InvalidMarked, IsEscapeError
<1>. QED
  BY <1>1, <1>2, <1>3, <1>4, <1>5, <1>6, <1>7 DEF IInv

\* The state in which tokenize() begins.
Beginning ==
  /\ code \in Seq(Char)
  /\ position = 1 /\ line = 1 /\ lineStart = 1
  /\ tokens = <<>> /\ errors = <<>> /\ extents = <<>> /\ status = "running"

LEMMA Begins == Beginning => IInv
<1>. SUFFICES ASSUME Beginning PROVE IInv
  OBVIOUS
<1>1. /\ code \in Seq(Char) /\ Len(code) \in Nat /\ position = 1 /\ line = 1 /\ lineStart = 1
      /\ tokens = <<>> /\ errors = <<>> /\ extents = <<>> /\ status = "running"
  BY DEF Beginning
<1>2. TypeOK
  BY <1>1 DEF TypeOK
<1>3. Counted
  <2>1. Newlines(1, 1) = {}
    BY DEF Newlines
  <2>2. LineOf(1) = 1
    BY <2>1, LineOfIs, FS_EmptySet
  <2>. QED
    BY <1>1, <2>2 DEF Counted, IsLineStart
<1>4. Paired /\ Behind /\ WordsDelimited /\ InvalidMarked
  BY <1>1 DEF Paired, Behind, WordsDelimited, InvalidMarked
<1>5. SpansLocateTokens /\ NoCharacterIsLost
  BY <1>1 DEF SpansLocateTokens, NoCharacterIsLost
<1>. QED
  BY <1>2, <1>3, <1>4, <1>5 DEF IInv

LEMMA InvStart == Init => IInv
BY SourceAssumption, Begins DEF Init, Beginning

LEMMA InvStep == IInv /\ [Next]_vars => IInv'
<1>. SUFFICES ASSUME IInv, [Next]_vars PROVE IInv'
  OBVIOUS
<1>1. CASE Newline
  BY <1>1, NewlineKeeps
<1>2. CASE skipComment
  BY <1>2, CommentKeeps
<1>3. CASE readIdentifier
  BY <1>3, IdentifierKeeps
<1>4. CASE readNumber
  BY <1>4, NumberKeeps
<1>5. CASE readInvalidNumber
  BY <1>5, InvalidNumberKeeps
<1>6. CASE NumberOutOfRange
  <2>1. /\ UNCHANGED <<code, position, line, lineStart, tokens, errors, extents>>
        /\ status = "running" /\ status' = "threw"
    BY <1>6 DEF NumberOutOfRange, AtLexeme
  <2>. QED
    BY <2>1, StutterKeeps
<1>7. CASE readString
  BY <1>7, StringKeeps
<1>8. CASE Punctuate
  BY <1>8, PunctuateKeeps
<1>9. CASE UnknownSymbol
  BY <1>9, UnknownSymbolKeeps
<1>10. CASE EndOfFile
  BY <1>10, EndOfFileKeeps
<1>11. CASE UNCHANGED vars
  BY <1>11, StutterKeeps DEF vars
<1>. QED
  BY <1>1, <1>2, <1>3, <1>4, <1>5, <1>6, <1>7, <1>8, <1>9, <1>10, <1>11 DEF Next, tokenize

-----------------------------------------------------------------------------
(* What the parser is given *)

\* A piece of the source that begins like an identifier and has its characters.
IsIdentifier(text, source) ==
  \E p, q \in DOMAIN source :
    /\ p <= q
    /\ text = SubSeq(source, p, q)
    /\ source[p] \in Letter \cup {"_"}
    /\ \A x \in p .. q : source[x] \in WordChar

\* END_OF_FILE is the last token, there when tokenize() has returned and not before;
\* identifiers are spelled as in the source.
Delivered ==
  /\ \A i \in DOMAIN tokens :
       tokens[i].type = "END_OF_FILE" <=> status = "done" /\ i = Len(tokens)
  /\ status = "done" => tokens # <<>>
  /\ \A i \in DOMAIN tokens : tokens[i].type = "IDENTIFIER" => IsIdentifier(tokens[i].text, code)

LEMMA DeliveredStart == Beginning => Delivered
BY DEF Beginning, Delivered

\* Another token, which is not the last one.
LEMMA AppendDelivers ==
  ASSUME Delivered, tokens \in Seq(Token), status = "running",
         NEW token \in Token, tokens' = Append(tokens, token), UNCHANGED <<code, status>>,
         token.type # "END_OF_FILE",
         token.type = "IDENTIFIER" => IsIdentifier(token.text, code)
  PROVE  Delivered'
<1>1. PICK n \in Nat : n = Len(tokens)
  OBVIOUS
<1>2. DOMAIN tokens = 1 .. n
  BY <1>1
<1>3. /\ DOMAIN tokens' = 1 .. n + 1
      /\ \A i \in 1 .. n : tokens'[i] = tokens[i]
      /\ tokens'[n + 1] = token
  BY <1>1, AppendFacts
<1>4. code' = code /\ status' # "done"
  OBVIOUS
<1>5. \A i \in DOMAIN tokens' : tokens'[i].type # "END_OF_FILE"
  BY <1>2, <1>3 DEF Delivered
<1>6. ASSUME NEW i \in DOMAIN tokens', tokens'[i].type = "IDENTIFIER"
      PROVE  IsIdentifier(tokens'[i].text, code)
  <2>1. CASE i \in 1 .. n
    BY <1>2, <1>3, <1>6, <2>1 DEF Delivered
  <2>2. CASE i = n + 1
    BY <1>3, <1>6, <2>2
  <2>. QED
    BY <1>2, <1>3, <2>1, <2>2
<1>7. \A i \in DOMAIN tokens' :
        tokens'[i].type = "IDENTIFIER" => IsIdentifier(tokens'[i].text, code')
  BY <1>4, <1>6
<1>. QED
  BY <1>4, <1>5, <1>7 DEF Delivered

\* IInv' gives the new token its type.
LEMMA PushDelivers ==
  ASSUME IInv, IInv', Delivered, status = "running",
         NEW type, NEW span, NEW to, NEW text, NEW value, Push(type, span, to, text, value),
         type # "END_OF_FILE", type = "IDENTIFIER" => IsIdentifier(text, code)
  PROVE  Delivered'
<1>1. PICK token : token = [type |-> type, span |-> span, text |-> text, value |-> value]
  OBVIOUS
<1>2. token.type = type /\ token.text = text
  BY <1>1
<1>3. tokens' = Append(tokens, token) /\ UNCHANGED <<code, status>>
  BY <1>1 DEF Push
<1>4. tokens \in Seq(Token) /\ tokens' \in Seq(Token)
  BY DEF IInv, TypeOK
<1>5. token \in Token
  <2>1. PICK n \in Nat : n = Len(tokens)
    BY <1>4
  <2>2. Len(tokens') = n + 1 /\ tokens'[n + 1] = token
    BY <1>3, <1>4, <2>1
  <2>3. n + 1 \in 1 .. Len(tokens')
    BY <2>1, <2>2
  <2>. QED
    BY <1>4, <2>2, <2>3
<1>. QED
  BY <1>2, <1>3, <1>4, <1>5, AppendDelivers

LEMMA IdentifierDelivers ==
  ASSUME IInv, readIdentifier
  PROVE  IsIdentifier(Lexeme(EndOfRun(Alnum \cup {"_"}, Start)), code)
<1>. DEFINE S == Letter \cup {"_"}
<1>1. AtLexeme(S)
  BY DEF readIdentifier
<1>. HIDE DEF S
<1>2. /\ Start \in 1 .. Len(code) /\ Len(code) \in Nat /\ Start \in Nat \ {0}
      /\ peek(Start) = code[Start] /\ code[Start] \in S /\ code \in Seq(Char)
      /\ Start \in 1 .. Len(code) + 1
  BY <1>1, AtLexemeFacts
<1>3. code[Start] \in Letter \cup {"_"} /\ peek(Start) \in WordChar
  BY <1>2 DEF S, WordChar, Alnum
<1>4. PICK to : to = EndOfRun(WordChar, Start)
  OBVIOUS
<1>5. NUL \notin WordChar
  BY CharFacts DEF WordChar
<1>6. to \in Start + 1 .. Len(code) + 1 /\ \A x \in Start .. to - 1 : peek(x) \in WordChar
  BY <1>2, <1>3, <1>4, <1>5, RunEnds, RunAdvances
<1>7. PICK p, q : p = Start /\ q = to - 1
  OBVIOUS
<1>8. p \in 1 .. Len(code) /\ q \in 1 .. Len(code) /\ p <= q /\ code[p] \in Letter \cup {"_"}
  <2>1. p \in 1 .. Len(code) /\ p \in Nat /\ Len(code) \in Nat
    BY <1>2, <1>7
  <2>2. to \in p + 1 .. Len(code) + 1 /\ q = to - 1
    BY <1>6, <1>7
  <2>3. q \in 1 .. Len(code) /\ p <= q
    BY <2>1, <2>2
  <2>. QED
    BY <1>3, <1>7, <2>1, <2>3, Zenon
<1>12. \A x \in p .. q : code[x] \in WordChar
  <2>1. \A x \in p .. q : x \in Start .. to - 1 /\ ~(x > Len(code))
    BY <1>2, <1>6, <1>7
  <2>2. \A x \in p .. q : peek(x) = code[x]
    BY <2>1 DEF peek
  <2>. QED
    BY <1>6, <2>1, <2>2
<1>9. Lexeme(to) = SubSeq(code, p, q)
  BY <1>7 DEF Lexeme
<1>10. DOMAIN code = 1 .. Len(code)
  BY <1>2
<1>11. IsIdentifier(Lexeme(to), code)
  BY <1>8, <1>9, <1>10, <1>12 DEF IsIdentifier
<1>. QED
  BY <1>4, <1>11 DEF WordChar

LEMMA DeliveredStep == IInv /\ IInv' /\ Delivered /\ [Next]_vars => Delivered'
<1>. SUFFICES ASSUME IInv, IInv', Delivered, [Next]_vars PROVE Delivered'
  OBVIOUS
<1>1. ASSUME NEW type, type \notin {"END_OF_FILE", "IDENTIFIER"}, status = "running",
             \E span, to, text, value : Push(type, span, to, text, value)
      PROVE  Delivered'
  BY <1>1, PushDelivers
<1>2. CASE Newline
  <2>1. status = "running"
    BY <1>2 DEF Newline, AtLexeme
  <2>2. \E span, to, text, value : Push("NEWLINE", span, to, text, value)
    BY <1>2, Zenon DEF Newline
  <2>. QED
    BY <1>1, <2>1, <2>2
<1>3. CASE skipComment \/ NumberOutOfRange \/ UNCHANGED vars
  <2>1. UNCHANGED <<code, tokens>> /\ (status' = "done" <=> status = "done")
    BY <1>3 DEF skipComment, NumberOutOfRange, AtLexeme, vars
  <2>. QED
    BY <2>1 DEF Delivered
<1>4. CASE readIdentifier
  <2>1. status = "running"
    BY <1>4 DEF readIdentifier, AtLexeme
  <2>2. PICK to, text : to = EndOfRun(Alnum \cup {"_"}, Start) /\ text = Lexeme(to)
    OBVIOUS
  <2>3. IsIdentifier(text, code)
    BY <1>4, <2>2, IdentifierDelivers
  <2>4. Push("IDENTIFIER", SpanTo(to), to, text, 0)
    BY <1>4, <2>2 DEF readIdentifier, PushLexeme
  <2>. QED
    BY <2>1, <2>3, <2>4, PushDelivers
<1>5. CASE readNumber
  <2>1. status = "running"
    BY <1>5 DEF readNumber, AtLexeme
  <2>2. \E span, to, text, value : Push("NUMBER", span, to, text, value)
    BY <1>5, Zenon DEF readNumber
  <2>. QED
    BY <1>1, <2>1, <2>2
<1>6. CASE readInvalidNumber \/ UnknownSymbol
  <2>1. status = "running"
    BY <1>6 DEF readInvalidNumber, UnknownSymbol, AtLexeme
  <2>2. \E span, to, text, value : Push("INVALID", span, to, text, value)
    BY <1>6, Zenon DEF readInvalidNumber, UnknownSymbol, PushInvalid
  <2>. QED
    BY <1>1, <2>1, <2>2
<1>7. CASE readString
  <2>1. status = "running"
    BY <1>7 DEF readString, AtLexeme
  <2>2. PICK string \in {StringFrom[Start + 1]} :
          Push(IF string.closed THEN "STRING" ELSE "INVALID",
               SpanTo(string.to), string.to, string.text, 0)
    BY <1>7, Zenon DEF readString
  <2>3. PICK type : type = IF string.closed THEN "STRING" ELSE "INVALID"
    OBVIOUS
  <2>4. type \notin {"END_OF_FILE", "IDENTIFIER"}
    BY <2>3
  <2>5. \E span, to, text, value : Push(type, span, to, text, value)
    BY <2>2, <2>3, Zenon
  <2>. QED
    BY <1>1, <2>1, <2>4, <2>5
<1>8. CASE Punctuate
  <2>1. status = "running" /\ peek(Start) \in DOMAIN Punctuation
    BY <1>8 DEF Punctuate, AtLexeme
  <2>2. PICK type : type = Punctuation[peek(Start)]
    OBVIOUS
  <2>3. type \notin {"END_OF_FILE", "IDENTIFIER"}
    BY <2>1, <2>2 DEF Punctuation
  <2>4. \E span, to, text, value : Push(type, span, to, text, value)
    BY <1>8, <2>2, Zenon DEF Punctuate
  <2>. QED
    BY <1>1, <2>1, <2>3, <2>4
<1>9. CASE EndOfFile
  <2>1. PICK token : token = [type |-> "END_OF_FILE", span |-> SpanTo(Start),
                              text |-> <<>>, value |-> 0]
    OBVIOUS
  <2>2. token.type = "END_OF_FILE"
    BY <2>1
  <2>3. /\ tokens' = Append(tokens, token) /\ code' = code
        /\ status = "running" /\ status' = "done"
    BY <1>9, <2>1 DEF EndOfFile
  <2>4. tokens \in Seq(Token)
    BY DEF IInv, TypeOK
  <2>5. PICK n \in Nat : n = Len(tokens)
    BY <2>4
  <2>6. /\ DOMAIN tokens = 1 .. n /\ DOMAIN tokens' = 1 .. n + 1 /\ Len(tokens') = n + 1
        /\ \A i \in 1 .. n : tokens'[i] = tokens[i]
        /\ tokens'[n + 1] = token
    BY <2>3, <2>4, <2>5
  <2>7. \A i \in 1 .. n : tokens'[i].type # "END_OF_FILE"
    BY <2>3, <2>6 DEF Delivered
  <2>8. \A i \in DOMAIN tokens' :
          tokens'[i].type = "END_OF_FILE" <=> status' = "done" /\ i = Len(tokens')
    <3>1. \A i \in 1 .. n + 1 : i \in 1 .. n \/ i = n + 1
      OBVIOUS
    <3>2. \A i \in 1 .. n : i # n + 1
      OBVIOUS
    <3>. QED
      BY <2>2, <2>3, <2>6, <2>7, <3>1, <3>2
  <2>9. ASSUME NEW i \in DOMAIN tokens', tokens'[i].type = "IDENTIFIER"
        PROVE  IsIdentifier(tokens'[i].text, code')
    <3>1. i \in 1 .. n
      BY <2>2, <2>6, <2>9
    <3>2. IsIdentifier(tokens[i].text, code) /\ tokens'[i] = tokens[i]
      BY <2>6, <2>9, <3>1 DEF Delivered
    <3>. QED
      BY <2>3, <3>2
  <2>10. tokens' # <<>>
    BY <2>5, <2>6
  <2>. QED
    BY <2>8, <2>9, <2>10, Zenon DEF Delivered
<1>. QED
  BY <1>2, <1>3, <1>4, <1>5, <1>6, <1>7, <1>8, <1>9 DEF Next, tokenize

-----------------------------------------------------------------------------
(* Theorems *)

LEMMA Invariance == Spec => []IInv
  BY InvStart, InvStep, PTL DEF Spec

\* The lexer's state has its types: no position, line or column leaves the source.
THEOREM TypeCorrect == Spec => []TypeOK
<1>1. IInv => TypeOK
  BY DEF IInv
<1>. QED
  BY <1>1, Invariance, PTL

\* Tokens of one line are where their spans say: line and lineStart
\* are counted in step with the position by every function that advances it.
THEOREM SpansLocate == Spec => []SpansLocateTokens
<1>1. IInv => SpansLocateTokens
  BY DEF IInv
<1>. QED
  BY <1>1, Invariance, PTL

\* Every character is in a token, white space or in a comment.
THEOREM CharactersKept == Spec => []NoCharacterIsLost
<1>1. IInv => NoCharacterIsLost
  BY DEF IInv
<1>. QED
  BY <1>1, Invariance, PTL

\* Every INVALID token has its error, and every other error is one of an escape.
THEOREM ErrorsMark == Spec => []ErrorsMarkInvalidTokens
<1>1. IInv => ErrorsMarkInvalidTokens
  <2>. SUFFICES ASSUME InvalidMarked PROVE ErrorsMarkInvalidTokens
    BY DEF IInv
  <2>. DEFINE invalid ==
                {tokens[i].span : i \in {k \in DOMAIN tokens : tokens[k].type = "INVALID"}}
  <2>1. invalid \subseteq ToSet(errors)
    BY DEF InvalidMarked, ToSet
  <2>2. \A e \in ToSet(errors) \ invalid : code[e.column] = Backslash
    BY DEF InvalidMarked, ToSet, IsEscapeError
  <2>. QED
    BY <2>1, <2>2 DEF ErrorsMarkInvalidTokens
<1>. QED
  BY <1>1, Invariance, PTL

\* Identifiers and numbers are read to their ends.
THEOREM WordsWhole == Spec => []WordsAreNotSplit
<1>1. IInv => WordsAreNotSplit
  <2>. SUFFICES ASSUME IInv, NEW i \in DOMAIN extents, i > 1,
                       {tokens[i - 1].type, tokens[i].type} \subseteq {"IDENTIFIER", "NUMBER"}
                PROVE  extents[i - 1][2] + 1 < extents[i][1]
    BY DEF WordsAreNotSplit
  <2>1. extents \in Seq((1 .. Len(code)) \X (1 .. Len(code)))
    BY DEF IInv, TypeOK
  <2>2. i - 1 \in DOMAIN extents
    BY <2>1
  <2>3. extents[i - 1][2] \in Int /\ extents[i][1] \in Int
    BY <2>1, <2>2
  <2>4. extents[i - 1][2] < extents[i][1]
    BY DEF IInv, NoCharacterIsLost
  <2>5. peek(extents[i - 1][2] + 1) \notin WordChar /\ peek(extents[i][1]) \in WordChar
    BY <2>2 DEF IInv, WordsDelimited, IsWord
  <2>6. extents[i - 1][2] + 1 # extents[i][1]
    BY <2>5
  <2>. QED
    BY <2>3, <2>4, <2>6
<1>. QED
  BY <1>1, Invariance, PTL

=============================================================================
