---------------------------- MODULE ParserProofs ----------------------------
(***************************************************************************)
(* Proofs about Parser: whatever the tokens are, parse() answers every one *)
(* of them, keeps the statements of an accepted source on their lines, and *)
(* gets ahead in every iteration.                                          *)
(***************************************************************************)
EXTENDS Parser, FiniteSetTheorems, WellFoundedInduction, TLAPS

-----------------------------------------------------------------------------
(* Induction, and what it says of recursive functions *)

\* A set of natural numbers that is not empty has a least member.
LEMMA LeastElement ==
  ASSUME NEW T \in SUBSET Nat, T # {}
  PROVE  \E m \in T : \A n \in T : m <= n
<1>1. PICK m \in T : \A n \in T : <<n, m>> \notin OpToRel(<, Nat)
  BY NatLessThanWellFounded, WFMin, Zenon
<1>2. \A n \in T : <<n, m>> \notin {p \in Nat \X Nat : p[1] < p[2]}
  BY <1>1 DEF OpToRel
<1>3. \A n \in T : ~(n < m)
  BY <1>2
<1>. QED
  BY <1>3

\* A set that has 0, and with every number the next one, has all numbers.
LEMMA SetInduction ==
  ASSUME NEW T \in SUBSET Nat, 0 \in T, \A n \in T : n + 1 \in T
  PROVE  T = Nat
<1>. SUFFICES ASSUME Nat \ T # {} PROVE FALSE
  OBVIOUS
<1>1. PICK m \in Nat \ T : \A n \in Nat \ T : m <= n
  BY LeastElement
<1>2. m # 0 /\ m - 1 \in Nat /\ m - 1 \in T
  BY <1>1
<1>3. (m - 1) + 1 = m
  BY <1>2
<1>. QED
  BY <1>2, <1>3

\* A recursive definition: what it says of an argument depends only on arguments of
\* lower rank (and on the set in which the solution is looked for).
IsRecursion(D, rank, n, R, Candidates, Step) ==
  /\ rank \in [D -> 0 .. n]
  /\ n \in Nat
  /\ Candidates \in SUBSET [D -> R]
  /\ Candidates # {}
  /\ Step \in [Candidates -> Candidates]
  /\ \A f, g \in Candidates : \A x \in D :
       (\A y \in D : rank[y] < rank[x] => g[y] = f[y]) => Step[g][x] = Step[f][x]

\* It has a solution,
LEMMA FixedPoint ==
  ASSUME NEW D, NEW rank, NEW n, NEW R, NEW Candidates, NEW Step,
         IsRecursion(D, rank, n, R, Candidates, Step)
  PROVE  \E f \in Candidates : f = Step[f]
<1>. USE DEF IsRecursion
<1>. DEFINE Solved(f, k) == \A x \in D : rank[x] < k => f[x] = Step[f][x]
            T == {k \in Nat : \E f \in Candidates : Solved(f, k)}
<1>1. 0 \in T
  <2>1. PICK f \in Candidates : TRUE
    OBVIOUS
  <2>2. Solved(f, 0)
    OBVIOUS
  <2>. QED
    BY <2>2
<1>2. ASSUME NEW k \in T PROVE k + 1 \in T
  <2>1. PICK f \in Candidates : Solved(f, k)
    OBVIOUS
  <2>2. Step[f] \in Candidates
    OBVIOUS
  <2>3. ASSUME NEW x \in D, rank[x] < k + 1 PROVE Step[f][x] = Step[Step[f]][x]
    <3>1. ASSUME NEW y \in D, rank[y] < rank[x] PROVE Step[f][y] = f[y]
      <4>1. rank[y] \in Nat /\ rank[x] \in Nat /\ k \in Nat
        OBVIOUS
      <4>2. rank[y] < k
        BY <2>3, <3>1, <4>1
      <4>. QED
        BY <2>1, <4>2
    <3>. QED
      BY <2>2, <3>1
  <2>4. Solved(Step[f], k + 1)
    BY <2>3
  <2>. QED
    BY <2>2, <2>4
<1>3. T = Nat
  <2>. HIDE DEF T
  <2>1. T \in SUBSET Nat
    BY DEF T
  <2>. QED
    BY <1>1, <1>2, <2>1, SetInduction
<1>4. PICK f \in Candidates : Solved(f, n + 1)
  <2>1. n + 1 \in T
    <3>1. n + 1 \in Nat
      OBVIOUS
    <3>. HIDE DEF T
    <3>. QED
      BY <1>3, <3>1
  <2>. QED
    BY <2>1
<1>5. f \in [D -> R] /\ Step[f] \in [D -> R]
  OBVIOUS
<1>6. \A x \in D : f[x] = Step[f][x]
  <2>1. \A x \in D : rank[x] < n + 1
    OBVIOUS
  <2>. QED
    BY <1>4, <2>1
<1>. QED
  BY <1>5, <1>6

\* and only one.
Follows(D, rank, f, h) ==
  /\ rank \in [D -> Nat]
  /\ \A x \in D : (\A y \in D : rank[y] < rank[x] => h[y] = f[y]) => h[x] = f[x]

LEMMA OneSolution ==
  ASSUME NEW D, NEW rank, NEW f, NEW h, Follows(D, rank, f, h)
  PROVE  \A x \in D : h[x] = f[x]
<1>. USE DEF Follows
<1>. DEFINE T == {k \in Nat : \A x \in D : rank[x] < k => h[x] = f[x]}
<1>1. 0 \in T
  OBVIOUS
<1>2. ASSUME NEW k \in T PROVE k + 1 \in T
  <2>1. ASSUME NEW x \in D, rank[x] < k + 1 PROVE h[x] = f[x]
    <3>1. ASSUME NEW y \in D, rank[y] < rank[x] PROVE h[y] = f[y]
      <4>1. rank[y] \in Nat /\ rank[x] \in Nat /\ k \in Nat
        OBVIOUS
      <4>2. rank[y] < k
        BY <2>1, <3>1, <4>1
      <4>. QED
        BY <4>2
    <3>. QED
      BY <3>1
  <2>. QED
    BY <2>1
<1>3. T = Nat
  <2>. HIDE DEF T
  <2>1. T \in SUBSET Nat
    BY DEF T
  <2>. QED
    BY <1>1, <1>2, <2>1, SetInduction
<1>. QED
  <2>1. ASSUME NEW x \in D PROVE h[x] = f[x]
    <3>1. rank[x] + 1 \in T
      BY <1>3
    <3>. QED
      BY <3>1
  <2>. QED
    BY <2>1

-----------------------------------------------------------------------------
(* Tokens *)

\* The tokens are never none, and the position is clamped to them.
LEMMA LengthFacts ==
  ASSUME IsInput(tokens)
  PROVE  /\ Len(tokens) \in Nat \ {0}
         /\ DOMAIN tokens = 1 .. Len(tokens)
         /\ \A p \in Nat \ {0} : Place(p) \in 1 .. Len(tokens)
         /\ \A p \in 1 .. Len(tokens) : Place(p) = p
BY DEF IsInput, Place

LEMMA PeekType ==
  ASSUME IsInput(tokens), NEW p \in Nat \ {0}
  PROVE  peek(p) \in Token
<1>1. Place(p) \in 1 .. Len(tokens)
  BY LengthFacts
<1>2. tokens \in Seq(Token)
  BY DEF IsInput
<1>. QED
  BY <1>1, <1>2 DEF peek

\* Only the last token, and every position behind it, is END_OF_FILE.
LEMMA EndFacts ==
  ASSUME IsInput(tokens), NEW p \in Nat \ {0}
  PROVE  /\ match("END_OF_FILE", p) <=> p >= Len(tokens)
         /\ p < Len(tokens) => peek(p) = tokens[p]
<1>1. /\ Len(tokens) \in Nat \ {0} /\ Place(p) \in 1 .. Len(tokens)
      /\ DOMAIN tokens = 1 .. Len(tokens)
  BY LengthFacts
<1>2. \A t \in 1 .. Len(tokens) : tokens[t].type = "END_OF_FILE" <=> t = Len(tokens)
  BY <1>1 DEF IsInput
<1>. Len(tokens) \in Int /\ p \in Int
  BY <1>1
<1>3. p >= Len(tokens) <=> Place(p) = Len(tokens)
  BY DEF Place
<1>4. p < Len(tokens) => Place(p) = p
  BY DEF Place
<1>. QED
  BY <1>1, <1>2, <1>3, <1>4 DEF match, peek

\* Anything else stands before the end.
LEMMA BeforeEnd ==
  ASSUME IsInput(tokens), NEW p \in Nat \ {0}, NEW type, type # "END_OF_FILE", match(type, p)
  PROVE  /\ p \in 1 .. Len(tokens) - 1 /\ Place(p) = p /\ peek(p) = tokens[p]
         /\ p \in Position /\ p + 1 \in Position /\ Advance(p) = p + 1
<1>1. p < Len(tokens) /\ peek(p) = tokens[p]
  BY EndFacts, LengthFacts DEF match
<1>2. p \in 1 .. Len(tokens) - 1
  BY <1>1, LengthFacts
<1>3. Len(tokens) \in Int /\ p \in Int
  BY LengthFacts
<1>. QED
  BY <1>1, <1>2, <1>3 DEF Position, Advance, Place

LEMMA KeywordFacts ==
  /\ Register \subseteq Keyword /\ Opcode \subseteq Keyword
  /\ DOMAIN DataDirectiveTable \subseteq Keyword
  /\ DOMAIN SectionTable \subseteq Keyword
  /\ DOMAIN SizePrefixMap \subseteq Keyword
  /\ DOMAIN Synonym \subseteq Keyword
  /\ {"times", "global", "section", "equ", "ptr"} \subseteq Keyword
BY DEF Keyword, Register

\* A word that is a keyword, or a name at all, is an IDENTIFIER.
LEMMA KeyFacts ==
  ASSUME IsInput(tokens), NEW p \in Nat \ {0}
  PROVE  /\ Key(p) \in OptionalName
         /\ match("IDENTIFIER", p) => Key(p) \in Name
         /\ Key(p) # NoName => match("IDENTIFIER", p)
         /\ Key(p) \in Keyword => match("IDENTIFIER", p)
<1>1. match("IDENTIFIER", p) => peek(p).word \in Name
  BY PeekType DEF match, Token
<1>2. \A word \in Name : stringToLower(word) \in Name
  BY LoweredAssumption DEF stringToLower
<1>3. match("IDENTIFIER", p) => Key(p) \in Name
  BY <1>1, <1>2 DEF Key
<1>4. ~match("IDENTIFIER", p) => Key(p) = NoName
  BY DEF Key
<1>. QED
  BY <1>3, <1>4, NameAssumption, KeywordAssumption DEF OptionalName

-----------------------------------------------------------------------------
(* What has been consumed *)

\* Tokens that no statement is made of.
Foreign == {"NEWLINE", "INVALID", "END_OF_FILE"}

\* Every such token from p up to q has been reported.
Accounted(p, q, reports) ==
  \A t \in DOMAIN tokens : p <= t /\ t < q /\ tokens[t].type \in Foreign => t \in ToSet(reports)

\* What a parser that begins at p returns.
Sound(p, o) ==
  /\ o.at \in Position /\ p <= o.at
  /\ o.errors \in Seq(1 .. Len(tokens))
  /\ Accounted(p, o.at, o.errors)

\* It has reported the token it stopped at, or the one before.
Explained(o) ==
  Place(o.at) \in ToSet(o.errors) \/ (o.at > 1 /\ o.at - 1 \in ToSet(o.errors))

\* What is in a list of reports made of two, or with one more.
LEMMA ReportsJoin ==
  ASSUME NEW S, NEW a \in Seq(S), NEW b \in Seq(S)
  PROVE  a \o b \in Seq(S) /\ ToSet(a \o b) = ToSet(a) \cup ToSet(b)
<1>1. \A i \in DOMAIN a : i \in DOMAIN (a \o b) /\ (a \o b)[i] = a[i]
  OBVIOUS
<1>2. \A i \in DOMAIN b : i + Len(a) \in DOMAIN (a \o b) /\ (a \o b)[i + Len(a)] = b[i]
  OBVIOUS
<1>3. \A i \in DOMAIN (a \o b) :
        (i \in DOMAIN a /\ (a \o b)[i] = a[i])
        \/ (i - Len(a) \in DOMAIN b /\ (a \o b)[i] = b[i - Len(a)])
  OBVIOUS
<1>4. \A x \in ToSet(a \o b) : x \in ToSet(a) \cup ToSet(b)
  BY <1>3 DEF ToSet
<1>5. \A x \in ToSet(a) \cup ToSet(b) : x \in ToSet(a \o b)
  BY <1>1, <1>2, Zenon DEF ToSet
<1>. QED
  BY <1>4, <1>5

LEMMA ReportsAppend ==
  ASSUME NEW S, NEW a \in Seq(S), NEW e \in S
  PROVE  Append(a, e) \in Seq(S) /\ ToSet(Append(a, e)) = ToSet(a) \cup {e}
<1>1. \A i \in DOMAIN a : i \in DOMAIN Append(a, e) /\ Append(a, e)[i] = a[i]
  OBVIOUS
<1>2. Len(a) + 1 \in DOMAIN Append(a, e) /\ Append(a, e)[Len(a) + 1] = e
  OBVIOUS
<1>3. \A i \in DOMAIN Append(a, e) :
        (i \in DOMAIN a /\ Append(a, e)[i] = a[i]) \/ Append(a, e)[i] = e
  OBVIOUS
<1>4. ToSet(Append(a, e)) = ToSet(a) \cup {e}
  BY <1>1, <1>2, <1>3, Zenon DEF ToSet
<1>. QED
  BY <1>4

LEMMA FewReports ==
  ASSUME NEW S, NEW e \in S
  PROVE  /\ <<>> \in Seq(S) /\ ToSet(<<>>) = {}
         /\ <<e>> \in Seq(S) /\ ToSet(<<e>>) = {e}
BY DEF ToSet

\* One token more, which is not foreign.
LEMMA OneMore ==
  ASSUME IsInput(tokens), NEW p \in Nat \ {0}, NEW q \in Nat \ {0}, NEW reports,
         Accounted(p, q, reports), NEW type, type \notin Foreign, match(type, q)
  PROVE  Accounted(p, q + 1, reports)
<1>1. q \in 1 .. Len(tokens) - 1 /\ peek(q) = tokens[q]
  BY BeforeEnd DEF Foreign
<1>2. tokens[q].type \notin Foreign
  BY <1>1 DEF match
<1>3. \A t \in DOMAIN tokens : t \in Nat
  BY LengthFacts
<1>4. \A t \in Nat : t < q + 1 => t < q \/ t = q
  OBVIOUS
<1>. QED
  BY <1>2, <1>3, <1>4 DEF Accounted

LEMMA NothingYet ==
  ASSUME IsInput(tokens), NEW p \in Nat \ {0}, NEW reports
  PROVE  Accounted(p, p, reports)
<1>1. \A t \in DOMAIN tokens : t \in Nat
  BY LengthFacts
<1>2. \A t \in Nat : ~(p <= t /\ t < p)
  OBVIOUS
<1>. QED
  BY <1>1, <1>2 DEF Accounted

LEMMA AccountsJoin ==
  ASSUME IsInput(tokens), NEW p \in Nat, NEW q \in Nat, NEW r \in Nat,
         NEW one, NEW two, NEW both,
         Accounted(p, q, one), Accounted(q, r, two),
         ToSet(one) \subseteq ToSet(both), ToSet(two) \subseteq ToSet(both)
  PROVE  Accounted(p, r, both)
<1>1. \A t \in DOMAIN tokens : t \in Nat
  BY LengthFacts
<1>2. \A t \in Nat : t < q \/ q <= t
  OBVIOUS
<1>. QED
  BY <1>1, <1>2 DEF Accounted

-----------------------------------------------------------------------------
(* Expressions *)

LEMMA LeafType ==
  ASSUME NEW term \in Term
  PROVE  Leaf(term) \in Node
<1>1. [sign |-> 1, term |-> term] \in SignedTerm
  BY DEF SignedTerm
<1>2. <<[sign |-> 1, term |-> term]>> \in Seq(SignedTerm) \ {<<>>}
  BY <1>1
<1>. QED
  BY <1>2 DEF Leaf, Node

\* The linear forms flattenAST() builds are never empty.
LEMMA NegatedType ==
  ASSUME NEW terms \in Seq(SignedTerm) \ {<<>>}
  PROVE  Negated(terms) \in Seq(SignedTerm) \ {<<>>}
<1>1. \A i \in DOMAIN terms : terms[i] \in SignedTerm
  OBVIOUS
<1>2. \A s \in SignedTerm : [s EXCEPT !.sign = -@] \in SignedTerm
  BY DEF SignedTerm
<1>3. DOMAIN terms = 1 .. Len(terms) /\ Len(terms) \in Nat /\ Len(terms) # 0
  OBVIOUS
<1>4. Negated(terms) = [i \in 1 .. Len(terms) |-> [terms[i] EXCEPT !.sign = -@]]
  BY <1>3 DEF Negated
<1>5. Negated(terms) \in [1 .. Len(terms) -> SignedTerm]
  BY <1>1, <1>2, <1>3, <1>4
<1>6. Negated(terms) \in Seq(SignedTerm)
  BY <1>3, <1>5
<1>7. 1 \in DOMAIN Negated(terms)
  BY <1>3, <1>5
<1>8. Negated(terms) # <<>>
  BY <1>7
<1>. QED
  BY <1>6, <1>8

LEMMA ProductType ==
  ASSUME NEW left \in Node, NEW right \in Node
  PROVE  Product(left, right) \in Term
<1>1. left.terms[1].term \in Term /\ right.terms[1].term \in Term
  <2>1. \A terms \in Seq(SignedTerm) \ {<<>>} : terms[1] \in SignedTerm
    OBVIOUS
  <2>2. left.terms[1] \in SignedTerm /\ right.terms[1] \in SignedTerm
    BY <2>1 DEF Node
  <2>3. \A s \in SignedTerm : s.term \in Term
    BY DEF SignedTerm
  <2>. QED
    BY <2>2, <2>3
<1>2. \A t \in Term : /\ t.kind = "REGISTER" => t.reg \in Register
                      /\ t.kind = "NUMBER" => t.value \in Int
  BY DEF Term
<1>3. CASE IsLeaf(left, "REGISTER") /\ IsLeaf(right, "NUMBER")
  BY <1>1, <1>2, <1>3 DEF IsLeaf, Product, Term
<1>4. CASE /\ ~(IsLeaf(left, "REGISTER") /\ IsLeaf(right, "NUMBER"))
           /\ IsLeaf(left, "NUMBER") /\ IsLeaf(right, "REGISTER")
  <2>1. right.terms[1].term.reg \in Register /\ left.terms[1].term.value \in Int
    BY <1>1, <1>2, <1>4 DEF IsLeaf
  <2>. QED
    BY <1>4, <2>1 DEF Product, Term
<1>5. CASE /\ ~(IsLeaf(left, "REGISTER") /\ IsLeaf(right, "NUMBER"))
           /\ ~(IsLeaf(left, "NUMBER") /\ IsLeaf(right, "REGISTER"))
  BY <1>5 DEF Product, Term
<1>. QED
  BY <1>3, <1>4, <1>5

LEMMA FlattenType ==
  ASSUME NEW type \in {"PLUS", "MINUS", "STAR"}, NEW left \in Node, NEW right \in Node
  PROVE  flattenAST(type, left, right) \in Node
<1>. DEFINE terms == flattenAST(type, left, right).terms
<1>1. /\ left.terms \in Seq(SignedTerm) \ {<<>>}
      /\ right.terms \in Seq(SignedTerm) \ {<<>>}
      /\ Negated(right.terms) \in Seq(SignedTerm) \ {<<>>}
      /\ Leaf(Product(left, right)).terms \in Seq(SignedTerm) \ {<<>>}
  BY NegatedType, ProductType, LeafType DEF Node
<1>2. \A s, t \in Seq(SignedTerm) \ {<<>>} : s \o t \in Seq(SignedTerm) \ {<<>>}
  OBVIOUS
<1>3. CASE type = "PLUS"
  BY <1>1, <1>2, <1>3 DEF flattenAST, Node
<1>4. CASE type = "MINUS"
  BY <1>1, <1>2, <1>4 DEF flattenAST, Node
<1>5. CASE type = "STAR"
  BY <1>1, <1>5 DEF flattenAST, Node
<1>. QED
  BY <1>3, <1>4, <1>5

LEMMA LeafAtType ==
  ASSUME IsInput(tokens), NEW p \in Nat \ {0}, peek(p).type \in {"NUMBER", "IDENTIFIER"}
  PROVE  LeafAt(p) \in Node
<1>1. peek(p).value \in Int
  BY PeekType DEF Token
<1>2. match("IDENTIFIER", p) => Key(p) \in Name
  BY KeyFacts
<1>3. CASE match("NUMBER", p)
  <2>1. LeafAt(p) = Leaf([kind |-> "NUMBER", value |-> peek(p).value])
    <3>1. ~tokenIsRegister(p)
      BY <1>3, KeyFacts, KeywordFacts DEF match, tokenIsRegister
    <3>. QED
      BY <1>3, <3>1 DEF LeafAt
  <2>2. [kind |-> "NUMBER", value |-> peek(p).value] \in Term
    BY <1>1 DEF Term
  <2>. QED
    BY <2>1, <2>2, LeafType
<1>4. CASE ~match("NUMBER", p) /\ tokenIsRegister(p)
  <2>1. LeafAt(p) = Leaf([kind |-> "REGISTER", reg |-> Key(p)])
    BY <1>4 DEF LeafAt
  <2>2. [kind |-> "REGISTER", reg |-> Key(p)] \in Term
    BY <1>4 DEF tokenIsRegister, Term
  <2>. QED
    BY <2>1, <2>2, LeafType
<1>5. CASE ~match("NUMBER", p) /\ ~tokenIsRegister(p)
  <2>1. LeafAt(p) = Leaf([kind |-> "IDENTIFIER", name |-> Key(p)])
    BY <1>5 DEF LeafAt
  <2>2. [kind |-> "IDENTIFIER", name |-> Key(p)] \in Term
    BY <1>2, <1>5 DEF match, Term
  <2>. QED
    BY <2>1, <2>2, LeafType
<1>. QED
  BY <1>3, <1>4, <1>5

LEMMA NoNodeIsNone == NoNode \notin Node
BY DEF NoNode, Node

LEMMA PowerFacts ==
  ASSUME IsInput(tokens), NEW r \in Reading
  PROVE  /\ Power(r) \in Nat
         /\ r.rbp < Power(r) => peek(r.at).type \in {"PLUS", "MINUS", "STAR"}
<1>1. r.rbp \in Nat
  BY DEF Reading
<1>2. Power(r) \in Nat /\ (Power(r) > 0 => peek(r.at).type \in {"PLUS", "MINUS", "STAR"})
  BY DEF Power, bindingPower
<1>. QED
  BY <1>1, <1>2

\* Positions left, and whether the operand on the left is still to be read.
Rank(r) == 2 * (Len(tokens) + 1 - r.at) + IF r.node = NoNode THEN 1 ELSE 0

\* An operand has been read, and what it was read from is accounted for.
Read(r, result) ==
  /\ result \in Reading
  /\ result.node # NoNode
  /\ r.at <= result.at
  /\ ToSet(r.errors) \subseteq ToSet(result.errors)
  /\ Accounted(r.at, result.at, result.errors)

\* The definition of parseExpression: where it does not end, it goes on with one
\* operand read.
Ends(r) == r.node # NoNode /\ r.rbp >= Power(r)

WithOperand(f, r) ==
  CASE r.node # NoNode /\ r.rbp < Power(r) ->
         [f[Begin(r, Power(r))] EXCEPT !.rbp = r.rbp,
                                       !.node = flattenAST(peek(r.at).type, r.node, @)]
    [] r.node = NoNode /\ peek(r.at).type \in {"NUMBER", "IDENTIFIER"} ->
         [r EXCEPT !.node = LeafAt(r.at), !.at = @ + 1]
    [] r.node = NoNode /\ match("MINUS", r.at) ->
         [f[Begin(r, UnaryPower)] EXCEPT !.rbp = r.rbp,
                                         !.node = [leaf |-> FALSE, terms |-> Negated(@.terms)]]
    [] OTHER ->
         [r EXCEPT !.node = Leaf([kind |-> "NUMBER", value |-> 0]),
                   !.at = Advance(@),
                   !.errors = Append(@, Place(r.at))]

ReadOn(f, r) == IF Ends(r) THEN r ELSE f[WithOperand(f, r)]

LEMMA ReadingFacts ==
  ASSUME IsInput(tokens), NEW r \in Reading
  PROVE  /\ r = [rbp |-> r.rbp, node |-> r.node, at |-> r.at, errors |-> r.errors]
         /\ r.rbp \in Nat /\ r.at \in Position /\ r.at \in Nat \ {0}
         /\ r.node \in Node \cup {NoNode} /\ (r.node # NoNode => r.node \in Node)
         /\ r.errors \in Seq(1 .. Len(tokens))
         /\ Len(tokens) \in Nat /\ r.at <= Len(tokens) + 1 /\ Rank(r) \in Nat
<1>1. r.at \in Position /\ Len(tokens) \in Nat
  BY LengthFacts DEF Reading
<1>2. r.at \in Nat \ {0} /\ r.at <= Len(tokens) + 1
  BY <1>1 DEF Position
<1>3. Rank(r) \in Nat
  BY <1>1, <1>2 DEF Rank
<1>. QED
  BY <1>1, <1>2, <1>3 DEF Reading

LEMMA BeginFacts ==
  ASSUME IsInput(tokens), NEW r \in Reading, NEW rbp \in Nat,
         peek(r.at).type \in {"PLUS", "MINUS", "STAR"}
  PROVE  /\ Begin(r, rbp) \in Reading /\ Rank(Begin(r, rbp)) < Rank(r)
         /\ Begin(r, rbp).at = r.at + 1 /\ Begin(r, rbp).errors = r.errors
         /\ Accounted(r.at, r.at + 1, r.errors)
<1>. PICK b : b = Begin(r, rbp)
  OBVIOUS
<1>. r = [rbp |-> r.rbp, node |-> r.node, at |-> r.at, errors |-> r.errors]
  BY ReadingFacts
<1>1. r.at + 1 \in Position
  BY ReadingFacts, BeforeEnd DEF match
<1>2. b = [rbp |-> rbp, node |-> NoNode, at |-> r.at + 1, errors |-> r.errors]
  BY DEF Begin
<1>3. b \in Reading
  BY <1>1, <1>2, ReadingFacts DEF Reading
<1>4. Rank(b) < Rank(r)
  BY <1>2, ReadingFacts DEF Rank
<1>5. Accounted(r.at, r.at + 1, r.errors)
  BY ReadingFacts, NothingYet, OneMore DEF match, Foreign
<1>. QED
  BY <1>2, <1>3, <1>4, <1>5

\* The operand on the right of an operator has been read.
LEMMA RightRead ==
  ASSUME IsInput(tokens), NEW r \in Reading, NEW rbp \in Nat,
         peek(r.at).type \in {"PLUS", "MINUS", "STAR"},
         NEW operand, Read(Begin(r, rbp), operand),
         NEW node \in Node, NEW result, result = [operand EXCEPT !.rbp = r.rbp, !.node = node]
  PROVE  Read(r, result) /\ Rank(result) < Rank(r)
<1>. r.at \in Nat /\ r.rbp \in Nat /\ Len(tokens) \in Nat
  BY ReadingFacts
<1>. operand \in Reading
  BY DEF Read
<1>1. /\ operand.at \in Position /\ operand.at \in Nat /\ operand.at <= Len(tokens) + 1
      /\ operand.errors \in Seq(1 .. Len(tokens))
      /\ operand = [rbp |-> operand.rbp, node |-> operand.node, at |-> operand.at,
                    errors |-> operand.errors]
  BY ReadingFacts
<1>2. /\ r.at + 1 <= operand.at /\ ToSet(r.errors) \subseteq ToSet(operand.errors)
      /\ Accounted(r.at + 1, operand.at, operand.errors)
  BY BeginFacts DEF Read
<1>3. result = [rbp |-> r.rbp, node |-> node, at |-> operand.at, errors |-> operand.errors]
  BY <1>1
<1>4. result \in Reading /\ result.node # NoNode
  BY <1>1, <1>3, NoNodeIsNone DEF Reading
<1>5. Accounted(r.at, operand.at, operand.errors)
  <2>1. Accounted(r.at, r.at + 1, r.errors)
    BY BeginFacts
  <2>2. r.at \in Nat /\ r.at + 1 \in Nat /\ operand.at \in Nat
    BY <1>1
  <2>. QED
    BY <1>2, <2>1, <2>2, LengthFacts DEF Accounted
<1>6. Rank(result) < Rank(r) /\ r.at <= result.at
  BY <1>1, <1>2, <1>3, <1>4 DEF Rank
<1>. QED
  BY <1>2, <1>3, <1>4, <1>5, <1>6 DEF Read

\* One operand more: what is read of lower rank is given by f.
LEMMA OperandRead ==
  ASSUME IsInput(tokens), NEW r \in Reading, ~Ends(r), NEW f,
         \A s \in Reading : Rank(s) < Rank(r) => Read(s, f[s])
  PROVE  Read(r, WithOperand(f, r)) /\ Rank(WithOperand(f, r)) < Rank(r)
<1>. SUFFICES ASSUME NEW result, result = WithOperand(f, r)
              PROVE  Read(r, result) /\ Rank(result) < Rank(r)
  OBVIOUS
<1>. /\ r = [rbp |-> r.rbp, node |-> r.node, at |-> r.at, errors |-> r.errors]
     /\ r.rbp \in Nat /\ r.at \in Position /\ r.at \in Nat \ {0}
     /\ r.node \in Node \cup {NoNode}
     /\ r.errors \in Seq(1 .. Len(tokens))
     /\ Len(tokens) \in Nat /\ r.at <= Len(tokens) + 1
  BY ReadingFacts
<1>1. CASE r.node # NoNode
  <2>1. r.rbp < Power(r) /\ Power(r) \in Nat
    BY <1>1, PowerFacts DEF Ends
  <2>2. peek(r.at).type \in {"PLUS", "MINUS", "STAR"}
    BY <2>1, PowerFacts
  <2>3. PICK operand \in Reading :
          operand = f[Begin(r, Power(r))] /\ Read(Begin(r, Power(r)), operand)
    BY <2>1, <2>2, BeginFacts DEF Read
  <2>4. flattenAST(peek(r.at).type, r.node, operand.node) \in Node
    <3>1. operand.node \in Node
      BY <2>3, ReadingFacts DEF Read
    <3>. QED
      BY <1>1, <2>2, <3>1, FlattenType
  <2>5. result = [operand EXCEPT !.rbp = r.rbp,
                                 !.node = flattenAST(peek(r.at).type, r.node, operand.node)]
    <3>1. WithOperand(f, r) = [f[Begin(r, Power(r))] EXCEPT
                                 !.rbp = r.rbp,
                                 !.node = flattenAST(peek(r.at).type, r.node, @)]
      BY <1>1, <2>1 DEF WithOperand
    <3>. QED
      BY <2>3, <3>1
  <2>. QED
    BY <2>1, <2>2, <2>3, <2>4, <2>5, RightRead
<1>2. CASE r.node = NoNode /\ peek(r.at).type \in {"NUMBER", "IDENTIFIER"}
  <2>1. result = [rbp |-> r.rbp, node |-> LeafAt(r.at), at |-> r.at + 1, errors |-> r.errors]
    BY <1>2 DEF WithOperand, match
  <2>2. LeafAt(r.at) \in Node
    BY <1>2, LeafAtType
  <2>3. r.at + 1 \in Position
    BY <1>2, BeforeEnd DEF match
  <2>4. result \in Reading /\ result.node # NoNode
    BY <2>1, <2>2, <2>3, NoNodeIsNone DEF Reading
  <2>5. Accounted(r.at, r.at + 1, r.errors)
    BY <1>2, NothingYet, OneMore DEF match, Foreign
  <2>6. Rank(result) < Rank(r)
    BY <1>2, <2>1, <2>4 DEF Rank
  <2>. QED
    BY <2>1, <2>4, <2>5, <2>6 DEF Read
<1>3. CASE r.node = NoNode /\ match("MINUS", r.at)
  <2>1. UnaryPower \in Nat /\ peek(r.at).type \in {"PLUS", "MINUS", "STAR"}
    BY <1>3 DEF match, UnaryPower
  <2>2. PICK operand \in Reading :
          operand = f[Begin(r, UnaryPower)] /\ Read(Begin(r, UnaryPower), operand)
    BY <2>1, BeginFacts DEF Read
  <2>3. [leaf |-> FALSE, terms |-> Negated(operand.node.terms)] \in Node
    <3>1. operand.node \in Node
      BY <2>2, ReadingFacts DEF Read
    <3>. QED
      BY <3>1, NegatedType DEF Node
  <2>4. result = [operand EXCEPT !.rbp = r.rbp,
                                 !.node = [leaf |-> FALSE, terms |-> Negated(operand.node.terms)]]
    BY <1>3, <2>2 DEF WithOperand, match
  <2>. QED
    BY <2>1, <2>2, <2>3, <2>4, RightRead
<1>4. CASE /\ r.node = NoNode /\ peek(r.at).type \notin {"NUMBER", "IDENTIFIER"}
           /\ ~match("MINUS", r.at)
  <2>. DEFINE node == Leaf([kind |-> "NUMBER", value |-> 0])
              errs == Append(r.errors, Place(r.at))
  <2>1. result = [rbp |-> r.rbp, node |-> node, at |-> Advance(r.at), errors |-> errs]
    BY <1>4 DEF WithOperand, match
  <2>2. node \in Node
    <3>1. [kind |-> "NUMBER", value |-> 0] \in Term
      BY DEF Term
    <3>. QED
      BY <3>1, LeafType
  <2>3. Place(r.at) \in 1 .. Len(tokens)
    BY LengthFacts
  <2>4. errs \in Seq(1 .. Len(tokens)) /\ ToSet(errs) = ToSet(r.errors) \cup {Place(r.at)}
    BY <2>3, ReportsAppend
  <2>5. Advance(r.at) \in Position /\ Advance(r.at) \in Nat /\ r.at <= Advance(r.at)
        /\ Advance(r.at) <= Len(tokens) + 1
    BY DEF Advance, Position
  <2>6. Accounted(r.at, Advance(r.at), errs)
    <3>1. \A t \in DOMAIN tokens : r.at <= t /\ t < Advance(r.at) => t = Place(r.at)
      BY LengthFacts DEF Advance, Place
    <3>. QED
      BY <2>4, <3>1 DEF Accounted
  <2>. HIDE DEF node, errs
  <2>7. result \in Reading /\ result.node # NoNode
    BY <2>1, <2>2, <2>4, <2>5, NoNodeIsNone DEF Reading
  <2>8. Rank(result) < Rank(r)
    BY <1>4, <2>1, <2>5, <2>7 DEF Rank
  <2>. QED
    BY <2>1, <2>4, <2>5, <2>6, <2>7, <2>8 DEF Read
<1>. QED
  BY <1>1, <1>2, <1>3, <1>4

\* parseExpression is well-defined, and reads an operand.
LEMMA ExpressionRead ==
  ASSUME IsInput(tokens)
  PROVE  \A r \in Reading : Read(r, parseExpression[r])
<1>. DEFINE rank == [r \in Reading |-> Rank(r)]
            Candidates == {f \in [Reading -> Reading] : \A r \in Reading : Read(r, f[r])}
            Step == [f \in Candidates |-> [r \in Reading |-> ReadOn(f, r)]]
<1>1. rank \in [Reading -> Nat] /\ \A r \in Reading : rank[r] = Rank(r)
  BY ReadingFacts
<1>2. ASSUME NEW f \in Candidates, NEW r \in Reading PROVE Read(r, ReadOn(f, r))
  <2>1. CASE Ends(r)
    <3>1. Accounted(r.at, r.at, r.errors)
      BY ReadingFacts, NothingYet
    <3>. QED
      BY <2>1, <3>1, ReadingFacts DEF ReadOn, Ends, Read
  <2>2. CASE ~Ends(r)
    <3>1. PICK s \in Reading : s = WithOperand(f, r) /\ Read(r, s)
      BY <2>2, OperandRead DEF Read
    <3>2. Read(s, f[s])
      OBVIOUS
    <3>3. PICK t \in Reading : t = f[s] /\ Read(s, t)
      BY <3>2 DEF Read
    <3>4. Accounted(r.at, t.at, t.errors)
      <4>1. r.at \in Nat /\ s.at \in Nat /\ t.at \in Nat
        BY ReadingFacts
      <4>. QED
        BY <3>1, <3>3, <4>1, AccountsJoin DEF Read
    <3>5. r.at <= t.at
      BY <3>1, <3>3, ReadingFacts DEF Read
    <3>6. Read(r, t)
      BY <3>1, <3>3, <3>4, <3>5 DEF Read
    <3>. QED
      BY <2>2, <3>1, <3>3, <3>6 DEF ReadOn
  <2>. QED
    BY <2>1, <2>2
<1>3. Step \in [Candidates -> Candidates]
  <2>1. ASSUME NEW f \in Candidates PROVE [r \in Reading |-> ReadOn(f, r)] \in Candidates
    BY <1>2 DEF Read
  <2>. QED
    BY <2>1
<1>4. ASSUME NEW f \in Candidates, NEW h, NEW r \in Reading,
             \A s \in Reading : Rank(s) < Rank(r) => h[s] = f[s]
      PROVE  ReadOn(h, r) = ReadOn(f, r)
  <2>1. CASE Ends(r)
    BY <2>1 DEF ReadOn
  <2>2. CASE ~Ends(r)
    <3>1. WithOperand(f, r) \in Reading /\ Rank(WithOperand(f, r)) < Rank(r)
      BY <2>2, OperandRead DEF Read
    <3>2. WithOperand(h, r) = WithOperand(f, r)
      <4>1. CASE r.node # NoNode
        <5>1. r.rbp < Power(r) /\ Power(r) \in Nat
          BY <2>2, <4>1, PowerFacts, ReadingFacts DEF Ends
        <5>2. peek(r.at).type \in {"PLUS", "MINUS", "STAR"}
          BY <5>1, PowerFacts
        <5>3. h[Begin(r, Power(r))] = f[Begin(r, Power(r))]
          BY <1>4, <5>1, <5>2, BeginFacts
        <5>. QED
          BY <4>1, <5>1, <5>3 DEF WithOperand
      <4>2. CASE r.node = NoNode /\ match("MINUS", r.at)
        <5>1. peek(r.at).type \in {"PLUS", "MINUS", "STAR"} /\ UnaryPower \in Nat
          BY <4>2 DEF match, UnaryPower
        <5>2. h[Begin(r, UnaryPower)] = f[Begin(r, UnaryPower)]
          BY <1>4, <5>1, BeginFacts
        <5>. QED
          BY <4>2, <5>2 DEF WithOperand
      <4>3. CASE r.node = NoNode /\ ~match("MINUS", r.at)
        BY <4>3 DEF WithOperand
      <4>. QED
        BY <4>1, <4>2, <4>3
    <3>. QED
      BY <1>4, <2>2, <3>1, <3>2 DEF ReadOn
  <2>. QED
    BY <2>1, <2>2
<1>5. Candidates # {}
  <2>. DEFINE node == Leaf([kind |-> "NUMBER", value |-> 0])
              errs == [i \in 1 .. Len(tokens) |-> i]
              f == [r \in Reading |-> [rbp |-> 0, node |-> node, at |-> r.at, errors |-> r.errors]]
  <2>1. node \in Node
    <3>1. [kind |-> "NUMBER", value |-> 0] \in Term
      BY DEF Term
    <3>. QED
      BY <3>1, LeafType
  <2>. HIDE DEF node
  <2>2. ASSUME NEW r \in Reading PROVE Read(r, f[r])
    <3>1. Accounted(r.at, r.at, r.errors)
      BY ReadingFacts, NothingYet
    <3>2. f[r] = [rbp |-> 0, node |-> node, at |-> r.at, errors |-> r.errors]
      OBVIOUS
    <3>3. f[r] \in Reading
      BY <2>1, <3>2, ReadingFacts DEF Reading
    <3>. QED
      BY <2>1, <3>1, <3>2, <3>3, ReadingFacts, NoNodeIsNone DEF Read
  <2>3. f \in [Reading -> Reading]
    BY <2>2 DEF Read
  <2>. HIDE DEF f
  <2>. QED
    BY <2>2, <2>3
<1>6. PICK f \in Candidates : f = [r \in Reading |-> ReadOn(f, r)]
  <2>1. Candidates \in SUBSET [Reading -> Reading]
    OBVIOUS
  <2>2. \A f, h \in Candidates : \A r \in Reading :
          (\A s \in Reading : rank[s] < rank[r] => h[s] = f[s]) => Step[h][r] = Step[f][r]
    BY <1>1, <1>4
  <2>. PICK n \in Nat : n = 2 * (Len(tokens) + 1) + 1
    BY LengthFacts
  <2>3. \A r \in Reading : Rank(r) \in 0 .. n
    BY ReadingFacts, LengthFacts DEF Rank
  <2>4. rank \in [Reading -> 0 .. n]
    BY <1>1, <2>3
  <2>. HIDE DEF rank, Candidates, Step
  <2>5. IsRecursion(Reading, rank, n, Reading, Candidates, Step)
    BY <1>3, <1>5, <2>1, <2>2, <2>4 DEF IsRecursion
  <2>6. \E f \in Candidates : f = Step[f]
    BY <2>5, FixedPoint
  <2>. QED
    BY <2>6 DEF Step
<1>7. parseExpression = [r \in Reading |-> ReadOn(parseExpression, r)]
  <2>. DEFINE Body(h, r) ==
         CASE r.node # NoNode /\ r.rbp >= Power(r) -> r
           [] r.node # NoNode /\ r.rbp < Power(r) ->
                h[[h[Begin(r, Power(r))] EXCEPT
                     !.rbp = r.rbp,
                     !.node = flattenAST(peek(r.at).type, r.node, @)]]
           [] r.node = NoNode /\ peek(r.at).type \in {"NUMBER", "IDENTIFIER"} ->
                h[[r EXCEPT !.node = LeafAt(r.at), !.at = @ + 1]]
           [] r.node = NoNode /\ match("MINUS", r.at) ->
                h[[h[Begin(r, UnaryPower)] EXCEPT
                     !.rbp = r.rbp,
                     !.node = [leaf |-> FALSE, terms |-> Negated(@.terms)]]]
           [] OTHER ->
                h[[r EXCEPT !.node = Leaf([kind |-> "NUMBER", value |-> 0]),
                            !.at = Advance(@),
                            !.errors = Append(@, Place(r.at))]]
  <2>1. ASSUME NEW h, NEW r \in Reading PROVE Body(h, r) = ReadOn(h, r)
    <3>1. r.rbp \in Nat /\ Power(r) \in Nat
      BY PowerFacts, ReadingFacts
    <3>2. CASE Ends(r)
      BY <3>1, <3>2 DEF ReadOn, Ends, match
    <3>3. CASE ~Ends(r)
      <4>1. ReadOn(h, r) = h[WithOperand(h, r)]
        BY <3>3 DEF ReadOn
      <4>2. CASE r.node # NoNode
        BY <3>1, <3>3, <4>1, <4>2 DEF Ends, WithOperand
      <4>3. CASE r.node = NoNode /\ peek(r.at).type \in {"NUMBER", "IDENTIFIER"}
        BY <3>1, <3>3, <4>1, <4>3 DEF Ends, WithOperand, match
      <4>4. CASE r.node = NoNode /\ match("MINUS", r.at)
        BY <3>1, <3>3, <4>1, <4>4 DEF Ends, WithOperand, match
      <4>5. CASE /\ r.node = NoNode /\ peek(r.at).type \notin {"NUMBER", "IDENTIFIER"}
                 /\ ~match("MINUS", r.at)
        BY <3>1, <3>3, <4>1, <4>5 DEF Ends, WithOperand, match
      <4>. QED
        BY <4>2, <4>3, <4>4, <4>5
    <3>. QED
      BY <3>2, <3>3
  <2>2. parseExpression = CHOOSE h : h = [r \in Reading |-> Body(h, r)]
    BY DEF parseExpression
  <2>. HIDE DEF Body
  <2>3. f = [r \in Reading |-> Body(f, r)]
    BY <1>6, <2>1
  <2>4. parseExpression = [r \in Reading |-> Body(parseExpression, r)]
    BY <2>2, <2>3
  <2>. QED
    BY <2>1, <2>4
<1>8. \A r \in Reading : parseExpression[r] = f[r]
  <2>1. ASSUME NEW r \in Reading,
               \A s \in Reading : rank[s] < rank[r] => parseExpression[s] = f[s]
        PROVE  parseExpression[r] = f[r]
    <3>1. ReadOn(parseExpression, r) = ReadOn(f, r)
      BY <1>1, <1>4, <2>1
    <3>. QED
      BY <1>6, <1>7, <3>1
  <2>2. Follows(Reading, rank, f, parseExpression)
    BY <1>1, <2>1 DEF Follows
  <2>. HIDE DEF rank
  <2>. QED
    BY <2>2, OneSolution
<1>. QED
  BY <1>8

-----------------------------------------------------------------------------
(* Terms *)

\* What the loop over the terms has made of them: the scale is a scale as long as no
\* term has failed.
Combined ==
  [ok : BOOLEAN,
   mem : [base : Register \cup {NoName}, index : Register \cup {NoName}, scale : Int,
          displacement : Int, symbols : Seq(SymbolTerm), size : OperandSize]]

IsCombined(out) == out \in Combined /\ (out.ok => out.mem.scale \in {1, 2, 4, 8})

LEMMA NoTermsType ==
  ASSUME NEW size \in OperandSize
  PROVE  IsCombined(NoTerms(size))
BY DEF NoTerms, IsCombined, Combined

LEMMA ToIntType ==
  ASSUME NEW x \in Int
  PROVE  ToInt(x) \in Int
BY IntAssumption DEF ToInt

LEMMA SetIndexType ==
  ASSUME NEW out, IsCombined(out), NEW reg \in Register, NEW scale \in Int
  PROVE  IsCombined(SetIndex(out, reg, scale))
<1>. PICK result : result = SetIndex(out, reg, scale)
  OBVIOUS
<1>1. result.ok \in BOOLEAN /\ (result.ok => scale \in {1, 2, 4, 8})
  BY DEF SetIndex, IsCombined, Combined
<1>2. result.mem = [out.mem EXCEPT !.index = reg, !.scale = scale]
  BY DEF SetIndex, IsCombined, Combined
<1>3. result \in Combined /\ result.mem.scale = scale
  BY <1>1, <1>2 DEF SetIndex, IsCombined, Combined
<1>. QED
  BY <1>1, <1>3 DEF IsCombined

LEMMA AddTermType ==
  ASSUME NEW out, IsCombined(out), NEW signed \in SignedTerm
  PROVE  IsCombined(AddTerm(out, signed))
<1>. PICK term \in Term : term = signed.term
  BY DEF SignedTerm
<1>. PICK result : result = AddTerm(out, signed)
  OBVIOUS
<1>0. signed.sign \in {-1, 1}
  BY DEF SignedTerm
<1>1. CASE term.kind = "NUMBER"
  <2>1. term.value \in Int /\ signed.sign * term.value \in Int
    BY <1>0, <1>1 DEF Term
  <2>2. result = [out EXCEPT !.mem.displacement = @ + signed.sign * term.value]
    BY <1>1 DEF AddTerm
  <2>. PICK v \in Int : v = signed.sign * term.value
    BY <2>1
  <2>. QED
    BY <2>2 DEF IsCombined, Combined
<1>2. CASE term.kind = "IDENTIFIER"
  <2>1. [sign |-> signed.sign, name |-> term.name] \in SymbolTerm
    BY <1>0, <1>2 DEF Term, SymbolTerm
  <2>2. PICK mem : mem = out.mem
    OBVIOUS
  <2>3. PICK symbols \in Seq(SymbolTerm) :
          symbols = Append(mem.symbols, [sign |-> signed.sign, name |-> term.name])
    <3>1. mem.symbols \in Seq(SymbolTerm)
      BY <2>2 DEF IsCombined, Combined
    <3>2. \A s \in Seq(SymbolTerm) : \A t \in SymbolTerm : Append(s, t) \in Seq(SymbolTerm)
      OBVIOUS
    <3>. QED
      BY <2>1, <3>1, <3>2
  <2>4. result = [out EXCEPT !.mem.symbols = symbols]
    BY <1>2, <2>2, <2>3 DEF AddTerm
  <2>5. result.ok = out.ok /\ result.mem = [mem EXCEPT !.symbols = symbols]
    BY <2>2, <2>4 DEF IsCombined, Combined
  <2>6. result = [ok |-> result.ok, mem |-> result.mem]
    BY <2>4 DEF IsCombined, Combined
  <2>7. result.mem.scale = out.mem.scale /\ result.mem \in
          [base : Register \cup {NoName}, index : Register \cup {NoName}, scale : Int,
           displacement : Int, symbols : Seq(SymbolTerm), size : OperandSize]
    <3>. HIDE DEF Register, OperandSize, SymbolTerm
    <3>. QED
      BY <2>2, <2>5 DEF IsCombined, Combined
  <2>8. result.ok \in BOOLEAN
    BY <2>5 DEF IsCombined, Combined
  <2>. QED
    BY <2>5, <2>6, <2>7, <2>8 DEF IsCombined, Combined
<1>3. CASE term.kind = "REGISTER" /\ signed.sign > 0
  <2>1. term.reg \in Register
    BY <1>3 DEF Term
  <2>2. result = IF out.mem.base = NoName THEN [out EXCEPT !.mem.base = term.reg]
                 ELSE SetIndex(out, term.reg, 1)
    BY <1>3 DEF AddTerm
  <2>3. CASE out.mem.base = NoName
    BY <2>1, <2>2, <2>3 DEF IsCombined, Combined
  <2>. QED
    BY <2>1, <2>2, <2>3, SetIndexType
<1>4. CASE term.kind = "PRODUCT" /\ signed.sign > 0
  <2>1. term.reg \in Register /\ ToInt(term.value) \in Int
    BY <1>4, ToIntType DEF Term
  <2>2. result = SetIndex(out, term.reg, ToInt(term.value))
    BY <1>4 DEF AddTerm
  <2>. QED
    BY <2>1, <2>2, SetIndexType
<1>5. CASE /\ term.kind \notin {"NUMBER", "IDENTIFIER"}
           /\ ~(term.kind = "REGISTER" /\ signed.sign > 0)
           /\ ~(term.kind = "PRODUCT" /\ signed.sign > 0)
  <2>1. result = [out EXCEPT !.ok = FALSE]
    BY <1>5 DEF AddTerm
  <2>. QED
    BY <2>1 DEF IsCombined, Combined
<1>. QED
  BY <1>1, <1>2, <1>3, <1>4, <1>5

\* The loop over the terms of an expression.
LEMMA CombineType ==
  ASSUME NEW terms \in Seq(SignedTerm), NEW size \in OperandSize
  PROVE  IsCombined(Combine(terms, size))
<1>. DEFINE Out(f, k) == IF k = 0 THEN NoTerms(size) ELSE AddTerm(f[k - 1], terms[k])
            D == 0 .. Len(terms)
            out == CHOOSE f : f = [k \in D |-> Out(f, k)]
            Candidates == {f \in [D -> Combined] : \A k \in D : IsCombined(f[k])}
            Step == [f \in Candidates |-> [k \in D |-> Out(f, k)]]
            rank == [k \in D |-> k]
<1>. Len(terms) \in Nat /\ \A k \in 1 .. Len(terms) : terms[k] \in SignedTerm
  OBVIOUS
<1>1. Combine(terms, size) = out[Len(terms)]
  BY DEF Combine
<1>2. ASSUME NEW f \in Candidates, NEW k \in D PROVE IsCombined(Out(f, k))
  <2>1. CASE k = 0
    BY <2>1, NoTermsType
  <2>2. CASE k # 0
    <3>1. k - 1 \in D /\ terms[k] \in SignedTerm
      BY <2>2
    <3>2. IsCombined(f[k - 1])
      BY <3>1
    <3>. QED
      BY <2>2, <3>1, <3>2, AddTermType
  <2>. QED
    BY <2>1, <2>2
<1>3. Step \in [Candidates -> Candidates]
  <2>1. ASSUME NEW f \in Candidates PROVE [k \in D |-> Out(f, k)] \in Candidates
    BY <1>2 DEF IsCombined
  <2>. QED
    BY <2>1
<1>4. ASSUME NEW f, NEW h, NEW k \in D, \A j \in D : j < k => h[j] = f[j]
      PROVE  Out(h, k) = Out(f, k)
  BY <1>4
<1>5. Candidates # {}
  <2>1. [k \in D |-> NoTerms(size)] \in Candidates
    BY NoTermsType DEF IsCombined
  <2>. QED
    BY <2>1
<1>6. IsRecursion(D, rank, Len(terms), Combined, Candidates, Step)
  <2>1. rank \in [D -> 0 .. Len(terms)] /\ Candidates \in SUBSET [D -> Combined]
    OBVIOUS
  <2>2. \A f, h \in Candidates : \A k \in D :
          (\A j \in D : rank[j] < rank[k] => h[j] = f[j]) => Step[h][k] = Step[f][k]
    <3>. SUFFICES ASSUME NEW f \in Candidates, NEW h \in Candidates, NEW k \in D,
                         \A j \in D : rank[j] < rank[k] => h[j] = f[j]
                  PROVE  Step[h][k] = Step[f][k]
      OBVIOUS
    <3>1. \A j \in D : j < k => h[j] = f[j]
      OBVIOUS
    <3>2. Out(h, k) = Out(f, k)
      BY <1>4, <3>1
    <3>. HIDE DEF Out
    <3>. QED
      BY <3>2
  <2>. HIDE DEF rank, D, Candidates, Step
  <2>. QED
    BY <1>3, <1>5, <2>1, <2>2 DEF IsRecursion
<1>7. PICK f \in Candidates : f = [k \in D |-> Out(f, k)]
  <2>. HIDE DEF rank, D, Candidates
  <2>1. \E f \in Candidates : f = Step[f]
    <3>. HIDE DEF Step
    <3>. QED
      BY <1>6, FixedPoint
  <2>. QED
    BY <2>1
<1>8. out = [k \in D |-> Out(out, k)]
  <2>. HIDE DEF Out
  <2>. QED
    BY <1>7
<1>9. \A k \in D : out[k] = f[k]
  <2>1. rank \in [D -> Nat]
    OBVIOUS
  <2>2. ASSUME NEW k \in D, \A j \in D : rank[j] < rank[k] => out[j] = f[j]
        PROVE  out[k] = f[k]
    <3>1. \A j \in D : j < k => out[j] = f[j]
      BY <2>2
    <3>2. Out(out, k) = Out(f, k)
      <4>. HIDE DEF out
      <4>. QED
        BY <1>4, <3>1
    <3>. HIDE DEF Out, out
    <3>. QED
      BY <1>7, <1>8, <3>2
  <2>. HIDE DEF out
  <2>3. Follows(D, rank, f, out)
    BY <2>1, <2>2 DEF Follows
  <2>. HIDE DEF rank, D
  <2>. QED
    BY <2>3, OneSolution
<1>. HIDE DEF out
<1>. QED
  BY <1>1, <1>9

LEMMA MoreReports ==
  ASSUME NEW p, NEW q, NEW one, NEW both, Accounted(p, q, one), ToSet(one) \subseteq ToSet(both)
  PROVE  Accounted(p, q, both)
BY DEF Accounted

\* A token is taken that is not foreign.
LEMMA TakesOne ==
  ASSUME IsInput(tokens), NEW p \in Nat \ {0}, NEW type, type \notin Foreign, match(type, p)
  PROVE  p + 1 \in Position /\ Accounted(p, p + 1, <<>>)
<1>1. p + 1 \in Position
  BY BeforeEnd DEF Foreign
<1>. QED
  BY <1>1, NothingYet, OneMore

LEMMA ImmediateFacts ==
  ASSUME IsInput(tokens), NEW p \in Nat \ {0}, isImmediate(p)
  PROVE  /\ SignedInteger(p).value \in Int
         /\ SignedInteger(p).at \in Position /\ p < SignedInteger(p).at
         /\ Accounted(p, SignedInteger(p).at, <<>>)
<1>1. CASE match("NUMBER", p)
  <2>1. peek(p).value \in Int
    BY PeekType DEF Token
  <2>2. p + 1 \in Position /\ Accounted(p, p + 1, <<>>)
    BY <1>1, TakesOne DEF Foreign
  <2>. QED
    BY <1>1, <2>1, <2>2 DEF SignedInteger
<1>2. CASE ~match("NUMBER", p)
  <2>1. match("MINUS", p) /\ match("NUMBER", p + 1)
    BY <1>2 DEF isImmediate
  <2>2. p + 1 \in Nat \ {0} /\ (p + 1) + 1 = p + 2
    OBVIOUS
  <2>3. peek(p + 1).value \in Nat
    BY <2>2, PeekType DEF Token
  <2>4. Accounted(p, p + 1, <<>>)
    BY <2>1, TakesOne DEF Foreign
  <2>5. (p + 1) + 1 \in Position /\ Accounted(p, (p + 1) + 1, <<>>)
    BY <2>1, <2>2, <2>4, OneMore, TakesOne DEF Foreign
  <2>. QED
    BY <1>2, <2>2, <2>3, <2>5 DEF SignedInteger
<1>. QED
  BY <1>1, <1>2

-----------------------------------------------------------------------------
(* Lists of values *)

ValueList == [at : Position, nums : Nat, chars : Nat]

IsValueList(p, list) ==
  list \in ValueList /\ p <= list.at /\ Accounted(p, list.at, <<>>)

LEMMA ValueFacts ==
  ASSUME IsInput(tokens), NEW p \in Nat \ {0}, BeginsValue(p)
  PROVE  IsValueList(p, ValueAt(p)) /\ p < ValueAt(p).at
<1>1. CASE IsString(p)
  <2>1. peek(p).value \in Nat
    BY PeekType DEF Token
  <2>2. p + 1 \in Position /\ Accounted(p, p + 1, <<>>)
    BY <1>1, TakesOne DEF IsString, match, Foreign
  <2>. QED
    BY <1>1, <2>1, <2>2 DEF ValueAt, IsValueList, ValueList
<1>2. CASE ~IsString(p)
  <2>1. isImmediate(p)
    BY <1>2 DEF BeginsValue
  <2>. QED
    BY <1>2, <2>1, ImmediateFacts DEF ValueAt, IsValueList, ValueList, Position
<1>. QED
  BY <1>1, <1>2

\* The definition of Values.
ValuesFrom(f, p) ==
  IF ~BeginsValue(p) THEN [at |-> p, nums |-> 0, chars |-> 0]
  ELSE IF ~match("COMMA", ValueAt(p).at) THEN ValueAt(p)
  ELSE [f[ValueAt(p).at + 1] EXCEPT !.nums = @ + ValueAt(p).nums,
                                    !.chars = @ + ValueAt(p).chars]

LEMMA PositionFacts ==
  ASSUME IsInput(tokens), NEW p \in Position
  PROVE  /\ p \in Nat \ {0} /\ p <= Len(tokens) + 1 /\ Len(tokens) \in Nat
         /\ Len(tokens) + 1 - p \in 0 .. Len(tokens)
BY LengthFacts DEF Position

LEMMA ValuesFromFacts ==
  ASSUME IsInput(tokens), NEW p \in Position, NEW f,
         \A q \in Position : p < q => IsValueList(q, f[q])
  PROVE  IsValueList(p, ValuesFrom(f, p))
<1>. p \in Nat \ {0}
  BY PositionFacts
<1>1. CASE ~BeginsValue(p)
  BY <1>1, NothingYet DEF ValuesFrom, IsValueList, ValueList
<1>2. CASE BeginsValue(p) /\ ~match("COMMA", ValueAt(p).at)
  BY <1>2, ValueFacts DEF ValuesFrom
<1>3. CASE BeginsValue(p) /\ match("COMMA", ValueAt(p).at)
  <2>1. PICK v \in ValueList : v = ValueAt(p) /\ p < v.at /\ Accounted(p, v.at, <<>>)
    BY <1>3, ValueFacts DEF IsValueList
  <2>2. v.at \in Nat \ {0} /\ v.nums \in Nat /\ v.chars \in Nat
    BY <2>1, PositionFacts DEF ValueList
  <2>3. v.at + 1 \in Position /\ Accounted(p, v.at + 1, <<>>)
    BY <1>3, <2>1, <2>2, TakesOne, OneMore DEF Foreign
  <2>4. p < v.at + 1
    BY <2>1, <2>2
  <2>5. PICK w \in ValueList : w = f[v.at + 1] /\ v.at + 1 <= w.at /\ Accounted(v.at + 1, w.at, <<>>)
    BY <2>3, <2>4 DEF IsValueList
  <2>6. w.at \in Nat \ {0} /\ w.nums \in Nat /\ w.chars \in Nat
    BY <2>5, PositionFacts DEF ValueList
  <2>7. Accounted(p, w.at, <<>>)
    BY <2>2, <2>3, <2>5, <2>6, LengthFacts DEF Accounted
  <2>. PICK result : result = ValuesFrom(f, p)
    OBVIOUS
  <2>8. result = [w EXCEPT !.nums = @ + v.nums, !.chars = @ + v.chars]
    BY <1>3, <2>1, <2>5 DEF ValuesFrom
  <2>9. w = [at |-> w.at, nums |-> w.nums, chars |-> w.chars]
    BY DEF ValueList
  <2>10. result = [at |-> w.at, nums |-> w.nums + v.nums, chars |-> w.chars + v.chars]
    BY <2>8, <2>9
  <2>. QED
    BY <2>2, <2>4, <2>5, <2>6, <2>7, <2>10 DEF IsValueList, ValueList
<1>. QED
  BY <1>1, <1>2, <1>3

\* parseDirective's loop is well-defined, and stops behind the values it has read.
LEMMA ValuesFacts ==
  ASSUME IsInput(tokens)
  PROVE  \A p \in Position : IsValueList(p, Values[p])
<1>. DEFINE rank == [p \in Position |-> Len(tokens) + 1 - p]
            Candidates == {f \in [Position -> ValueList] : \A p \in Position : IsValueList(p, f[p])}
            Step == [f \in Candidates |-> [p \in Position |-> ValuesFrom(f, p)]]
<1>1. rank \in [Position -> 0 .. Len(tokens)]
  BY PositionFacts
<1>2. ASSUME NEW p \in Position, NEW q \in Position, p < q PROVE rank[q] < rank[p]
  BY <1>2, PositionFacts
<1>3. ASSUME NEW f \in Candidates PROVE [p \in Position |-> ValuesFrom(f, p)] \in Candidates
  BY ValuesFromFacts DEF IsValueList
<1>4. ASSUME NEW f, NEW h, NEW p \in Position,
             \A q \in Position : rank[q] < rank[p] => h[q] = f[q]
      PROVE  ValuesFrom(h, p) = ValuesFrom(f, p)
  <2>1. CASE BeginsValue(p) /\ match("COMMA", ValueAt(p).at)
    <3>1. ValueAt(p).at \in Position /\ p < ValueAt(p).at
      BY <2>1, ValueFacts, PositionFacts DEF IsValueList, ValueList
    <3>2. ValueAt(p).at + 1 \in Position
      BY <2>1, <3>1, PositionFacts, TakesOne DEF Foreign
    <3>3. p < ValueAt(p).at + 1
      BY <3>1, PositionFacts
    <3>4. h[ValueAt(p).at + 1] = f[ValueAt(p).at + 1]
      BY <1>2, <1>4, <3>2, <3>3
    <3>. QED
      BY <2>1, <3>4 DEF ValuesFrom
  <2>2. CASE ~(BeginsValue(p) /\ match("COMMA", ValueAt(p).at))
    BY <2>2 DEF ValuesFrom
  <2>. QED
    BY <2>1, <2>2
<1>5. Candidates # {}
  <2>1. [p \in Position |-> [at |-> p, nums |-> 0, chars |-> 0]] \in Candidates
    BY NothingYet, PositionFacts DEF IsValueList, ValueList
  <2>. QED
    BY <2>1
<1>6. PICK f \in Candidates : f = [p \in Position |-> ValuesFrom(f, p)]
  <2>1. Candidates \in SUBSET [Position -> ValueList]
    OBVIOUS
  <2>2. Step \in [Candidates -> Candidates]
    BY <1>3
  <2>3. \A g, h \in Candidates : \A p \in Position :
          (\A q \in Position : rank[q] < rank[p] => h[q] = g[q]) => Step[h][p] = Step[g][p]
    BY <1>4
  <2>. HIDE DEF rank, Candidates, Step
  <2>4. IsRecursion(Position, rank, Len(tokens), ValueList, Candidates, Step)
    BY <1>1, <1>5, <2>1, <2>2, <2>3, LengthFacts DEF IsRecursion
  <2>5. \E g \in Candidates : g = Step[g]
    BY <2>4, FixedPoint
  <2>. QED
    BY <2>5 DEF Step
<1>7. Values = [p \in Position |-> ValuesFrom(Values, p)]
  BY <1>6 DEF Values, ValuesFrom
<1>8. \A p \in Position : Values[p] = f[p]
  <2>1. ASSUME NEW p \in Position, \A q \in Position : rank[q] < rank[p] => Values[q] = f[q]
        PROVE  Values[p] = f[p]
    BY <1>4, <1>6, <1>7, <2>1
  <2>2. Follows(Position, rank, f, Values)
    BY <1>1, <2>1 DEF Follows
  <2>. HIDE DEF rank
  <2>. QED
    BY <2>2, OneSolution
<1>. QED
  BY <1>8

-----------------------------------------------------------------------------
(* Operands *)

LEMMA NothingIsNone == Nothing \notin Operand /\ Nothing \notin ParsedStatement
BY DEF Nothing, NoOperand, Operand, ParsedStatement, ParsedInstruction, Statement, Item,
       Instruction, Label, DataDirective, SectionDirective, EquDirective, GlobalDirective

\* What parsing an operand at p returns.
IsOperand(p, o) ==
  Sound(p, o) /\ (o.value \in Operand \/ (o.value = Nothing /\ Explained(o)))

\* The first bracket from p on.
IsBracket(p, b) == match("LBRACKET", b) /\ \A q \in p .. b - 1 : ~match("LBRACKET", q)

\* What stands before the bracket of a memory operand is not foreign.
LEMMA BracketFacts ==
  ASSUME IsInput(tokens), NEW p \in Nat \ {0}, isMemoryOperand(p)
  PROVE  /\ \E b \in p .. p + 2 : IsBracket(p, b)
         /\ \A b \in p .. p + 2 : IsBracket(p, b) =>
              b + 1 \in Position /\ Accounted(p, b + 1, <<>>)
<1>1. ASSUME NEW q \in Nat \ {0}, HasSizePrefix(q) PROVE match("IDENTIFIER", q)
  BY <1>1, KeyFacts, KeywordFacts DEF HasSizePrefix
<1>2. ASSUME NEW q \in Nat \ {0}, Key(q) = "ptr" PROVE match("IDENTIFIER", q)
  BY <1>2, KeyFacts, KeywordFacts
<1>. /\ p + 1 \in Nat \ {0} /\ p + 2 \in Nat \ {0} /\ (p + 1) + 1 = p + 2
     /\ p \in p .. p + 2 /\ p + 1 \in p .. p + 2 /\ p + 2 \in p .. p + 2
  OBVIOUS
<1>3. CASE match("LBRACKET", p)
  <2>1. IsBracket(p, p)
    <3>1. \A q \in p .. p - 1 : FALSE
      OBVIOUS
    <3>. QED
      BY <1>3, <3>1, Zenon DEF IsBracket
  <2>2. \A b \in p .. p + 2 : IsBracket(p, b) => b = p
    <3>1. \A b \in p .. p + 2 : b # p => p \in p .. b - 1
      OBVIOUS
    <3>. QED
      BY <1>3, <3>1, Zenon DEF IsBracket
  <2>3. p + 1 \in Position /\ Accounted(p, p + 1, <<>>)
    BY <1>3, TakesOne DEF Foreign
  <2>. QED
    BY <2>1, <2>2, <2>3
<1>4. CASE ~match("LBRACKET", p) /\ HasSizePrefix(p) /\ match("LBRACKET", p + 1)
  <2>1. IsBracket(p, p + 1)
    <3>1. \A q \in p .. (p + 1) - 1 : q = p
      OBVIOUS
    <3>. QED
      BY <1>4, <3>1, Zenon DEF IsBracket
  <2>2. \A b \in p .. p + 2 : IsBracket(p, b) => b = p + 1
    <3>1. \A b \in p .. p + 2 : b # p + 1 => b = p \/ p + 1 \in p .. b - 1
      OBVIOUS
    <3>. QED
      BY <1>4, <3>1, Zenon DEF IsBracket
  <2>3. Accounted(p, p + 1, <<>>)
    BY <1>1, <1>4, TakesOne DEF Foreign
  <2>4. (p + 1) + 1 \in Position /\ Accounted(p, (p + 1) + 1, <<>>)
    BY <1>4, <2>3, TakesOne, OneMore DEF Foreign
  <2>. QED
    BY <2>1, <2>2, <2>4
<1>5. CASE /\ ~match("LBRACKET", p) /\ ~match("LBRACKET", p + 1)
           /\ HasSizePrefix(p) /\ Key(p + 1) = "ptr" /\ match("LBRACKET", p + 2)
  <2>1. IsBracket(p, p + 2)
    <3>1. \A q \in p .. (p + 2) - 1 : q = p \/ q = p + 1
      OBVIOUS
    <3>. QED
      BY <1>5, <3>1 DEF IsBracket
  <2>2. \A b \in p .. p + 2 : IsBracket(p, b) => b = p + 2
    <3>1. \A b \in p .. p + 2 : b = p \/ b = p + 1 \/ b = p + 2
      OBVIOUS
    <3>. QED
      BY <1>5, <3>1 DEF IsBracket
  <2>3. Accounted(p, p + 1, <<>>)
    BY <1>1, <1>5, TakesOne DEF Foreign
  <2>4. Accounted(p, (p + 1) + 1, <<>>)
    BY <1>2, <1>5, <2>3, OneMore DEF Foreign
  <2>5. (p + 2) + 1 \in Position /\ Accounted(p, (p + 2) + 1, <<>>)
    <3>1. PICK q \in Nat \ {0} : q = p + 2
      OBVIOUS
    <3>2. Accounted(p, q, <<>>) /\ match("LBRACKET", q)
      BY <1>5, <2>4, <3>1
    <3>3. q + 1 \in Position /\ Accounted(p, q + 1, <<>>)
      BY <3>2, TakesOne, OneMore DEF Foreign
    <3>. QED
      BY <3>1, <3>3
  <2>. QED
    BY <2>1, <2>2, <2>5
<1>. QED
  BY <1>3, <1>4, <1>5 DEF isMemoryOperand

\* The brackets of a memory operand, one after the other.
LEMMA CloseFacts ==
  ASSUME IsInput(tokens), NEW p \in Nat \ {0}, NEW q \in Nat, p <= q,
         Accounted(p, q, <<>>), NEW size \in OperandSize,
         NEW r \in Reading, r.node # NoNode, q <= r.at, Accounted(q, r.at, r.errors)
  PROVE  IsOperand(p, Close[[read |-> r, size |-> size]])
<1>. DEFINE combined == Combine(r.node.terms, size)
            closed == IF combined.ok /\ match("RBRACKET", r.at)
                        THEN [value |-> [kind |-> "MEM", mem |-> combined.mem], at |-> r.at + 1,
                              errors |-> r.errors]
                        ELSE [value |-> NoOperand, at |-> r.at,
                              errors |-> Append(r.errors, Place(r.at))]
<1>. SUFFICES ASSUME NEW o, o = Close[[read |-> r, size |-> size]]
              PROVE  IsOperand(p, o)
  OBVIOUS
<1>1. o = closed
  BY DEF Close, Bracketed
<1>2. IsCombined(combined)
  <2>1. r.node.terms \in Seq(SignedTerm)
    BY ReadingFacts DEF Node
  <2>. QED
    BY <2>1, CombineType
<1>. HIDE DEF combined
<1>3. r.at \in Position /\ r.at \in Nat \ {0} /\ r.errors \in Seq(1 .. Len(tokens))
  BY ReadingFacts
<1>4. Accounted(p, r.at, r.errors)
  <2>1. ToSet(<<>>) \subseteq ToSet(r.errors)
    BY DEF ToSet
  <2>. QED
    BY <1>3, <2>1, LengthFacts DEF Accounted
<1>5. CASE combined.ok /\ match("RBRACKET", r.at)
  <2>1. o.value = [kind |-> "MEM", mem |-> combined.mem] /\ o.at = r.at + 1 /\ o.errors = r.errors
    BY <1>1, <1>5
  <2>2. combined.mem \in MemoryOperand
    BY <1>2, <1>5 DEF IsCombined, Combined, MemoryOperand
  <2>3. o.value \in Operand
    BY <2>1, <2>2 DEF Operand
  <2>4. r.at + 1 \in Position /\ Accounted(p, r.at + 1, r.errors)
    BY <1>3, <1>4, <1>5, TakesOne, OneMore DEF Foreign
  <2>. QED
    BY <1>3, <2>1, <2>3, <2>4 DEF IsOperand, Sound
<1>6. CASE ~(combined.ok /\ match("RBRACKET", r.at))
  <2>1. o.value = Nothing /\ o.at = r.at /\ o.errors = Append(r.errors, Place(r.at))
    <3>1. closed = [value |-> NoOperand, at |-> r.at, errors |-> Append(r.errors, Place(r.at))]
      BY <1>6
    <3>. HIDE DEF closed
    <3>. QED
      BY <1>1, <3>1 DEF Nothing
  <2>2. Place(r.at) \in 1 .. Len(tokens)
    BY <1>3, LengthFacts
  <2>3. o.errors \in Seq(1 .. Len(tokens)) /\ ToSet(o.errors) = ToSet(r.errors) \cup {Place(r.at)}
    BY <1>3, <2>1, <2>2, ReportsAppend
  <2>4. Accounted(p, r.at, o.errors)
    BY <1>4, <2>3, MoreReports
  <2>. QED
    BY <1>3, <2>1, <2>3, <2>4 DEF IsOperand, Sound, Explained
<1>. QED
  BY <1>5, <1>6

LEMMA MemoryOperandFacts ==
  ASSUME IsInput(tokens), NEW p \in Nat \ {0}, isMemoryOperand(p)
  PROVE  IsOperand(p, parseMemoryOperand(p))
<1>. PICK size : size = IF HasSizePrefix(p) THEN SizePrefixMap[Key(p)] ELSE ANY
  OBVIOUS
<1>. PICK bracket : bracket = CHOOSE b \in p .. p + 2 : IsBracket(p, b)
  OBVIOUS
<1>1. size \in OperandSize
  BY DEF HasSizePrefix, SizePrefixMap, OperandSize, ANY
<1>2. bracket + 1 \in Position /\ p < bracket + 1 /\ bracket + 1 \in Nat
      /\ Accounted(p, bracket + 1, <<>>)
  <2>1. bracket \in p .. p + 2 /\ IsBracket(p, bracket)
    BY BracketFacts
  <2>. QED
    BY <2>1, BracketFacts
<1>. PICK begin : begin = [rbp |-> 0, node |-> NoNode, at |-> bracket + 1, errors |-> <<>>]
  OBVIOUS
<1>3. begin \in Reading
  BY <1>2 DEF Reading
<1>. PICK r : r = parseExpression[begin]
  OBVIOUS
<1>4. Read(begin, r)
  BY <1>3, ExpressionRead
<1>5. r \in Reading /\ r.node # NoNode /\ bracket + 1 <= r.at /\ Accounted(bracket + 1, r.at, r.errors)
  BY <1>4 DEF Read
<1>6. parseMemoryOperand(p) = Close[[read |-> r, size |-> size]]
  BY DEF parseMemoryOperand, ExpressionAt, IsBracket
<1>. QED
  BY <1>1, <1>2, <1>5, <1>6, CloseFacts

LEMMA FailFacts ==
  ASSUME IsInput(tokens), NEW p \in Nat \ {0}, NEW at \in Position, p <= at,
         Accounted(p, at, <<>>), NEW token \in Nat \ {0},
         token = at \/ (token + 1 = at /\ token <= Len(tokens))
  PROVE  Sound(p, Fail(at, token)) /\ Fail(at, token).value = Nothing /\ Explained(Fail(at, token))
<1>1. Place(token) \in 1 .. Len(tokens)
  BY LengthFacts
<1>. PICK o : o = Fail(at, token)
  OBVIOUS
<1>2. o.value = Nothing /\ o.at = at /\ o.errors = <<Place(token)>>
  BY DEF Fail
<1>3. o.errors \in Seq(1 .. Len(tokens)) /\ ToSet(o.errors) = {Place(token)}
  BY <1>1, <1>2, FewReports
<1>4. Accounted(p, at, o.errors)
  BY DEF Accounted, ToSet
<1>5. Explained(o)
  <2>1. CASE token = at
    BY <1>2, <1>3, <2>1 DEF Explained
  <2>2. CASE token + 1 = at /\ token <= Len(tokens)
    <3>1. Place(token) = token
      BY <2>2, LengthFacts
    <3>2. at - 1 = token /\ at > 1
      BY <2>2
    <3>. QED
      BY <1>2, <1>3, <3>1, <3>2 DEF Explained
  <2>. QED
    BY <2>1, <2>2
<1>. QED
  BY <1>2, <1>3, <1>4, <1>5 DEF Sound

LEMMA AcceptFacts ==
  ASSUME NEW p, NEW at \in Position, p <= at, Accounted(p, at, <<>>), NEW value
  PROVE  /\ Sound(p, Accept(value, at)) /\ Accept(value, at).value = value
         /\ Accept(value, at).at = at
BY DEF Sound, Accept

\* parseOperand, whichever operand it finds.
LEMMA OperandFacts ==
  ASSUME IsInput(tokens), NEW p \in Position
  PROVE  IsOperand(p, parseOperand(p))
<1>. p \in Nat \ {0}
  BY PositionFacts
<1>1. CASE tokenIsRegister(p)
  <2>1. match("IDENTIFIER", p)
    BY <1>1, KeyFacts, KeywordFacts DEF tokenIsRegister
  <2>2. p + 1 \in Position /\ Accounted(p, p + 1, <<>>)
    BY <2>1, TakesOne DEF Foreign
  <2>. PICK value : value = [kind |-> "REG", reg |-> Key(p), size |-> RegisterTable[Key(p)]]
    OBVIOUS
  <2>3. RegisterTable[Key(p)] \in OperandSize
    BY <1>1 DEF tokenIsRegister, Register, RegisterTable, OperandSize, ANY
  <2>4. value \in Operand
    BY <1>1, <2>3 DEF tokenIsRegister, Operand
  <2>5. parseOperand(p) = Accept(value, p + 1)
    BY <1>1 DEF parseOperand
  <2>. QED
    BY <2>2, <2>4, <2>5, AcceptFacts DEF IsOperand
<1>2. CASE ~tokenIsRegister(p) /\ isMemoryOperand(p)
  BY <1>2, MemoryOperandFacts DEF parseOperand
<1>3. CASE ~tokenIsRegister(p) /\ ~isMemoryOperand(p) /\ Identifier(p)
  <2>1. p + 1 \in Position /\ Accounted(p, p + 1, <<>>)
    BY <1>3, TakesOne DEF Identifier, Foreign
  <2>. PICK value : value = [kind |-> "LABEL", label |-> Key(p)]
    OBVIOUS
  <2>2. value \in Operand
    BY <1>3, KeyFacts DEF Identifier, Operand
  <2>3. parseOperand(p) = Accept(value, p + 1)
    BY <1>3 DEF parseOperand
  <2>. QED
    BY <2>1, <2>2, <2>3, AcceptFacts DEF IsOperand
<1>4. CASE ~tokenIsRegister(p) /\ ~isMemoryOperand(p) /\ ~Identifier(p) /\ isImmediate(p)
  <2>. PICK value : value = [kind |-> "IMM", imm |-> SignedInteger(p).value]
    OBVIOUS
  <2>1. /\ SignedInteger(p).value \in Int /\ SignedInteger(p).at \in Position
        /\ p <= SignedInteger(p).at /\ Accounted(p, SignedInteger(p).at, <<>>)
    <3>1. /\ SignedInteger(p).value \in Int /\ SignedInteger(p).at \in Position
          /\ p < SignedInteger(p).at /\ Accounted(p, SignedInteger(p).at, <<>>)
      BY <1>4, ImmediateFacts
    <3>2. SignedInteger(p).at \in Nat
      BY <3>1, PositionFacts
    <3>. QED
      BY <3>1, <3>2
  <2>2. value \in Operand
    BY <2>1 DEF Operand
  <2>3. PICK at \in Position : at = SignedInteger(p).at
    BY <2>1
  <2>4. parseOperand(p) = Accept(value, at)
    BY <1>4, <2>3 DEF parseOperand
  <2>. QED
    BY <2>1, <2>2, <2>3, <2>4, AcceptFacts DEF IsOperand
<1>5. CASE ~tokenIsRegister(p) /\ ~isMemoryOperand(p) /\ ~Identifier(p) /\ ~isImmediate(p)
  <2>1. parseOperand(p) = Fail(p, p)
    BY <1>5 DEF parseOperand
  <2>. QED
    BY <2>1, NothingYet, FailFacts DEF IsOperand
<1>. QED
  BY <1>1, <1>2, <1>3, <1>4, <1>5

-----------------------------------------------------------------------------
(* Lists of operands *)

OperandList ==
  [ok : BOOLEAN, operands : Seq(Operand \cup {Nothing}), at : Position,
   errors : Seq(1 .. Len(tokens))]

IsOperandList(p, list) ==
  /\ list \in OperandList /\ p <= list.at
  /\ Accounted(p, list.at, list.errors)
  /\ IF list.ok THEN list.operands \in Seq(Operand) ELSE Explained(list)

\* The definition of Operands.
OperandsFrom(f, p) ==
  LET operand == parseOperand(p) IN
  IF match("NEWLINE", p) THEN [ok |-> TRUE, operands |-> <<>>, at |-> p, errors |-> <<>>]
  ELSE IF operand.value = Nothing THEN End(operand, FALSE)
  ELSE IF match("NEWLINE", operand.at) THEN End(operand, TRUE)
  ELSE IF ~match("COMMA", operand.at)
    THEN [End(operand, FALSE) EXCEPT !.errors = Append(@, Place(operand.at))]
  ELSE [f[operand.at + 1] EXCEPT !.operands = <<operand.value>> \o @,
                                 !.errors = operand.errors \o @]

LEMMA EndOfListFacts ==
  ASSUME IsInput(tokens), NEW p \in Position, NEW operand, IsOperand(p, operand)
  PROVE  /\ operand.value = Nothing => IsOperandList(p, End(operand, FALSE))
         /\ operand.value # Nothing => IsOperandList(p, End(operand, TRUE))
         /\ IsOperandList(p, [End(operand, FALSE) EXCEPT !.errors = Append(@, Place(operand.at))])
<1>1. /\ operand.at \in Position /\ p <= operand.at
      /\ operand.errors \in Seq(1 .. Len(tokens)) /\ Accounted(p, operand.at, operand.errors)
      /\ operand.value \in Operand \/ (operand.value = Nothing /\ Explained(operand))
  BY DEF IsOperand, Sound
<1>. PICK value, at, reports :
       value = operand.value /\ at = operand.at /\ reports = operand.errors
  OBVIOUS
<1>2. <<value>> \in Seq(Operand \cup {Nothing}) /\ (value # Nothing => <<value>> \in Seq(Operand))
  BY <1>1
<1>3. PICK failed : failed = [ok |-> FALSE, operands |-> <<value>>, at |-> at, errors |-> reports]
  OBVIOUS
<1>4. PICK ended : ended = [ok |-> TRUE, operands |-> <<value>>, at |-> at, errors |-> reports]
  OBVIOUS
<1>5. End(operand, FALSE) = failed /\ End(operand, TRUE) = ended
  BY <1>3, <1>4 DEF End
<1>6. value = Nothing => IsOperandList(p, failed)
  BY <1>1, <1>2, <1>3, NothingIsNone DEF IsOperandList, OperandList, Explained
<1>7. value # Nothing => IsOperandList(p, ended)
  BY <1>1, <1>2, <1>4 DEF IsOperandList, OperandList
<1>8. IsOperandList(p, [failed EXCEPT !.errors = Append(@, Place(at))])
  <2>1. at \in Nat \ {0} /\ Place(at) \in 1 .. Len(tokens)
    BY <1>1, PositionFacts, LengthFacts
  <2>. PICK more \in Seq(1 .. Len(tokens)) :
         more = Append(reports, Place(at)) /\ ToSet(more) = ToSet(reports) \cup {Place(at)}
    <3>1. reports \in Seq(1 .. Len(tokens))
      BY <1>1
    <3>2. /\ Append(reports, Place(at)) \in Seq(1 .. Len(tokens))
          /\ ToSet(Append(reports, Place(at))) = ToSet(reports) \cup {Place(at)}
      BY <2>1, <3>1, ReportsAppend
    <3>. QED
      BY <3>2
  <2>2. PICK list : list = [failed EXCEPT !.errors = more]
    OBVIOUS
  <2>3. list = [ok |-> FALSE, operands |-> <<value>>, at |-> at, errors |-> more]
    BY <1>3, <2>2
  <2>4. Accounted(p, at, more)
    BY <1>1, MoreReports
  <2>5. Explained(list)
    BY <2>3 DEF Explained
  <2>6. list \in OperandList
    BY <1>1, <1>2, <2>3 DEF OperandList
  <2>7. IsOperandList(p, list)
    BY <1>1, <2>3, <2>4, <2>5, <2>6 DEF IsOperandList
  <2>. QED
    BY <1>3, <2>2, <2>7
<1>. QED
  BY <1>5, <1>6, <1>7, <1>8

LEMMA MoreOperandsFacts ==
  ASSUME IsInput(tokens), NEW p \in Position, NEW operand, IsOperand(p, operand),
         operand.value # Nothing, match("COMMA", operand.at),
         NEW rest, IsOperandList(operand.at + 1, rest), NEW list,
         list = [rest EXCEPT !.operands = <<operand.value>> \o @, !.errors = operand.errors \o @]
  PROVE  IsOperandList(p, list)
<1>1. /\ operand.at \in Position /\ p <= operand.at
      /\ operand.errors \in Seq(1 .. Len(tokens)) /\ Accounted(p, operand.at, operand.errors)
      /\ operand.value \in Operand
  BY DEF IsOperand, Sound
<1>2. /\ rest = [ok |-> rest.ok, operands |-> rest.operands, at |-> rest.at, errors |-> rest.errors]
      /\ rest.ok \in BOOLEAN /\ rest.at \in Position /\ rest.errors \in Seq(1 .. Len(tokens))
      /\ rest.operands \in Seq(Operand \cup {Nothing})
      /\ operand.at + 1 <= rest.at /\ Accounted(operand.at + 1, rest.at, rest.errors)
      /\ rest.ok => rest.operands \in Seq(Operand)
      /\ ~rest.ok => Explained(rest)
  BY DEF IsOperandList, OperandList
<1>. PICK reports \in Seq(1 .. Len(tokens)) :
       /\ reports = operand.errors \o rest.errors
       /\ ToSet(reports) = ToSet(operand.errors) \cup ToSet(rest.errors)
  <2>1. PICK a, b \in Seq(1 .. Len(tokens)) : a = operand.errors /\ b = rest.errors
    BY <1>1, <1>2
  <2>2. a \o b \in Seq(1 .. Len(tokens)) /\ ToSet(a \o b) = ToSet(a) \cup ToSet(b)
    BY ReportsJoin
  <2>. QED
    BY <2>1, <2>2
<1>3. PICK operands \in Seq(Operand \cup {Nothing}) :
        /\ operands = <<operand.value>> \o rest.operands
        /\ rest.ok => operands \in Seq(Operand)
  <2>1. <<operand.value>> \in Seq(Operand) /\ <<operand.value>> \in Seq(Operand \cup {Nothing})
    BY <1>1
  <2>2. \A S : \A s, t \in Seq(S) : s \o t \in Seq(S)
    OBVIOUS
  <2>. QED
    BY <1>2, <2>1, <2>2
<1>4. list = [ok |-> rest.ok, operands |-> operands, at |-> rest.at, errors |-> reports]
  BY <1>2, <1>3
<1>5. operand.at \in Nat \ {0} /\ p \in Nat \ {0} /\ rest.at \in Nat
  BY <1>1, <1>2, PositionFacts
<1>6. Accounted(p, operand.at + 1, operand.errors)
  BY <1>1, <1>5, OneMore DEF Foreign
<1>7. Accounted(p, rest.at, reports)
  BY <1>2, <1>5, <1>6, LengthFacts DEF Accounted
<1>8. p <= rest.at
  BY <1>1, <1>2, <1>5
<1>9. Explained(rest) => Explained(list)
  BY <1>4 DEF Explained
<1>10. list \in OperandList
  <2>1. [ok |-> rest.ok, operands |-> operands, at |-> rest.at, errors |-> reports] \in OperandList
    BY <1>2 DEF OperandList
  <2>. QED
    BY <1>4, <2>1
<1>. QED
  BY <1>2, <1>3, <1>4, <1>7, <1>8, <1>9, <1>10 DEF IsOperandList

LEMMA OperandsFromFacts ==
  ASSUME IsInput(tokens), NEW p \in Position, NEW f,
         \A q \in Position : p < q => IsOperandList(q, f[q])
  PROVE  IsOperandList(p, OperandsFrom(f, p))
<1>. p \in Nat \ {0}
  BY PositionFacts
<1>. PICK operand : operand = parseOperand(p) /\ IsOperand(p, operand)
  BY OperandFacts
<1>1. CASE match("NEWLINE", p)
  <2>1. OperandsFrom(f, p) = [ok |-> TRUE, operands |-> <<>>, at |-> p, errors |-> <<>>]
    BY <1>1 DEF OperandsFrom
  <2>. QED
    BY <2>1, NothingYet DEF IsOperandList, OperandList
<1>2. CASE ~match("NEWLINE", p) /\ operand.value = Nothing
  BY <1>2, EndOfListFacts DEF OperandsFrom
<1>3. CASE ~match("NEWLINE", p) /\ operand.value # Nothing /\ match("NEWLINE", operand.at)
  BY <1>3, EndOfListFacts DEF OperandsFrom
<1>4. CASE /\ ~match("NEWLINE", p) /\ operand.value # Nothing /\ ~match("NEWLINE", operand.at)
           /\ ~match("COMMA", operand.at)
  BY <1>4, EndOfListFacts DEF OperandsFrom
<1>5. CASE /\ ~match("NEWLINE", p) /\ operand.value # Nothing /\ ~match("NEWLINE", operand.at)
           /\ match("COMMA", operand.at)
  <2>1. operand.at \in Nat \ {0} /\ p <= operand.at
    BY PositionFacts DEF IsOperand, Sound
  <2>2. PICK at \in Nat \ {0} : at = operand.at /\ p <= at
    BY <2>1
  <2>3. at + 1 \in Position /\ p < at + 1
    <3>1. match("COMMA", at)
      BY <1>5, <2>2
    <3>2. at + 1 \in Position
      BY <3>1, TakesOne DEF Foreign
    <3>. QED
      BY <2>2, <3>2
  <2>4. PICK rest : rest = f[operand.at + 1]
    OBVIOUS
  <2>5. IsOperandList(operand.at + 1, rest)
    BY <2>2, <2>3, <2>4
  <2>6. PICK list : list = [rest EXCEPT !.operands = <<operand.value>> \o @,
                                        !.errors = operand.errors \o @]
    OBVIOUS
  <2>7. OperandsFrom(f, p) = list
    BY <1>5, <2>4, <2>6 DEF OperandsFrom
  <2>. QED
    BY <1>5, <2>5, <2>6, <2>7, MoreOperandsFacts
<1>. QED
  BY <1>1, <1>2, <1>3, <1>4, <1>5

\* The loop over the operands is well-defined, and accounts for what it reads.
LEMMA OperandsFacts ==
  ASSUME IsInput(tokens)
  PROVE  \A p \in Position : IsOperandList(p, Operands[p])
<1>. DEFINE rank == [p \in Position |-> Len(tokens) + 1 - p]
            Candidates ==
              {f \in [Position -> OperandList] : \A p \in Position : IsOperandList(p, f[p])}
            Step == [f \in Candidates |-> [p \in Position |-> OperandsFrom(f, p)]]
<1>1. rank \in [Position -> 0 .. Len(tokens)]
  BY PositionFacts
<1>2. ASSUME NEW p \in Position, NEW q \in Position, p < q PROVE rank[q] < rank[p]
  BY <1>2, PositionFacts
<1>3. ASSUME NEW f \in Candidates PROVE [p \in Position |-> OperandsFrom(f, p)] \in Candidates
  BY OperandsFromFacts DEF IsOperandList
<1>4. ASSUME NEW f, NEW h, NEW p \in Position,
             \A q \in Position : rank[q] < rank[p] => h[q] = f[q]
      PROVE  OperandsFrom(h, p) = OperandsFrom(f, p)
  <2>. PICK operand : operand = parseOperand(p) /\ IsOperand(p, operand)
    BY OperandFacts
  <2>1. CASE match("COMMA", operand.at)
    <3>1. operand.at \in Nat \ {0} /\ p \in Nat /\ p <= operand.at
      BY PositionFacts DEF IsOperand, Sound
    <3>2. operand.at + 1 \in Position /\ p < operand.at + 1
      <4>1. PICK at \in Nat \ {0} : at = operand.at /\ p <= at
        BY <3>1
      <4>2. match("COMMA", at)
        BY <2>1, <4>1
      <4>3. at + 1 \in Position
        BY <4>2, TakesOne DEF Foreign
      <4>. QED
        BY <3>1, <4>1, <4>3
    <3>3. h[operand.at + 1] = f[operand.at + 1]
      BY <1>2, <1>4, <3>2
    <3>. QED
      BY <2>1, <3>3 DEF OperandsFrom
  <2>2. CASE ~match("COMMA", operand.at)
    BY <2>2 DEF OperandsFrom
  <2>. QED
    BY <2>1, <2>2
<1>5. Candidates # {}
  <2>. DEFINE Empty(p) == [ok |-> TRUE, operands |-> <<>>, at |-> p, errors |-> <<>>]
  <2>1. ASSUME NEW p \in Position PROVE IsOperandList(p, Empty(p))
    BY NothingYet, PositionFacts DEF IsOperandList, OperandList
  <2>2. [p \in Position |-> Empty(p)] \in Candidates
    <3>. HIDE DEF Empty
    <3>. QED
      BY <2>1 DEF IsOperandList
  <2>. QED
    BY <2>2
<1>6. PICK f \in Candidates : f = [p \in Position |-> OperandsFrom(f, p)]
  <2>1. Candidates \in SUBSET [Position -> OperandList]
    OBVIOUS
  <2>2. Step \in [Candidates -> Candidates]
    BY <1>3
  <2>3. \A g, h \in Candidates : \A p \in Position :
          (\A q \in Position : rank[q] < rank[p] => h[q] = g[q]) => Step[h][p] = Step[g][p]
    BY <1>4
  <2>. HIDE DEF rank, Candidates, Step
  <2>4. IsRecursion(Position, rank, Len(tokens), OperandList, Candidates, Step)
    BY <1>1, <1>5, <2>1, <2>2, <2>3, LengthFacts DEF IsRecursion
  <2>5. \E g \in Candidates : g = Step[g]
    BY <2>4, FixedPoint
  <2>. QED
    BY <2>5 DEF Step
<1>7. Operands = [p \in Position |-> OperandsFrom(Operands, p)]
  BY <1>6 DEF Operands, OperandsFrom
<1>8. \A p \in Position : Operands[p] = f[p]
  <2>1. ASSUME NEW p \in Position, \A q \in Position : rank[q] < rank[p] => Operands[q] = f[q]
        PROVE  Operands[p] = f[p]
    BY <1>4, <1>6, <1>7, <2>1
  <2>2. Follows(Position, rank, f, Operands)
    BY <1>1, <2>1 DEF Follows
  <2>. HIDE DEF rank
  <2>. QED
    BY <2>2, OneSolution
<1>. QED
  BY <1>8

LEMMA Taken ==
  ASSUME IsInput(tokens), NEW p \in Nat \ {0}, NEW d \in Nat \ {0}, p <= d,
         Accounted(p, d, <<>>), NEW type, type \notin Foreign, match(type, d)
  PROVE  /\ d + 1 \in Position /\ d + 1 \in Nat \ {0} /\ p < d + 1 /\ d <= Len(tokens)
         /\ p <= d + 1
         /\ Accounted(p, d + 1, <<>>)
<1>1. d + 1 \in Position
  BY TakesOne
<1>2. Accounted(p, d + 1, <<>>)
  BY OneMore
<1>3. d + 1 <= Len(tokens) + 1 /\ Len(tokens) \in Nat
  BY <1>1, LengthFacts DEF Position
<1>. QED
  BY <1>1, <1>2, <1>3

LEMMA FirstTaken ==
  ASSUME IsInput(tokens), NEW p \in Nat \ {0}, NEW type, type \notin Foreign, match(type, p)
  PROVE  /\ p + 1 \in Position /\ p + 1 \in Nat \ {0} /\ p < p + 1 /\ p <= p + 1
         /\ Accounted(p, p + 1, <<>>)
<1>1. p + 1 \in Position /\ Accounted(p, p + 1, <<>>)
  BY TakesOne
<1>2. p + 1 \in Nat \ {0} /\ p < p + 1 /\ p <= p + 1
  OBVIOUS
<1>. QED
  BY <1>1, <1>2

-----------------------------------------------------------------------------
(* Statements *)

IsAligned(statement) ==
  statement.kind = "DATA" /\ statement.dir = "ALIGN" => statement.count > 0

\* What the parser of a statement that begins at p returns.
IsOutcome(p, o) ==
  /\ Sound(p, o)
  /\ p < o.at
  /\ \/ o.value \in ParsedStatement /\ IsAligned(o.value)
     \/ o.value = Nothing /\ Explained(o)

LEMMA FailedOutcome ==
  ASSUME IsInput(tokens), NEW p \in Nat \ {0}, NEW at \in Position, p < at,
         Accounted(p, at, <<>>), NEW token \in Nat \ {0},
         token = at \/ (token + 1 = at /\ token <= Len(tokens))
  PROVE  IsOutcome(p, Fail(at, token))
<1>1. p <= at
  BY PositionFacts
<1>2. Fail(at, token).at = at
  BY DEF Fail
<1>. QED
  BY <1>1, <1>2, FailFacts DEF IsOutcome

LEMMA AcceptedOutcome ==
  ASSUME IsInput(tokens), NEW p \in Nat \ {0}, NEW at \in Position, p < at,
         Accounted(p, at, <<>>), NEW value \in ParsedStatement, IsAligned(value)
  PROVE  IsOutcome(p, Accept(value, at))
<1>1. p <= at
  BY PositionFacts
<1>. QED
  BY <1>1, AcceptFacts DEF IsOutcome

LEMMA StatementKinds ==
  /\ \A label \in OptionalName, count, nums, chars \in Nat :
       \A dir \in DefineKind \cup ReserveKind \cup {"ALIGN"} :
         [kind |-> "DATA", label |-> label, dir |-> dir, nums |-> nums, chars |-> chars,
          count |-> count] \in ParsedStatement
  /\ \A type \in SectionType : [kind |-> "SECTION", type |-> type] \in ParsedStatement
  /\ \A name \in Name, value \in Int :
       [kind |-> "EQU", name |-> name, value |-> value] \in ParsedStatement
  /\ \A name \in Name : [kind |-> "GLOBAL", name |-> name] \in ParsedStatement
  /\ \A name \in Name : [kind |-> "LABEL", label |-> name] \in ParsedStatement
  /\ \A opcode \in Opcode, operands \in Seq(Operand) :
       [kind |-> "INSTR", opcode |-> opcode, operands |-> operands] \in ParsedStatement
<1>1. \A label \in OptionalName, count, nums, chars \in Nat :
        \A dir \in DefineKind \cup ReserveKind \cup {"ALIGN"} :
          [kind |-> "DATA", label |-> label, dir |-> dir, nums |-> nums, chars |-> chars,
           count |-> count] \in DataDirective
  BY DEF DataDirective
<1>2. \A type \in SectionType : [kind |-> "SECTION", type |-> type] \in SectionDirective
  BY DEF SectionDirective
<1>3. \A name \in Name, value \in Int :
        [kind |-> "EQU", name |-> name, value |-> value] \in EquDirective
  BY DEF EquDirective
<1>4. \A name \in Name : [kind |-> "GLOBAL", name |-> name] \in GlobalDirective
  BY DEF GlobalDirective
<1>5. \A name \in Name : [kind |-> "LABEL", label |-> name] \in Label
  BY DEF Label
<1>6. \A opcode \in Opcode, operands \in Seq(Operand) :
        [kind |-> "INSTR", opcode |-> opcode, operands |-> operands] \in ParsedInstruction
  BY DEF ParsedInstruction
<1>7. /\ DataDirective \cap Instruction = {} /\ SectionDirective \cap Instruction = {}
      /\ EquDirective \cap Instruction = {} /\ GlobalDirective \cap Instruction = {}
      /\ Label \cap Instruction = {}
  BY DEF DataDirective, SectionDirective, EquDirective, GlobalDirective, Label, Instruction
<1>8. /\ DataDirective \subseteq ParsedStatement /\ SectionDirective \subseteq ParsedStatement
      /\ EquDirective \subseteq ParsedStatement /\ GlobalDirective \subseteq ParsedStatement
      /\ Label \subseteq ParsedStatement /\ ParsedInstruction \subseteq ParsedStatement
  BY <1>7 DEF ParsedStatement, Statement, Item
<1>. QED
  BY <1>1, <1>2, <1>3, <1>4, <1>5, <1>6, <1>8

\* parseDirective(), for what follows times as well.
LEMMA DirectiveFacts ==
  ASSUME IsInput(tokens), NEW p \in Nat \ {0}, NEW d \in Nat \ {0}, p <= d,
         Accounted(p, d, <<>>), tokenIsDataDirective(d),
         NEW label \in OptionalName, NEW count \in Nat, NEW out,
         out = [kind |-> "DATA", label |-> label, dir |-> DataDirectiveTable[Key(d)],
                nums |-> 0, chars |-> 0, count |-> count]
  PROVE  /\ out.dir \in DefineKind => IsOutcome(p, ParseValues(out, d))
         /\ out.dir \notin DefineKind => IsOutcome(p, ParseCount(out, d))
<1>. PICK dir : dir = DataDirectiveTable[Key(d)]
  OBVIOUS
<1>1. dir \in DefineKind \cup ReserveKind \cup {"ALIGN"}
  BY DEF tokenIsDataDirective, DataDirectiveTable, DefineKind, ReserveKind
<1>2. match("IDENTIFIER", d)
  BY KeyFacts, KeywordFacts DEF tokenIsDataDirective
<1>3. d + 1 \in Position /\ d + 1 \in Nat \ {0} /\ Accounted(p, d + 1, <<>>) /\ p < d + 1
  BY <1>2, Taken DEF Foreign
<1>4. ASSUME out.dir \in DefineKind PROVE IsOutcome(p, ParseValues(out, d))
  <2>1. CASE ~BeginsValue(d + 1)
    <3>1. ParseValues(out, d) = Fail(d + 1, d + 1)
      BY <2>1 DEF ParseValues
    <3>. QED
      BY <1>3, <3>1, FailedOutcome
  <2>2. CASE BeginsValue(d + 1)
    <3>. PICK list : list = Values[d + 1]
      OBVIOUS
    <3>1. list \in ValueList /\ d + 1 <= list.at /\ Accounted(d + 1, list.at, <<>>)
      BY <1>3, ValuesFacts DEF IsValueList
    <3>2. list.at \in Position /\ list.at \in Nat /\ list.nums \in Nat /\ list.chars \in Nat
      BY <3>1, PositionFacts DEF ValueList
    <3>3. Accounted(p, list.at, <<>>) /\ p < list.at
      BY <1>3, <3>1, <3>2, LengthFacts DEF Accounted
    <3>. PICK value : value = [out EXCEPT !.nums = list.nums, !.chars = list.chars]
      OBVIOUS
    <3>4. value = [kind |-> "DATA", label |-> label, dir |-> dir, nums |-> list.nums,
                   chars |-> list.chars, count |-> count]
      OBVIOUS
    <3>5. value \in ParsedStatement
      <4>1. [kind |-> "DATA", label |-> label, dir |-> dir, nums |-> list.nums,
             chars |-> list.chars, count |-> count] \in ParsedStatement
        BY <1>1, <3>2, StatementKinds
      <4>. QED
        BY <3>4, <4>1
    <3>6. IsAligned(value)
      BY <1>4, <3>4 DEF IsAligned, DefineKind
    <3>7. ParseValues(out, d) = Accept(value, list.at)
      BY <2>2 DEF ParseValues
    <3>. QED
      BY <3>2, <3>3, <3>5, <3>6, <3>7, AcceptedOutcome
  <2>. QED
    BY <2>1, <2>2
<1>5. ASSUME out.dir \notin DefineKind PROVE IsOutcome(p, ParseCount(out, d))
  <2>. PICK number : number = peek(d + 1)
    OBVIOUS
  <2>1. CASE number.type # "NUMBER"
    <3>1. ParseCount(out, d) = Fail(d + 1, d + 1)
      BY <2>1 DEF ParseCount
    <3>. QED
      BY <1>3, <3>1, FailedOutcome
  <2>2. CASE number.type = "NUMBER"
    <3>. PICK e \in Nat \ {0} : e = d + 1
      OBVIOUS
    <3>1. match("NUMBER", e)
      BY <2>2 DEF match
    <3>2. e + 1 \in Position /\ Accounted(p, e + 1, <<>>) /\ e <= Len(tokens)
      <4>1. p <= e /\ Accounted(p, e, <<>>)
        BY <1>3
      <4>. QED
        BY <3>1, <4>1, Taken DEF Foreign
    <3>3. p < e + 1 /\ e + 1 = d + 2
      BY <1>3
    <3>4. number.value \in Nat
      BY <1>3, PeekType DEF Token
    <3>5. CASE out.dir = "ALIGN" /\ number.value <= 0
      <4>1. ParseCount(out, d) = Fail(e + 1, e)
        BY <2>2, <3>3, <3>5 DEF ParseCount
      <4>. QED
        BY <3>2, <3>3, <4>1, FailedOutcome
    <3>6. CASE ~(out.dir = "ALIGN" /\ number.value <= 0)
      <4>. PICK value : value = [out EXCEPT !.count = number.value]
        OBVIOUS
      <4>1. value = [kind |-> "DATA", label |-> label, dir |-> dir, nums |-> 0, chars |-> 0,
                     count |-> number.value]
        OBVIOUS
      <4>2. value \in ParsedStatement
        BY <1>1, <3>4, <4>1, StatementKinds
      <4>3. IsAligned(value)
        BY <3>4, <3>6, <4>1 DEF IsAligned
      <4>4. ParseCount(out, d) = Accept(value, e + 1)
        BY <2>2, <3>3, <3>6 DEF ParseCount
      <4>. QED
        BY <3>2, <3>3, <4>2, <4>3, <4>4, AcceptedOutcome
    <3>. QED
      BY <3>5, <3>6
  <2>. QED
    BY <2>1, <2>2
<1>. QED
  BY <1>4, <1>5

\* One lemma for every parser of a statement.
LEMMA DataFacts ==
  ASSUME IsInput(tokens), NEW p \in Nat \ {0}, isDataDirective(p)
  PROVE  IsOutcome(p, parseDataDirective(p))
<1>. DEFINE Labelled == Identifier(p) /\ BeginsData(p + 1)
            Repeated(t) == Key(t) = "times"
<1>1. PICK t : /\ Labelled => t = p + 1
               /\ ~Labelled => t = p
               /\ t = IF Labelled THEN p + 1 ELSE p
  OBVIOUS
<1>2. PICK d : /\ Repeated(t) => d = t + 2
               /\ ~Repeated(t) => d = t
               /\ d = IF Repeated(t) THEN t + 2 ELSE t
  OBVIOUS
<1>3. PICK label \in OptionalName : label = IF Labelled THEN Key(p) ELSE NoName
  BY KeyFacts DEF OptionalName
<1>4. t \in Nat \ {0} /\ p <= t /\ Accounted(p, t, <<>>) /\ BeginsData(t)
  <2>1. CASE Labelled
    BY <1>1, <2>1, FirstTaken DEF Identifier, Foreign
  <2>2. CASE ~Labelled
    <3>1. t = p /\ BeginsData(p)
      BY <1>1, <2>2 DEF isDataDirective
    <3>. QED
      BY <3>1, NothingYet
  <2>. QED
    BY <2>1, <2>2
<1>5. match("IDENTIFIER", t)
  BY <1>4, KeyFacts, KeywordFacts DEF BeginsData, tokenIsDataDirective
<1>6. PICK e \in Nat \ {0} : /\ e = t + 1 /\ e \in Position /\ p < e /\ p <= e
                             /\ Accounted(p, e, <<>>) /\ e + 1 = t + 2
  <2>1. t + 1 \in Position /\ t + 1 \in Nat \ {0} /\ p < t + 1 /\ p <= t + 1
        /\ Accounted(p, t + 1, <<>>)
    BY <1>4, <1>5, Taken DEF Foreign
  <2>. QED
    BY <1>4, <2>1
<1>7. PICK count \in Nat : count = IF Repeated(t) THEN peek(e).value ELSE 1
  BY PeekType DEF Token
<1>8. PICK out :
        out = [kind |-> "DATA", label |-> label, dir |-> DataDirectiveTable[Key(d)],
               nums |-> 0, chars |-> 0, count |-> count]
  OBVIOUS
<1>9. parseDataDirective(p) =
        IF Repeated(t) /\ ~match("NUMBER", e) THEN Fail(e, e)
        ELSE IF Repeated(t) /\ peek(e).value <= 0 THEN Fail(t + 2, e)
        ELSE IF ~Identifier(d) THEN Fail(d, d)
        ELSE IF ~tokenIsDataDirective(d) THEN Fail(d + 1, d)
        ELSE IF out.dir \in DefineKind THEN ParseValues(out, d)
        ELSE ParseCount(out, d)
  BY <1>1, <1>2, <1>3, <1>6, <1>7, <1>8 DEF parseDataDirective
<1>10. CASE Repeated(t) /\ ~match("NUMBER", e)
  BY <1>6, <1>9, <1>10, FailedOutcome
<1>11. CASE Repeated(t) => match("NUMBER", e)
  <2>1. /\ d \in Nat \ {0} /\ p <= d /\ Accounted(p, d, <<>>)
        /\ Repeated(t) => d \in Position /\ p < d /\ e <= Len(tokens) /\ d = e + 1
    <3>1. CASE ~Repeated(t)
      BY <1>2, <1>4, <3>1
    <3>2. CASE Repeated(t)
      <4>1. match("NUMBER", e)
        BY <1>11, <3>2
      <4>2. /\ e + 1 \in Position /\ e + 1 \in Nat \ {0} /\ p < e + 1 /\ p <= e + 1
            /\ e <= Len(tokens) /\ Accounted(p, e + 1, <<>>)
        BY <1>6, <4>1, Taken DEF Foreign
      <4>3. d = e + 1
        BY <1>2, <1>6, <3>2
      <4>. QED
        BY <4>2, <4>3
    <3>. QED
      BY <3>1, <3>2
  <2>2. CASE Repeated(t) /\ peek(e).value <= 0
    <3>1. parseDataDirective(p) = Fail(d, e)
      BY <1>2, <1>9, <1>11, <2>2
    <3>2. d \in Position /\ p < d /\ Accounted(p, d, <<>>) /\ e + 1 = d /\ e <= Len(tokens)
      BY <2>1, <2>2
    <3>. QED
      BY <3>1, <3>2, FailedOutcome
  <2>3. CASE ~(Repeated(t) /\ peek(e).value <= 0) /\ ~Identifier(d)
    <3>1. Repeated(t)
      BY <1>2, <1>5, <2>3 DEF Identifier
    <3>2. parseDataDirective(p) = Fail(d, d)
      BY <1>9, <1>11, <2>3
    <3>. QED
      BY <2>1, <3>1, <3>2, FailedOutcome
  <2>4. CASE /\ ~(Repeated(t) /\ peek(e).value <= 0) /\ Identifier(d)
             /\ ~tokenIsDataDirective(d)
    <3>1. parseDataDirective(p) = Fail(d + 1, d)
      BY <1>9, <1>11, <2>4
    <3>2. d + 1 \in Position /\ p < d + 1 /\ d <= Len(tokens) /\ Accounted(p, d + 1, <<>>)
      BY <2>1, <2>4, Taken DEF Identifier, Foreign
    <3>. QED
      BY <2>1, <3>1, <3>2, FailedOutcome
  <2>5. CASE /\ ~(Repeated(t) /\ peek(e).value <= 0) /\ Identifier(d)
             /\ tokenIsDataDirective(d)
    <3>1. parseDataDirective(p) = IF out.dir \in DefineKind THEN ParseValues(out, d)
                                  ELSE ParseCount(out, d)
      BY <1>9, <1>11, <2>5
    <3>2. /\ out.dir \in DefineKind => IsOutcome(p, ParseValues(out, d))
          /\ out.dir \notin DefineKind => IsOutcome(p, ParseCount(out, d))
      BY <1>8, <2>1, <2>5, DirectiveFacts
    <3>. QED
      BY <3>1, <3>2
  <2>. QED
    BY <2>2, <2>3, <2>4, <2>5
<1>. QED
  BY <1>10, <1>11

LEMMA SectionFacts ==
  ASSUME IsInput(tokens), NEW p \in Nat \ {0}, isSectionDirective(p)
  PROVE  IsOutcome(p, parseSectionDirective(p))
<1>0. PICK n : /\ match("DOT", p + 1) => n = p + 2
               /\ ~match("DOT", p + 1) => n = p + 1
               /\ n = IF match("DOT", p + 1) THEN p + 2 ELSE p + 1
  OBVIOUS
<1>1. parseSectionDirective(p) =
        IF ~Identifier(n) THEN Fail(n, n)
        ELSE IF Key(n) \notin DOMAIN SectionTable THEN Fail(n + 1, n + 1)
        ELSE Accept([kind |-> "SECTION", type |-> SectionTable[Key(n)]], n + 1)
  BY <1>0 DEF parseSectionDirective
<1>2. PICK e \in Nat \ {0} : /\ e = p + 1 /\ e \in Position /\ p < e /\ p <= e
                             /\ Accounted(p, e, <<>>) /\ e + 1 = p + 2
  <2>1. match("IDENTIFIER", p)
    BY KeyFacts, KeywordFacts DEF isSectionDirective
  <2>2. p + 1 \in Position /\ p + 1 \in Nat \ {0} /\ p < p + 1 /\ p <= p + 1
        /\ Accounted(p, p + 1, <<>>)
    BY <2>1, FirstTaken DEF Foreign
  <2>. QED
    BY <2>2
<1>3. n \in Position /\ n \in Nat \ {0} /\ p < n /\ p <= n /\ Accounted(p, n, <<>>)
  <2>1. CASE match("DOT", p + 1)
    <3>1. match("DOT", e)
      BY <1>2, <2>1
    <3>2. /\ e + 1 \in Position /\ e + 1 \in Nat \ {0} /\ p < e + 1 /\ p <= e + 1
          /\ Accounted(p, e + 1, <<>>)
      BY <1>2, <3>1, Taken DEF Foreign
    <3>3. n = e + 1
      BY <1>0, <1>2, <2>1
    <3>. QED
      BY <3>2, <3>3
  <2>2. CASE ~match("DOT", p + 1)
    <3>1. n = e
      BY <1>0, <1>2, <2>2
    <3>. QED
      BY <1>2, <3>1
  <2>. QED
    BY <2>1, <2>2
<1>4. CASE ~Identifier(n)
  BY <1>1, <1>3, <1>4, FailedOutcome
<1>5. CASE Identifier(n)
  <2>1. n + 1 \in Position /\ p < n + 1 /\ n <= Len(tokens) /\ Accounted(p, n + 1, <<>>)
    BY <1>3, <1>5, Taken DEF Identifier, Foreign
  <2>2. CASE Key(n) \notin DOMAIN SectionTable
    <3>1. parseSectionDirective(p) = Fail(n + 1, n + 1)
      BY <1>1, <1>5, <2>2
    <3>2. n + 1 \in Nat \ {0}
      BY <1>3
    <3>. QED
      BY <2>1, <3>1, <3>2, FailedOutcome
  <2>3. CASE Key(n) \in DOMAIN SectionTable
    <3>. PICK type : type = SectionTable[Key(n)]
      OBVIOUS
    <3>. PICK value : value = [kind |-> "SECTION", type |-> type]
      OBVIOUS
    <3>1. parseSectionDirective(p) = Accept(value, n + 1)
      BY <1>1, <1>5, <2>3
    <3>2. type \in SectionType
      BY <2>3 DEF SectionTable, SectionType
    <3>3. value \in ParsedStatement
      BY <3>2, StatementKinds
    <3>4. IsAligned(value)
      BY DEF IsAligned
    <3>. QED
      BY <2>1, <3>1, <3>3, <3>4, AcceptedOutcome
  <2>. QED
    BY <2>2, <2>3
<1>. QED
  BY <1>4, <1>5

LEMMA EquFacts ==
  ASSUME IsInput(tokens), NEW p \in Nat \ {0}, isEquDirection(p)
  PROVE  IsOutcome(p, parseEquDirective(p))
<1>1. match("IDENTIFIER", p) /\ match("IDENTIFIER", p + 1)
  <2>1. Identifier(p) /\ Key(p + 1) = "equ" /\ p + 1 \in Nat \ {0}
    BY DEF isEquDirection
  <2>2. match("IDENTIFIER", p + 1)
    BY <2>1, KeyFacts, KeywordFacts
  <2>. QED
    BY <2>1, <2>2 DEF Identifier
<1>2. p + 1 \in Nat \ {0} /\ p < p + 1 /\ p <= p + 1 /\ Accounted(p, p + 1, <<>>)
  BY <1>1, FirstTaken DEF Foreign
<1>3. PICK v \in Nat \ {0} : v = p + 2
  OBVIOUS
<1>4. v \in Position /\ p < v /\ Accounted(p, v, <<>>)
  <2>. PICK e \in Nat \ {0} : e = p + 1
    BY <1>2
  <2>1. e + 1 \in Position /\ p < e + 1 /\ Accounted(p, e + 1, <<>>)
    BY <1>1, <1>2, Taken DEF Foreign
  <2>. QED
    BY <1>3, <2>1
<1>5. CASE ~isImmediate(v)
  <2>1. parseEquDirective(p) = Fail(v, v)
    BY <1>3, <1>5 DEF parseEquDirective
  <2>. QED
    BY <1>4, <2>1, FailedOutcome
<1>6. CASE isImmediate(v)
  <2>. PICK number : number = SignedInteger(v)
    OBVIOUS
  <2>1. number.value \in Int /\ number.at \in Position /\ v < number.at
        /\ Accounted(v, number.at, <<>>)
    BY <1>6, ImmediateFacts
  <2>2. number.at \in Nat
    BY <2>1, PositionFacts
  <2>3. Accounted(p, number.at, <<>>) /\ p < number.at
    BY <1>4, <2>1, <2>2, LengthFacts DEF Accounted
  <2>. PICK value : value = [kind |-> "EQU", name |-> peek(p).word, value |-> number.value]
    OBVIOUS
  <2>4. value \in ParsedStatement
    <3>1. peek(p).word \in Name
      BY <1>1, PeekType DEF match, Token
    <3>. QED
      BY <2>1, <3>1, StatementKinds
  <2>5. IsAligned(value)
    BY DEF IsAligned
  <2>6. parseEquDirective(p) = Accept(value, number.at)
    BY <1>3, <1>6 DEF parseEquDirective
  <2>. QED
    BY <2>1, <2>3, <2>4, <2>5, <2>6, AcceptedOutcome
<1>. QED
  BY <1>5, <1>6

LEMMA GlobalFacts ==
  ASSUME IsInput(tokens), NEW p \in Nat \ {0}, isGlobalDirective(p)
  PROVE  IsOutcome(p, parseGlobalDirective(p))
<1>1. match("IDENTIFIER", p)
  BY KeyFacts, KeywordFacts DEF isGlobalDirective
<1>2. PICK n \in Nat \ {0} : n = p + 1
  OBVIOUS
<1>3. n <= Len(tokens) /\ p < n /\ p <= n /\ Accounted(p, n, <<>>) /\ Len(tokens) \in Nat
  <2>1. p \in 1 .. Len(tokens) - 1
    BY <1>1, BeforeEnd
  <2>2. Accounted(p, n, <<>>)
    BY <1>1, <1>2, TakesOne DEF Foreign
  <2>. QED
    BY <1>2, <2>1, <2>2, LengthFacts
<1>4. n + 1 \in Position /\ p < n + 1 /\ n + 1 = p + 2 /\ Advance(n) = n + 1 /\ Place(n) = n
  BY <1>2, <1>3 DEF Position, Advance, Place
<1>5. CASE Identifier(n)
  <2>1. Accounted(p, n + 1, <<>>)
    BY <1>3, <1>5, Taken DEF Identifier, Foreign
  <2>. PICK value : value = [kind |-> "GLOBAL", name |-> Key(n)]
    OBVIOUS
  <2>2. value \in ParsedStatement
    BY <1>5, KeyFacts, StatementKinds DEF Identifier
  <2>3. IsAligned(value)
    BY DEF IsAligned
  <2>4. parseGlobalDirective(p) = Accept(value, n + 1)
    BY <1>2, <1>4, <1>5 DEF parseGlobalDirective
  <2>. QED
    BY <1>4, <2>1, <2>2, <2>3, <2>4, AcceptedOutcome
<1>6. CASE ~Identifier(n)
  <2>. PICK o : o = Fail(n + 1, n)
    OBVIOUS
  <2>1. parseGlobalDirective(p) = o
    BY <1>2, <1>4, <1>6 DEF parseGlobalDirective
  <2>2. o.value = Nothing /\ o.at = n + 1 /\ o.errors = <<n>>
    BY <1>4 DEF Fail
  <2>3. o.errors \in Seq(1 .. Len(tokens)) /\ ToSet(o.errors) = {n}
    <3>1. n \in 1 .. Len(tokens)
      BY <1>3
    <3>2. <<n>> \in Seq(1 .. Len(tokens)) /\ ToSet(<<n>>) = {n}
      BY <3>1, FewReports
    <3>. QED
      BY <2>2, <3>2
  <2>4. Accounted(p, n + 1, o.errors)
    <3>1. \A t \in DOMAIN tokens : p <= t /\ t < n + 1 => t < n \/ t = n
      BY LengthFacts
    <3>2. \A t \in DOMAIN tokens : p <= t /\ t < n => tokens[t].type \notin Foreign
      BY <1>3 DEF Accounted, ToSet
    <3>. QED
      BY <2>3, <3>1, <3>2 DEF Accounted
  <2>5. Explained(o)
    <3>1. o.at > 1 /\ o.at - 1 = n
      BY <1>4, <2>2
    <3>. QED
      BY <2>3, <3>1 DEF Explained
  <2>. QED
    BY <1>4, <2>1, <2>2, <2>3, <2>4, <2>5 DEF IsOutcome, Sound
<1>. QED
  BY <1>5, <1>6

LEMMA LabelFacts ==
  ASSUME IsInput(tokens), NEW p \in Nat \ {0}, isLabelDeclaration(p)
  PROVE  /\ IsOutcome(p, parseLabelDeclaration(p)) /\ parseLabelDeclaration(p).value # Nothing
         /\ parseLabelDeclaration(p).errors = <<>>
<1>1. match("IDENTIFIER", p) /\ match("COLON", p + 1)
  BY DEF isLabelDeclaration, Identifier
<1>2. p + 1 \in Nat \ {0} /\ p < p + 1 /\ p <= p + 1 /\ Accounted(p, p + 1, <<>>)
  BY <1>1, FirstTaken DEF Foreign
<1>3. PICK v \in Nat \ {0} : v = p + 2
  OBVIOUS
<1>4. v \in Position /\ p < v /\ Accounted(p, v, <<>>)
  <2>. PICK e \in Nat \ {0} : e = p + 1
    BY <1>2
  <2>1. e + 1 \in Position /\ p < e + 1 /\ Accounted(p, e + 1, <<>>)
    BY <1>1, <1>2, Taken DEF Foreign
  <2>. QED
    BY <1>3, <2>1
<1>. PICK value : value = [kind |-> "LABEL", label |-> Key(p)]
  OBVIOUS
<1>5. value \in ParsedStatement
  BY <1>1, KeyFacts, StatementKinds
<1>6. IsAligned(value)
  BY DEF IsAligned
<1>7. parseLabelDeclaration(p) = Accept(value, v)
  BY <1>3 DEF parseLabelDeclaration
<1>8. IsOutcome(p, Accept(value, v))
  BY <1>4, <1>5, <1>6, AcceptedOutcome
<1>9. Accept(value, v).value # Nothing /\ Accept(value, v).errors = <<>>
  BY <1>5, NothingIsNone DEF Accept
<1>. QED
  BY <1>7, <1>8, <1>9

LEMMA InstructionFacts ==
  ASSUME IsInput(tokens), NEW p \in Nat \ {0}, isInstruction(p)
  PROVE  IsOutcome(p, parseInstruction(p))
<1>1. match("IDENTIFIER", p) /\ parseMnemonic(Key(p)) \in Opcode
  <2>1. Key(p) \in Opcode \cup DOMAIN Synonym
    BY DEF isInstruction, IsMnemonic
  <2>2. match("IDENTIFIER", p)
    BY <2>1, KeyFacts, KeywordFacts
  <2>3. \A key \in DOMAIN Synonym : Synonym[key] \in Opcode
    BY DEF Synonym, Opcode
  <2>. QED
    BY <2>1, <2>2, <2>3 DEF parseMnemonic
<1>2. p + 1 \in Position /\ p + 1 \in Nat /\ p < p + 1 /\ Accounted(p, p + 1, <<>>)
  BY <1>1, FirstTaken DEF Foreign
<1>. PICK list : list = Operands[p + 1]
  OBVIOUS
<1>3. /\ list.ok \in BOOLEAN /\ list.at \in Position /\ list.errors \in Seq(1 .. Len(tokens))
      /\ p + 1 <= list.at /\ Accounted(p + 1, list.at, list.errors)
      /\ list.ok => list.operands \in Seq(Operand)
      /\ ~list.ok => Explained(list)
  BY <1>2, OperandsFacts DEF IsOperandList, OperandList
<1>. PICK value :
       value = [kind |-> "INSTR", opcode |-> parseMnemonic(Key(p)), operands |-> list.operands]
  OBVIOUS
<1>. PICK o : o = [value |-> IF ~list.ok THEN Nothing ELSE value, at |-> list.at,
                   errors |-> list.errors]
  OBVIOUS
<1>4. parseInstruction(p) = o
  BY DEF parseInstruction
<1>5. list.at \in Nat
  BY <1>3, PositionFacts
<1>6. Accounted(p, list.at, list.errors)
  <2>1. ToSet(<<>>) \subseteq ToSet(list.errors)
    BY DEF ToSet
  <2>. QED
    BY <1>2, <1>3, <1>5, <2>1, LengthFacts DEF Accounted
<1>7. Sound(p, o) /\ p < o.at
  BY <1>3, <1>5, <1>6 DEF Sound
<1>8. list.ok => value \in ParsedStatement /\ IsAligned(value)
  BY <1>1, <1>3, StatementKinds DEF IsAligned
<1>9. ~list.ok => Explained(o)
  BY <1>3 DEF Explained
<1>. QED
  BY <1>3, <1>4, <1>7, <1>8, <1>9 DEF IsOutcome

-----------------------------------------------------------------------------
(* Lines *)

IsNewline(t) == tokens[t].type = "NEWLINE"

\* No NEWLINE stands between two tokens of a line.
LEMMA SameLine ==
  ASSUME IsInput(tokens), NEW a \in Nat \ {0}, NEW b \in Nat, a <= b, b <= Len(tokens) + 1,
         \A x \in DOMAIN tokens : a <= x /\ x < b => ~IsNewline(x)
  PROVE  LineOf(a) = LineOf(b)
<1>1. DOMAIN tokens = 1 .. Len(tokens) /\ Len(tokens) \in Nat
  BY LengthFacts
<1>2. \A x \in 1 .. b - 1 : x \in DOMAIN tokens /\ (IsNewline(x) => x \in 1 .. a - 1)
  BY <1>1
<1>3. \A x \in 1 .. a - 1 : x \in 1 .. b - 1
  OBVIOUS
<1>4. {x \in 1 .. a - 1 : IsNewline(x)} = {x \in 1 .. b - 1 : IsNewline(x)}
  BY <1>2, <1>3
<1>. QED
  BY <1>4 DEF LineOf, IsNewline

LEMMA NextLineBegins ==
  ASSUME IsInput(tokens), NEW x \in Nat \ {0}, x <= Len(tokens), IsNewline(x)
  PROVE  LineOf(x) + 1 = LineOf(x + 1)
<1>. DEFINE Before == {y \in 1 .. x - 1 : IsNewline(y)}
<1>1. {y \in 1 .. (x + 1) - 1 : IsNewline(y)} = Before \cup {x}
  <2>1. \A y : y \in 1 .. (x + 1) - 1 <=> y \in 1 .. x - 1 \/ y = x
    OBVIOUS
  <2>. QED
    BY <2>1
<1>2. IsFiniteSet(Before)
  <2>1. IsFiniteSet(1 .. x - 1)
    BY FS_Interval
  <2>. QED
    BY <2>1, FS_Subset
<1>3. x \notin Before
  OBVIOUS
<1>4. Cardinality(Before \cup {x}) = Cardinality(Before) + 1
  <2>. HIDE DEF Before
  <2>. QED
    BY <1>2, <1>3, FS_AddElement
<1>5. LineOf(x) = Cardinality(Before) /\ LineOf(x + 1) = Cardinality(Before \cup {x})
  <2>. HIDE DEF Before
  <2>1. LineOf(x) = Cardinality(Before)
    BY DEF Before, LineOf, IsNewline
  <2>2. LineOf(x + 1) = Cardinality({y \in 1 .. (x + 1) - 1 : IsNewline(y)})
    BY DEF LineOf, IsNewline
  <2>. QED
    BY <1>1, <2>1, <2>2
<1>. QED
  BY <1>4, <1>5

LEMMA EndOfLineFacts ==
  ASSUME IsInput(tokens), NEW p \in Position
  PROVE  /\ EndOfLine(p) \in p .. Len(tokens) + 1
         /\ match("END_OF_FILE", EndOfLine(p)) \/ match("NEWLINE", EndOfLine(p))
         /\ \A x \in p .. EndOfLine(p) - 1 : ~match("END_OF_FILE", x) /\ ~match("NEWLINE", x)
<1>. p \in Nat \ {0} /\ p <= Len(tokens) + 1 /\ Len(tokens) \in Nat
  BY PositionFacts
<1>. DEFINE Ending(q) == match("END_OF_FILE", q) \/ match("NEWLINE", q)
            T == {q \in Nat : q \in p .. Len(tokens) + 1 /\ Ending(q)}
<1>1. Len(tokens) + 1 \in T
  <2>1. Len(tokens) + 1 \in Nat \ {0} /\ Len(tokens) + 1 \in p .. Len(tokens) + 1
    OBVIOUS
  <2>2. match("END_OF_FILE", Len(tokens) + 1)
    <3>1. PICK q \in Nat \ {0} : q = Len(tokens) + 1 /\ q >= Len(tokens)
      BY <2>1
    <3>2. match("END_OF_FILE", q)
      BY <3>1, EndFacts
    <3>. QED
      BY <3>1, <3>2
  <2>. QED
    BY <2>1, <2>2
<1>2. PICK m \in T : \A n \in T : m <= n
  <2>. HIDE DEF T
  <2>1. T \in SUBSET Nat
    BY DEF T
  <2>. QED
    BY <1>1, <2>1, LeastElement
<1>3. m \in p .. Len(tokens) + 1 /\ Ending(m)
  OBVIOUS
<1>4. \A x \in p .. m - 1 : ~Ending(x)
  <2>1. ASSUME NEW x \in p .. m - 1, Ending(x) PROVE FALSE
    <3>1. x \in Nat /\ x \in p .. Len(tokens) + 1 /\ ~(m <= x)
      OBVIOUS
    <3>2. x \in T
      BY <2>1, <3>1
    <3>. HIDE DEF T
    <3>. QED
      BY <1>2, <3>1, <3>2
  <2>. QED
    BY <2>1
<1>. HIDE DEF T
<1>5. \E q \in p .. Len(tokens) + 1 :
        /\ endOfFile(q) \/ match("NEWLINE", q)
        /\ \A x \in p .. q - 1 : ~endOfFile(x) /\ ~match("NEWLINE", x)
  BY <1>3, <1>4 DEF endOfFile
<1>6. /\ EndOfLine(p) \in p .. Len(tokens) + 1
      /\ endOfFile(EndOfLine(p)) \/ match("NEWLINE", EndOfLine(p))
      /\ \A x \in p .. EndOfLine(p) - 1 : ~endOfFile(x) /\ ~match("NEWLINE", x)
  <2>. DEFINE E(q) == /\ endOfFile(q) \/ match("NEWLINE", q)
                      /\ \A x \in p .. q - 1 : ~endOfFile(x) /\ ~match("NEWLINE", x)
  <2>1. EndOfLine(p) = CHOOSE q \in p .. Len(tokens) + 1 : E(q)
    BY DEF EndOfLine
  <2>2. \E q \in p .. Len(tokens) + 1 : E(q)
    BY <1>5
  <2>. HIDE DEF E
  <2>3. EndOfLine(p) \in p .. Len(tokens) + 1 /\ E(EndOfLine(p))
    BY <2>1, <2>2
  <2>. QED
    BY <2>3 DEF E
<1>. QED
  BY <1>6 DEF endOfFile

\* The tokens skipToNextLine() passes are on the line it began in.
LEMMA NextLineFacts ==
  ASSUME IsInput(tokens), NEW p \in Position
  PROVE  /\ NextLine(p) \in Position /\ p <= NextLine(p)
         /\ ~match("NEWLINE", p) /\ ~match("END_OF_FILE", p) => p < NextLine(p)
         /\ \A t \in DOMAIN tokens : p <= t /\ t < NextLine(p) =>
              /\ LineOf(t) = LineOf(p)
<1>. PICK end : end = EndOfLine(p)
  OBVIOUS
<1>1. /\ end \in p .. Len(tokens) + 1
      /\ match("END_OF_FILE", end) \/ match("NEWLINE", end)
      /\ \A x \in p .. end - 1 : ~match("END_OF_FILE", x) /\ ~match("NEWLINE", x)
  BY EndOfLineFacts
<1>2. p \in Nat \ {0} /\ p <= Len(tokens) + 1 /\ Len(tokens) \in Nat
  BY PositionFacts
<1>3. end \in Nat \ {0} /\ end \in Position /\ p <= end
  BY <1>1, <1>2 DEF Position
<1>4. NextLine(p) \in Position /\ NextLine(p) \in {end, end + 1}
  <2>1. CASE match("NEWLINE", end)
    <3>1. end + 1 \in Position /\ Advance(end) = end + 1
      BY <1>3, <2>1, BeforeEnd
    <3>. QED
      BY <2>1, <3>1 DEF NextLine
  <2>2. CASE ~match("NEWLINE", end)
    BY <1>3, <2>2 DEF NextLine
  <2>. QED
    BY <2>1, <2>2
<1>5. ASSUME NEW t \in DOMAIN tokens, p <= t, t < NextLine(p) PROVE LineOf(t) = LineOf(p)
  <2>1. t \in Nat /\ t \in 1 .. Len(tokens) /\ t <= end
    BY <1>3, <1>4, <1>5, LengthFacts
  <2>2. ASSUME NEW x \in DOMAIN tokens, p <= x, x < t PROVE ~IsNewline(x)
    <3>1. x \in Nat \ {0} /\ x \in 1 .. Len(tokens) /\ x \in p .. end - 1 /\ Place(x) = x
      BY <1>2, <1>3, <2>1, <2>2, LengthFacts
    <3>2. ~match("NEWLINE", x)
      BY <1>1, <3>1
    <3>. QED
      BY <3>1, <3>2 DEF match, peek, IsNewline
  <2>3. t <= Len(tokens) + 1
    BY <2>1
  <2>. QED
    BY <1>2, <1>5, <2>1, <2>2, <2>3, SameLine
<1>6. ~match("NEWLINE", p) /\ ~match("END_OF_FILE", p) => p < NextLine(p)
  <2>1. ASSUME ~match("NEWLINE", p), ~match("END_OF_FILE", p) PROVE p < NextLine(p)
    <3>1. end # p
      BY <1>1, <2>1
    <3>. QED
      BY <1>2, <1>3, <1>4, <3>1
  <2>. QED
    BY <2>1
<1>7. p <= NextLine(p)
  BY <1>2, <1>3, <1>4
<1>. QED
  BY <1>4, <1>5, <1>6, <1>7

-----------------------------------------------------------------------------
(* The inductive invariant *)

\* A token that is not dropped in silence.
IsAnswered(t, exts, reports) ==
  \/ tokens[t].type \in {"NEWLINE", "END_OF_FILE"}
  \/ \E i \in DOMAIN exts : t \in exts[i][1] .. exts[i][2]
  \/ \E e \in ToSet(reports) :
       LineOf(e) = LineOf(t) \/ (IsNewline(e) /\ LineOf(e) + 1 = LineOf(t))

Extent == (1 .. Len(tokens)) \X (1 .. Len(tokens))

IsHistory(prog, exts, reports) ==
  /\ prog \in Seq(ParsedStatement) /\ \A i \in DOMAIN prog : IsAligned(prog[i])
  /\ exts \in Seq(Extent) /\ Len(exts) = Len(prog)
  /\ \A i \in DOMAIN exts : exts[i][1] <= exts[i][2]
  /\ reports \in Seq(1 .. Len(tokens))

\* As long as there is no error, no statement has a NEWLINE in it.
InLine(exts) ==
  \A i \in DOMAIN exts : \A t \in exts[i][1] .. exts[i][2] : ~IsNewline(t)

\* What holds when the tokens before p have been parsed.
Parsing(p, prog, exts, reports) ==
  /\ p \in Position
  /\ IsHistory(prog, exts, reports)
  /\ \A t \in 1 .. p - 1 : IsAnswered(t, exts, reports)
  /\ reports = <<>> => InLine(exts) /\ \A t \in 1 .. p - 1 : tokens[t].type # "INVALID"

LEMMA AnsweredStays ==
  ASSUME NEW t, NEW exts, NEW more, NEW one, NEW two, IsAnswered(t, exts, one),
         DOMAIN exts \subseteq DOMAIN more, \A i \in DOMAIN exts : more[i] = exts[i],
         ToSet(one) \subseteq ToSet(two)
  PROVE  IsAnswered(t, more, two)
BY DEF IsAnswered

\* Tokens that need no answer are passed.
LEMMA Passing ==
  ASSUME IsInput(tokens), NEW p, NEW q \in Position, NEW prog, NEW exts, NEW reports,
         Parsing(p, prog, exts, reports), p <= q,
         \A t \in DOMAIN tokens : p <= t /\ t < q => IsNewline(t)
  PROVE  Parsing(q, prog, exts, reports)
<1>1. p \in Nat \ {0} /\ q \in Nat \ {0} /\ DOMAIN tokens = 1 .. Len(tokens) /\ Len(tokens) \in Nat
  BY PositionFacts, LengthFacts DEF Parsing
<1>2. ASSUME NEW t \in 1 .. q - 1 PROVE t \in 1 .. p - 1 \/ IsNewline(t)
  <2>1. t \in DOMAIN tokens
    BY <1>1 DEF Position
  <2>. QED
    BY <1>1, <2>1
<1>3. \A t \in 1 .. q - 1 : IsAnswered(t, exts, reports)
  BY <1>2 DEF Parsing, IsAnswered, IsNewline
<1>4. reports = <<>> => \A t \in 1 .. q - 1 : tokens[t].type # "INVALID"
  BY <1>2 DEF Parsing, IsNewline
<1>. QED
  BY <1>3, <1>4 DEF Parsing

LEMMA ReportsGrow ==
  ASSUME NEW prog, NEW exts, NEW one, NEW two \in Seq(1 .. Len(tokens)),
         IsHistory(prog, exts, one)
  PROVE  /\ one \o two \in Seq(1 .. Len(tokens))
         /\ ToSet(one) \subseteq ToSet(one \o two) /\ ToSet(two) \subseteq ToSet(one \o two)
         /\ one \o two = <<>> => one = <<>> /\ two = <<>>
<1>1. one \in Seq(1 .. Len(tokens))
  BY DEF IsHistory
<1>2. one \o two \in Seq(1 .. Len(tokens)) /\ ToSet(one \o two) = ToSet(one) \cup ToSet(two)
  BY <1>1, ReportsJoin
<1>3. one \o two = <<>> => one = <<>> /\ two = <<>>
  BY <1>1
<1>. QED
  BY <1>2, <1>3

\* A statement has been parsed.
LEMMA Emitting ==
  ASSUME IsInput(tokens), NEW p \in Position, NEW o, NEW prog, NEW exts, NEW reports,
         Parsing(p, prog, exts, reports), IsOutcome(p, o), o.value # Nothing
  PROVE  Parsing(o.at, Append(prog, o.value), Append(exts, <<p, o.at - 1>>), reports \o o.errors)
<1>. PICK more : more = Append(exts, <<p, o.at - 1>>)
  OBVIOUS
<1>. PICK both : both = reports \o o.errors
  OBVIOUS
<1>. PICK longer : longer = Append(prog, o.value)
  OBVIOUS
<1>1. /\ p \in Nat \ {0} /\ o.at \in Nat \ {0} /\ o.at \in Position /\ p < o.at
      /\ o.at <= Len(tokens) + 1 /\ Len(tokens) \in Nat /\ DOMAIN tokens = 1 .. Len(tokens)
      /\ o.errors \in Seq(1 .. Len(tokens)) /\ Accounted(p, o.at, o.errors)
      /\ o.value \in ParsedStatement /\ IsAligned(o.value)
  BY PositionFacts, LengthFacts DEF IsOutcome, Sound
<1>2. IsHistory(prog, exts, reports)
  BY DEF Parsing
<1>3. /\ both \in Seq(1 .. Len(tokens)) /\ ToSet(reports) \subseteq ToSet(both)
      /\ both = <<>> => reports = <<>> /\ o.errors = <<>>
  BY <1>1, <1>2, ReportsGrow
<1>4. <<p, o.at - 1>> \in Extent
  <2>1. p \in 1 .. Len(tokens) /\ o.at - 1 \in 1 .. Len(tokens)
    BY <1>1
  <2>. QED
    BY <2>1 DEF Extent
<1>5. /\ more \in Seq(Extent) /\ Len(more) = Len(exts) + 1
      /\ DOMAIN exts \subseteq DOMAIN more /\ \A i \in DOMAIN exts : more[i] = exts[i]
      /\ Len(exts) + 1 \in DOMAIN more /\ more[Len(exts) + 1] = <<p, o.at - 1>>
      /\ \A i \in DOMAIN more : i \in DOMAIN exts \/ i = Len(exts) + 1
  <2>1. exts \in Seq(Extent)
    BY <1>2 DEF IsHistory
  <2>. HIDE DEF Extent
  <2>. QED
    BY <1>4, <2>1
<1>6. /\ longer \in Seq(ParsedStatement) /\ Len(longer) = Len(prog) + 1
      /\ \A i \in DOMAIN longer : IsAligned(longer[i])
  <2>1. prog \in Seq(ParsedStatement) /\ \A i \in DOMAIN prog : IsAligned(prog[i])
    BY <1>2 DEF IsHistory
  <2>2. longer \in Seq(ParsedStatement) /\ Len(longer) = Len(prog) + 1
    BY <1>1, <2>1
  <2>3. \A i \in DOMAIN longer : (i \in DOMAIN prog /\ longer[i] = prog[i]) \/ longer[i] = o.value
    BY <1>1, <2>1
  <2>. QED
    BY <1>1, <2>1, <2>2, <2>3
<1>7. IsHistory(longer, more, both)
  <2>1. p <= o.at - 1
    BY <1>1
  <2>2. \A i \in DOMAIN more : more[i][1] <= more[i][2]
    BY <1>2, <1>5, <2>1 DEF IsHistory
  <2>. QED
    BY <1>2, <1>3, <1>5, <1>6, <2>2 DEF IsHistory
<1>8. ASSUME NEW t \in 1 .. o.at - 1 PROVE t \in 1 .. p - 1 \/ t \in p .. o.at - 1
  BY <1>1
<1>9. ASSUME NEW t \in 1 .. o.at - 1 PROVE IsAnswered(t, more, both)
  <2>1. CASE t \in 1 .. p - 1
    <3>1. IsAnswered(t, exts, reports)
      BY <2>1 DEF Parsing
    <3>. QED
      BY <1>3, <1>5, <3>1, AnsweredStays
  <2>2. CASE t \in p .. o.at - 1
    <3>1. t \in more[Len(exts) + 1][1] .. more[Len(exts) + 1][2]
      BY <1>5, <2>2
    <3>. QED
      BY <1>5, <3>1 DEF IsAnswered
  <2>. QED
    BY <1>8, <2>1, <2>2
<1>10. ASSUME both = <<>>, NEW t \in p .. o.at - 1 PROVE tokens[t].type \notin Foreign
  <2>1. t \in DOMAIN tokens /\ p <= t /\ t < o.at
    BY <1>1
  <2>2. t \notin ToSet(o.errors)
    BY <1>3, <1>10 DEF ToSet
  <2>. QED
    BY <1>1, <2>1, <2>2 DEF Accounted
<1>11. both = <<>> => InLine(more)
  <2>. SUFFICES ASSUME both = <<>>, NEW i \in DOMAIN more, NEW t \in more[i][1] .. more[i][2]
                PROVE  ~IsNewline(t)
    BY DEF InLine
  <2>1. CASE i \in DOMAIN exts
    BY <1>3, <1>5, <2>1 DEF Parsing, InLine
  <2>2. CASE i = Len(exts) + 1
    <3>1. t \in p .. o.at - 1
      BY <1>5, <2>2
    <3>. QED
      BY <1>10, <3>1 DEF Foreign, IsNewline
  <2>. QED
    BY <1>5, <2>1, <2>2
<1>12. both = <<>> => \A t \in 1 .. o.at - 1 : tokens[t].type # "INVALID"
  BY <1>3, <1>8, <1>10 DEF Parsing, Foreign
<1>. QED
  BY <1>1, <1>7, <1>9, <1>11, <1>12 DEF Parsing

\* Where a faulty statement was left, its line or the NEWLINE before it is reported.
LEMMA ExplainedLine ==
  ASSUME IsInput(tokens), NEW o, o.at \in Position, Explained(o), o.errors \in Seq(1 .. Len(tokens))
  PROVE  \E e \in ToSet(o.errors) :
           LineOf(e) = LineOf(o.at) \/ (IsNewline(e) /\ LineOf(e) + 1 = LineOf(o.at))
<1>. PICK at : at = o.at
  OBVIOUS
<1>1. /\ at \in Nat \ {0} /\ at <= Len(tokens) + 1 /\ Len(tokens) \in Nat \ {0}
      /\ DOMAIN tokens = 1 .. Len(tokens)
  BY PositionFacts, LengthFacts
<1>2. CASE Place(at) \in ToSet(o.errors)
  <2>1. CASE at <= Len(tokens)
    <3>1. Place(at) = at
      BY <1>1, <2>1 DEF Place
    <3>. QED
      BY <1>2, <3>1
  <2>2. CASE at = Len(tokens) + 1
    <3>1. Place(at) = Len(tokens)
      <4>1. at > Len(tokens)
        BY <1>1, <2>2
      <4>. QED
        BY <4>1 DEF Place
    <3>2. tokens[Len(tokens)].type = "END_OF_FILE"
      BY <1>1 DEF IsInput
    <3>3. \A x \in DOMAIN tokens : Len(tokens) <= x /\ x < at => ~IsNewline(x)
      <4>1. \A x \in DOMAIN tokens : Len(tokens) <= x => x = Len(tokens)
        BY <1>1
      <4>. QED
        BY <3>2, <4>1 DEF IsNewline
    <3>4. Len(tokens) <= at
      BY <1>1, <2>2
    <3>5. LineOf(Len(tokens)) = LineOf(at)
      BY <1>1, <3>3, <3>4, SameLine
    <3>. QED
      BY <1>2, <3>1, <3>5
  <2>. QED
    BY <1>1, <2>1, <2>2
<1>3. CASE at > 1 /\ at - 1 \in ToSet(o.errors)
  <2>. PICK e : e = at - 1
    OBVIOUS
  <2>1. e \in Nat \ {0} /\ e + 1 = at /\ e <= Len(tokens) /\ e <= at
    BY <1>1, <1>3
  <2>2. CASE IsNewline(e)
    <3>1. LineOf(e) + 1 = LineOf(e + 1)
      BY <2>1, <2>2, NextLineBegins
    <3>. QED
      BY <1>3, <2>1, <2>2, <3>1
  <2>3. CASE ~IsNewline(e)
    <3>1. \A x \in DOMAIN tokens : e <= x /\ x < at => ~IsNewline(x)
      <4>1. \A x \in DOMAIN tokens : e <= x /\ x < at => x = e
        BY <1>1, <2>1
      <4>. QED
        BY <2>3, <4>1
    <3>2. LineOf(e) = LineOf(at)
      BY <1>1, <2>1, <3>1, SameLine
    <3>. QED
      BY <1>3, <3>2
  <2>. QED
    BY <2>2, <2>3
<1>. QED
  BY <1>2, <1>3 DEF Explained

\* The tokens a faulty statement was read from are answered: by a NEWLINE that was
\* taken for something else, or by the line the statement was left on.
LEMMA FaultyStatement ==
  ASSUME IsInput(tokens), NEW p \in Position, NEW o, Sound(p, o), Explained(o),
         NEW t \in DOMAIN tokens, p <= t, t < NextLine(o.at)
  PROVE  \A exts : IsAnswered(t, exts, o.errors)
<1>. PICK at : at = o.at
  OBVIOUS
<1>1. /\ at \in Nat \ {0} /\ at <= Len(tokens) + 1 /\ Len(tokens) \in Nat /\ at \in Position
      /\ DOMAIN tokens = 1 .. Len(tokens) /\ t \in Nat \ {0} /\ t <= Len(tokens)
      /\ o.errors \in Seq(1 .. Len(tokens)) /\ Accounted(p, at, o.errors)
      /\ p \in Nat
  BY PositionFacts, LengthFacts DEF Sound
<1>2. ASSUME LineOf(t) = LineOf(at) PROVE \A exts : IsAnswered(t, exts, o.errors)
  BY <1>1, <1>2, ExplainedLine DEF IsAnswered
<1>3. CASE at <= t
  <2>1. LineOf(t) = LineOf(at)
    BY <1>1, <1>3, NextLineFacts
  <2>. QED
    BY <1>2, <2>1
<1>4. CASE t < at /\ \A x \in DOMAIN tokens : t <= x /\ x < at => ~IsNewline(x)
  <2>1. t <= at
    BY <1>1, <1>4
  <2>2. LineOf(t) = LineOf(at)
    BY <1>1, <1>4, <2>1, SameLine
  <2>. QED
    BY <1>2, <2>2
<1>5. CASE t < at /\ \E x \in DOMAIN tokens : t <= x /\ x < at /\ IsNewline(x)
  <2>. DEFINE T == {x \in Nat : x \in DOMAIN tokens /\ t <= x /\ x < at /\ IsNewline(x)}
  <2>1. T # {}
    BY <1>1, <1>5
  <2>2. PICK x \in T : \A y \in T : x <= y
    <3>. HIDE DEF T
    <3>1. T \in SUBSET Nat
      BY DEF T
    <3>. QED
      BY <2>1, <3>1, LeastElement
  <2>3. x \in Nat \ {0} /\ x \in DOMAIN tokens /\ t <= x /\ x < at /\ IsNewline(x)
        /\ x <= Len(tokens) + 1
    BY <1>1
  <2>4. \A y \in DOMAIN tokens : t <= y /\ y < x => ~IsNewline(y)
    <3>1. ASSUME NEW y \in DOMAIN tokens, t <= y, y < x, IsNewline(y) PROVE FALSE
      <4>1. y \in Nat /\ y < at /\ ~(x <= y)
        BY <1>1, <2>3, <3>1
      <4>2. y \in T
        BY <3>1, <4>1
      <4>. HIDE DEF T
      <4>. QED
        BY <2>2, <4>1, <4>2
    <3>. QED
      BY <3>1
  <2>. HIDE DEF T
  <2>5. LineOf(t) = LineOf(x)
    BY <1>1, <2>3, <2>4, SameLine
  <2>6. x \in ToSet(o.errors)
    <3>1. p <= x
      BY <1>1, <2>3
    <3>. QED
      BY <1>1, <2>3, <3>1 DEF Accounted, IsNewline, Foreign
  <2>. QED
    BY <2>5, <2>6 DEF IsAnswered
<1>. QED
  BY <1>1, <1>3, <1>4, <1>5

\* A statement has failed, and the rest of the line is skipped.
LEMMA Failing ==
  ASSUME IsInput(tokens), NEW p, NEW o, NEW prog, NEW exts, NEW reports,
         Parsing(p, prog, exts, reports), Sound(p, o), Explained(o)
  PROVE  Parsing(NextLine(o.at), prog, exts, reports \o o.errors)
<1>. PICK both : both = reports \o o.errors
  OBVIOUS
<1>. PICK q : q = NextLine(o.at)
  OBVIOUS
<1>1. p \in Position /\ o.at \in Position /\ o.errors \in Seq(1 .. Len(tokens))
  BY DEF Parsing, Sound
<1>2. p \in Nat \ {0} /\ q \in Position /\ q \in Nat \ {0} /\ q <= Len(tokens) + 1
      /\ DOMAIN tokens = 1 .. Len(tokens) /\ Len(tokens) \in Nat
  BY <1>1, NextLineFacts, PositionFacts, LengthFacts
<1>3. IsHistory(prog, exts, reports)
  BY DEF Parsing
<1>4. /\ both \in Seq(1 .. Len(tokens))
      /\ ToSet(reports) \subseteq ToSet(both) /\ ToSet(o.errors) \subseteq ToSet(both)
      /\ both = <<>> => o.errors = <<>>
  BY <1>1, <1>3, ReportsGrow
<1>5. both # <<>>
  <2>1. o.errors # <<>>
    BY DEF Explained, ToSet
  <2>. QED
    BY <1>4, <2>1
<1>6. IsHistory(prog, exts, both)
  BY <1>3, <1>4 DEF IsHistory
<1>7. ASSUME NEW t \in 1 .. q - 1 PROVE IsAnswered(t, exts, both)
  <2>1. CASE t < p
    <3>1. t \in 1 .. p - 1
      BY <1>2, <2>1
    <3>2. IsAnswered(t, exts, reports)
      BY <3>1 DEF Parsing
    <3>. QED
      BY <1>4, <3>2, AnsweredStays
  <2>2. CASE ~(t < p)
    <3>1. t \in DOMAIN tokens /\ p <= t /\ t < q
      BY <1>2, <2>2
    <3>2. IsAnswered(t, exts, o.errors)
      BY <1>1, <3>1, FaultyStatement
    <3>. QED
      BY <1>4, <3>2, AnsweredStays
  <2>. QED
    BY <2>1, <2>2
<1>. QED
  BY <1>2, <1>5, <1>6, <1>7 DEF Parsing

\* The inductive invariant: the state of parse() between two iterations.
IInv == IsInput(tokens) /\ Parsing(currentToken, program, extents, errors)

-----------------------------------------------------------------------------
(* Theorems *)

\* Nothing is read and nothing reported.
LEMMA Beginning ==
  ASSUME IsInput(tokens)
  PROVE  Parsing(1, <<>>, <<>>, <<>>)
<1>1. 1 \in Position
  BY LengthFacts DEF Position
<1>2. /\ <<>> \in Seq(ParsedStatement) /\ <<>> \in Seq(Extent) /\ <<>> \in Seq(1 .. Len(tokens))
      /\ DOMAIN <<>> = {} /\ Len(<<>>) = 0
  BY Zenon, SMT
<1>3. 1 .. 1 - 1 = {}
  OBVIOUS
<1>4. IsHistory(<<>>, <<>>, <<>>) /\ InLine(<<>>)
  BY <1>2 DEF IsHistory, InLine
<1>. QED
  BY <1>1, <1>3, <1>4 DEF Parsing

LEMMA InvStart == Init => IInv
BY InputAssumption, Beginning DEF Init, IInv

\* What parse() does to the state, when the tokens stay what they are.
LEMMA Keeps ==
  ASSUME tokens' = tokens, IsInput(tokens), NEW p, NEW prog, NEW exts, NEW reports,
         Parsing(p, prog, exts, reports),
         currentToken' = p, program' = prog, extents' = exts, errors' = reports
  PROVE  IInv'
<1>1. IsInput(tokens)' /\ Position' = Position /\ Extent' = Extent
  BY DEF Position, Extent
<1>2. ASSUME NEW t PROVE LineOf(t)' = LineOf(t) /\ (IsNewline(t)' <=> IsNewline(t))
  BY DEF LineOf, IsNewline
<1>3. ASSUME NEW t, IsAnswered(t, exts, reports) PROVE IsAnswered(t, exts, reports)'
  <2>1. CASE \E e \in ToSet(reports) :
               LineOf(e) = LineOf(t) \/ (IsNewline(e) /\ LineOf(e) + 1 = LineOf(t))
    <3>1. \E e \in ToSet(reports) :
            LineOf(e)' = LineOf(t)' \/ (IsNewline(e)' /\ LineOf(e)' + 1 = LineOf(t)')
      BY <1>2, <2>1
    <3>. QED
      BY <3>1 DEF IsAnswered
  <2>2. CASE \/ tokens[t].type \in {"NEWLINE", "END_OF_FILE"}
             \/ \E i \in DOMAIN exts : t \in exts[i][1] .. exts[i][2]
    BY <2>2 DEF IsAnswered
  <2>. QED
    BY <1>3, <2>1, <2>2 DEF IsAnswered
<1>4. IsHistory(prog, exts, reports)'
  BY <1>1 DEF Parsing, IsHistory, IsAligned
<1>5. InLine(exts) => InLine(exts)'
  BY <1>2 DEF InLine
<1>6. Parsing(p, prog, exts, reports)'
  BY <1>1, <1>3, <1>4, <1>5 DEF Parsing
<1>. QED
  BY <1>1, <1>6 DEF IInv

\* Take() of what a statement parser returns.
LEMMA Taking ==
  ASSUME IInv, AtStatement, NEW o, IsOutcome(currentToken, o), Take(o)
  PROVE  IInv' /\ currentToken' > currentToken
<1>. PICK p : p = currentToken
  OBVIOUS
<1>. PICK after : after = IF o.value = Nothing THEN NextLine(o.at) ELSE o.at
  OBVIOUS
<1>. PICK q : q = IF match("NEWLINE", after) THEN Advance(after) ELSE after
  OBVIOUS
<1>. PICK reports : reports = errors \o o.errors
  OBVIOUS
<1>1. /\ IsInput(tokens) /\ p \in Position /\ Parsing(p, program, extents, errors)
      /\ o.at \in Position /\ p < o.at /\ Sound(p, o)
  BY DEF IInv, Parsing, IsOutcome, Sound
<1>2. tokens' = tokens /\ errors' = reports /\ currentToken' = q /\ Emit(o)
  BY DEF Take
<1>3. p \in Nat /\ o.at \in Nat
  BY <1>1, PositionFacts
<1>4. PICK prog, exts : /\ program' = prog /\ extents' = exts
                        /\ after \in Position /\ p < after
                        /\ Parsing(after, prog, exts, reports)
  <2>1. CASE o.value = Nothing
    <3>1. program' = program /\ extents' = extents /\ after = NextLine(o.at)
      BY <1>2, <2>1 DEF Emit
    <3>2. Explained(o)
      BY <2>1, NothingIsNone DEF IsOutcome
    <3>3. Parsing(after, program, extents, reports)
      BY <1>1, <3>1, <3>2, Failing
    <3>4. NextLine(o.at) \in Position /\ o.at <= NextLine(o.at)
      BY <1>1, NextLineFacts
    <3>5. NextLine(o.at) \in Nat
      BY <1>1, <3>4, PositionFacts
    <3>6. p < NextLine(o.at)
      BY <1>1, <1>3, <3>4, <3>5
    <3>. QED
      BY <3>1, <3>3, <3>4, <3>6
  <2>2. CASE o.value # Nothing
    <3>1. /\ program' = Append(program, o.value) /\ after = o.at
          /\ extents' = Append(extents, <<p, o.at - 1>>)
      BY <1>2, <2>2 DEF Emit, Here
    <3>2. Parsing(o.at, Append(program, o.value), Append(extents, <<p, o.at - 1>>), reports)
      BY <1>1, <2>2, Emitting
    <3>. QED
      BY <1>1, <3>1, <3>2
  <2>. QED
    BY <2>1, <2>2
<1>5. q \in Position /\ p < q /\ Parsing(q, prog, exts, reports)
  <2>1. CASE match("NEWLINE", after)
    <3>1. after \in Nat \ {0}
      BY <1>1, <1>4, PositionFacts
    <3>2. after + 1 \in Position /\ Advance(after) = after + 1 /\ peek(after) = tokens[after]
      BY <1>1, <2>1, <3>1, BeforeEnd
    <3>3. q = after + 1
      BY <2>1, <3>2
    <3>4. \A t \in DOMAIN tokens : after <= t /\ t < after + 1 => IsNewline(t)
      <4>1. \A t \in DOMAIN tokens : after <= t /\ t < after + 1 => t = after
        BY <1>1, <3>1, LengthFacts
      <4>2. IsNewline(after)
        BY <2>1, <3>2 DEF match, IsNewline
      <4>. QED
        BY <4>1, <4>2
    <3>5. after <= after + 1 /\ p < after + 1
      BY <1>3, <1>4, <3>1
    <3>6. Parsing(after + 1, prog, exts, reports)
      BY <1>1, <1>4, <3>2, <3>4, <3>5, Passing
    <3>. QED
      BY <3>2, <3>3, <3>5, <3>6
  <2>2. CASE ~match("NEWLINE", after)
    BY <1>4, <2>2
  <2>. QED
    BY <2>1, <2>2
<1>6. IInv'
  BY <1>1, <1>2, <1>4, <1>5, Keeps
<1>7. currentToken' > currentToken
  BY <1>1, <1>2, <1>3, <1>5, PositionFacts
<1>. QED
  BY <1>6, <1>7

\* One iteration of the loop.
LEMMA ParseStep ==
  ASSUME IInv, parse
  PROVE  IInv' /\ currentToken' > currentToken
<1>. PICK p : p = currentToken
  OBVIOUS
<1>1. /\ IsInput(tokens) /\ p \in Position /\ Parsing(p, program, extents, errors)
  BY DEF IInv, Parsing
<1>2. p \in Nat \ {0}
  BY <1>1, PositionFacts
<1>3. CASE SkipNewline
  <2>1. match("NEWLINE", p) /\ currentToken' = Advance(p)
        /\ UNCHANGED <<tokens, program, extents, errors>>
    BY <1>3 DEF SkipNewline, Here
  <2>2. p + 1 \in Position /\ Advance(p) = p + 1 /\ peek(p) = tokens[p]
    BY <1>1, <1>2, <2>1, BeforeEnd
  <2>3. \A t \in DOMAIN tokens : p <= t /\ t < p + 1 => IsNewline(t)
    <3>1. \A t \in DOMAIN tokens : p <= t /\ t < p + 1 => t = p
      BY <1>1, <1>2, LengthFacts
    <3>. QED
      BY <2>1, <2>2, <3>1 DEF match, IsNewline
  <2>4. p <= p + 1 /\ p + 1 > p
    BY <1>2
  <2>5. Parsing(p + 1, program, extents, errors)
    BY <1>1, <2>2, <2>3, <2>4, Passing
  <2>. QED
    BY <1>1, <2>1, <2>2, <2>4, <2>5, Keeps
<1>4. CASE ParseData
  BY <1>1, <1>2, <1>4, DataFacts, Taking DEF ParseData, Here
<1>5. CASE ParseLabel
  <2>. PICK o : o = parseLabelDeclaration(p)
    OBVIOUS
  <2>1. /\ isLabelDeclaration(p) /\ Emit(o) /\ currentToken' = o.at
        /\ UNCHANGED <<tokens, errors>>
    BY <1>5 DEF ParseLabel, Here
  <2>2. IsOutcome(p, o) /\ o.value # Nothing /\ o.errors = <<>>
    BY <1>1, <1>2, <2>1, LabelFacts
  <2>3. /\ program' = Append(program, o.value)
        /\ extents' = Append(extents, <<p, o.at - 1>>)
    BY <2>1, <2>2 DEF Emit, Here
  <2>4. Parsing(o.at, Append(program, o.value), Append(extents, <<p, o.at - 1>>), errors \o <<>>)
    BY <1>1, <2>2, Emitting
  <2>5. errors \o <<>> = errors
    <3>1. errors \in Seq(1 .. Len(tokens))
      BY <1>1 DEF Parsing, IsHistory
    <3>. QED
      BY <3>1
  <2>6. IInv'
    BY <1>1, <2>1, <2>3, <2>4, <2>5, Keeps
  <2>7. o.at > p
    BY <1>1, <1>2, <2>2, PositionFacts DEF IsOutcome, Sound
  <2>. QED
    BY <2>1, <2>6, <2>7
<1>6. CASE ParseGlobal
  BY <1>1, <1>2, <1>6, GlobalFacts, Taking DEF ParseGlobal, Unlabelled, Here
<1>7. CASE ParseSection
  BY <1>1, <1>2, <1>7, SectionFacts, Taking DEF ParseSection, Unlabelled, Here
<1>8. CASE ParseEqu
  BY <1>1, <1>2, <1>8, EquFacts, Taking DEF ParseEqu, NotNamed, Unlabelled, Here
<1>9. CASE ParseInstruction
  BY <1>1, <1>2, <1>9, InstructionFacts, Taking DEF ParseInstruction, NotNamed, Unlabelled, Here
<1>10. CASE Unexpected
  <2>1. /\ ~match("NEWLINE", p) /\ ~match("END_OF_FILE", p)
        /\ errors' = Append(errors, p) /\ currentToken' = NextLine(p)
        /\ UNCHANGED <<tokens, program, extents>>
    BY <1>10 DEF Unexpected, NotNamed, Unlabelled, AtStatement, endOfFile, Here
  <2>2. p \in 1 .. Len(tokens) /\ Place(p) = p
    <3>1. ~(p >= Len(tokens)) /\ Len(tokens) \in Nat
      BY <1>1, <1>2, <2>1, EndFacts, LengthFacts
    <3>. QED
      BY <1>1, <1>2, <3>1, LengthFacts
  <2>. PICK o : o = [value |-> Nothing, at |-> p, errors |-> <<p>>]
    OBVIOUS
  <2>3. <<p>> \in Seq(1 .. Len(tokens)) /\ ToSet(<<p>>) = {p}
    BY <2>2, FewReports
  <2>4. Sound(p, o) /\ Explained(o)
    <3>1. Accounted(p, p, <<p>>)
      BY <1>1, <1>2, NothingYet
    <3>. QED
      BY <1>1, <1>2, <2>2, <2>3, <3>1 DEF Sound, Explained
  <2>5. Parsing(NextLine(p), program, extents, errors \o <<p>>)
    BY <1>1, <2>4, Failing
  <2>6. errors \o <<p>> = Append(errors, p)
    <3>1. errors \in Seq(1 .. Len(tokens))
      BY <1>1 DEF Parsing, IsHistory
    <3>. QED
      BY <2>2, <3>1
  <2>7. IInv'
    BY <1>1, <2>1, <2>5, <2>6, Keeps
  <2>8. p < NextLine(p) /\ NextLine(p) \in Nat
    BY <1>1, <2>1, NextLineFacts, PositionFacts
  <2>. QED
    BY <1>2, <2>1, <2>7, <2>8
<1>. QED
  BY <1>3, <1>4, <1>5, <1>6, <1>7, <1>8, <1>9, <1>10 DEF parse

LEMMA InvStep == IInv /\ [Next]_vars => IInv'
<1>. SUFFICES ASSUME IInv, [Next]_vars PROVE IInv'
  OBVIOUS
<1>1. CASE Next
  BY <1>1, ParseStep DEF Next
<1>2. CASE UNCHANGED vars
  <2>1. /\ tokens' = tokens /\ currentToken' = currentToken /\ program' = program
        /\ extents' = extents /\ errors' = errors
    BY <1>2 DEF vars
  <2>. PICK p, prog, exts, reports :
         p = currentToken /\ prog = program /\ exts = extents /\ reports = errors
    OBVIOUS
  <2>. QED
    BY <2>1, Keeps DEF IInv
<1>. QED
  BY <1>1, <1>2

\* IInv is an invariant: every iteration of parse() leaves a history in which what
\* was consumed is a statement, a line end, or on a line with an error.
THEOREM Invariance == Spec => []IInv
BY InvStart, InvStep, PTL DEF Spec

LEMMA TypesInv == IInv => TypeOK
BY DEF IInv, Parsing, IsHistory, TypeOK, Position, Extent, IsAligned

\* The parser builds statements of its types only, whatever the tokens are.
THEOREM TypeCorrect == Spec => []TypeOK
BY TypesInv, Invariance, PTL

\* When the loop has ended, every token but the last is before the position.
LEMMA ParsedFacts ==
  ASSUME IInv, Parsed
  PROVE  /\ currentToken \in Nat /\ currentToken >= Len(tokens)
         /\ DOMAIN tokens = 1 .. Len(tokens) /\ Len(tokens) \in Nat \ {0}
         /\ tokens[Len(tokens)].type = "END_OF_FILE"
         /\ \A t \in DOMAIN tokens : t \in 1 .. currentToken - 1 \/ t = Len(tokens)
<1>. PICK p : p = currentToken
  OBVIOUS
<1>1. IsInput(tokens) /\ p \in Position
  BY DEF IInv, Parsing
<1>2. p \in Nat \ {0} /\ DOMAIN tokens = 1 .. Len(tokens) /\ Len(tokens) \in Nat \ {0}
  BY <1>1, PositionFacts, LengthFacts
<1>3. p >= Len(tokens)
  BY <1>1, <1>2, EndFacts DEF Parsed, Here, endOfFile
<1>4. tokens[Len(tokens)].type = "END_OF_FILE"
  BY <1>1, <1>2 DEF IsInput
<1>5. \A t \in DOMAIN tokens : t \in 1 .. p - 1 \/ t = Len(tokens)
  BY <1>2, <1>3
<1>. QED
  BY <1>2, <1>3, <1>4, <1>5

\* No token is dropped in silence: when parse() ends, each is part of a statement,
\* or its line, or the NEWLINE before it, has an error (skipToNextLine()).
THEOREM TokensAnswered == Spec => []EveryTokenIsAnswered
<1>1. IInv => EveryTokenIsAnswered
  <2>. SUFFICES ASSUME IInv, Parsed, NEW t \in DOMAIN tokens,
                       tokens[t].type \notin {"NEWLINE", "END_OF_FILE"}
                PROVE  \/ IsCovered(t)
                       \/ \E e \in Reported :
                            \/ LineOf(e) = LineOf(t)
                            \/ tokens[e].type = "NEWLINE" /\ LineOf(e) + 1 = LineOf(t)
    BY DEF EveryTokenIsAnswered
  <2>1. t \in 1 .. currentToken - 1
    BY ParsedFacts
  <2>2. IsAnswered(t, extents, errors)
    BY <2>1 DEF IInv, Parsing
  <2>. QED
    BY <2>2 DEF IsAnswered, IsCovered, Reported, IsNewline
<1>. QED
  BY <1>1, Invariance, PTL

LEMMA InvalidInv == IInv => InvalidTokensAreReported
<1>. SUFFICES ASSUME IInv, Parsed, NEW t \in DOMAIN tokens, tokens[t].type = "INVALID",
                     errors = <<>>
              PROVE  FALSE
  BY DEF InvalidTokensAreReported
<1>1. t \in 1 .. currentToken - 1
  BY ParsedFacts
<1>. QED
  BY <1>1 DEF IInv, Parsing

\* A source with an INVALID token is never accepted, though the driver does not look
\* at the lexer's errors.
THEOREM InvalidReported == Spec => []InvalidTokensAreReported
BY InvalidInv, Invariance, PTL

\* Without errors no statement spans two lines: consume() takes a NEWLINE for another
\* token only with an error.
THEOREM StatementsOnTheirLine == Spec => []StatementsStayOnTheirLine
<1>1. IInv => StatementsStayOnTheirLine
  <2>. SUFFICES ASSUME IInv, errors = <<>>, NEW i \in DOMAIN extents
                PROVE  LineOf(extents[i][1]) = LineOf(extents[i][2])
    BY DEF StatementsStayOnTheirLine
  <2>. PICK a, b : a = extents[i][1] /\ b = extents[i][2]
    OBVIOUS
  <2>1. a \in 1 .. Len(tokens) /\ b \in 1 .. Len(tokens) /\ a <= b /\ IsInput(tokens)
    BY DEF IInv, Parsing, IsHistory, Extent
  <2>2. \A t \in a .. b : ~IsNewline(t)
    BY DEF IInv, Parsing, InLine
  <2>3. /\ a \in Nat \ {0} /\ b \in Nat \ {0} /\ b <= Len(tokens) + 1
        /\ Len(tokens) \in Nat /\ DOMAIN tokens = 1 .. Len(tokens)
    BY <2>1, LengthFacts
  <2>4. \A x \in DOMAIN tokens : a <= x /\ x < b => ~IsNewline(x)
    BY <2>2, <2>3
  <2>5. LineOf(b) = LineOf(a)
    BY <2>1, <2>3, <2>4, SameLine
  <2>. QED
    BY <2>5
<1>. QED
  BY <1>1, Invariance, PTL

\* Every iteration of parse() gets past at least one token, the error paths included:
\* the loop cannot hang on a token no branch takes.
THEOREM EveryStepAdvances == Spec => [][currentToken' > currentToken]_vars
<1>1. IInv /\ [Next]_vars => [currentToken' > currentToken]_vars
  BY ParseStep DEF Next
<1>. QED
  BY <1>1, Invariance, PTL DEF Spec

=============================================================================
