--------------------------- MODULE MemoryOperands ---------------------------
(***************************************************************************)
(* Memory operands: the Pratt parser of the expression between brackets,   *)
(* its flattening into signed terms, and what the terms make of base,      *)
(* index, scale, displacement and symbols.                                 *)
(*                                                                         *)
(* Token positions are 1-based. What parsing returns holds the position    *)
(* after it (at) and the tokens errors were reported at (errors).          *)
(***************************************************************************)
EXTENDS Tokens, SequencesExt

CONSTANT IntSize  \* number of values of int (2^32)

ASSUME IntAssumption == IntSize \in Nat \ {0}

VARIABLE tokens

\* Of a token, or behind the last one.
Position == 1 .. Len(tokens) + 1

\* The token at a position; the last one (END_OF_FILE) at any position behind.
Place(p) == IF p > Len(tokens) THEN Len(tokens) ELSE p
peek(p) == tokens[Place(p)]

\* The position after advance().
Advance(p) == IF p > Len(tokens) THEN p ELSE p + 1

match(type, p) == peek(p).type = type

\* The lower-case word of an identifier, NoName of any other token.
Key(p) == IF match("IDENTIFIER", p) THEN stringToLower(peek(p).word) ELSE NoName

tokenIsRegister(p) == Key(p) \in Register

-----------------------------------------------------------------------------
(* Expressions. A node of the tree is represented by the signed terms that *)
(* flattenAST() collects from it. Only a number or a register can be a     *)
(* factor; every product of anything else is the term BAD.                 *)

Term ==
  [kind : {"NUMBER"}, value : Int] \cup [kind : {"REGISTER"}, reg : Register]
    \cup [kind : {"IDENTIFIER"}, name : Name] \cup [kind : {"BAD"}]
    \cup [kind : {"PRODUCT"}, reg : Register, value : Int]

SignedTerm == [sign : {-1, 1}, term : Term]

\* leaf: NUMBER and REGISTER nodes, which are not below any operator.
Node == [leaf : BOOLEAN, terms : Seq(SignedTerm) \ {<<>>}]

NoNode == [leaf |-> FALSE, terms |-> <<>>]

Leaf(term) == [leaf |-> TRUE, terms |-> <<[sign |-> 1, term |-> term]>>]

Negated(terms) == [i \in DOMAIN terms |-> [terms[i] EXCEPT !.sign = -@]]

IsLeaf(node, kind) == node.leaf /\ node.terms[1].term.kind = kind

Product(left, right) ==
  IF IsLeaf(left, "REGISTER") /\ IsLeaf(right, "NUMBER")
    THEN [kind |-> "PRODUCT", reg |-> left.terms[1].term.reg,
          value |-> right.terms[1].term.value]
  ELSE IF IsLeaf(left, "NUMBER") /\ IsLeaf(right, "REGISTER")
    THEN [kind |-> "PRODUCT", reg |-> right.terms[1].term.reg,
          value |-> left.terms[1].term.value]
  ELSE [kind |-> "BAD"]

\* The node of a binary operator, flattened.
flattenAST(type, left, right) ==
  [leaf  |-> FALSE,
   terms |-> CASE type = "PLUS"  -> left.terms \o right.terms
               [] type = "MINUS" -> left.terms \o Negated(right.terms)
               [] type = "STAR"  -> Leaf(Product(left, right)).terms]

\* Mutant: a minus binds its right side more loosely than a plus.
LooseMinus(type) ==
  CASE type = "STAR" -> 60
    [] type = "PLUS" -> 40
    [] type = "MINUS" -> 30
    [] OTHER -> 0

bindingPower(type) ==
  CASE type = "STAR" -> 60
    [] type \in {"PLUS", "MINUS"} -> 40
    [] OTHER -> 0

UnaryPower == 50

\* A number, a register or a symbol. The symbol's name is lower-cased.
LeafAt(p) ==
  CASE match("NUMBER", p)      -> Leaf([kind |-> "NUMBER", value |-> peek(p).value])
    [] tokenIsRegister(p)      -> Leaf([kind |-> "REGISTER", reg |-> Key(p)])
    [] OTHER                   -> Leaf([kind |-> "IDENTIFIER", name |-> Key(p)])

\* An expression being read by parseExpression(rbp): the operand to the left of at,
\* if there is one yet.
Reading ==
  [rbp : Nat, node : Node \cup {NoNode}, at : Position, errors : Seq(1 .. Len(tokens))]

\* The operand on the right of an operator.
Begin(r, rbp) == [r EXCEPT !.rbp = rbp, !.node = NoNode, !.at = @ + 1]

Power(r) == bindingPower(peek(r.at).type)

\* The operand that begins an expression, then the loop over the operators that
\* bind stronger than rbp.
parseExpression[r \in Reading] ==
  CASE r.node # NoNode /\ r.rbp >= Power(r) -> r
    [] r.node # NoNode /\ r.rbp < Power(r) ->
         parseExpression[[parseExpression[Begin(r, Power(r))] EXCEPT
                            !.rbp = r.rbp,
                            !.node = flattenAST(peek(r.at).type, r.node, @)]]
    [] r.node = NoNode /\ peek(r.at).type \in {"NUMBER", "IDENTIFIER"} ->
         parseExpression[[r EXCEPT !.node = LeafAt(r.at), !.at = @ + 1]]
    [] r.node = NoNode /\ match("MINUS", r.at) ->
         parseExpression[[parseExpression[Begin(r, UnaryPower)] EXCEPT
                            !.rbp = r.rbp,
                            !.node = [leaf |-> FALSE, terms |-> Negated(@.terms)]]]
    [] OTHER ->  \* an error, and a dummy operand to continue with
         parseExpression[[r EXCEPT !.node = Leaf([kind |-> "NUMBER", value |-> 0]),
                                   !.at = Advance(@),
                                   !.errors = Append(@, Place(r.at))]]

ExpressionAt(p) ==
  parseExpression[[rbp |-> 0, node |-> NoNode, at |-> p, errors |-> <<>>]]

-----------------------------------------------------------------------------
(* Terms of a memory operand *)

\* static_cast<int> of a 64-bit number.
ToInt(x) == LET w == x % IntSize IN IF 2 * w >= IntSize THEN w - IntSize ELSE w

SetIndex(out, reg, scale) ==
  [out EXCEPT !.ok = out.ok /\ out.mem.index = NoName /\ scale \in {1, 2, 4, 8},
              !.mem.index = reg, !.mem.scale = scale]

\* One iteration of the loop over the terms: the first unnamed register is the
\* base, the next one the index, and so is a scaled one. out.ok is lost at the
\* first unsupported term.
AddTerm(out, signed) ==
  LET term == signed.term IN
  CASE term.kind = "NUMBER" ->
         [out EXCEPT !.mem.displacement = @ + signed.sign * term.value]
    [] term.kind = "IDENTIFIER" ->
         [out EXCEPT !.mem.symbols = Append(@, [sign |-> signed.sign, name |-> term.name])]
    [] term.kind = "REGISTER" /\ signed.sign > 0 ->
         IF out.mem.base = NoName THEN [out EXCEPT !.mem.base = term.reg]
         ELSE SetIndex(out, term.reg, 1)
    [] term.kind = "PRODUCT" /\ signed.sign > 0 ->
         SetIndex(out, term.reg, ToInt(term.value))
    [] OTHER -> [out EXCEPT !.ok = FALSE]

NoTerms(size) ==
  [ok  |-> TRUE,
   mem |-> [base |-> NoName, index |-> NoName, scale |-> 1, displacement |-> 0,
            symbols |-> <<>>, size |-> size]]

Combine(terms, size) ==
  LET out[k \in 0 .. Len(terms)] ==
        IF k = 0 THEN NoTerms(size) ELSE AddTerm(out[k - 1], terms[k])
  IN  out[Len(terms)]

HasSizePrefix(p) == Key(p) \in DOMAIN SizePrefixMap

\* The words before the bracket: none, a size, or a size and ptr.
isMemoryOperand(p) ==
  \/ match("LBRACKET", p)
  \/ HasSizePrefix(p) /\ match("LBRACKET", p + 1)
  \/ HasSizePrefix(p) /\ Key(p + 1) = "ptr" /\ match("LBRACKET", p + 2)

\* What parsing an operand returns: the operand or NoOperand, the position after
\* it, and the tokens errors were reported at.
NoOperand == [kind |-> "NONE"]

\* A memory operand whose expression has been read.
Bracketed == [read : Reading, size : OperandSize]

\* The terms, and the closing bracket.
Close[end \in Bracketed] ==
  LET r        == end.read
      combined == Combine(r.node.terms, end.size)
  IN IF combined.ok /\ match("RBRACKET", r.at)
       THEN [value |-> [kind |-> "MEM", mem |-> combined.mem], at |-> r.at + 1,
             errors |-> r.errors]
       ELSE [value |-> NoOperand, at |-> r.at, errors |-> Append(r.errors, Place(r.at))]

\* Only called where isMemoryOperand(p): its checks of the words before the
\* bracket cannot fail.
parseMemoryOperand(p) ==
  LET size    == IF HasSizePrefix(p) THEN SizePrefixMap[Key(p)] ELSE ANY
      bracket == CHOOSE b \in p .. p + 2 :
                   match("LBRACKET", b) /\ \A q \in p .. b - 1 : ~match("LBRACKET", q)
  IN Close[[read |-> ExpressionAt(bracket + 1), size |-> size]]

=============================================================================
