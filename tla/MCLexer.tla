------------------------------ MODULE MCLexer -------------------------------
(***************************************************************************)
(* The lexer on every short text over one character or two of each class,  *)
(* and on longer ones made of the characters that nest: quotes,            *)
(* backslashes, comments and line ends, or digits and letters.             *)
(***************************************************************************)
EXTENDS Lexer

CONSTANTS MaxText, MaxStringText, MaxNumberText

MCLetter == {"a", "n", "x"}

MCSpace == {" ", "\t"}

MCDigitValue == ("0" :> 0) @@ ("1" :> 1) @@ ("a" :> 10)

MCChar ==
  MCLetter \cup MCSpace \cup {"0", "1", NL, Quote, Backslash, ";", ",", ".", "?", "_", NUL}

UpTo(n, S) == UNION { [1 .. k -> S] : k \in 0 .. n }

MCSourceTexts ==
  UNION { UpTo(MaxText, {"a", "x", "0", " ", NL, Quote, Backslash, ";", ".", "?", NUL}),
          UpTo(MaxStringText, {"n", NL, Quote, Backslash, ";"}),
          UpTo(MaxNumberText, {"0", "1", "x", "a", "_"}) }

=============================================================================
