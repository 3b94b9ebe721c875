---------------------------- MODULE MCTextFormat ----------------------------
(***************************************************************************)
(* What is read is written: every input of a few tokens that the parser    *)
(* accepts.                                                                *)
(***************************************************************************)
EXTENDS Syntax

CONSTANT MaxTokens      \* bound: the length of an input

VARIABLE input

Tokens == {Token("Identifier", 1), Token("Integer", 2)}
             \cup {Of(k) : k \in {"Plus", "Minus", "Star", "Caret", "Bang", "LParen", "RParen"}}

Init == input = <<>>
Next == Len(input) < MaxTokens /\ \E t \in Tokens : input' = Append(input, t)
Spec == Init /\ [][Next]_input

\* The value of an expression with the symbol at 3: a set, empty where a power or a
\* factorial is not a small natural number.
RECURSIVE Values(_)
Values(e) ==
    LET arg(i) == Values(e.args[i])
        add(S, T) == {a + b : a \in S, b \in T}
        mul(S, T) == {a * b : a \in S, b \in T}
        all(f(_, _), unit) == FoldLeft(f, {unit}, [i \in DOMAIN e.args |-> arg(i)])
    IN  CASE e.kind = "IntegerLit" -> {e.tag}
          [] e.kind = "Symbol" -> {3}
          [] e.kind = "Sum" -> all(add, 0)
          [] e.kind = "Product" -> all(mul, 1)
          [] e.kind = "Unary" /\ e.tag = Neg -> {-a : a \in arg(1)}
          [] e.kind = "Unary" /\ e.tag = Factorial ->
               {FoldLeft(LAMBDA p, k : p * k, 1, [k \in 1 .. a |-> k]) : a \in arg(1) \cap 0 .. 6}
          [] e.kind = "Binary" /\ e.tag = Sub -> {a - b : a \in arg(1), b \in arg(2)}
          [] e.kind = "Binary" /\ e.tag = Pow -> {a ^ n : a \in arg(1) \cap -9 .. 9, n \in arg(2) \cap 0 .. 6}
          [] OTHER -> {}

\* The text of an expression is text the parser accepts, and means the same.
TextIsParserSafe ==
    LET e == Parse(input).e
        again == Parse(Format(e))
    IN  Parse(input).ok /\ Values(e) # {} => again.ok /\ Values(again.e) = Values(e)
=============================================================================
