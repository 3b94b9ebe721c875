------------------------------- MODULE Syntax -------------------------------
(***************************************************************************)
(* Text and trees: the parser, from the tokens of the lexer on, and the    *)
(* text formatter, up to the tokens its text has for the lexer.  The       *)
(* digits, the kinds of literal but the integers, the matrices, sqrt and   *)
(* the wording of errors are left out, and the relations are one.          *)
(***************************************************************************)
EXTENDS Expr, FiniteSets, SequencesExt

Token(kind, tag) == [kind |-> kind, tag |-> tag]
Of(kind)         == Token(kind, 0)
EndOfInput       == Of("EndOfInput")

\* Names that mean something: I is the imaginary unit as it is read and as it is written.
NameRootOf == 200
NameIRead == 201
NameIWritten == 202
NameWhere == 203
NameLeft == 204
NameRight == 205
NameBoth == 206

Factorial == 1
Less == 6

Failed          == [ok |-> FALSE, e |-> IntegerLit(0), next |-> 0]
Parsed(e, next) == [ok |-> TRUE, e |-> e, next |-> next]

StartsOperand == {"Integer", "Identifier", "LParen", "Integral", "Derivative", "Limit"}
Implicit == 25      \* the precedence of a product without a star, and of a prefix minus

InfixPrecedence(kind) ==
    CASE kind = "Less" -> 5 [] kind \in {"Plus", "Minus"} -> 10
      [] kind \in {"Star", "Slash", "Percent"} -> 20 [] kind = "Caret" -> 30 [] OTHER -> -1

\* Fault: a power takes its operands from the left.
LeftAssociative(kind) == InfixPrecedence(kind) + 1

\* The least precedence in the right operand: a power is right associative.
NextPrecedence(kind) == InfixPrecedence(kind) + (IF kind = "Caret" THEN 0 ELSE 1)

\* make_product_expr, and the same for sums: operands of the same kind are merged.
Joined(kind, l, r) ==
    LET parts(e) == IF e.kind = kind THEN e.args ELSE <<e>>
    IN  Node(kind, 0, parts(l) \o parts(r))

InfixExpr(kind, l, r) ==
    CASE kind = "Plus" -> Joined("Sum", l, r)      [] kind = "Star" -> Joined("Product", l, r)
      [] kind = "Minus" -> Binary(Sub, l, r)       [] kind = "Slash" -> Binary(Div, l, r)
      [] kind = "Percent" -> Binary(Mod, l, r)     [] kind = "Caret" -> Binary(Pow, l, r)
      [] kind = "Less" -> Binary(Less, l, r)

\* The arguments parse_function_call accepts for RootOf: a bound has signed integers,
\* and no denominator that is zero.
RootOfArguments(args) ==
    LET signed(e) == IF e.kind = "Unary" /\ e.tag = Neg THEN e.args[1] ELSE e
    IN  /\ Len(args) \in {2, 3, 7} /\ args[2].kind = "Symbol"
        /\ Len(args) >= 3 => args[3].kind = "IntegerLit"
        /\ Len(args) = 7 => /\ \A i \in 4 .. 7 : signed(args[i]).kind = "IntegerLit"
                            /\ signed(args[5]).tag # 0 /\ signed(args[7]).tag # 0

-----------------------------------------------------------------------------
(* The parser.  An operator takes the tokens and the place it reads from.   *)

RECURSIVE ParseExpr(_, _, _), ParsePrefix(_, _), ParseRest(_, _, _), ParseItems(_, _, _, _),
          ParseArguments(_, _, _)

ParseExpr(ts, at, min) ==
    LET left == ParsePrefix(ts, at) IN IF left.ok THEN ParseRest(ts, left, min) ELSE Failed

\* The loop of parse_expr: postfix operators, a product without a star, an infix operator.
ParseRest(ts, left, min) ==
    LET kind   == ts[left.next].kind
        factor == ParseExpr(ts, left.next, Implicit + 1)
        right  == ParseExpr(ts, left.next + 1, NextPrecedence(kind))
    IN  CASE kind = "Bang" -> ParseRest(ts, Parsed(Unary(Factorial, left.e), left.next + 1), min)
          [] kind \in StartsOperand ->
               IF Implicit < min THEN left
               ELSE IF factor.ok
                    THEN ParseRest(ts, Parsed(Joined("Product", left.e, factor.e), factor.next), min)
                    ELSE Failed
          [] kind \notin StartsOperand \cup {"Bang"} ->
               IF InfixPrecedence(kind) < min THEN left
               ELSE IF right.ok
                    THEN ParseRest(ts, Parsed(InfixExpr(kind, left.e, right.e), right.next), min)
                    ELSE Failed

\* One after the other: expressions, and tokens of the kinds that are named.
ParseItems(ts, at, items, exprs) ==
    LET first == ParseExpr(ts, at, 0)
    IN  IF items = <<>> THEN [ok |-> TRUE, e |-> exprs, next |-> at]
        ELSE IF Head(items) = "expr"
             THEN IF first.ok THEN ParseItems(ts, first.next, Tail(items), Append(exprs, first.e))
                  ELSE Failed
        ELSE IF ts[at].kind # Head(items) THEN Failed
        ELSE ParseItems(ts, at + 1, Tail(items),
                        IF Head(items) = "Identifier" THEN Append(exprs, Symbol(ts[at].tag)) ELSE exprs)

\* The arguments of a call from the first one on.
ParseArguments(ts, at, args) ==
    LET one == ParseExpr(ts, at, 0)
    IN  CASE ~one.ok -> Failed
          [] one.ok /\ ts[one.next].kind = "Comma" ->
               ParseArguments(ts, one.next + 1, Append(args, one.e))
          [] one.ok /\ ts[one.next].kind = "RParen" ->
               [ok |-> TRUE, e |-> Append(args, one.e), next |-> one.next + 1]
          [] OTHER -> Failed

\* The first list of items that can be parsed, made a node; the lists do not overlap.
Form(ts, at, lists, Made(_)) ==
    LET good == {p \in {ParseItems(ts, at, items, <<>>) : items \in lists} : p.ok}
        p    == CHOOSE p \in good : TRUE
    IN  IF good = {} THEN Failed ELSE Parsed(Made(p.e), p.next)

Directions == {NameLeft, NameRight, NameBoth}

\* parse_integral, parse_derivative and parse_limit, from the token after the keyword on.
ParseSpecial(kind, ts, at) ==
    LET head == <<"LParen", "expr", "Comma", "Identifier">>
        end  == <<"RParen">>
        Opt(items) == {head \o end, head \o items \o end}
        Integral(es)   == Node("Integral", 0, es)
        Variable(es)   == Node("Derivative", 1, <<es[2], es[1]>>)
        Derivative(es) == Node("Derivative", IF Len(es) = 2 THEN 1 ELSE es[3].tag, <<es[1], es[2]>>)
        Limit(es)      == Node("Limit", IF Len(es) = 3 THEN NameBoth ELSE es[4].tag, SubSeq(es, 1, 3))
        order == ParseItems(ts, at, head \o <<"Comma", "expr">> \o end, <<>>)
        limit == Form(ts, at, {head \o <<"Comma", "expr">> \o end,
                               head \o <<"Comma", "expr", "Comma", "Identifier">> \o end}, Limit)
    IN  CASE kind = "Integral" -> Form(ts, at, Opt(<<"Comma", "expr", "Comma", "expr">>), Integral)
          [] kind = "Derivative" ->
               IF ts[at].kind = "Identifier" THEN Form(ts, at, {<<"Identifier", "LParen", "expr", "RParen">>}, Variable)
               ELSE IF order.ok /\ order.e[3].kind # "IntegerLit" THEN Failed
               ELSE Form(ts, at, Opt(<<"Comma", "expr">>), Derivative)
          [] kind = "Limit" -> IF limit.ok /\ limit.e.tag \notin Directions THEN Failed ELSE limit

ParseCall(ts, name, at) ==
    LET args == IF ts[at].kind = "RParen" THEN [ok |-> TRUE, e |-> <<>>, next |-> at + 1]
                ELSE ParseArguments(ts, at, <<>>)
    IN  IF args.ok /\ (name = NameRootOf => RootOfArguments(args.e))
        THEN Parsed(FuncCall(name, args.e), args.next) ELSE Failed

\* parse_prefix and parse_primary.
ParsePrefix(ts, at) ==
    LET token   == ts[at]
        operand == ParseExpr(ts, at + 1, Implicit)
        grouped == ParseItems(ts, at + 1, <<"expr", "RParen">>, <<>>)
    IN  CASE token.kind = "Minus" ->
               IF operand.ok THEN Parsed(Unary(Neg, operand.e), operand.next) ELSE Failed
          [] token.kind \in {"Integral", "Derivative", "Limit"} -> ParseSpecial(token.kind, ts, at + 1)
          [] token.kind = "Integer" -> Parsed(IntegerLit(token.tag), at + 1)
          [] token.kind = "Identifier" ->
               IF ts[at + 1].kind = "LParen" THEN ParseCall(ts, token.tag, at + 2)
               ELSE Parsed(IF token.tag = NameIRead THEN Node("Constant", NameIRead, <<>>)
                           ELSE Symbol(token.tag), at + 1)
          [] token.kind = "LParen" ->
               IF grouped.ok THEN Parsed(grouped.e[1], grouped.next) ELSE Failed
          [] OTHER -> Failed

\* Parser::parse: the whole input.
Parse(input) ==
    LET ts == Append(input, EndOfInput)
        p  == ParseExpr(ts, 1, 0)
    IN  IF input # <<>> /\ p.ok /\ ts[p.next] = EndOfInput THEN p ELSE Failed

-----------------------------------------------------------------------------
(* The text formatter.                                                      *)

Precedence(e) ==
    CASE e.kind \in {"IntegerLit", "Symbol", "Constant", "FuncCall"} -> 100
      [] e.kind = "Unary" -> 80
      [] e.kind = "Binary" /\ e.tag = Pow -> 90
      [] e.kind = "Product" \/ (e.kind = "Binary" /\ e.tag \in {Mul, Div}) -> 70
      [] e.kind = "Sum" \/ (e.kind = "Binary" /\ e.tag \in {Add, Sub}) -> 60
      [] OTHER -> 0

RECURSIVE Subtrees(_), Format(_), FormatNode(_)

Subtrees(e) == {e} \cup UNION {Subtrees(e.args[i]) : i \in DOMAIN e.args}

\* The nodes that count_occurrences finds more than once and that are not atoms.
Shared(e) ==
    LET places(s) == UNION {{<<parent, i>> : i \in {k \in DOMAIN parent.args : parent.args[k] = s}}
                               : parent \in Subtrees(e)}
    IN  {s \in Subtrees(e) \ {e} : /\ s.kind \notin {"IntegerLit", "Symbol", "Constant"}
                                   /\ Cardinality(places(s)) > 1}

FormatChild(parent, child, right) ==
    LET inner == Format(child)
        lower == Precedence(child) < Precedence(parent)
        equal == /\ Precedence(child) = Precedence(parent) /\ right
                 /\ parent.kind = "Binary" /\ parent.tag \in {Sub, Div}
    IN  IF lower \/ equal THEN <<Of("LParen")>> \o inner \o <<Of("RParen")>> ELSE inner

BinaryToken(op) ==
    Of(CASE op = Add -> "Plus" [] op = Sub -> "Minus" [] op = Mul -> "Star" [] op = Div -> "Slash"
         [] op = Mod -> "Percent" [] op = Pow -> "Caret" [] op = Less -> "Less")

Separated(texts, token) ==
    FoldLeft(LAMBDA text, part : IF text = <<>> THEN part ELSE text \o <<token>> \o part, <<>>, texts)

\* A term of a sum after the first: a minus is its own operator.
NextTerm(sum, term) ==
    IF term.kind = "Unary" /\ term.tag = Neg
    THEN <<Of("Minus")>> \o FormatChild(sum, term.args[1], FALSE)
    ELSE <<Of("Plus")>> \o FormatChild(sum, term, FALSE)

\* format_internal: every unary operator is written as a minus.  The name of a shared
\* argument, in its place, is left out.
FormatNode(e) ==
    LET children == [i \in DOMAIN e.args |-> FormatChild(e, e.args[i], FALSE)]
    IN  CASE e.kind = "IntegerLit" -> IF e.tag < 0 THEN <<Of("Minus"), Token("Integer", -e.tag)>>
                                      ELSE <<Token("Integer", e.tag)>>
          [] e.kind = "Symbol"   -> <<Token("Identifier", e.tag)>>
          [] e.kind = "Constant" -> <<Token("Identifier", NameIWritten)>>
          [] e.kind = "Unary"    -> <<Of("Minus")>> \o children[1]
          [] e.kind = "Binary"   ->
               children[1] \o <<BinaryToken(e.tag)>> \o FormatChild(e, e.args[2], TRUE)
          [] e.kind = "Product"  -> Separated(children, Of("Star"))
          [] e.kind = "Sum"      ->
               children[1] \o FlattenSeq([i \in 1 .. Len(e.args) - 1 |-> NextTerm(e, e.args[i + 1])])
          [] e.kind = "FuncCall" ->
               <<Token("Identifier", e.tag), Of("LParen")>>
               \o Separated([i \in DOMAIN e.args |-> FormatNode(e.args[i])], Of("Comma"))
               \o <<Of("RParen")>>
          [] OTHER -> <<Of("Invalid")>>

\* format: shared nodes are defined after the text, in a clause the parser has no
\* syntax for; what the clause says is left out.
Format(e) ==
    IF Shared(e) = {} THEN FormatNode(e)
    ELSE FormatNode(e) \o <<Token("Identifier", NameWhere), Of("LBrace"), Of("RBrace")>>
=============================================================================
