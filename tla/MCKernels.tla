----------------------------- MODULE MCKernels -----------------------------
(***************************************************************************)
(* The algorithms that keep no state between calls, and the memo cache,    *)
(* on small instances.  A behaviour is one job: the operations of a cache, *)
(* or one input of an algorithm, chosen in two steps so that the workers   *)
(* share the inputs.                                                       *)
(***************************************************************************)
EXTENDS LruCache, RewriteEngine, RuleNet, Syntax, Comparisons, Arithmetic, Groups

CONSTANT MaxTokens      \* bound: the length of an input of the parser

VARIABLE job

-----------------------------------------------------------------------------
(* The inputs.                                                              *)

x == Symbol(1)
y == Symbol(2)
u == Symbol(FirstWildcard)
v == Symbol(FirstWildcard + 1)
w == Symbol(FirstWildcard + 2)
zero == IntegerLit(0)
one  == IntegerLit(1)
two  == IntegerLit(2)
Minus(e) == Unary(Neg, e)

Rule(pattern, replacement) == [pattern |-> pattern, replacement |-> replacement, integers |-> {}]
Distribute == Rule(Product(<<u, Sum(<<v, w>>)>>), Sum(<<Product(<<u, v>>), Product(<<u, w>>)>>))

\* Rules that keep the value of an expression; the last but one only for integers.
Rules == <<
    Rule(Sum(<<u, zero>>), u),
    Rule(Product(<<u, zero>>), zero),
    Rule(Sum(<<u, Minus(u)>>), zero),
    Rule(Sum(<<u, v, Minus(u)>>), v),
    Rule(Minus(Minus(u)), u),
    Rule(Product(<<Minus(u), Minus(v)>>), Product(<<u, v>>)),
    Distribute,
    [Distribute EXCEPT !.integers = {FirstWildcard}],
    Rule(Sum(<<u, u>>), Product(<<two, u>>)) >>

Leaves == {x, y, zero, one}
Parts  == {x, zero, Minus(x), Minus(Minus(y)), Sum(<<x, x>>), Sum(<<zero, y>>), Product(<<x, y>>),
           Sum(<<x, Minus(x)>>), FuncCall(FnF, <<Sum(<<x, zero>>)>>)}
Pairs(S, T) == UNION {{Sum(<<s, t>>), Product(<<s, t>>), Binary(Sub, s, t)} : s \in S, t \in T}
Triples(R, S, T) == UNION {{Sum(<<r, s, t>>), Product(<<r, s, t>>)} : r \in R, s \in S, t \in T}
Trees == Leaves \cup {Minus(e) : e \in Parts} \cup Pairs(Leaves, Leaves) \cup Pairs(Parts, Parts)
            \cup Triples({x, zero, Minus(x)}, Parts, Parts)

\* The terms that are compared: every kind, sums of equal weight nested and flat.
Literals == UNION {{IntegerLit(n), RationalLit(n), DecimalLit(n), ComplexLit(n), Constant(n)} : n \in {1, 2}}
Atoms == {x, y, one}
ComparedTerms ==
    LET Over(S) == UNION {{Sum(<<s, t>>), Product(<<s, t>>), Binary(Pow, s, t)} : s \in S, t \in S}
                     \cup {Minus(s) : s \in S}
                     \cup {FuncCall(f, <<s>>) : f \in {FnSin, FnF, FnG}, s \in S}
    IN  Atoms \cup Over(Atoms) \cup {Sum(<<a, b, c>>) : a \in Atoms, b \in Atoms, c \in Atoms}
              \cup Over({one, Sum(<<x, y>>), FuncCall(FnF, <<x>>), Minus(x)})
              \cup Literals \cup Over({x, DecimalLit(1), DecimalLit(2)})
              \cup {Sum(<<x, l>>) : l \in Literals} \cup {Minus(Minus(l)) : l \in Literals}

\* The rules of the net, and the trees it is asked about.
SomeRules == {Rules[i] : i \in {1, 3, 5, 6, 8, 9}} \cup
    {Rule(u, u), Rule(FuncCall(FnF, <<u>>), u), Rule(FuncCall(FnF, <<u, v>>), u), Rule(FuncCall(FnG, <<u>>), u), Rule(x, y)}
SomeProbes == {x, y, one, Minus(x), Minus(Minus(x)), Sum(<<x, zero>>), Sum(<<x, x>>), Sum(<<Minus(x), x>>),
    Sum(<<x, y, Minus(x)>>), Product(<<Minus(x), Minus(y)>>), Product(<<one, Sum(<<x, y>>)>>), Product(<<x, zero>>),
    Binary(Pow, x, one), FuncCall(FnF, <<x>>), FuncCall(FnF, <<x, y>>), FuncCall(FnG, <<one>>), FuncCall(FnSin, <<x>>)}

\* The operands of the arithmetic: around the powers of the base, and spread out.
SomeDivisors == {1, 7, 8, 9, 56, 63, 64, 65, 71, 100, 127, 255, 448, 511, 512, 513, 575, 1032,
                 2055, 3584, 3591, 4094, 4095}
SomeDividends == {i * 2097152 + j * 37 : i \in 0 .. 7, j \in 0 .. 40}
                    \cup {4096 * i : i \in {1, 8, 63, 64, 511, 512, 4095}}
                    \cup {4095 * 4095, 4095 * 4096 - 1, 64 * 63, 64 * 64 - 1, 512 * 512 - 1, 511 * 512}

OnSix(images) == [i \in Points(6) |-> images[i + 1]]
SomePermutations == Symmetric(4) \cup {OnSix(s) : s \in {<<1, 2, 3, 4, 5, 0>>, <<1, 0, 3, 2, 5, 4>>, <<1, 2, 0, 4, 5, 3>>,
    <<3, 4, 5, 0, 1, 2>>, <<3, 5, 4, 0, 2, 1>>, <<1, 0, 2, 3, 4, 5>>, <<5, 4, 3, 2, 1, 0>>,
    <<1, 2, 3, 4, 0, 5>>}}

Tokens == {Token("Identifier", 1), Token("Integer", 2)}
             \cup {Of(k) : k \in {"Plus", "Minus", "Star", "Slash", "Caret", "Less", "Bang",
                                 "LParen", "RParen", "Comma"}}

-----------------------------------------------------------------------------
(* The jobs.                                                                *)

KInit ==
    /\ Init /\ NInit /\ OInit /\ AInit /\ GInit
    /\ \/ job = <<"cache">>
       \/ /\ max_size = 0
          /\ \/ \E i \in DOMAIN Rules : job = <<"rewrite", i>>
             \/ job = <<"arithmetic">>
             \/ job = <<"group">>
             \/ job = <<"order">>
             \/ job = <<"net">>
             \/ job = <<"parse">>

Input ==
    /\ \/ job[1] = "rewrite" /\ Len(job) = 2 /\ \E e \in Trees : job' = Append(job, e)
       \/ job[1] = "parse" /\ Len(job) <= MaxTokens /\ \E t \in Tokens : job' = Append(job, t)
    /\ UNCHANGED <<vars, nvars, chosen, operands, generators>>

KNext ==
    \/ job[1] = "cache" /\ Next /\ UNCHANGED <<nvars, job, chosen, operands, generators>>
    \/ job[1] = "net" /\ NNext /\ UNCHANGED <<vars, job, chosen, operands, generators>>
    \/ job[1] = "order" /\ ChooseTerm /\ UNCHANGED <<vars, nvars, job, operands, generators>>
    \/ job[1] = "arithmetic" /\ ANext /\ UNCHANGED <<vars, nvars, job, chosen, generators>>
    \/ job[1] = "group" /\ TakeGenerator /\ UNCHANGED <<vars, nvars, job, chosen, operands>>
    \/ Input

KSpec == KInit /\ [][KNext]_<<vars, nvars, job, chosen, operands, generators>>

-----------------------------------------------------------------------------
(* Properties of the rewriter.                                              *)

\* The value of an expression, modulo a prime; a function that is not a builtin is a
\* cubic polynomial.
P == 5
RECURSIVE Value(_, _)
Value(e, env) ==
    LET values == [i \in DOMAIN e.args |-> Value(e.args[i], env)]
    IN  CASE e.kind = "IntegerLit" -> e.tag % P
          [] e.kind = "Symbol"     -> env[e.tag]
          [] e.kind = "Unary"      -> (P - values[1]) % P
          [] e.kind = "Binary"     -> (values[1] + P - values[2]) % P
          [] e.kind = "FuncCall"   -> ((values[1] ^ 3) + e.tag) % P
          [] e.kind = "Sum"        -> FoldLeft(LAMBDA a, b : (a + b) % P, 0, values)
          [] e.kind = "Product"    -> FoldLeft(LAMBDA a, b : (a * b) % P, 1, values)

\* An accepted rule that keeps the value at its pattern keeps the value of every tree,
\* by whichever strategy it is applied: the operands that a match of a part of a sum
\* or of a product leaves are neither lost nor used twice.
RewriteKeepsValue == job[1] = "rewrite" /\ Len(job) = 3 =>
    LET rule == Rules[job[2]]
    IN  ~Refused(rule) =>
            \A strategy \in {"BottomUp", "TopDown", "FixPoint"} :
                LET after == ApplyRule(job[3], rule, strategy)
                IN  \A env \in [1 .. 2 -> {2, 3}] : Value(after, env) = Value(job[3], env)

-----------------------------------------------------------------------------
(* A property of the parser.                                                *)

\* The trees of some tokens, none or one: the input is cut at its loosest operator, of
\* several the first if it is a power and else the last.  A prefix minus keeps the
\* operators that follow it and bind no looser than itself.
RECURSIVE Derivations(_), Arguments(_)
Derivations(ts) ==
    LET n == Len(ts)
        count(kind, last) == Cardinality({k \in 1 .. last : ts[k].kind = kind})
        outer(i)  == count("LParen", i - 1) = count("RParen", i)
        ends(i)   == ts[i].kind \in {"Integer", "Identifier", "RParen", "Bang"}
        call(i)   == ts[i].kind = "Identifier" /\ ts[i + 1].kind = "LParen"
        prefix    == {i \in 1 .. n : ts[i].kind = "Minus" /\ (i = 1 \/ ~ends(i - 1))}
        implicit  == {i \in 2 .. n : /\ outer(i) /\ ends(i - 1)
                                     /\ ts[i].kind \in StartsOperand /\ ~call(i - 1)}
        infix     == {i \in 1 .. n : outer(i) /\ InfixPrecedence(ts[i].kind) >= 0} \ prefix
        cuts      == implicit \cup infix
        binds(i)  == IF i \in infix THEN InfixPrecedence(ts[i].kind) ELSE Implicit
        kept(i)   == \E m \in prefix : /\ m < i /\ outer(m)
                                       /\ \A k \in cuts : m < k /\ k <= i => binds(k) >= Implicit
        free      == {i \in cuts : ~kept(i)}
        loosest   == {i \in free : \A k \in free : binds(i) <= binds(k)}
        at        == CHOOSE i \in loosest : \A k \in loosest : IF ts[i].kind = "Caret" THEN i <= k ELSE k <= i
        from(i, j) == Derivations(SubSeq(ts, i, j))
    IN  IF n = 0 THEN {}
        ELSE IF free # {} THEN
            IF at \in implicit THEN {Joined("Product", l, r) : l \in from(1, at - 1), r \in from(at, n)}
            ELSE {InfixExpr(ts[at].kind, l, r) : l \in from(1, at - 1), r \in from(at + 1, n)}
        ELSE IF 1 \in prefix THEN {Minus(e) : e \in from(2, n)}
        ELSE IF ts[n].kind = "Bang" THEN {Unary(Factorial, e) : e \in from(1, n - 1)}
        ELSE IF n = 1 THEN CASE ts[1].kind = "Integer" -> {IntegerLit(ts[1].tag)}
                             [] ts[1].kind = "Identifier" -> {Symbol(ts[1].tag)}
                             [] OTHER -> {}
        ELSE IF ts[n].kind # "RParen" THEN {}
        ELSE IF ts[1].kind = "LParen" THEN from(2, n - 1)
        ELSE IF call(1) THEN {FuncCall(ts[1].tag, args) : args \in Arguments(SubSeq(ts, 3, n - 1))}
        ELSE {}

Arguments(ts) ==
    LET commas == {i \in 1 .. Len(ts) : ts[i].kind = "Comma"}
    IN  IF ts = <<>> THEN {<<>>}
        ELSE {<<e>> : e \in Derivations(ts)}
                \cup UNION {{Append(args, e) : args \in Arguments(SubSeq(ts, 1, i - 1)) \ {<<>>},
                                               e \in Derivations(SubSeq(ts, i + 1, Len(ts)))} : i \in commas}

\* The parser accepts what the grammar derives, with the tree the grammar gives it, and
\* nothing else: no token is dropped, and no operator takes an operand that another
\* binds tighter.
ParserFollowsGrammar == job[1] = "parse" =>
    LET ts     == SubSeq(job, 2, Len(job))
        parsed == Parse(ts)
    IN  Derivations(ts) = IF parsed.ok THEN {parsed.e} ELSE {}
=============================================================================
