-------------------------------- MODULE Expr --------------------------------
(***************************************************************************)
(* The expression trees of the rewriter.  One arena interns every tree, so *)
(* a comparison of pointers is the equality of trees.  A name is a number, *)
(* in the alphabetical order of the names, and a number that is not an     *)
(* integer one in the order of its numerator and then of its denominator.  *)
(* The integrals, derivatives, limits, roots of polynomials, matrices,     *)
(* series and quantities are left out.                                     *)
(***************************************************************************)
EXTENDS Integers, Sequences

Node(kind, tag, args) == [kind |-> kind, tag |-> tag, args |-> args]

IntegerLit(n)     == Node("IntegerLit", n, <<>>)
RationalLit(n)    == Node("RationalLit", n, <<>>)
DecimalLit(n)     == Node("DecimalLit", n, <<>>)
ComplexLit(n)     == Node("ComplexLit", n, <<>>)
Constant(c)       == Node("Constant", c, <<>>)
Symbol(name)      == Node("Symbol", name, <<>>)
Unary(op, e)      == Node("Unary", op, <<e>>)
Binary(op, l, r)  == Node("Binary", op, <<l, r>>)
FuncCall(f, args) == Node("FuncCall", f, args)
Sum(terms)        == Node("Sum", 0, terms)
Product(factors)  == Node("Product", 0, factors)

\* The operators by their place in the enumerations; a few functions by name,
\* F and G being no builtins; the first of the names that end in '_'.
Neg == 0
Add == 0
Sub == 1
Mul == 2
Div == 3
Pow == 4
Mod == 5
FnCos == 1
FnF == 2
FnG == 3
FnSin == 4
FirstWildcard == 100

IsWildcard(e) == e.kind = "Symbol" /\ e.tag >= FirstWildcard
=============================================================================
