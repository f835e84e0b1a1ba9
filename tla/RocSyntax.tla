----------------------------- MODULE RocSyntax -----------------------------
(***************************************************************************)
(* Token kinds, operator precedence (parser/Token.h) and the nodes of the  *)
(* syntax tree (parser/AST.h) as far as the parser tells them apart.       *)
(***************************************************************************)
EXTENDS Naturals, Sequences

CONSTANTS
    Names,      \* the kinds of identifier tokens, each a Literal
    Numbers     \* the kinds of IntNumber and DoubleNumber tokens

\* The tokens of class BinOp.
BinOps == {"or", "and", "/", "\\", "<", "<=", ">", ">=", "*", "%", "=",
           "==", "!=", "^", "!", "-", "+"}

\* OP_PRECEDENCE; "<=", ">=" and "\" are not in the map.
Precedence ==
    [op \in BinOps \ {"<=", ">=", "\\"} |->
        CASE op = "="                -> 1
          [] op = "or"               -> 3
          [] op = "and"              -> 4
          [] op \in {"==", "!="}     -> 8
          [] op \in {"<", ">"}       -> 9
          [] op = "+"                -> 11
          [] op = "-"                -> 12
          [] op \in {"*", "/", "%"}  -> 13
          [] op \in {"!", "^"}       -> 14]

\* Mutant: operators of equal precedence group to the left.
HasHigherOrEqual(op, other) == Precedence[op] >= Precedence[other]

\* BinOp::hasHigherPrecedence, where both operators are in the map.
HasHigherPrecedence(op, other) == Precedence[op] > Precedence[other]

\* Token::isLiteral: IntNumber and DoubleNumber extend Literal.
IsLiteralKind(k) == k \in Names \union Numbers

\* The operators RightHandExpressionVisitor leaves to the visitor that
\* started it, and the ones for which ExpressionVisitor starts an
\* OpExpressionVisitor.  No expression visitor overrides visit(NotEqualOp).
RightHandStops == {"+", "-", "/", "%", "^", "*", "<", "<=", ">", ">=",
                   "and", "or"}
Operators == BinOps \ {"!="}

-----------------------------------------------------------------------------
(* A node is its kind and its children; a leaf is the kind of its token.    *)
Node(op, kids) == [op |-> op, kids |-> kids]
Leaf(k) == Node(k, <<>>)

NoExpr == [op |-> "null"]       \* a null std::unique_ptr<Expression>, no node
WildType == Leaf("wild")        \* the uninitialised TypeNodeVisitor::result

\* Expression::isLiteralExpr is true of LiteralExpr alone.
IsLiteralExpr(n) == n # NoExpr /\ n.op \in Names

HasNull(nodes) == \E k \in 1..Len(nodes) : nodes[k] = NoExpr

\* ToBinExprVisitor: the constructors of BinExpr and RefAssignExpr follow
\* these pointers.
CanBuild(left, op, right) ==
    right # NoExpr /\ (op = "=" => left # NoExpr)

\* A NotExpr drops its left operand; a prefix operator has none.
BinExpr(left, op, right) ==
    Node(op, IF op = "!" \/ left = NoExpr THEN <<right>>
                                          ELSE <<left, right>>)

\* A name with a type variable, a<T>.
WithTypeVariable(n, type) == [n EXCEPT !.kids = Append(@, Node("<>", <<type>>))]
=============================================================================
