----------------------------- MODULE RocGrammar -----------------------------
(***************************************************************************)
(* Sources of the language and the trees they stand for, as the tests      *)
(* (tests/test_Ints.cpp, tests/sandbox) and the README write them.         *)
(* A phrase is its tokens t and its tree n.  The tree of an expression     *)
(* with several operators is defined by the precedence map alone: the      *)
(* operator that binds least is the root, the first of them on a tie.      *)
(***************************************************************************)
EXTENDS RocSyntax, FiniteSets, SequencesExt

Sp == <<"space">>
NL == <<"newline">>
Phrase(t, n) == [t |-> t, n |-> n]

Word(k) == Phrase(<<k>>, Leaf(k))
A == Word("a")
B == Word("b")
One == Word("1")

-----------------------------------------------------------------------------
(* Expressions.                                                             *)

\* The index of the root of a chain of operators.
RootOf(ops) ==
    CHOOSE k \in 1..Len(ops) :
        /\ \A j \in 1..Len(ops) : Precedence[ops[k]] <= Precedence[ops[j]]
        /\ \A j \in 1..(k - 1) : Precedence[ops[k]] < Precedence[ops[j]]

RECURSIVE Tree(_, _)
Tree(xs, ops) ==
    IF ops = <<>> THEN xs[1]
    ELSE LET k == RootOf(ops)
         IN Node(ops[k], <<Tree(SubSeq(xs, 1, k), SubSeq(ops, 1, k - 1)),
                           Tree(SubSeq(xs, k + 1, Len(xs)),
                                SubSeq(ops, k + 1, Len(ops)))>>)

\* x op y and so on, with a space on each side of an operator.
Chain(xs, ops) ==
    Phrase(FoldLeftDomain(LAMBDA acc, k :
               acc \o Sp \o <<ops[k]>> \o Sp \o xs[k + 1].t, xs[1].t, ops),
           Tree([k \in 1..Len(xs) |-> xs[k].n], ops))

Prefix(op, x) == Phrase(<<op>> \o x.t, Node(op, <<x.n>>))
Dotted(x, y) == Phrase(x.t \o <<".">> \o y.t, Node(".", <<x.n, y.n>>))
String(ks) == Phrase(<<"quote">> \o ks \o <<"quote">>,
                     Node("string", [k \in 1..Len(ks) |-> Leaf(ks[k])]))

CallOf(f, args) ==
    Phrase(<<f, "(">>
           \o FoldLeftDomain(LAMBDA acc, k :
                 acc \o (IF k = 1 THEN <<>> ELSE <<",", "space">>) \o args[k].t,
                 <<>>, args)
           \o <<")">>,
           Node("call", <<Leaf(f)>> \o [k \in 1..Len(args) |-> args[k].n]))

\* The operators of the precedence map between two operands.
Infix == DOMAIN Precedence \ {"!", "="}

\* Two operators in a row.  After "a <" a ">" closes a type variable.
InfixPairs == {p \in Infix \X Infix : p # <<"<", ">">>}

\* A pair the parser is known to nest by precedence; the others are
\* RocParser's disagreement with the map.
Nests(p) ==
    /\ p[1] # "!="
    /\ \/ p[2] \in RightHandStops \union {"!="}
       \/ Precedence[p[1]] <= Precedence[p[2]]

PairChain(p) == Chain(<<A, B, One>>, p)

-----------------------------------------------------------------------------
(* Statements, functions and modules.                                       *)

Stmt(x) == Phrase(x.t \o <<";">>, x.n)
RetStmt(x) == Phrase(<<"ret", "space">> \o x.t \o <<";">>, Node("ret", <<x.n>>))
Assign(x, y) == Stmt(Chain(<<x, y>>, <<"=">>))

\* Statements, each on a line of its own, indented.
Lines(ss) == FoldLeftDomain(LAMBDA acc, k : acc \o NL \o Sp \o ss[k].t, <<>>, ss)
Trees(ss) == [k \in 1..Len(ss) |-> ss[k].n]

Curly(ss) == <<"{">> \o Lines(ss) \o NL \o <<"}">>
IfThen(x, ss) == Phrase(<<"if", "space">> \o x.t \o Sp \o Curly(ss),
                    Node("if", <<x.n, Node("block", Trees(ss))>>))
IfThenElse(x, ss, es) ==
    Phrase(IfThen(x, ss).t \o Sp \o <<"else", "space">> \o Curly(es),
           Node("if", <<x.n, Node("block", Trees(ss)), Node("block", Trees(es))>>))

\* A while loop, whose parser does not take a semicolon.
While(x, ss) == Phrase(<<"while", "space">> \o x.t \o Sp \o Curly(ss),
                       Node("while", <<x.n, Node("block", Trees(ss))>>))

Param(x, type) == Phrase(<<x, "space", type>>, Node("param", <<Leaf(x), Leaf(type)>>))

\* A function: its parameters, the tokens and tree of its return type, and
\* its statements.
NoType == Phrase(<<>>, Leaf("Unit"))
Returns(type) == Phrase(<<"space", "->", "space", type>>, Leaf(type))
ReturnsArray(type) ==
    Phrase(<<"space", "->", "space", "[", "]", type>>, Node("array", <<Leaf(type)>>))

Fun(f, ps, type, ss) ==
    LET list == FoldLeftDomain(LAMBDA acc, k :
                    acc \o (IF k = 1 THEN <<>> ELSE <<",", "space">>) \o ps[k].t,
                    <<>>, ps)
    IN Phrase(<<"fun", "space", f, "(">> \o list \o <<")">> \o type.t \o Sp \o Curly(ss),
              Node("fun", <<Leaf(f), Node("params", Trees(ps)), type.n,
                            Node("body", Trees(ss))>>))

\* A module: its functions, then its static statements.
Module(fs, ss) ==
    LET items == fs \o ss
    IN [t |-> <<"package", "space", "m", ";">>
              \o FoldLeftDomain(LAMBDA acc, k : acc \o NL \o items[k].t, <<>>, items),
        n |-> [functions |-> Trees(fs), statics |-> Trees(ss)]]

RetFun(x) == Fun("f", <<>>, Returns("T"), <<RetStmt(x)>>)
=============================================================================
