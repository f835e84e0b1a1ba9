---------------------------- MODULE MCRocParser ----------------------------
(***************************************************************************)
(* The parser on well-formed modules, each with the tree it should yield,  *)
(* and on the sources the tests give to be rejected.                       *)
(***************************************************************************)
EXTENDS RocParser, RocGrammar

MCNames == {"a", "b", "c", "f", "g", "p", "m", "T", "U"}
MCNumbers == {"1", "2"}

Exprs ==
    {A, One, Word("true"), String(<<>>), String(<<"a", "space", "space", "b">>),
     CallOf("g", <<>>), CallOf("g", <<A>>), CallOf("g", <<A, One>>),
     CallOf("g", <<CallOf("g", <<B>>), String(<<"space", "a">>)>>),
     CallOf("g", <<Chain(<<A, One>>, <<"+">>), B>>),
     Dotted(A, B), Dotted(A, CallOf("g", <<B>>)), CallOf("g", <<Dotted(A, B)>>),
     Prefix("-", One), Prefix("!", A),
     Chain(<<CallOf("g", <<A, One>>), CallOf("g", <<>>)>>, <<"==">>)}
    \union {Chain(<<A, One>>, <<op>>) : op \in Infix \ {"!="}}
    \union {PairChain(p) : p \in {q \in InfixPairs : Nests(q)}}

Conds == {A, Chain(<<A, One>>, <<"==">>), CallOf("g", <<A>>),
          Chain(<<A, One, B>>, <<"<", "and">>)}

Simple == {Stmt(CallOf("g", <<A>>)), Assign(A, One), RetStmt(B),
           Stmt(String(<<"a", "space">>)), Stmt(Dotted(A, B))}
Blocks == {<<s>> : s \in Simple} \union {<<Stmt(CallOf("g", <<>>)), s>> : s \in Simple}
Compound ==
    {IfThen(x, ss) : x \in Conds, ss \in Blocks}
    \union {IfThenElse(A, ss, es) : ss \in {<<s>> : s \in Simple}, es \in Blocks}
    \union {IfThen(A, <<IfThen(B, <<s>>)>>) : s \in Simple}

Params == {<<>>, <<Param("a", "T")>>, <<Param("a", "T"), Param("b", "U")>>}
Types == {NoType, Returns("T"), ReturnsArray("T")}

(***************************************************************************)
(* Programs of tests/sandbox and tests/test_Ints.cpp in their own layout:  *)
(* no semicolons, blank lines, declarations broken over lines.             *)
(***************************************************************************)
Source(t, fs, ss) ==
    [t |-> <<"package", "space", "m">> \o NL \o NL \o t,
     n |-> [functions |-> Trees(fs), statics |-> Trees(ss)]]

Bare(x) == Phrase(x.t, x.n)
BareRet(x) == Phrase(<<"ret", "space">> \o x.t, Node("ret", <<x.n>>))
Hello == CallOf("f", <<String(<<"a", "space", "b">>)>>)
RetTrue == Fun("g", <<>>, Returns("T"), <<BareRet(Word("true"))>>)
HelloThenTrue == Fun("g", <<>>, Returns("T"), <<Bare(Hello), BareRet(Word("true"))>>)
SumOf37 == Chain(<<CallOf("f", <<One, Word("2")>>), Word("2")>>, <<"==">>)
Compared ==
    Fun("g", <<>>, Returns("T"),
        <<IfThen(SumOf37, <<BareRet(Word("true"))>>), BareRet(Word("false"))>>)

\* sandbox/runner/ints/ints.roc
Adder ==
    Phrase(<<"fun", "space", "f", "space", "(", "newline", "a", "space", "T", ",",
             "space", "b", "newline", "T", ")", "space", "->", "newline", "T", "space",
             "{", "newline", "space", "ret", "newline", "space", "a", "space", "+",
             "newline", "space", "b", "newline", "}">>,
           Node("fun", <<Leaf("f"),
                         Node("params", Trees(<<Param("a", "T"), Param("b", "T")>>)),
                         Leaf("T"),
                         Node("body", <<Node("ret", <<Chain(<<A, B>>, <<"+">>).n>>)>>)>>))

TestModules ==
    {Source(Hello.t, <<>>, <<Hello>>), Source(Stmt(Hello).t, <<>>, <<Hello>>),
     Source(Hello.t \o NL \o NL \o RetTrue.t \o NL, <<RetTrue>>, <<Hello>>),
     Source(HelloThenTrue.t, <<HelloThenTrue>>, <<>>),
     Source(Adder.t \o NL \o NL \o <<"fun", "newline">> \o Tail(Tail(Compared.t)),
            <<Adder, Compared>>, <<>>)}

BareStmts == {B, CallOf("g", <<A>>), Chain(<<A, One>>, <<"=">>), BareRet(B)}

Modules ==
    TestModules \union
    {Module(<<RetFun(x)>>, <<>>) : x \in Exprs}
    \union {Module(<<Fun("f", <<>>, NoType, <<s, r>>)>>, <<>>) :
              s \in Simple \union Compound, r \in {RetStmt(A), Stmt(CallOf("g", <<>>))}}
    \union {Module(<<Fun("f", ps, type, <<RetStmt(A)>>), RetFun(One)>>, <<CallOf("f", <<>>)>>) :
              ps \in Params, type \in Types}
    \union {Module(<<>>, <<s>>) : s \in (Simple \ {RetStmt(B)})
                                        \union {IfThen(A, <<Stmt(B)>>)}
                                        \union {While(x, <<s1>>) : x \in Conds, s1 \in BareStmts}}

\* sandbox/parser/Module4.roc, Module5.roc, Module7.roc
Rejected ==
    {<<"package", "space", "m", "newline", "newline", "fun", "space", "f">> \o s :
       s \in {<<")", "space", "{">> \o Tail(Curly(<<Stmt(A)>>))
                  \o <<"newline", "newline", "f", "(", ")">>,
              <<"space", "{">> \o Tail(Curly(<<Stmt(A)>>))
                  \o <<"newline", "newline", "f", "(", ")">>,
              <<"(", ")", "space", "T">>}}

\* The trees, by source.
MCSources == {m.t : m \in Modules} \union Rejected
Expected == [s \in MCSources \ Rejected |-> (CHOOSE m \in Modules : m.t = s).n]

(***************************************************************************)
(* A well-formed module is parsed, and into its own tree: no operand,      *)
(* statement or function is lost or regrouped.  The sources the tests      *)
(* reject (tests/test_ModuleParser.cpp 63-95) end with a recorded          *)
(* SyntaxException (AST.cpp 52-124, 370-422, 781-795, 999-1132; Parser.cpp *)
(* 130-182).                                                               *)
(***************************************************************************)
RoundTrip ==
    status # "running" =>
        IF source \in Rejected THEN status = "syntaxError"
        ELSE status = "parsed" /\ module = Expected[source]
=============================================================================
