--------------------------- MODULE MCRocResolvers ---------------------------
(***************************************************************************)
(* The resolvers on modules built from the phrases of RocGrammar: the      *)
(* modules the tests compile, every operator on operands of every type,    *)
(* calls of builtins, functions and methods with any number and type of    *)
(* arguments, and each defect a module may have.                           *)
(***************************************************************************)
EXTENDS RocResolvers, RocGrammar

MCNumbers == {"1", "1.5"}
MCDoubles == {"1.5"}
MCNames == {"a", "b", "c", "f", "g", "p", "println", "ccall", "toString", "h",
            "Int32", "Int", "Int64", "Float64", "Bool", "Any", "String", "T"}

C == Word("c")
Str == String(<<"a">>)
Double == Word("1.5")
True == Word("true")
NamedType == {"Int32", "Int64", "Float64", "Bool", "Any", "String"}

\* A call with a type variable, as in ccall<Float64>("Sqrt", x).
TypedCall(f, type, args) ==
    LET call == CallOf(f, args)
    IN [call EXCEPT !.n.kids[1] = WithTypeVariable(@, Leaf(type))]

AB(ta, tb) == <<Param("a", ta), Param("b", tb)>>
Static == <<CallOf("f", <<One, One>>)>>

\* f(a ta, b tb) -> T { ss }, a function g, and a call of f.
Of(ta, tb, ss) ==
    Module(<<Fun("f", AB(ta, tb), Returns("Int32"), ss),
             Fun("g", <<Param("c", "Int32")>>, Returns("Bool"), <<RetStmt(True)>>)>>,
           Static)

(***************************************************************************)
(* tests/test_Ints.cpp, tests/sandbox/runner, sdk/math and the README.     *)
(***************************************************************************)
RetOf(ps, type, x) == Module(<<Fun("f", ps, Returns(type), <<RetStmt(x)>>)>>, Static)
Ints == AB("Int32", "Int32")
EqualAB == Chain(<<A, B>>, <<"==">>)
HelloWorld == CallOf("println", <<Str>>)

TestPrograms ==
    {RetOf(Ints, IF op = "/" THEN "Float64" ELSE "Int32", Chain(<<x, y>>, <<op>>)) :
        x \in {One, A}, y \in {One, B}, op \in {"+", "-", "*", "/"}}
    \union
    {RetOf(Ints, "Int32", Chain(<<One, A, One>>, <<"-", "+">>)),
     RetOf(Ints, "Bool", EqualAB),
     RetOf(Ints, "Bool", Chain(<<A, B, A, One>>, <<"==", "and", "==">>)),
     RetOf(Ints, "Bool", Chain(<<A, B, A, One>>, <<"==", "and", "!=">>)),
     Module(<<Fun("f", Ints, Returns("Bool"), <<IfThen(EqualAB, <<RetStmt(True)>>),
                                               RetStmt(True)>>)>>, Static),
     Module(<<Fun("f", Ints, Returns("Int"), <<RetStmt(Chain(<<A, B>>, <<"+">>))>>),
              Fun("g", <<>>, Returns("Bool"),
                  <<IfThen(Chain(<<CallOf("f", <<One, One>>), One>>, <<"==">>),
                           <<RetStmt(True)>>), RetStmt(True)>>)>>, <<>>),
     Module(<<Fun("f", Ints, Returns("Int32"), <<Stmt(CallOf("println", <<A>>)),
                                                RetStmt(One)>>)>>, Static),
     Module(<<Fun("g", <<>>, NoType, <<Stmt(HelloWorld)>>)>>, <<CallOf("g", <<>>)>>),
     Module(<<Fun("g", <<>>, Returns("Bool"), <<RetStmt(True)>>)>>,
            <<HelloWorld, CallOf("println", <<Chain(<<One, One>>, <<"+">>)>>)>>),
     RetOf(<<Param("a", "Float64"), Param("b", "Int32")>>, "Float64",
           TypedCall("ccall", "Float64", <<Str, A>>))}

\* "Add Ints 4": the one test whose compilation must fail.
AddStringAndInt == RetOf(Ints, "Int32", Chain(<<Str, B>>, <<"+">>))

(***************************************************************************)
(* Every operator, on operands of every type.                              *)
(***************************************************************************)
Arithmetic ==
    {Of(ta, tb, <<RetStmt(Chain(<<A, B>>, <<op>>))>>) :
        ta \in NamedType, tb \in NamedType, op \in {"+", "-", "*", "%", "/", "==", "<"}}
    \union {Of("Int64", "Any", <<RetStmt(Chain(<<x, y>>, <<op>>))>>) :
              x \in {A, B, One, Str, True, Double, HelloWorld, Chain(<<B, A>>, <<"+">>)},
              y \in {A, One, Str, Double, CallOf("g", <<A>>)},
              op \in {"+", "-", "==", "/", "and"}}

(***************************************************************************)
(* Calls.                                                                  *)
(***************************************************************************)
Values == {A, B, One, Str, Double, CallOf("h", <<>>), CallOf("println", <<One>>)}
Arguments012 == {<<>>} \union {<<x>> : x \in Values}
                       \union {<<x, y>> : x \in {A, Str, CallOf("h", <<>>)}, y \in Values}

H == Fun("h", <<>>, Returns("Any"), <<RetStmt(CallOf("h", <<>>))>>)
Overloads ==
    {<<>>, <<Fun("println", <<Param("c", "Int32")>>, Returns("Int64"), <<RetStmt(One)>>)>>,
     <<Fun("g", <<Param("c", "Bool")>>, Returns("Bool"), <<RetStmt(Prefix("!", C))>>),
       Fun("g", <<Param("c", "Int32")>>, Returns("Int32"), <<RetStmt(One)>>),
       Fun("g", AB("String", "Any"), NoType, <<Stmt(A), Stmt(B)>>)>>}

Calls ==
    {Module(<<H, Fun("f", AB("Int32", "Bool"), Returns("Any"),
                     <<IfThen(CallOf(name, args), <<Stmt(A)>>),
                       RetStmt(Chain(<<CallOf(name, args), A>>, <<"+">>))>>)>> \o fs,
            <<CallOf("h", <<>>)>>) :
        name \in {"g", "println", "ccall"}, args \in Arguments012, fs \in Overloads}
    \union
    {Module(<<Fun("f", AB("Int32", "Bool"), Returns("Any"), <<Stmt(CallOf(name, <<x>>))>>)>> \o fs,
            <<CallOf("f", <<One, One>>)>>) :
        name \in {"g", "println"}, x \in {A, B, Str}, fs \in Overloads}
    \union {Of("Int32", "Bool", <<RetStmt(TypedCall("g", type, <<A>>))>>) :
              type \in {"Float64", "T"}}

Owners == {A, B, One, Str, Double, CallOf("g", <<A>>), HelloWorld,
           Chain(<<A, One>>, <<"+">>)}
Methods2 == {CallOf("toString", <<>>), CallOf("toString", <<B>>), CallOf("toString", <<C>>),
             CallOf("g", <<A>>), B, One, Double, Str}
References ==
    {Of("Any", tb, <<Stmt(Dotted(x, y)), RetStmt(Chain(<<Dotted(x, y), A>>, <<"*">>))>>) :
        x \in Owners, y \in Methods2, tb \in {"Int32", "Bool"}}

(***************************************************************************)
(* Conditions, literals, and types.                                        *)
(***************************************************************************)
Conditions == {A, One, Str, True, EqualAB, CallOf("g", <<A>>), CallOf("g", <<C>>),
               Chain(<<A, One>>, <<"+">>), Dotted(A, B),
               Chain(<<EqualAB, EqualAB>>, <<"and">>)}
Ifs ==
    {Of("Int32", "Bool", <<IfThen(x, <<IfThenElse(y, <<Stmt(A)>>, <<IfThen(EqualAB, <<s>>)>>),
                                       Stmt(B)>>),
                           RetStmt(One)>>) :
        x \in Conditions, y \in Conditions, s \in {Stmt(A), RetStmt(EqualAB)}}
    \union {Of("Int32", "Bool", <<IfThenElse(EqualAB, <<Stmt(A)>>, <<IfThen(x, <<Stmt(B)>>)>>)>>) :
              x \in Conditions}
    \union {Module(<<>>, <<IfThen(x, <<Stmt(HelloWorld)>>)>>) : x \in Conditions}

Literals ==
    {Of("Int32", "Bool", <<s>>) :
        s \in {RetStmt(A), Stmt(C), Assign(A, One), Stmt(Prefix("-", A)), Stmt(Prefix("!", A)),
               While(A, <<Stmt(B)>>), While(EqualAB, <<Stmt(B), Stmt(C)>>),
               Stmt(CallOf("g", <<C>>)), Stmt(Dotted(A, CallOf("toString", <<C>>)))}}
    \union {Module(<<>>, <<s>>) : s \in {Stmt(A), HelloWorld, Assign(A, One)}}

ArrayParam(x, type) ==
    Phrase(<<x, "space", "[", "]", type>>,
           Node("param", <<Leaf(x), Node("array", <<Leaf(type)>>)>>))
SameName == <<Param("a", "Int64"), Param("a", "Bool")>>
Signatures ==
    {Of(ta, tb, <<Stmt(A), Stmt(B)>>) :
        ta \in NamedType \union {"T"}, tb \in {"Int", "T"}}
    \union {Module(<<Fun("f", ps, type, <<Stmt(Chain(<<A, A>>, <<"+">>))>>)>>, Static) :
              ps \in {SameName, AB("Int32", "Bool"),
                     <<ArrayParam("a", "Int32"), Param("b", "Int32")>>},
              type \in {NoType, Returns("T"), ReturnsArray("T"), ReturnsArray("Int32")}}

Accepted == {Program(m.n) : m \in TestPrograms}
MCPrograms ==
    {m.n : m \in TestPrograms} \union {AddStringAndInt.n}
        \union {m.n : m \in Arithmetic \union Calls \union References
                             \union Ifs \union Literals \union Signatures}

-----------------------------------------------------------------------------
(***************************************************************************)
(* Every module the tests run resolves, and "Add Ints 4" ends with a       *)
(* SyntaxException (tests/test_Ints.cpp, tests/sandbox/runner).            *)
(***************************************************************************)
TestVerdicts ==
    status # "running" =>
        /\ program \in Accepted => status = "resolved"
        /\ program = Program(AddStringAndInt.n) => status = "syntaxError"
=============================================================================
