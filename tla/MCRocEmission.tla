--------------------------- MODULE MCRocEmission ---------------------------
(***************************************************************************)
(* The emission of the modules of MCRocLowering, from the syntax tree on.  *)
(***************************************************************************)
EXTENDS RocEmission, MCRocLowering

ToStr == CallOf("toString", <<>>)
Solved == {"Int32", "Int64", "Float64", "Any", "String"}

\* Wrapped and cast operands: nested calls, in an if and out of it.
H1 == Fun("h", <<Param("c", "Any")>>, Returns("Any"), <<RetStmt(Chain(<<C, C>>, <<"==">>))>>)
WrapPrograms ==
    {Module(<<Fun("f", AB(ta, tb), Returns("Bool"),
                  <<Stmt(CallOf("h", <<x>>)),
                    IfThen(Chain(<<CallOf("h", <<y>>), x>>, <<"==">>),
                           <<Stmt(CallOf("println", <<x>>)), RetStmt(True)>>),
                    RetStmt(EqualAB)>>), H1>>, Static) :
        ta \in Solved, tb \in {"Int32", "Any"},
        x \in {A, Str, CallOf("h", <<A>>)}, y \in {B, CallOf("h", <<CallOf("h", <<B>>)>>)}}

\* The argument that is wrapped is not the one that asked for it.
MisplacedWrap ==
    Module(<<Fun("f", AB("Any", "Int32"), Returns("Bool"),
                 <<Stmt(CallOf("h", <<A, B>>)), RetStmt(True)>>),
             Fun("h", AB("Any", "Any"), Returns("Any"), <<RetStmt(True)>>)>>, Static)

\* Ifs that return or not, nested and in a row, in functions and in main.
Branches(s, t) ==
    {<<IfThen(EqualAB, <<s>>), t>>, <<IfThen(EqualAB, <<IfThen(EqualAB, <<s>>), t>>), t>>,
     <<IfThen(EqualAB, <<s>>), IfThen(EqualAB, <<t>>)>>, <<t, IfThen(EqualAB, <<Stmt(A), s>>)>>}
Branching(statements) ==
    {Module(<<Fun("f", Ints, Returns("Bool"), ss)>>,
            <<IfThen(Chain(<<One, One>>, <<"==">>), <<HelloWorld>>)>>) :
        ss \in UNION {Branches(s, t) : s \in statements, t \in statements}}
IfPrograms == Branching({RetStmt(True), Stmt(HelloWorld)})

\* Functions of one name.
G(ps, x) == Fun("g", ps, Returns("Int32"), <<RetStmt(x)>>)
SameNames ==
    {Module(<<Fun("f", Ints, Returns("Int32"), <<RetStmt(Chain(<<x, A>>, <<"+">>))>>)>> \o gs,
            Static) :
        x \in {CallOf("g", <<A>>), CallOf("g", <<A, B>>)},
        gs \in {<<G(ps, One), G(qs, Chain(<<One, One>>, <<"+">>))>> :
                   ps \in {<<Param("a", "Int32")>>, Ints}, qs \in {<<Param("b", "Int32")>>, Ints}}}

\* Methods, on an operand and in an if.
MethodPrograms ==
    {Module(<<Fun("f", Ints, Returns("Bool"), ss)>>, Static) :
        ss \in {<<RetStmt(Chain(<<Str, Dotted(A, ToStr)>>, <<"==">>))>>,
                <<Stmt(Dotted(A, ToStr)), RetStmt(Chain(<<A, One>>, <<"-">>))>>,
                <<IfThen(EqualAB, <<Stmt(Dotted(A, CallOf("toString", <<One>>))), RetStmt(True)>>),
                  RetStmt(True)>>}}
VoidOperand ==
    Module(<<Fun("f", Ints, Returns("Bool"),
                 <<RetStmt(Chain(<<CallOf("println", <<A>>), One>>, <<"==">>))>>)>>, Static)

\* sdk/math/sqrt.roc: a function with the name of the C function it calls.
SqrtProgram ==
    Module(<<Fun("f", <<Param("a", "Float64")>>, Returns("Float64"),
                 <<RetStmt(TypedCall("ccall", "Float64", <<String(<<"f">>), A>>))>>)>>, <<>>)

\* A return that is an operand of another statement.
ReturnOperand ==
    Module(<<Fun("f", AB("Any", "Int32"), Returns("Bool"),
                 <<RetStmt(Chain(<<Phrase(<<>>, Node("ret", <<One.n>>)), B>>, <<"==">>))>>)>>,
           Static)

\* A block that is no if's, as an else on a line of its own leaves one.
BlockStatement ==
    Module(<<Fun("f", AB("Any", "Int32"), Returns("Bool"),
                 <<Phrase(<<>>, Node("block", <<RetStmt(True).n>>)), RetStmt(True)>>)>>, <<HelloWorld>>)

MCEmitted == MCLowered \union
    {m.n : m \in WrapPrograms \union IfPrograms \union SameNames \union MethodPrograms
                    \union {SqrtProgram, VoidOperand, MisplacedWrap, ReturnOperand, BlockStatement}}

=============================================================================
