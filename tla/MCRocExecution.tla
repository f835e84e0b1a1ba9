--------------------------- MODULE MCRocExecution ---------------------------
(***************************************************************************)
(* The modules of MCRocEmission from the syntax tree to what they compute, *)
(* with Int32s of three bits.                                              *)
(***************************************************************************)
EXTENDS RocExecution, MCRocEmission

MCIntValue == [n \in {"1"} |-> 1]
MCInputs == {-1, 2}

Ordered(x, op, y) == Phrase(<<>>, Node(op, <<x.n, y.n>>))
OrderPrograms ==
    {Module(<<Fun("f", Ints, Returns("Bool"), <<RetStmt(Ordered(x, op, y))>>)>>, Static) :
        x \in {A, One}, y \in {B, A}, op \in {"<", ">", "<=", ">="}}

\* Functions that print, call and return, in every order of two statements.
Show == Fun("h", <<Param("c", "Any")>>, NoType, <<Stmt(CallOf("println", <<C>>))>>)
Successor ==
    Fun("g", <<Param("c", "Int32")>>, Returns("Int32"),
        <<Stmt(CallOf("println", <<C>>)), RetStmt(Chain(<<C, One>>, <<"+">>))>>)
Down ==
    Fun("p", <<Param("c", "Int32")>>, Returns("Int32"),
        <<IfThen(Chain(<<C, One>>, <<"==">>), <<RetStmt(Chain(<<C, One>>, <<"*">>))>>),
          RetStmt(CallOf("p", <<Chain(<<C, One>>, <<"-">>)>>))>>)
Acts ==
    {Stmt(CallOf("println", <<A>>)), Stmt(CallOf("h", <<Str>>)),
     Stmt(CallOf("h", <<Chain(<<B, A>>, <<"-">>)>>)), Stmt(CallOf("g", <<CallOf("g", <<B>>)>>)),
     IfThen(EqualAB, <<RetStmt(Chain(<<A, One>>, <<"+">>))>>), IfThen(EqualAB, <<Stmt(A)>>),
     IfThen(Chain(<<CallOf("g", <<A>>), B>>, <<"!=">>),
            <<IfThen(EqualAB, <<RetStmt(One)>>), RetStmt(CallOf("g", <<A>>))>>)}
Answers ==
    {Chain(<<A, B, One>>, <<"*", "-">>), Chain(<<CallOf("g", <<A>>), CallOf("g", <<B>>)>>, <<"-">>),
     CallOf("p", <<A>>)}
ActingPrograms ==
    {Module(<<Fun("f", Ints, Returns("Int32"), <<s, t, RetStmt(x)>>), Show, Successor, Down>>,
            <<CallOf("f", <<One, One>>), HelloWorld>>) : s \in Acts, t \in Acts, x \in Answers}
    \union {RetOf(Ints, "Int32", TypedCall("ccall", "Int32", <<Str, A>>))}

MCProcess == MCEmitted \union {m.n : m \in OrderPrograms \union ActingPrograms}

-----------------------------------------------------------------------------
(* What a tree means, told without the compiler: the outcomes are the value *)
(* and what was printed.                                                    *)

Same(l, r) == (l < 0) = (r < 0)
Either(known, b) == IF known THEN {I1(b)} ELSE {I1(TRUE), I1(FALSE)}

\* An order is told where the strict and the other, the signed and the
\* unsigned agree.
MeaningOf(op, l, r) ==
    CASE l.is = "int" /\ r.is = "int" ->
            (CASE op = "+"  -> {I32(Wrapped32(l.v + r.v))}
               [] op = "-"  -> {I32(Wrapped32(l.v - r.v))}
               [] op = "*"  -> {I32(Wrapped32(l.v * r.v))}
               [] op = "/" /\ r.v # 0 -> {F64(Quotient(l.v, r.v))}
               [] op = "==" -> {I1(l.v = r.v)} [] op = "!=" -> {I1(l.v # r.v)}
               [] op = "<"  -> Either(l.v # r.v, l.v < r.v)
               [] op = "<=" -> {I1(l.v <= r.v)}
               [] op = ">"  -> Either(l.v # r.v /\ Same(l.v, r.v), l.v > r.v)
               [] op = ">=" -> Either(Same(l.v, r.v), l.v >= r.v)
               [] OTHER     -> {})
      [] l.is = "bool" /\ r.is = "bool" ->
            (CASE op = "and" -> {I1(l.v /\ r.v)} [] op = "or" -> {I1(l.v \/ r.v)}
               [] op = "=="  -> {I1(l.v = r.v)} [] op = "!=" -> {I1(l.v # r.v)} [] OTHER -> {})
      [] OTHER -> IF op \in {"==", "!="} THEN Either(FALSE, FALSE) ELSE {}

Unboxed(x) == IF x.is = "ref" THEN x.v ELSE x
Boxed(x) == [is |-> "ref", v |-> x]
PassedAs(x, type) == IF type \in {"Any", "String"} /\ x.is # "ref" THEN Boxed(x) ELSE x
Outcome(v, out) == [v |-> v, out |-> out]

RECURSIVE ValuesAs(_, _, _), ValueLists(_, _, _), Outcomes(_, _, _)

Functions(name, n) ==
    SelectSeq(Tail(program.kids), LAMBDA f : f.kids[1].op = name /\ Len(f.kids[2].kids) = n)

\* The outcomes of an expression, of a list of them and of statements, where
\* the names have the values of env; depth bounds calls within calls.
ValuesAs(n, env, depth) ==
    CASE n.op \in DOMAIN IntValue       -> {Outcome(I32(IntValue[n.op]), <<>>)}
      [] n.op = "string"                -> {Outcome(Ptr(n.kids), <<>>)}
      [] n.op \in {"true", "false"}     -> {Outcome(I1(n.op = "true"), <<>>)}
      [] n.op \in DOMAIN env            -> {Outcome(env[n.op], <<>>)}
      [] n.op \in BinOps /\ Len(n.kids) = 2 ->
            UNION {{Outcome(x, l.out) : x \in MeaningOf(n.op, l.v[1], l.v[2])} :
                      l \in ValueLists(n.kids, env, depth)}
      [] n.op = "call" /\ n.kids[1].op = "println" ->
            {Outcome(NoValue, Append(l.out, Unboxed(l.v[1]))) :
                l \in ValueLists(Tail(n.kids), env, depth)}
      [] n.op = "call" /\ depth > 0 /\ Functions(n.kids[1].op, Len(n.kids) - 1) # <<>> ->
            LET f == Functions(n.kids[1].op, Len(n.kids) - 1)[1]
                ps == f.kids[2].kids
                EnvOf(vs) == [name \in {ps[k].kids[1].op : k \in DOMAIN ps} |->
                                 LET k == Min({j \in DOMAIN ps : ps[j].kids[1].op = name})
                                 IN PassedAs(vs[k], ps[k].kids[2].op)]
            IN UNION {{Outcome(o.v, l.out \o o.out) :
                          o \in Outcomes(f.kids[4].kids, EnvOf(l.v), depth - 1)} :
                         l \in ValueLists(Tail(n.kids), env, depth)}
      [] OTHER -> {}

ValueLists(ns, env, depth) ==
    IF ns = <<>> THEN {Outcome(<<>>, <<>>)}
    ELSE {Outcome(Append(l.v, x.v), l.out \o x.out) :
             l \in ValueLists(Front(ns), env, depth), x \in ValuesAs(Last(ns), env, depth)}

Outcomes(ss, env, depth) ==
    IF ss = <<>> THEN {Outcome(NoValue, <<>>)}
    ELSE IF Head(ss).op = "ret" THEN ValuesAs(Head(ss).kids[1], env, depth)
    ELSE IF Head(ss).op = "if"
    THEN UNION {{Outcome(o.v, c.out \o o.out) :
                    o \in Outcomes(IF c.v = I1(TRUE) THEN Head(ss).kids[2].kids \o Tail(ss)
                                                     ELSE Tail(ss), env, depth)} :
                   c \in ValuesAs(Head(ss).kids[1], env, depth)}
    ELSE {Outcome(o.v, x.out \o o.out) :
             x \in ValuesAs(Head(ss), env, depth), o \in Outcomes(Tail(ss), env, depth)}

\* Of a call by the client.
Meanings(call) ==
    IF call.function = 1
    THEN {Outcome(I32(0), o.out) : o \in Outcomes(program.kids[1].kids, <<>>, MaxDepth)}
    ELSE LET f == program.kids[call.function]
         IN Outcomes(f.kids[4].kids,
                     [name \in Range(ParamNames(<<call.function>>)) |->
                         call.args[Min({j \in DOMAIN call.args :
                             ParamNames(<<call.function>>)[j] = name})]], MaxDepth)

-----------------------------------------------------------------------------

(***************************************************************************)
(* What the client is returned, and what was printed before, is what the   *)
(* syntax tree says: through the value stacks of both visitors, the casts, *)
(* the blocks and the calls (MIR.cpp, LLVMBackend.cpp, API.cpp 55-66).     *)
(* The modules of the tests are lowered and emitted, and if they call no C *)
(* function do nothing undefined and print no wrapper after its frame died. *)
(***************************************************************************)
CallsC == \E p \in DOMAIN mir : mir[p].op = "ccall"

ComputesTree ==
    /\ session = "idle" /\ entered # <<>> /\ Direct =>
          \E m \in Meanings(Last(entered)) : printed = m.out /\ result = m.v
    /\ program \in Accepted => {stage, emission} \intersect {"crashed", "uncaught"} = {}
    /\ program \in Accepted /\ ~CallsC => session \notin {"open", "overflow"}

(***************************************************************************)
(* The compilation of any module ends in the resolvers, the lowering or    *)
(* the emission, and a call of the client ends or leaves what is modelled. *)
(***************************************************************************)
Compiled ==
    \/ status \notin {"running", "resolved"} \/ stage \in {"crashed", "uncaught"}
    \/ emission \in {"emitted", "crashed", "uncaught"}

CompilerEnds == <>Compiled /\ (session = "running" ~> session # "running")
=============================================================================
