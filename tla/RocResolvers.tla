---------------------------- MODULE RocResolvers ----------------------------
(***************************************************************************)
(* The passes between the parser and the back end, in the order of         *)
(* RocCompiler::compile: LiteralResolver, FunctionSignatureResolver and    *)
(* TypeResolver (compiler/RocCompiler.cpp, compiler/Types.cpp).  Each is   *)
(* an ASTVisitor; agenda is its C++ call stack, unrolled: the visits still *)
(* to make, and the ends of the visits in progress.                        *)
(*                                                                         *)
(* A compilation ends resolved, with a SyntaxException that compile        *)
(* catches (syntaxError), with reported type problems (problems), with     *)
(* another exception, which nothing catches (uncaught), or by following a  *)
(* null or missing pointer (crashed).                                      *)
(***************************************************************************)
EXTENDS RocSyntax, RocTypes, SequencesExt

CONSTANTS
    Programs,   \* the modules to compile: trees as the parser builds them
    Height,     \* no tree is higher
    Doubles     \* the kinds of DoubleNumber tokens

(***************************************************************************)
(* The trees of at most some height, as the constructors build them.  A    *)
(* FunctionDeclaration has its name, its parameters, its return type and   *)
(* its body, a FunctionCallNode its name before its arguments, an if its   *)
(* condition, its block and perhaps an else; a BinExpr may lack its left   *)
(* operand.                                                                *)
(***************************************************************************)
Arity(op) ==
    CASE op \in {"true", "false"} -> {0}
      [] op \in {"ret", "!"}      -> {1}
      [] op \in BinOps \ {"!"}    -> {1, 2}
      [] op = "."                 -> {2}
      [] op = "if"                -> {2, 3}
      [] op = "fun"               -> {4}
      [] op = "call"              -> Nat \ {0}
      [] OTHER                    -> Nat

\* The expressions, statements and functions among the children of n.
ExpressionKids(n) ==
    IF n.op = "fun" THEN {4}
    ELSE IF n.op = "call" THEN 2..Len(n.kids)
    ELSE IF n.op \in Names \union Numbers \union {"string"} THEN {} ELSE 1..Len(n.kids)

\* Functions and static blocks are in modules only, bodies in functions only.
MayHold(op, kid) ==
    /\ kid # "module"
    /\ kid \in {"fun", "static"} => op = "module"
    /\ kid = "body" <=> op = "fun"

TreeUpTo[h \in 0..Height] ==
    IF h = 0 THEN {}
    ELSE {n \in [op : STRING, kids : Seq(TreeUpTo[h - 1])] :
             /\ Len(n.kids) \in Arity(n.op)
             /\ \A k \in ExpressionKids(n) : MayHold(n.op, n.kids[k].op)}

\* A module is compiled with its static block as its first node; the others
\* are functions.
Program(module) == Node("module", <<Node("static", module.statics)>> \o module.functions)
IsModule(module) ==
    /\ Program(module) \in TreeUpTo[Height]
    /\ \A k \in DOMAIN module.functions : module.functions[k].op = "fun"

ASSUME HeightAssumption == Height \in Nat
ASSUME ProgramsAssumption == \A module \in Programs : IsModule(module)
ASSUME DoublesAssumption == Doubles \subseteq Numbers

\* The kind of a literal is its text, and that of no other node.
ASSUME NamesAssumption ==
    /\ Names \intersect Numbers = {}
    /\ (Names \union Numbers) \intersect
          (BinOps \union {"call", "fun", "if", "string", ".", "module", "static", "body",
                          "block", "ret", "while", "true", "false"}) = {}

VARIABLES
    program,    \* the ModuleDeclaration
    pass,       \* the visitor at work
    agenda,     \* what is left of its traversal
    locals,     \* the LiteralExprs replaced by LocalAccesses
    types,      \* the type contexts, by node
    targets,    \* targetFunctionCall, by FunctionCallNode
    problems,   \* CompilationContext::typeProblems
    status      \* "running", or how the compilation ended

resolverVars == <<program, pass, agenda, locals, types, targets, problems, status>>

Statuses == {"running", "resolved", "syntaxError", "problems", "uncaught", "crashed"}

(***************************************************************************)
(* A node is the path to it from the module: its static block first, then  *)
(* its functions, as every pass visits them.                               *)
(***************************************************************************)
At(p) ==
    LET at[k \in 0..Len(p)] == IF k = 0 THEN program ELSE at[k - 1].kids[p[k]]
    IN at[Len(p)]
Kind(p) == At(p).op
Kid(p, k) == Append(p, k)
Kids(p, first) == [k \in 1..(Len(At(p).kids) - first + 1) |-> Kid(p, first + k - 1)]
Parent(p) == Front(p)

FunctionNodes == {<<k>> : k \in 2..Len(program.kids)}
FunctionOf(p) == <<p[1]>>
ParamTypes(f) == [k \in DOMAIN At(f).kids[2].kids |-> f \o <<2, k, 2>>]
ParamNames(f) == [k \in DOMAIN At(f).kids[2].kids |-> Kind(f \o <<2, k, 1>>)]
ReturnType(f) == Kid(f, 3)
ReturnTypes == {ReturnType(f) : f \in FunctionNodes}
Body(f) == Kid(f, 4)
FunctionName(f) == Kind(Kid(f, 1))

\* A FunctionCallNode: its name, its arguments and its type variables.
CallName(p) == Kind(Kid(p, 1))
Arguments(p) == Kids(p, 2)
TypeVariables(p) == [k \in DOMAIN At(Kid(p, 1)).kids |-> p \o <<1, k, 1>>]

InDot(p) == Kind(Parent(p)) = "."
IsLiteral(p) == Kind(p) \in Names
NullLeft(p) == Kind(p) \in BinOps \ {"!"} /\ Len(At(p).kids) = 1

\* Mutant: the else of an if is not visited.
ChildrenNoElse(p) ==
    IF Kind(p) = "fun" THEN <<Body(p)>>
    ELSE IF Kind(p) = "call" THEN Arguments(p)
    ELSE IF Kind(p) = "if" THEN <<Kid(p, 1), Kid(p, 2)>>
    ELSE IF Kind(p) \in Names \union Numbers \union {"string"} THEN <<>> ELSE Kids(p, 1)

\* What ASTVisitor visits of a node.
Children(p) ==
    IF Kind(p) = "fun" THEN <<Body(p)>>
    ELSE IF Kind(p) = "call" THEN Arguments(p)
    ELSE IF Kind(p) \in Names \union Numbers \union {"string"} THEN <<>> ELSE Kids(p, 1)

\* The fold of ASTNode::replaceChild over the node classes: the others
\* inherit the one that throws.
Replaceable(p) ==
    Kind(p) \in (BinOps \ {"="}) \union {"call", "body", "block", ".", "static"}

-----------------------------------------------------------------------------
(* The agenda.                                                              *)

Entry(do, p) == [do |-> do, at |-> p]
Entries(do, ps) == [k \in DOMAIN ps |-> Entry(do, ps[k])]

\* do and then next with the first of ps, then with the second, and so on.
InTurns(do, next, ps) ==
    [k \in 1..(2 * Len(ps)) |-> Entry(IF k % 2 = 1 THEN do ELSE next, ps[(k + 1) \div 2])]

Now(do, ps) ==
    status = "running" /\ agenda # <<>> /\ Head(agenda).do = do /\ pass \in ps
Here == Head(agenda).at

\* A visit makes the visits es, and then ends.
Descend(es) ==
    /\ agenda' = es \o <<Entry("leave", Here)>> \o Tail(agenda)
    /\ UNCHANGED <<program, pass, locals, types, targets, problems, status>>

Stop(s) ==
    /\ status' = s
    /\ UNCHANGED <<program, pass, agenda, locals, types, targets, problems>>

Typed(p) == p \in DOMAIN types

\* The end of a visit that sets the node's type context to one of ts.
GiveType(ts) ==
    /\ \E t \in ts : types' = With(types, Here, t)
    /\ agenda' = Tail(agenda)
    /\ UNCHANGED <<program, pass, locals, targets, problems, status>>

Done ==
    /\ agenda' = Tail(agenda)
    /\ UNCHANGED <<program, pass, locals, types, targets, problems, status>>

ResolverInit ==
    /\ program \in {Program(m) : m \in Programs}
    /\ pass = "literals"
    /\ agenda = <<Entry("visit", <<>>)>>
    /\ locals = {} /\ types = <<>> /\ targets = <<>> /\ problems = {}
    /\ status = "running"

-----------------------------------------------------------------------------
(* LiteralResolver.                                                         *)

\* A node whose left operand is null: a prefix operator other than "!".
FollowNullLeft == Now("visit", {"literals"}) /\ NullLeft(Here) /\ Stop("crashed")

DescendLiterals ==
    /\ Now("visit", {"literals"})
    /\ ~IsLiteral(Here) /\ ~NullLeft(Here)
    /\ Descend(Entries("visit", Children(Here)))

\* Only a parameter of the enclosing function is a symbol.
IsLocalSymbol(p) ==
    FunctionOf(p) \in FunctionNodes
        /\ Kind(p) \in Range(ParamNames(FunctionOf(p)))

ResolveLiteral ==
    /\ Now("visit", {"literals"})
    /\ IsLiteral(Here)
    /\ IF ~IsLocalSymbol(Here) THEN Stop("syntaxError")
       ELSE IF ~Replaceable(Parent(Here)) THEN Stop("uncaught")
       ELSE /\ locals' = locals \union {Here}
            /\ agenda' = Tail(agenda)
            /\ UNCHANGED <<program, pass, types, targets, problems, status>>

LeaveLiterals == Now("leave", {"literals"}) /\ Done

-----------------------------------------------------------------------------
(* FunctionSignatureResolver, and the TypeNodes.  FunctionVoidReturnType is *)
(* the leaf "Unit".                                                         *)

\* The types of the parameters, and the one returned.
VisitSignature ==
    /\ Now("signature", {"signatures"})
    /\ agenda' = Entries("type", Append(ParamTypes(Here), ReturnType(Here))) \o Tail(agenda)
    /\ UNCHANGED <<program, pass, locals, types, targets, problems, status>>

\* SingleTypeNode and the void return type.
ResolveTypeName ==
    /\ Now("type", {"signatures", "types"})
    /\ Kind(Here) # "array"
    /\ IF Kind(Here) = "Unit" THEN GiveType({"Unit"})
       ELSE IF Kind(Here) \in DOMAIN NamedTypes THEN GiveType({NamedTypes[Kind(Here)]})
       ELSE Stop("syntaxError")

DescendArrayType ==
    /\ Now("type", {"signatures"})
    /\ Kind(Here) = "array"
    /\ Descend(<<Entry("type", Kid(Here, 1))>>)

\* FunctionNonVoidReturnTypeNode keeps a clone of its type, a parameter the
\* type itself.
LeaveArrayType ==
    /\ Now("leave", {"signatures"})
    /\ GiveType({IF Here \in ReturnTypes THEN Clone("Array") ELSE "Array"})

-----------------------------------------------------------------------------
(* TypeResolver.                                                            *)

\* LocalVariableRef: the first parameter of that name.
ParamOf(p) ==
    LET f == FunctionOf(p)
    IN ParamTypes(f)[CHOOSE k \in DOMAIN ParamNames(f) :
                        /\ ParamNames(f)[k] = Kind(p)
                        /\ \A j \in 1..(k - 1) : ParamNames(f)[j] # Kind(p)]

TypeLeaf ==
    /\ Now("visit", {"types"})
    /\ \/ Here \in locals /\ GiveType({Clone(types[ParamOf(Here)])})
       \/ Kind(Here) \in Numbers \ Doubles /\ GiveType({"Int32"})
       \/ Kind(Here) = "string" /\ GiveType({"Raw"})

DescendTypes ==
    /\ Now("visit", {"types"})
    /\ Kind(Here) \notin Names \union (Numbers \ Doubles) \union {"string", "call"}
    /\ Descend(Entries("visit", Children(Here)))

\* The type variables first.  The arguments of a method call are not visited;
\* the type of another argument is read as soon as it was visited.
VisitCall ==
    /\ Now("visit", {"types"})
    /\ Kind(Here) = "call"
    /\ Descend(Entries("type", TypeVariables(Here)) \o
               IF InDot(Here) THEN <<>> ELSE InTurns("visit", "read", Arguments(Here)))

ReadArgument ==
    /\ Now("read", {"types"})
    /\ IF Typed(Here) THEN Done ELSE Stop("crashed")

\* Mutant: strings are not told from numbers.
TypesOfAnything(op, left, right) == LargerTypes(left, right)

\* The types an operator may give its node, none when it throws.
TypesOf(op, left, right) ==
    CASE op = "+" /\ IsString(left) /\ IsString(right) -> {Clone(left)}
      [] op = "+" /\ IsString(left) # IsString(right)  -> {}
      [] OTHER                                         -> LargerTypes(left, right)

LeaveArithmetic ==
    /\ Now("leave", {"types"})
    /\ Kind(Here) \in {"+", "-", "*", "%"}
    /\ IF ~Typed(Kid(Here, 1)) \/ ~Typed(Kid(Here, 2)) THEN Stop("crashed")
       ELSE LET ts == TypesOf(Kind(Here), types[Kid(Here, 1)], types[Kid(Here, 2)])
            IN IF ts = {} THEN Stop("syntaxError") ELSE GiveType(ts)

LeaveDivision == Now("leave", {"types"}) /\ Kind(Here) = "/" /\ GiveType({"Float64"})

LeaveEqual == Now("leave", {"types"}) /\ Kind(Here) = "==" /\ GiveType({"Bool"})

LeaveReference ==
    /\ Now("leave", {"types"})
    /\ Kind(Here) = "."
    /\ IF Typed(Kid(Here, 2)) THEN GiveType({types[Kid(Here, 2)]}) ELSE Stop("crashed")

\* Mutant: isAny, which Bool inherits, stands for isBool.
LeaveIfAny ==
    /\ Now("leave", {"types"})
    /\ Kind(Here) = "if"
    /\ IF ~Typed(Kid(Here, 1)) THEN Stop("crashed")
       ELSE /\ problems' = IF IsAny(types[Kid(Here, 1)]) THEN problems
                                                         ELSE problems \union {Here}
            /\ agenda' = Tail(agenda)
            /\ UNCHANGED <<program, pass, locals, types, targets, status>>

\* Mutant: a problem replaces the one reported before it.
LeaveIfLast ==
    /\ Now("leave", {"types"})
    /\ Kind(Here) = "if"
    /\ IF ~Typed(Kid(Here, 1)) THEN Stop("crashed")
       ELSE /\ problems' = IF types[Kid(Here, 1)] = "Bool" THEN problems ELSE {Here}
            /\ agenda' = Tail(agenda)
            /\ UNCHANGED <<program, pass, locals, types, targets, status>>

\* A condition that is not of type Bool is reported, and resolving goes on.
LeaveIf ==
    /\ Now("leave", {"types"})
    /\ Kind(Here) = "if"
    /\ IF ~Typed(Kid(Here, 1)) THEN Stop("crashed")
       ELSE /\ problems' = IF types[Kid(Here, 1)] = "Bool" THEN problems
                                                           ELSE problems \union {Here}
            /\ agenda' = Tail(agenda)
            /\ UNCHANGED <<program, pass, locals, types, targets, status>>

\* The nodes that get no type context.
LeaveUntyped ==
    /\ Now("leave", {"types"})
    /\ Kind(Here) \notin {"+", "-", "*", "%", "/", "==", ".", "if", "call"}
    /\ Done

-----------------------------------------------------------------------------
(* The target of a call.                                                    *)

FunctionTarget(f) ==
    Target("function", FunctionName(f),
           [k \in DOMAIN ParamTypes(f) |-> types[ParamTypes(f)[k]]], types[ReturnType(f)])

\* The first parameter of a builtin that does not match its argument or has
\* none; one more than the parameters when there is no such parameter.
FirstBad(params, args) ==
    CHOOSE k \in 1..(Len(params) + 1) :
        /\ k > Len(params) \/ k > Len(args) \/ ~Matches(params[k], args[k])
        /\ \A j \in 1..(k - 1) : j <= Len(args) /\ Matches(params[j], args[j])

\* callTypes.at(i) throws when an argument is missing.
MissesArgument(b, args) ==
    LET k == FirstBad(b.params, args) IN k <= Len(b.params) /\ k > Len(args)
MatchesCall(b, args) == FirstBad(b.params, args) > Len(b.params)

\* The functions of that name and number of parameters, of which the first
\* declared is taken; the types of their parameters are not compared.
SameArity(name, n) ==
    {f \in FunctionNodes : FunctionName(f) = name /\ Len(ParamTypes(f)) = n}
LastOf(fs) == CHOOSE f \in fs : \A g \in fs : f[1] >= g[1]    \* Mutant.
FirstOf(fs) == CHOOSE f \in fs : \A g \in fs : f[1] <= g[1]

TakeTarget(t) ==
    /\ targets' = With(targets, Here, t)
    /\ types' = With(types, Here, t.returns)
    /\ agenda' = Tail(agenda)
    /\ UNCHANGED <<program, pass, locals, problems, status>>

FindTargetCall ==
    /\ Now("leave", {"types"})
    /\ Kind(Here) = "call" /\ ~InDot(Here)
    /\ LET args == [k \in DOMAIN Arguments(Here) |-> types[Arguments(Here)[k]]]
           builtins == {b \in Builtins : b.name = CallName(Here)}
           functions == SameArity(CallName(Here), Len(args))
       IN IF \E b \in builtins : MissesArgument(b, args) THEN Stop("uncaught")
          ELSE IF \E b \in builtins : MatchesCall(b, args)
               THEN \E b \in builtins : MatchesCall(b, args) /\ TakeTarget(b)
          ELSE IF functions # {} THEN TakeTarget(FunctionTarget(FirstOf(functions)))
          ELSE Stop("syntaxError")

\* The methods of the type of the reference.  Deleting the methods of a type
\* that is not the reference's own leaves prettyName a live object; those of
\* Any and Bool delete the reference's type, which prettyName then follows.
FindMethod ==
    /\ Now("leave", {"types"})
    /\ Kind(Here) = "call" /\ InDot(Here)
    /\ LET owner == Kid(Parent(Here), 1)
           found == {t \in Methods(types[owner]) : t.name = CallName(Here)}
       IN IF owner = Here \/ ~Typed(owner) THEN Stop("crashed")
          ELSE IF found # {} THEN \E t \in found : TakeTarget(t)
          ELSE \/ Stop("syntaxError")
               \/ IsAny(types[owner]) /\ Stop("crashed")

-----------------------------------------------------------------------------
(* RocCompiler::compile(moduleDeclaration, compilationContext).             *)

StartSignatures ==
    /\ status = "running" /\ agenda = <<>> /\ pass = "literals"
    /\ pass' = "signatures"
    /\ agenda' = [k \in 1..(Len(program.kids) - 1) |-> Entry("signature", <<k + 1>>)]
    /\ UNCHANGED <<program, locals, types, targets, problems, status>>

StartTypes ==
    /\ status = "running" /\ agenda = <<>> /\ pass = "signatures"
    /\ pass' = "types"
    /\ agenda' = <<Entry("visit", <<>>)>>
    /\ UNCHANGED <<program, locals, types, targets, problems, status>>

FinishResolving ==
    /\ agenda = <<>> /\ pass = "types" /\ status = "running"
    /\ Stop(IF problems = {} THEN "resolved" ELSE "problems")

ResolverNext ==
    \/ FollowNullLeft \/ DescendLiterals \/ ResolveLiteral \/ LeaveLiterals
    \/ VisitSignature \/ ResolveTypeName \/ DescendArrayType \/ LeaveArrayType
    \/ TypeLeaf \/ DescendTypes \/ VisitCall \/ ReadArgument
    \/ LeaveArithmetic \/ LeaveDivision \/ LeaveEqual \/ LeaveReference
    \/ LeaveIf \/ LeaveUntyped \/ FindTargetCall \/ FindMethod
    \/ StartSignatures \/ StartTypes \/ FinishResolving

ResolverSpec == ResolverInit /\ [][ResolverNext]_resolverVars /\ WF_resolverVars(ResolverNext)

-----------------------------------------------------------------------------
(* Properties.                                                              *)

IsExpression(p) ==
    p \in Seq(Nat) /\ \A k \in 1..Len(p) : p[k] \in ExpressionKids(At(SubSeq(p, 1, k - 1)))

Expressions ==
    LET level[k \in 0..Height] ==
            IF k = 0 THEN {<<>>}
            ELSE UNION {{Kid(p, i) : i \in ExpressionKids(At(p))} : p \in level[k - 1]}
    IN UNION {level[k] : k \in 0..Height}

\* An argument of a method call, or part of one: TypeResolver does not visit it.
InMethodArguments(p) ==
    \E k \in 1..(Len(p) - 1) : LET q == SubSeq(p, 1, k)
                               IN Kind(q) = "call" /\ InDot(q)

(***************************************************************************)
(* The resolvers give a type of the language to what they type, and find   *)
(* names, targets and problems at expressions of the tree only.            *)
(***************************************************************************)
ResolverTypeOK ==
    /\ pass \in {"literals", "signatures", "types"}
    /\ \A k \in DOMAIN agenda : agenda[k].do \in {"visit", "leave", "signature", "type", "read"}
    /\ \A p \in DOMAIN types : types[p] \in Types
    /\ \A p \in locals \union DOMAIN targets \union problems : IsExpression(p)
    /\ status \in Statuses

(***************************************************************************)
(* What ToMIRVisitor reads of a resolved module is there: a name that is   *)
(* left is a local of its own function, and outside the arguments of a     *)
(* method call, which TypeResolver does not visit, each local has a type   *)
(* and each call a target (MIR.cpp 123-172, RocCompiler.cpp 158-200).      *)
(***************************************************************************)
LoweringReady ==
    status = "resolved" =>
        \A p \in Expressions :
            /\ IsLiteral(p) => p \in locals
            /\ ~InMethodArguments(p) =>
                  /\ p \in locals => Typed(p)
                  /\ Kind(p) = "call" => p \in DOMAIN targets

(***************************************************************************)
(* A module that resolves has no if, at any depth, in an else or in the    *)
(* static block, whose condition is not a Bool (Types.cpp 248-256).        *)
(***************************************************************************)
ConditionsAreBool ==
    status = "resolved" =>
        \A p \in Expressions :
            Kind(p) = "if" /\ ~InMethodArguments(p) =>
                Typed(Kid(p, 1)) /\ types[Kid(p, 1)] = "Bool"

(***************************************************************************)
(* A module with conditions of another type is rejected only after every   *)
(* one of them was reported, and nothing else is reported                  *)
(* (Types.cpp 248-256, RocCompiler.cpp 147-152).                           *)
(***************************************************************************)
EveryProblemReported ==
    status = "problems" =>
        /\ problems # {}
        /\ problems = {p \in Expressions : /\ Kind(p) = "if" /\ ~InMethodArguments(p)
                                          /\ types[Kid(p, 1)] # "Bool"}

(***************************************************************************)
(* Once resolved, exactly the expressions that have a value have a type,   *)
(* the one their parts and declarations give them: a name that of the      *)
(* first parameter of its own function, a call that of a builtin which     *)
(* takes its arguments or of the first function declared with its name and *)
(* arity, wherever that stands; and a string is added to strings only      *)
(* (Types.cpp 46-264, 326-400).                                            *)
(***************************************************************************)
ValueKinds == Names \union (Numbers \ Doubles)
              \union {"string", "call", ".", "+", "-", "*", "%", "/", "=="}

\* The type an annotation of this kind stands for.
Annotated(kind) ==
    CASE kind = "array"              -> {"Ptr"}
      [] kind = "Unit"               -> {"Unit"}
      [] kind \in DOMAIN NamedTypes  -> {NamedTypes[kind]}
      [] OTHER                       -> {}

MayTake(b, args) ==
    /\ Len(b.params) <= Len(args)
    /\ \A k \in DOMAIN b.params : IsAny(types[args[k]]) \/ types[args[k]] # "Unit"

\* The results of a call of p's name with p's arguments.
ResultsOf(p) ==
    LET taking == {b \in Builtins : b.name = CallName(p) /\ MayTake(b, Arguments(p))}
        named == SameArity(CallName(p), Len(Arguments(p)))
    IN IF taking # {} THEN {b.returns : b \in taking}
       ELSE UNION {Annotated(Kind(ReturnType(f))) :
                     f \in {g \in named : \A other \in named : g[1] <= other[1]}}

MethodsOf(p) == {t \in Methods(types[Kid(Parent(p), 1)]) : t.name = CallName(p)}

\* The types of the first parameter named as p is.
ParameterTypes(p) ==
    LET f == FunctionOf(p)
        named == {k \in DOMAIN ParamNames(f) : ParamNames(f)[k] = Kind(p)}
    IN UNION {Annotated(Kind(ParamTypes(f)[k])) : k \in {i \in named : \A j \in named : i <= j}}

TypesOfParts(p) ==
    LET left == types[Kid(p, 1)]
        right == types[Kid(p, 2)]
    IN CASE IsLiteral(p)       -> ParameterTypes(p)
         [] Kind(p) \in Numbers -> {"Int32"}
         [] Kind(p) = "string" -> {"Raw"}
         [] Kind(p) = "+"      -> {t \in LargerTypes(left, right) : IsString(left) <=> IsString(right)}
         [] Kind(p) \in {"-", "*", "%"} -> LargerTypes(left, right)
         [] Kind(p) = "/"      -> {"Float64"}
         [] Kind(p) = "=="     -> {"Bool"}
         [] Kind(p) = "."      -> {right}
         [] OTHER              -> IF ~InDot(p) THEN ResultsOf(p)
                                  ELSE {t.returns : t \in MethodsOf(p)}

TypesRight ==
    status = "resolved" =>
        \A p \in Expressions :
            ~InMethodArguments(p) =>
                /\ Typed(p) <=> Kind(p) \in ValueKinds
                /\ Typed(p) => types[p] \in TypesOfParts(p)
=============================================================================
