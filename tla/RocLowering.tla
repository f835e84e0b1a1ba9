---------------------------- MODULE RocLowering ----------------------------
(***************************************************************************)
(* ToMIRVisitor and SmartTypeCaster (mir/MIR.cpp) on a module the          *)
(* resolvers accepted: LLVMBackendProvider::compile up to the emission.    *)
(*                                                                         *)
(* A MIR value is named by the syntax node it was built from; mir has its  *)
(* kind, type and operands.  work is the C++ call stack, unrolled, and     *)
(* held the values its frames popped and keep in local variables.          *)
(***************************************************************************)
EXTENDS RocResolvers

VARIABLES
    stage,      \* what the back end is doing, or how it ended
    work,       \* what is left of the traversal
    values,     \* valueStack
    held,       \* values popped by popElements(.., 1), not yet used
    mir,        \* the MIR values
    functions,  \* functionStack: each with the values of its block
    casts       \* by call, what the caster put around its operands

loweringVars == <<stage, work, values, held, mir, functions, casts>>
backendVars == <<resolverVars, loweringVars>>

Stages == {"waiting", "mir", "casts", "lowered", "crashed", "uncaught"}

\* The BinExprs ToMIRVisitor visits itself, with the operator and the type
\* of the value it builds.
MirOp == [op \in BinOps \ {"=", "^", "\\", "!"} |->
             CASE op = ">" -> ">=" [] op = "<" -> "<=" [] OTHER -> op]
MirType == [op \in DOMAIN MirOp |->
               CASE op \in {"+", "-", "*"} -> "Int32"
                 [] op = "%" -> "Int64"
                 [] op = "/" -> "Float64"
                 [] OTHER    -> "Bool"]

LoweringInit ==
    /\ ResolverInit
    /\ stage = "waiting"
    /\ work = <<>> /\ values = <<>> /\ held = <<>>
    /\ mir = <<>> /\ functions = <<>> /\ casts = <<>>

Resolve == ResolverNext /\ UNCHANGED loweringVars

\* LLVMBackendProvider::compile.
StartLowering ==
    /\ status = "resolved" /\ stage = "waiting"
    /\ stage' = "mir"
    /\ work' = <<Entry("visit", <<>>)>>
    /\ UNCHANGED <<resolverVars, values, held, mir, functions, casts>>

-----------------------------------------------------------------------------
(* ToMIRVisitor.                                                            *)

Item == Head(work).at
Lowers(do, kinds) ==
    stage = "mir" /\ work # <<>> /\ Head(work).do = do /\ Kind(Item) \in kinds

Fail(how) ==
    /\ stage' = how
    /\ UNCHANGED <<resolverVars, work, values, held, mir, functions, casts>>

\* Mutant: popElements leaves the values in the order they are popped.
LastOfStackReversed(s, n) == Reverse(SubSeq(s, Len(s) - n + 1, Len(s)))
LastOfStack(s, n) == SubSeq(s, Len(s) - n + 1, Len(s))
Without(s, n) == SubSeq(s, 1, Len(s) - n)

Mir(op, type, kids) == [op |-> op, type |-> type, kids |-> kids]

\* The end of a visit that pushes a value, on what is left of the stack.
PushOn(rest, value) ==
    /\ mir' = With(mir, Item, value)
    /\ values' = Append(rest, Item)
    /\ work' = Tail(work)
    /\ UNCHANGED <<resolverVars, stage, functions, casts>>

\* Pops the operands and pushes the value; popping an empty vector is
\* undefined.
Combine(n, op, type) ==
    IF Len(values) < n THEN Fail("crashed")
    ELSE PushOn(Without(values, n), Mir(op, type, LastOfStack(values, n))) /\ UNCHANGED held

LowerLeaf ==
    \/ Lowers("visit", Numbers \ Doubles) /\ Combine(0, "int", "Int32")
    \/ Lowers("visit", {"string"}) /\ Combine(0, "string", "Raw")
    \/ Lowers("visit", {"true", "false"}) /\ Combine(0, Kind(Item), "Bool")

\* A LocalAccess without a type context ends the traversal.
LowerLocal ==
    /\ Lowers("visit", Names)
    /\ IF Typed(Item) THEN Combine(0, "local", Clone(types[Item])) ELSE Fail("crashed")

\* Each statement of a block, and the condition and the block of an if, are
\* popped as soon as they were visited.  The else is not visited.
VisitAndKeep(ps) == InTurns("visit", "keep", ps)
Visits(p) ==
    IF Kind(p) = "block" THEN VisitAndKeep(Children(p))
    ELSE IF Kind(p) = "if" THEN VisitAndKeep(<<Kid(p, 1), Kid(p, 2)>>)
    ELSE Entries("visit", Children(p))

LowerChildren ==
    /\ stage = "mir" /\ work # <<>> /\ Head(work).do = "visit"
    /\ Kind(Item) \notin Names \union (Numbers \ Doubles) \union {"string", "true", "false"}
    /\ work' = Visits(Item) \o <<Entry("leave", Item)>> \o Tail(work)
    /\ UNCHANGED <<resolverVars, stage, values, held, mir, functions, casts>>

\* popElements(this, 1)
KeepValue ==
    /\ stage = "mir" /\ work # <<>> /\ Head(work).do = "keep"
    /\ IF values = <<>> THEN Fail("crashed")
       ELSE /\ held' = Append(held, Last(values))
            /\ values' = Front(values)
            /\ work' = Tail(work)
            /\ UNCHANGED <<resolverVars, stage, mir, functions, casts>>

LowerBinExpr ==
    /\ Lowers("leave", DOMAIN MirOp)
    /\ Combine(2, MirOp[Kind(Item)], MirType[Kind(Item)])

\* Mutant: a return is not pushed.
LowerReturnLost ==
    /\ Lowers("leave", {"ret"})
    /\ IF values = <<>> THEN Fail("crashed")
       ELSE /\ values' = Front(values) /\ work' = Tail(work)
            /\ UNCHANGED <<resolverVars, stage, held, mir, functions, casts>>

LowerReturn ==
    /\ Lowers("leave", {"ret"})
    /\ IF values = <<>> THEN Fail("crashed") ELSE Combine(1, "ret", mir[Last(values)].type)

\* A call has its arguments as operands, a method call its reference first;
\* ccall takes the name of the function to call off its arguments.
LowerCall ==
    /\ Lowers("leave", {"call"})
    /\ LET n == Len(Arguments(Item)) + (IF InDot(Item) THEN 1 ELSE 0)
           args == LastOfStack(values, n)
           isC == CallName(Item) = "ccall" /\ ~InDot(Item)
       IN IF \/ Len(values) < n
             \/ Item \notin DOMAIN targets
             \/ isC /\ (args = <<>> \/ TypeVariables(Item) = <<>>)
          THEN Fail("crashed")
          ELSE IF isC
               THEN /\ PushOn(Without(values, n),
                              Mir("ccall", Clone(types[TypeVariables(Item)[1]]), Tail(args)))
                    /\ UNCHANGED held
          ELSE Combine(n, IF InDot(Item) THEN "method" ELSE "call", targets[Item].returns)

\* Mutant: an if with an else leaves a value that was never built.
LowerIfNull ==
    /\ Lowers("leave", {"if"})
    /\ held' = Without(held, 2)
    /\ IF Len(At(Item).kids) = 3
       THEN /\ work' = Tail(work) /\ values' = Append(values, Item)
            /\ UNCHANGED <<resolverVars, stage, mir, functions, casts>>
       ELSE PushOn(values, Mir("if", "Unit", LastOfStack(held, 2)))

\* An if with an else is built of nothing.
LowerIf ==
    /\ Lowers("leave", {"if"})
    /\ held' = Without(held, 2)
    /\ IF Len(At(Item).kids) = 3
       THEN work' = Tail(work) /\ UNCHANGED <<resolverVars, stage, values, mir, functions, casts>>
       ELSE PushOn(values, Mir("if", "Unit", LastOfStack(held, 2)))

LowerBlock ==
    /\ Lowers("leave", {"block"})
    /\ LET n == Len(At(Item).kids)
       IN /\ held' = Without(held, n)
          /\ PushOn(values, Mir("block", "none", LastOfStack(held, n)))

\* The nodes ToMIRVisitor does not override: their operands stay pushed.
LowerOther ==
    /\ Lowers("leave", {".", "=", "^", "\\", "!", "while", "body"} \union Doubles)
    /\ work' = Tail(work)
    /\ UNCHANGED <<resolverVars, stage, values, held, mir, functions, casts>>

\* A MIRFunction takes the whole stack.
End == Append(Item, 0)
\* Mutant: the stack is copied, not taken.
EndFunctionCopies(vs) ==
    /\ functions' = Append(functions, [of |-> Item, body |-> vs])
    /\ values' = vs
    /\ work' = Tail(work)
    /\ UNCHANGED <<resolverVars, stage, held, casts>>

EndFunctionWith(vs) ==
    /\ functions' = Append(functions, [of |-> Item, body |-> vs])
    /\ values' = <<>>
    /\ work' = Tail(work)
    /\ UNCHANGED <<resolverVars, stage, held, casts>>

LowerFunction ==
    /\ Lowers("leave", {"fun"})
    /\ IF values # <<>> /\ mir[Last(values)].op = "ret"
       THEN EndFunctionWith(values) /\ UNCHANGED mir
       ELSE EndFunctionWith(Append(values, End)) /\ mir' = With(mir, End, Mir("ret", "Unit", <<>>))

\* main, which returns 0.
LowerStatic ==
    /\ Lowers("leave", {"static"})
    /\ EndFunctionWith(Append(values, End))
    /\ mir' = With(mir, End, Mir("ret", "Int32", <<>>))

-----------------------------------------------------------------------------
(* SmartTypeCaster.                                                         *)

LowerModule ==
    /\ Lowers("leave", {"module"})
    /\ stage' = "casts"
    /\ work' = FlattenSeq([k \in DOMAIN functions |-> Entries("cast", functions[k].body)])
    /\ UNCHANGED <<resolverVars, values, held, mir, functions, casts>>

\* What MIRVisitor visits of a value: no block, and nothing of a MIRCCall.
CastKids(p) ==
    CASE mir[p].op \in {"block", "ccall"} -> <<>>
      [] mir[p].op = "method"             -> Tail(mir[p].kids)
      [] mir[p].op = "if"                 -> <<mir[p].kids[1]>>
      [] OTHER                            -> mir[p].kids

Uncast == [wrapped |-> FALSE, type |-> "none"]

VisitMir ==
    /\ stage = "casts" /\ work # <<>> /\ Head(work).do = "cast"
    /\ IF mir[Item].op = "method" /\ mir[mir[Item].kids[1]].type = "none" THEN Fail("crashed")
       ELSE /\ work' = Entries("cast", CastKids(Item)) \o
                       (IF mir[Item].op \in {"call", "method"}
                        THEN <<Entry("arguments", Item)>> ELSE <<>>) \o Tail(work)
            /\ UNCHANGED <<resolverVars, stage, values, held, mir, functions, casts>>

Coercion(given, expected) ==
    [wrapped |-> IsPrimitive(given) /\ ~IsPrimitive(expected), type |-> expected]

\* Mutant: i never advances.
CastLoopStays(given, expected) ==
    LET bad == {k \in DOMAIN given : expected # <<>> /\ given[k] # expected[1]}
    IN [to   |-> [j \in DOMAIN given |->
                     IF j = 1 /\ bad # {} THEN Coercion(given[1], expected[1]) ELSE Uncast],
        ends |-> "no"]

\* The loop over the arguments: i is the index of the parameter it compares
\* with and of the argument it replaces, and stays when nothing is replaced.
CastLoop(given, expected) ==
    LET after[k \in 0..Len(given)] ==
            IF k = 0 THEN [i |-> 1, to |-> [j \in DOMAIN given |-> Uncast], ends |-> "no"]
            ELSE LET s == after[k - 1] IN
                 IF s.ends # "no" THEN s
                 ELSE IF s.i > Len(expected) THEN [s EXCEPT !.ends = "uncaught"]
                 ELSE IF given[k] = "none" THEN [s EXCEPT !.ends = "crashed"]
                 ELSE IF given[k] = expected[s.i] THEN s
                 ELSE [s EXCEPT !.to[s.i] = Coercion(given[k], expected[s.i]), !.i = @ + 1]
    IN after[Len(given)]

\* The operands of a call that are its arguments.
MirArguments(p) == IF mir[p].op = "method" THEN Tail(mir[p].kids) ELSE mir[p].kids
Given(p) == [k \in DOMAIN MirArguments(p) |-> mir[MirArguments(p)[k]].type]

\* The caller of a method is wrapped when it is primitive.
CastArguments ==
    /\ stage = "casts" /\ work # <<>> /\ Head(work).do = "arguments"
    /\ LET loop == CastLoop(Given(Item), targets[Item].params)
           caller == IF mir[Item].op = "method"
                     THEN <<[wrapped |-> IsPrimitive(mir[mir[Item].kids[1]].type),
                             type |-> "none"]>>
                     ELSE <<>>
       IN \/ \E how \in {"crashed", "uncaught"} : loop.ends = how /\ Fail(how)
          \/ /\ loop.ends = "no"
             /\ casts' = With(casts, Item, caller \o loop.to)
             /\ work' = Tail(work)
             /\ UNCHANGED <<resolverVars, stage, values, held, mir, functions>>

FinishLowering ==
    /\ stage = "casts" /\ work = <<>>
    /\ stage' = "lowered"
    /\ UNCHANGED <<resolverVars, work, values, held, mir, functions, casts>>

LoweringNext ==
    \/ Resolve \/ StartLowering
    \/ LowerLeaf \/ LowerLocal \/ LowerChildren \/ KeepValue
    \/ LowerBinExpr \/ LowerReturn \/ LowerCall \/ LowerIf \/ LowerBlock \/ LowerOther
    \/ LowerFunction \/ LowerStatic \/ LowerModule
    \/ VisitMir \/ CastArguments \/ FinishLowering

LoweringSpec == LoweringInit /\ [][LoweringNext]_backendVars /\ WF_backendVars(LoweringNext)
-----------------------------------------------------------------------------
(* Properties.                                                              *)

\* The kinds of nodes that leave exactly one value behind: no double, power,
\* assignment, loop or "!", no else, and a "." only before a call without
\* arguments.
IsPlain(n) ==
    /\ n.op \notin Doubles \union {"^", "\\", "=", "while", "!"}
    /\ n.op = "if" => Len(n.kids) = 2
    /\ n.op = "." => n.kids[2].op = "call" /\ Len(n.kids[2].kids) = 1
\* The expressions, statements and functions of the module, as nodes.
Parts ==
    LET upTo[h \in 0..Height] ==
            IF h = 0 THEN {program}
            ELSE LET above == upTo[h - 1]
                 IN above \union UNION {{n.kids[k] : k \in ExpressionKids(n)} : n \in above}
    IN upTo[Height]
Plain == \A n \in Parts : IsPlain(n)

\* The node whose MIR value stands for the expression p.
ValueOf(p) == IF Kind(p) = "." THEN Kid(p, 2) ELSE p
ValuesOf(ps) == [k \in DOMAIN ps |-> ValueOf(ps[k])]

Operands(p) ==
    CASE Kind(p) = "call" /\ InDot(p) -> <<ValueOf(Kid(Parent(p), 1))>>
      [] mir[p].op = "ccall"          -> Tail(ValuesOf(Arguments(p)))
      [] OTHER                        -> ValuesOf(Children(p))

(***************************************************************************)
(* The MIR is closed: the operands of a value, and what the visitor still  *)
(* holds on its two stacks, are values of the MIR, each has a type of the  *)
(* language or none, and only a resolved call has its arguments cast       *)
(* (MIR.cpp 123-317).                                                      *)
(***************************************************************************)
LoweringTypeOK ==
    /\ stage \in Stages
    /\ stage = "waiting" <=> work = <<>> /\ mir = <<>> /\ functions = <<>>
    /\ \A p \in DOMAIN mir : mir[p].type \in Types \union {"none"}
                                /\ Range(mir[p].kids) \subseteq DOMAIN mir
    /\ Range(values) \union Range(held) \subseteq DOMAIN mir
    /\ DOMAIN casts \subseteq DOMAIN targets

(***************************************************************************)
(* The operands of a MIR value are the values of its own subexpressions,   *)
(* in order, whatever was pushed and popped in between; nested ifs and     *)
(* blocks included (MIR.cpp 13-27, 123-317).                               *)
(***************************************************************************)
OwnOperands ==
    Plain => \A p \in DOMAIN mir : Last(p) # 0 => mir[p].kids = Operands(p)

(***************************************************************************)
(* A function's block holds its statements, each once and in order, and    *)
(* ends in a return: its own or the one that is added; main holds the      *)
(* static block (MIR.cpp 75-118).                                          *)
(***************************************************************************)
StatementsKept ==
    stage \in {"casts", "lowered"} /\ Plain =>
        /\ Len(functions) = Len(program.kids)
        /\ \A k \in DOMAIN functions :
              LET f == <<k>>
                  body == ValuesOf(Children(IF k = 1 THEN f ELSE Body(f)))
                  returns == k > 1 /\ body # <<>> /\ Kind(Last(body)) = "ret"
              IN functions[k] = [of |-> f, body |-> IF returns THEN body
                                                    ELSE Append(body, Append(f, 0))]

(***************************************************************************)
(* A plain module that resolves is lowered: no stack is popped when empty, *)
(* no missing context is read; only a builtin's superfluous arguments, or  *)
(* a ccall without a type, stop it (MIR.cpp 123-164, 487-525).             *)
(***************************************************************************)
TooManyArguments(p) == Kind(p) = "call" /\ Len(Arguments(p)) > Len(targets[p].params)
CWithoutType(p) == Kind(p) = "call" /\ CallName(p) = "ccall" /\ TypeVariables(p) = <<>>

PlainIsLowered ==
    /\ stage = "crashed" /\ Plain => \E p \in Expressions : CWithoutType(p)
    /\ stage = "uncaught" /\ Plain => \E p \in Expressions : TooManyArguments(p)

(***************************************************************************)
(* An argument that does not fit its parameter, as none before it fitted,  *)
(* is made to fit: a primitive passed for a type that is not is wrapped,   *)
(* any other difference is a cast, and no later argument undoes it         *)
(* (MIR.cpp 487-525, Types.h 518-521).                                     *)
(***************************************************************************)
CastsReach ==
    \A p \in DOMAIN casts :
        mir[p].op = "call" =>
            \A k \in DOMAIN Given(p) :
                (\A j \in 1..k : Given(p)[j] # targets[p].params[j]) =>
                    casts[p][k] = Coercion(Given(p)[k], targets[p].params[k])
=============================================================================
