---------------------------- MODULE RocEmission ----------------------------
(***************************************************************************)
(* ToLLVMVisitor (compiler/LLVMBackend.cpp) on the MIR that RocLowering    *)
(* built and cast: which instruction goes to which basic block, and which  *)
(* values it takes off valueStack.                                         *)
(*                                                                         *)
(* An LLVM value is named by the MIR value it stands for.  An operand      *)
(* number k of a call c that is wrapped is c \o <<0, k, 1>>, and cast it   *)
(* is c \o <<0, k, 2>>.  A block is named by its function or MIRBlock, the *)
(* two blocks of an if p are IfStart(p) and IfEnd(p).                      *)
(***************************************************************************)
EXTENDS RocLowering

VARIABLES
    emission,   \* what the visitor is doing, or how it ended
    todo,       \* what is left of its traversal
    stack,      \* valueStack
    block,      \* currentBlock
    code        \* by block, its instructions

emissionVars == <<emission, todo, stack, block, code>>
compilerVars == <<backendVars, emissionVars>>

Emissions == {"waiting", "emitting", "emitted", "crashed", "uncaught"}

Main == <<1>>
IfStart(p) == p \o <<0, 1>>
IfEnd(p) == p \o <<0, 2>>

EmissionInit ==
    /\ LoweringInit
    /\ emission = "waiting"
    /\ todo = <<>> /\ stack = <<>> /\ block = <<>> /\ code = <<>>

Lower == LoweringNext /\ UNCHANGED emissionVars

-----------------------------------------------------------------------------
(* visit(MIRModule): every function is declared, then emitted.              *)

\* The types ToLLVMTypeVisitor has a visit for; of the others it has no
\* result.
SolvedTypes == {"Unit", "Int32", "Int64", "Float64", "Raw", "String", "Any"}

\* Mutant: the type visitor has no visit for String.
NotSolvedString ==
    {k \in DOMAIN functions \ {1} :
        \E t \in Range(ParamTypes(<<k>>)) : Clone(types[t]) \notin SolvedTypes \ {"String"}}

NotSolved ==
    {k \in DOMAIN functions \ {1} :
        \E t \in Range(ParamTypes(<<k>>)) : Clone(types[t]) \notin SolvedTypes}

StartEmission ==
    /\ stage = "lowered" /\ emission = "waiting"
    /\ IF NotSolved # {}
       THEN emission' = "uncaught" /\ UNCHANGED todo
       ELSE /\ emission' = "emitting"
            /\ todo' = [k \in DOMAIN functions |-> Entry("function", <<k>>)]
    /\ UNCHANGED <<backendVars, stack, block, code>>

\* The names the module holds before the first function is declared: the
\* builtins, what they call, and the vtables.
RuntimeSymbols ==
    {"println", "print", "int32ToString", "malloc", "myIntToString", "myPrintln", "myPrint",
     "myInt32ToString", "myStringRawRTypeToString", "myVTableFactory", "addVTableMapping"}
Runtime == <<0>>
Outside == <<>>

Symbol(k) == IF k = 1 THEN "main" ELSE FunctionName(<<k>>)

\* Mutant: the last function of a name keeps it.
LookupLast(name) ==
    LET named == {k \in DOMAIN functions : Symbol(k) = name}
    IN CASE name \in RuntimeSymbols -> Runtime
         [] named # {}              -> <<Max(named)>>
         [] OTHER                   -> Outside

\* What Module::getOrInsertFunction finds by a name: a second function of
\* the same name was given another one when it was created.
Lookup(name) ==
    LET named == {k \in DOMAIN functions : Symbol(k) = name}
    IN CASE name \in RuntimeSymbols -> Runtime
         [] named # {}              -> <<Min(named)>>
         [] OTHER                   -> Outside

\* The text of the first argument of a ccall, as far as it can be a name.
CName(p) ==
    LET arg == Kid(p, 2)
    IN IF Kind(arg) = "string"
       THEN IF Len(At(arg).kids) = 1 THEN Kind(Kid(arg, 1)) ELSE ""
       ELSE Kind(arg)

\* MIRFunctionCall::getName
Callee(p) == Lookup(IF mir[p].op = "ccall" THEN CName(p) ELSE targets[p].name)

-----------------------------------------------------------------------------

Emitting(dos) == emission = "emitting" /\ todo # <<>> /\ Head(todo).do \in dos
Value == Head(todo).at
Emits(do, ops) == Emitting({do}) /\ mir[Value].op \in ops

Instr(op, value, args) == [op |-> op, value |-> value, args |-> args]
Emitted(is) == [code EXCEPT ![block] = @ \o is]

Break(how) ==
    /\ emission' = how
    /\ UNCHANGED <<backendVars, todo, stack, block, code>>

\* Mutant: the operands stay in the order they are popped.
TopReversed(n) == Reverse(LastOfStack(stack, n))
Top(n) == LastOfStack(stack, n)

\* Pops the n operands of an instruction, and pushes it.
Build(n, op, value, pushed) ==
    IF Len(stack) < n THEN Break("crashed")
    ELSE /\ code' = Emitted(<<Instr(op, value, Top(n))>>)
         /\ stack' = Without(stack, n) \o pushed
         /\ todo' = Tail(todo)
         /\ UNCHANGED <<backendVars, emission, block>>

\* Constants and arguments are values that need no instruction.
EmitLeaf ==
    /\ Emits("value", {"int", "string", "true", "false", "local"})
    /\ stack' = Append(stack, Value)
    /\ todo' = Tail(todo)
    /\ UNCHANGED <<backendVars, emission, block, code>>

BinaryOps == {"+", "-", "*", "/", "==", "!=", ">=", "<=", "and", "or"}
CallOps == {"call", "ccall", "method"}

\* Mutant: the operands of a return are visited for ever.
EmitOperandsAgain ==
    /\ Emits("value", BinaryOps \union {"%", "ret"})
    /\ todo' = IF mir[Value].op = "ret" /\ mir[Value].kids # <<>> THEN todo
               ELSE Entries("value", mir[Value].kids) \o <<Entry("leave", Value)>> \o Tail(todo)
    /\ UNCHANGED <<backendVars, emission, stack, block, code>>

\* MIRInt64Mod is not visited but by MIRVisitor: no instruction.
EmitOperands ==
    /\ Emits("value", BinaryOps \union {"%", "ret"})
    /\ todo' = Entries("value", mir[Value].kids) \o <<Entry("leave", Value)>> \o Tail(todo)
    /\ UNCHANGED <<backendVars, emission, stack, block, code>>

EmitBinary == Emits("leave", BinaryOps) /\ Build(2, mir[Value].op, Value, <<Value>>)

EmitMod ==
    /\ Emits("leave", {"%"})
    /\ todo' = Tail(todo)
    /\ UNCHANGED <<backendVars, emission, stack, block, code>>

\* Main returns a constant, a void return nothing.
EmitReturn ==
    /\ Emits("leave", {"ret"})
    /\ Build(Len(mir[Value].kids), "ret", Value, <<Value>>)

-----------------------------------------------------------------------------
(* CallOps.  An operand that was cast is a MIRToWrapper or a MIRCastTo around *)
(* the operand.                                                             *)

Operand(c, k) == c \o <<0, k>>
CallWith(o) == SubSeq(o, 1, Len(o) - 2)

\* Each operand is visited, and then what was put around it.
ArgumentEntries(c) ==
    [j \in 1..(2 * Len(mir[c].kids)) |->
        IF j % 2 = 1 THEN Entry("value", mir[c].kids[(j + 1) \div 2])
                     ELSE Entry("coerce", Operand(c, j \div 2))]

EmitArguments ==
    /\ Emits("value", CallOps)
    /\ todo' = ArgumentEntries(Value) \o <<Entry("leave", Value)>> \o Tail(todo)
    /\ UNCHANGED <<backendVars, emission, stack, block, code>>

\* What SmartTypeCaster put around an operand; it did not visit the calls
\* in the block of an if, nor the operands of a ccall.
CastOf(c, k) == IF c \in DOMAIN casts THEN casts[c][k] ELSE Uncast

GivenType(c, k) == mir[mir[c].kids[k]].type

\* visit(MIRToWrapper): a struct on the stack of the function, which there
\* is for raw strings and Int32 only.  visit(MIRCastTo): a bitcast, and
\* nothing of a primitive.
Wraps(o) == CastOf(CallWith(o), Last(o)).wrapped
Bitcasts(o) ==
    /\ CastOf(CallWith(o), Last(o)).type # "none"
    /\ Wraps(o) \/ ~IsPrimitive(GivenType(CallWith(o), Last(o)))
WrapperOf(o) == Append(o, 1)
BitcastOf(o) == Append(o, 2)

CoercionOf(o, value) ==
    (IF Wraps(o) THEN <<Instr("wrap", WrapperOf(o), <<value>>)>> ELSE <<>>)
        \o (IF Bitcasts(o)
            THEN <<Instr("cast", BitcastOf(o), <<IF Wraps(o) THEN WrapperOf(o) ELSE value>>)>>
            ELSE <<>>)
Coerced(o, value) ==
    IF Bitcasts(o) THEN BitcastOf(o) ELSE IF Wraps(o) THEN WrapperOf(o) ELSE value

EmitCoercion ==
    /\ Emitting({"coerce"})
    /\ IF ~Wraps(Value) /\ ~Bitcasts(Value)
       THEN todo' = Tail(todo) /\ UNCHANGED <<backendVars, emission, stack, block, code>>
       ELSE IF stack = <<>> THEN Break("crashed")
       ELSE IF Wraps(Value) /\ GivenType(CallWith(Value), Last(Value)) \notin {"Raw", "Int32"}
       THEN Break("uncaught")
       ELSE /\ code' = Emitted(CoercionOf(Value, Last(stack)))
            /\ stack' = Append(Front(stack), Coerced(Value, Last(stack)))
            /\ todo' = Tail(todo)
            /\ UNCHANGED <<backendVars, emission, block>>

\* A call of a function without a result pushes nothing.
EmitCall ==
    /\ Emits("leave", {"call", "ccall"})
    /\ Build(Len(mir[Value].kids), mir[Value].op, Value,
             IF mir[Value].type = "Unit" THEN <<>> ELSE <<Value>>)

\* The caller is popped, and another value below it.  With arguments the
\* last of them is taken for the caller, and an operand is never set.
EmitMethod ==
    /\ Emits("leave", {"method"})
    /\ IF Len(mir[Value].kids) > 1 \/ Len(stack) < 2 THEN Break("crashed")
       ELSE /\ code' = Emitted(<<Instr("method", Value, Top(1))>>)
            /\ stack' = Append(Without(stack, 2), Value)
            /\ todo' = Tail(todo)
            /\ UNCHANGED <<backendVars, emission, block>>

-----------------------------------------------------------------------------
(* Blocks.                                                                  *)

\* Main sets the vtables up at the start of each of its blocks: a call of
\* Int32.vtable.init and, right after it, one of StringRaw.vtable.init.
VTables == IF FunctionOf(Value) = Main THEN <<Instr("vtables.init", <<>>, <<>>)>> ELSE <<>>

\* A block of its own: the body of a function, or a MIRBlock that is no if's.
EmitBlock ==
    /\ Emitting({"function"}) \/ Emits("value", {"block"})
    /\ block' = Value
    /\ code' = With(code, Value, VTables)
    /\ todo' = Entries("value", IF Head(todo).do = "function" THEN functions[Value[1]].body
                                ELSE mir[Value].kids) \o Tail(todo)
    /\ UNCHANGED <<backendVars, emission, stack>>

EmitIf ==
    /\ Emits("value", {"if"})
    /\ todo' = <<Entry("value", mir[Value].kids[1]), Entry("branch", Value),
                 Entry("start", mir[Value].kids[2]), Entry("end", Value)>> \o Tail(todo)
    /\ UNCHANGED <<backendVars, emission, stack, block, code>>

\* The branch to the two blocks stays on the stack.
EmitBranch ==
    /\ Emitting({"branch"})
    /\ IF stack = <<>> THEN Break("crashed")
       ELSE /\ code' = With(With(Emitted(<<Instr("br", Value, Top(1))>>), IfEnd(Value), <<>>),
                           IfStart(Value), <<>>)
            /\ stack' = Append(Without(stack, 1), Value)
            /\ block' = IfStart(Value)
            /\ todo' = Tail(todo)
            /\ UNCHANGED <<backendVars, emission>>

EmitIfBlock ==
    /\ Emitting({"start"})
    /\ code' = Emitted(VTables)
    /\ todo' = Entries("value", mir[Value].kids) \o Tail(todo)
    /\ UNCHANGED <<backendVars, emission, stack, block>>

\* Mutant: the end of an if does not change the block.
EmitIfEndStays ==
    /\ Emitting({"end"})
    /\ todo' = Tail(todo)
    /\ UNCHANGED <<backendVars, emission, stack, block, code>>

\* No jump to the end is emitted.
EmitIfEnd ==
    /\ Emitting({"end"})
    /\ block' = IfEnd(Value)
    /\ todo' = Tail(todo)
    /\ UNCHANGED <<backendVars, emission, stack, code>>

FinishEmission ==
    /\ emission = "emitting" /\ todo = <<>>
    /\ emission' = "emitted"
    /\ UNCHANGED <<backendVars, todo, stack, block, code>>

EmissionNext ==
    \/ Lower \/ StartEmission
    \/ EmitLeaf \/ EmitOperands \/ EmitBinary \/ EmitMod \/ EmitReturn
    \/ EmitArguments \/ EmitCoercion \/ EmitCall \/ EmitMethod
    \/ EmitBlock \/ EmitIf \/ EmitBranch \/ EmitIfBlock \/ EmitIfEnd
    \/ FinishEmission

EmissionSpec == EmissionInit /\ [][EmissionNext]_compilerVars /\ WF_compilerVars(EmissionNext)

-----------------------------------------------------------------------------
(* Properties.                                                              *)

\* The values an instruction for p takes.
Uses(p) ==
    CASE mir[p].op = "block" -> <<>>
      [] mir[p].op = "if"    -> <<mir[p].kids[1]>>
      [] OTHER               -> mir[p].kids

\* The modules of which each operand pushes one value: no "%", no method
\* call, and no call without a result, if or block as an operand.
Direct ==
    /\ Plain
    /\ \A p \in DOMAIN mir :
          /\ mir[p].op \notin {"%", "method"}
          /\ \A v \in Range(Uses(p)) : mir[v].type \notin {"Unit", "none"}

Instructions == UNION {Range(code[b]) : b \in DOMAIN code}

(***************************************************************************)
(* The module handed to LLVM is well formed: nothing is emitted before the *)
(* whole MIR is there, an instruction is written into a block that exists  *)
(* and belongs to a method of the module, and what the visitor's stack     *)
(* holds is a value it visited or a cast of one (LLVMUtils.cpp,            *)
(* RocCompiler.cpp 104-151).                                               *)
(***************************************************************************)
EmissionTypeOK ==
    /\ emission \in Emissions
    /\ stage # "lowered" => emission = "waiting"
    /\ code # <<>> => block \in DOMAIN code
    /\ \A i \in Instructions : i.value # <<>> => FunctionOf(i.value)[1] \in DOMAIN functions
    /\ \A v \in Range(stack) : \/ v \in DOMAIN mir
                               \/ CallWith(Front(v)) \in DOMAIN casts

\* What an instruction should take: its own operands, coerced.
OwnArguments(i) ==
    CASE i.op \in CallOps -> [k \in DOMAIN mir[i.value].kids |->
                               Coerced(Operand(i.value, k), mir[i.value].kids[k])]
      [] i.op = "br"    -> <<mir[i.value].kids[1]>>
      [] i.op = "wrap"  -> <<mir[CallWith(Front(i.value))].kids[Last(Front(i.value))]>>
      [] i.op = "cast"  ->
            LET o == Front(i.value)
            IN <<IF Wraps(o) THEN WrapperOf(o) ELSE mir[CallWith(o)].kids[Last(o)]>>
      [] i.op = "vtables.init" -> <<>>
      [] OTHER          -> mir[i.value].kids

(***************************************************************************)
(* Every instruction takes off the one stack of the module the values of   *)
(* its own operands, wrapped and cast as SmartTypeCaster asked, in order:  *)
(* never a value another statement or function left there, as main's       *)
(* return is for ever (LLVMBackend.cpp 200-238, 265-275, 312-590).         *)
(***************************************************************************)
OwnValues == Direct => \A i \in Instructions : i.args = OwnArguments(i)

(***************************************************************************)
(* A call is emitted to the function it was typed with, unless a builtin   *)
(* or a function declared earlier has its name: functions of one name and  *)
(* number of parameters are told apart by neither (Types.cpp 386-391,      *)
(* LLVMBackend.cpp 69-97, 226).                                            *)
(***************************************************************************)
TypedWith(p) ==
    CHOOSE k \in DOMAIN functions \ {1} :
        /\ FunctionName(<<k>>) = targets[p].name
        /\ Len(ParamTypes(<<k>>)) = Len(targets[p].params)
        /\ \A j \in 2..(k - 1) : FunctionName(<<j>>) # targets[p].name
              \/ Len(ParamTypes(<<j>>)) # Len(targets[p].params)
Shadowed(k) == Symbol(k) \in RuntimeSymbols \/ \E j \in 1..(k - 1) : Symbol(j) = Symbol(k)

CallsReachTargets ==
    \A i \in Instructions :
        i.op = "call" /\ targets[i.value].kind = "function" =>
            LET k == TypedWith(i.value) IN Callee(i.value) = <<k>> \/ Shadowed(k)

(***************************************************************************)
(* A module without a "%", a method or a missing value is emitted, unless  *)
(* a function has a Bool or an array for a parameter or anything but a raw *)
(* string or an Int32 would have to be wrapped (LLVMBackend.cpp 81-86,     *)
(* 415-427).                                                               *)
(***************************************************************************)
HasUnsolvedParam ==
    \E f \in FunctionNodes : \E t \in Range(ParamTypes(f)) : Kind(t) \in {"Bool", "array"}
WrapsOther ==
    \E c \in DOMAIN casts : \E k \in DOMAIN mir[c].kids :
        casts[c][k].wrapped /\ mir[mir[c].kids[k]].type \notin {"Raw", "Int32"}

DirectIsEmitted ==
    /\ emission = "crashed" => ~Direct
    /\ emission = "uncaught" => HasUnsolvedParam \/ WrapsOther

(***************************************************************************)
(* Where each statement of a list but the last one, and no operand, is     *)
(* other than a return, each basic block ends in its only terminator: the  *)
(* branch to the two blocks of the next if, or a return                    *)
(* (LLVMBackend.cpp 111-130, 265-275, 565-590).                            *)
(***************************************************************************)
Lists == {functions[k].body : k \in DOMAIN functions}
         \union {mir[mir[p].kids[2]].kids : p \in {q \in DOMAIN mir : mir[q].op = "if"}}
ReturnsAt(vs) == {k \in DOMAIN vs : mir[vs[k]].op = "ret"}
ListsReturn ==
    \A vs \in Lists :
        vs # <<>> /\ ReturnsAt(vs) = {Len(vs)} /\ \A v \in Range(vs) : mir[v].op # "block"
NoReturnIsUsed == \A p \in DOMAIN mir : \A v \in Range(Uses(p)) : mir[v].op # "ret"
Terminators(is) == {k \in DOMAIN is : is[k].op \in {"ret", "br"}}

OneTerminator ==
    emission = "emitted" /\ Direct /\ ListsReturn /\ NoReturnIsUsed =>
        \A b \in DOMAIN code : Terminators(code[b]) = {Len(code[b])}
=============================================================================
