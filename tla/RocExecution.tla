---------------------------- MODULE RocExecution ----------------------------
(***************************************************************************)
(* The emitted module at work in the process that compiled it, with the    *)
(* runtime it is linked with (linking/API.cpp) and the builtins the back   *)
(* end defines for it (compiler/Builtins.cpp, compiler/LLVMUtils.cpp).     *)
(*                                                                         *)
(* A client takes the functions from the ExecutionEngine as the tests do:  *)
(* main or not, and then one other function.  Int32 has the 2 * Limit      *)
(* values from -Limit on.                                                  *)
(***************************************************************************)
EXTENDS RocEmission, Integers

CONSTANTS
    IntValue,   \* the values of the IntNumber tokens
    Inputs,     \* the Int32 arguments the client passes
    Limit,      \* half the number of Int32 values
    MaxDepth    \* bound: frames the C stack holds

ASSUME ExecutionAssumption ==
    /\ Limit \in Nat \ {0} /\ MaxDepth \in Nat \ {0}
    /\ Inputs \subseteq (-Limit)..(Limit - 1)
    /\ IntValue \in [Numbers \ Doubles -> (-Limit)..(Limit - 1)]

VARIABLES
    session,    \* what the process does, or how it ended
    frames,     \* the C stack
    objects,    \* the wrapped values, oldest first
    vTables,    \* vTableMappings
    printed,    \* what myPrintln was to write, as objects hold it
    entered,    \* the functions the client called, with their arguments
    result      \* what the last of them returned

executionVars == <<session, frames, objects, vTables, printed, entered, result>>
processVars == <<compilerVars, executionVars>>

\* "open" is what no one defines: LLVM IR that its verifier reports, which
\* ends nothing, undefined behaviour, or a C function that is not there.
Sessions == {"idle", "running", "threw", "open", "overflow"}

I32(n) == [is |-> "int", v |-> n]
F64(n) == [is |-> "float", v |-> n]
I1(b) == [is |-> "bool", v |-> b]
Ptr(s) == [is |-> "raw", v |-> s]
Ref(o, to) == [is |-> "ref", v |-> o, to |-> to]   \* LLVM's pointers are typed
NoValue == [is |-> "none", v |-> 0]

\* Whether a value is of the LLVM type that a parameter or a result of a Roc
\* type is declared with: Any and String are passed by pointer.
Fits(value, type) ==
    IF type \in {"Any", "String"} THEN value.is = "ref" /\ value.to = type
    ELSE value.is = CASE type = "Int32" -> "int" [] type = "Bool" -> "bool"
                      [] type = "Float64" -> "float" [] type = "Raw" -> "raw"
                      [] type = "Unit" -> "none" [] OTHER -> "unused"

Passed(k) ==
    IF k = 1 THEN <<>>
    ELSE [j \in DOMAIN ParamTypes(<<k>>) |-> Clone(types[ParamTypes(<<k>>)[j]])]

\* The clone of an array type points to the element, as an Any does to its
\* struct; no value points to any other element.
Gives(k) ==
    LET type == ReturnType(<<k>>)
    IN IF k = 1 THEN "Int32"
       ELSE IF Kind(type) # "array" THEN types[type]
       ELSE IF Kind(Kid(type, 1)) \in {"Any", "String"} THEN Kind(Kid(type, 1)) ELSE "Ptr"

ExecutionInit ==
    /\ EmissionInit
    /\ session = "idle" /\ frames = <<>> /\ objects = <<>> /\ vTables = <<>>
    /\ printed = <<>> /\ entered = <<>> /\ result = NoValue

Compile == EmissionNext /\ UNCHANGED executionVars

-----------------------------------------------------------------------------
(* The client.                                                              *)

Frame(k, args) == [block |-> <<k>>, next |-> 1, env |-> <<>>, args |-> args]

Enter(k, args) ==
    /\ emission = "emitted" /\ session = "idle"
    /\ session' = "running"
    /\ frames' = <<Frame(k, args)>>
    /\ entered' = Append(entered, [function |-> k, args |-> args])
    /\ objects' = <<>> /\ printed' = <<>>
    /\ UNCHANGED <<compilerVars, vTables, result>>

\* TestRunner::initMain
EnterMain == entered = <<>> /\ Enter(1, <<>>)

\* getFunctionAddress("box"), or "test"
EnterFunction ==
    /\ \A j \in DOMAIN entered : entered[j].function = 1
    /\ \E k \in DOMAIN functions \ {1} :
          /\ Range(Passed(k)) \subseteq {"Int32"}
          /\ \E ns \in [DOMAIN Passed(k) -> Inputs] :
                Enter(k, [j \in DOMAIN ns |-> I32(ns[j])])

-----------------------------------------------------------------------------
(* Instructions.                                                            *)

Top1 == frames[Len(frames)]
Code == code[Top1.block]
Ends(how) ==
    /\ session' = how
    /\ UNCHANGED <<compilerVars, frames, objects, vTables, printed, entered, result>>

Running(ops) ==
    session = "running" /\ Top1.next \in DOMAIN Code /\ Code[Top1.next].op \in ops
Instruction == Code[Top1.next]

\* The run-time value of an LLVM value.  An argument of another function or
\* an instruction that was not reached has none.
Read(v) ==
    CASE v \in DOMAIN Top1.env -> Top1.env[v]
      [] v \notin DOMAIN mir   -> NoValue
      [] mir[v].op = "int"     -> I32(IntValue[Kind(v)])
      [] mir[v].op = "string"  -> Ptr(At(v).kids)
      [] mir[v].op \in {"true", "false"} -> I1(mir[v].op = "true")
      [] mir[v].op = "local" /\ FunctionOf(v) = FunctionOf(Top1.block) ->
            LET named == {j \in DOMAIN Top1.args : ParamNames(FunctionOf(v))[j] = Kind(v)}
            IN Top1.args[Min(named)]
      [] OTHER -> NoValue
Arg(k) == Read(Instruction.args[k])
Args == [k \in DOMAIN Instruction.args |-> Arg(k)]

\* The frame after an instruction, with its value.
Reached(frame, value) ==
    [frame EXCEPT !.next = @ + 1,
                  !.env = IF value = NoValue THEN @
                          ELSE With(@, code[frame.block][frame.next].value, value)]
Next1(value) == frames' = [frames EXCEPT ![Len(frames)] = Reached(@, value)]

Wrapped32(n) == ((n + Limit) % (2 * Limit)) - Limit
Unsigned(n) == n % (2 * Limit)
Abs(n) == IF n < 0 THEN -n ELSE n
Quotient(l, r) == IF (l < 0) = (r < 0) THEN Abs(l) \div Abs(r) ELSE -(Abs(l) \div Abs(r))
Divides(l, r) == r # 0 /\ ~(l = -Limit /\ r = -1)

\* Mutant: the operands of a subtraction are swapped.
OfIntsSwapped(op, l, r) ==
    CASE op = "+" -> {I32(Wrapped32(l + r))} [] op = "-" -> {I32(Wrapped32(r - l))}
      [] op = "*" -> {I32(Wrapped32(l * r))}
      [] op = "/" /\ Divides(l, r) -> {F64(Quotient(l, r))}
      [] op = "==" -> {I1(l = r)} [] op = "!=" -> {I1(l # r)}
      [] op = ">=" -> {I1(Unsigned(l) >= Unsigned(r))} [] op = "<=" -> {I1(l <= r)}
      [] OTHER -> {}

\* What an operator makes of two Int32: a division is one of integers, and
\* ">=" is ICMP_UGE.
OfInts(op, l, r) ==
    CASE op = "+" -> {I32(Wrapped32(l + r))} [] op = "-" -> {I32(Wrapped32(l - r))}
      [] op = "*" -> {I32(Wrapped32(l * r))}
      [] op = "/" /\ Divides(l, r) -> {F64(Quotient(l, r))}
      [] op = "==" -> {I1(l = r)} [] op = "!=" -> {I1(l # r)}
      [] op = ">=" -> {I1(Unsigned(l) >= Unsigned(r))} [] op = "<=" -> {I1(l <= r)}
      [] OTHER -> {}

OfBools(op, l, r) ==
    CASE op = "and" -> {I1(l /\ r)} [] op = "or" -> {I1(l \/ r)}
      [] op = "==" -> {I1(l = r)} [] op = "!=" -> {I1(l # r)} [] OTHER -> {}

\* Two raw strings of one text may be one constant.
OfPointers(op, l, r) ==
    CASE op = "==" -> IF l.is = "raw" THEN {I1(FALSE), I1(l = r)} ELSE {I1(l = r)}
      [] op = "!=" -> IF l.is = "raw" THEN {I1(TRUE), I1(l # r)} ELSE {I1(l # r)}
      [] OTHER -> {}

Results(op, l, r) ==
    CASE l.is # r.is \/ (l.is = "ref" /\ l.to # r.to) -> {}
      [] l.is = "int"            -> OfInts(op, l.v, r.v)
      [] l.is = "bool"           -> OfBools(op, l.v, r.v)
      [] l.is \in {"raw", "ref"} -> OfPointers(op, l, r)
      [] OTHER                   -> {}

RunBinary ==
    /\ Running(BinaryOps)
    /\ LET made == Results(Instruction.op, Arg(1), Arg(2))
       IN IF made = {} THEN Ends("open")
          ELSE /\ \E value \in made : Next1(value)
               /\ UNCHANGED <<compilerVars, session, objects, vTables, printed, entered, result>>

RunBranch ==
    /\ Running({"br"})
    /\ IF Arg(1).is # "bool" THEN Ends("open")
       ELSE LET target == IF Arg(1).v THEN IfStart(Instruction.value) ELSE IfEnd(Instruction.value)
            IN /\ frames' = [frames EXCEPT ![Len(frames)].block = target, ![Len(frames)].next = 1]
               /\ UNCHANGED <<compilerVars, session, objects, vTables, printed, entered, result>>

\* Blocks without a terminator run into whatever comes after them.
RunOffBlock ==
    /\ session = "running" /\ Top1.next \notin DOMAIN Code
    /\ Ends("open")

-----------------------------------------------------------------------------
(* Calls of functions of the module.                                        *)

Accepts(k) ==
    /\ Len(Args) = Len(Passed(k))
    /\ \A j \in DOMAIN Args : Fits(Args[j], Passed(k)[j])

\* The result a call is emitted with: of a type that is passed by pointer
\* the struct itself, though visit(MIRModule) declares the pointer.
ResultOf(p) ==
    CASE mir[p].type \in {"Any", "String"} -> "Struct"
      [] mir[p].op = "call" /\ mir[p].type = "Ptr" -> Gives(TypedWith(p))
      [] OTHER -> mir[p].type

\* Parameters or a result other than those of the function found leave open
\* what the call does.
RunCall ==
    /\ Running({"call", "ccall"}) /\ Callee(Instruction.value) \notin {Runtime, Outside}
    /\ LET k == Callee(Instruction.value)[1]
       IN IF ~Accepts(k) \/ ResultOf(Instruction.value) # Gives(k) THEN Ends("open")
          ELSE IF Len(frames) = MaxDepth THEN Ends("overflow")
          ELSE /\ frames' = Append(frames, Frame(k, Args))
               /\ UNCHANGED <<compilerVars, session, objects, vTables, printed, entered, result>>

\* A function the process does not have: the names of this model are none of
\* the C library's.
RunOutside ==
    /\ Running({"call", "ccall"}) /\ Callee(Instruction.value) = Outside
    /\ Ends("open")

\* The alloca'd structs of the frame that is left.
Left(os) ==
    [o \in DOMAIN os |-> IF os[o].in = Len(frames) THEN [os[o] EXCEPT !.in = 0] ELSE os[o]]

\* main returns the constant 0.
Returned ==
    CASE Args # <<>> -> Arg(1) [] Instruction.value = Main \o <<0>> -> I32(0) [] OTHER -> NoValue

\* To an emitted caller only what ResultOf allows is returned: never an Any
\* or a String.
RunReturn ==
    /\ Running({"ret"})
    /\ IF ~Fits(Returned, Gives(Top1.block[1])) THEN Ends("open")
       ELSE /\ objects' = Left(objects)
            /\ IF Len(frames) = 1
               THEN /\ session' = "idle" /\ frames' = <<>> /\ result' = Returned
               ELSE /\ frames' = [Front(frames) EXCEPT ![Len(frames) - 1] = Reached(@, Returned)]
                    /\ UNCHANGED <<session, result>>
            /\ UNCHANGED <<compilerVars, vTables, printed, entered>>

-----------------------------------------------------------------------------
(* Objects and the runtime.                                                 *)

\* Types.h 17-18, of which API.cpp repeats the values; Constants.h 15-18.
RawStringTypeId == 2
Int32TypeId == 4
ToStringId == 0
TypeIdId == 1
Heap == MaxDepth + 1

\* createVTable, and myVTableFactory.
VTable(name) ==
    [id \in {TypeIdId, ToStringId} |->
        <<name, IF id = TypeIdId THEN "typeId" ELSE "toString">>]
TypeName == [id \in {Int32TypeId, RawStringTypeId} |->
                IF id = Int32TypeId THEN "Int32" ELSE "StringRaw"]

\* addVTableMapping inserts: the first table of a type stays.
RunVTables ==
    /\ Running({"vtables.init"})
    /\ vTables' = [id \in DOMAIN vTables \union DOMAIN TypeName |->
                       IF id \in DOMAIN vTables THEN vTables[id] ELSE VTable(TypeName[id])]
    /\ Next1(NoValue)
    /\ UNCHANGED <<compilerVars, session, objects, printed, entered, result>>

\* The struct a wrapper points to.
StructOf(value) == IF value.is = "int" THEN "Int32" ELSE "StringRaw"

\* Mutant: the wrapper of an Int32 has the type id of a raw string.
RunWrapOneType ==
    /\ Running({"wrap"})
    /\ IF Arg(1).is \notin {"int", "raw"} THEN Ends("open")
       ELSE /\ objects' = Append(objects, [typeId |-> RawStringTypeId, holds |-> Arg(1),
                                           in |-> Len(frames)])
            /\ Next1(Ref(Len(objects) + 1, StructOf(Arg(1))))
            /\ UNCHANGED <<compilerVars, session, vTables, printed, entered, result>>

\* newRocRawStruct, newRocInt32Struct: myInitRawString, myInitInt32.
RunWrap ==
    /\ Running({"wrap"})
    /\ IF Arg(1).is \notin {"int", "raw"} THEN Ends("open")
       ELSE /\ objects' = Append(objects,
                  [typeId |-> IF Arg(1).is = "int" THEN Int32TypeId ELSE RawStringTypeId,
                   holds |-> Arg(1), in |-> Len(frames)])
            /\ Next1(Ref(Len(objects) + 1, StructOf(Arg(1))))
            /\ UNCHANGED <<compilerVars, session, vTables, printed, entered, result>>

\* The bitcast is to a pointer to Any, whatever type was asked for.
RunCast ==
    /\ Running({"cast"})
    /\ IF Arg(1).is # "ref" THEN Ends("open")
       ELSE /\ Next1(Ref(Arg(1).v, "Any"))
            /\ UNCHANGED <<compilerVars, session, objects, vTables, printed, entered, result>>

\* What myGetFunctionPointer reads: a struct that is there, with a type id.
Readable(value) ==
    /\ value.is = "ref" /\ value.v \in DOMAIN objects
    /\ objects[value.v].in # 0 /\ objects[value.v].typeId # 0
Object == objects[Arg(1).v]
Dispatches == Object.typeId \in DOMAIN vTables /\ ToStringId \in DOMAIN vTables[Object.typeId]
ToStringOf == vTables[Object.typeId][ToStringId]
Reader(o) == <<StructOf(o.holds), "toString">>
ReadsData == ToStringOf = Reader(Object)

\* println(any *Any), by myPrintln.  The exception passes through the
\* emitted code and no one catches it.
RunPrintln ==
    /\ Running({"call", "ccall"}) /\ Callee(Instruction.value) = Runtime
    /\ IF \/ Instruction.op = "ccall" \/ Len(Args) # 1
          \/ ~Fits(Arg(1), "Any") \/ ~Readable(Arg(1))
       THEN Ends("open")
       ELSE IF ~Dispatches THEN Ends("threw")
       ELSE IF ~ReadsData THEN Ends("open")
       ELSE /\ printed' = Append(printed, Object.holds)
            /\ Next1(NoValue)
            /\ UNCHANGED <<compilerVars, session, objects, vTables, entered, result>>

\* StringRaw.toString.0 returns its argument; Int32.toString.0 a new struct
\* on the heap, of which it sets neither type id nor vTable: 0 stands for
\* what is there.  The call is typed by getMethods: a pointer to a String.
RunMethod ==
    /\ Running({"method"})
    /\ IF ~Readable(Arg(1)) THEN Ends("open")
       ELSE IF ~Dispatches THEN Ends("threw")
       ELSE /\ IF ToStringOf = <<"Int32", "toString">>
               THEN /\ objects' = Append(objects, [typeId |-> 0, holds |-> Object.holds,
                                                   in |-> Heap])
                    /\ Next1(Ref(Len(objects) + 1, "String"))
               ELSE Next1(Ref(Arg(1).v, "String")) /\ UNCHANGED objects
            /\ UNCHANGED <<compilerVars, session, vTables, printed, entered, result>>

Run ==
    \/ RunBinary \/ RunBranch \/ RunOffBlock
    \/ RunCall \/ RunOutside \/ RunReturn
    \/ RunVTables \/ RunWrap \/ RunCast \/ RunPrintln \/ RunMethod

ProcessNext == Compile \/ EnterMain \/ EnterFunction \/ Run

\* The compiler and the processor go on; no one has to call.
ProcessSpec ==
    /\ ExecutionInit /\ [][ProcessNext]_processVars
    /\ WF_processVars(Compile) /\ WF_processVars(Run)

-----------------------------------------------------------------------------
(* Properties.                                                              *)

(***************************************************************************)
(* A phase begins when the one before it ended well: a module of which the *)
(* type resolver reported a problem is not lowered, and the client runs    *)
(* only what was emitted to the end (RocCompiler.cpp 104-151, 216).        *)
(***************************************************************************)
PhasesInOrder ==
    /\ status = "resolved" => problems = {}
    /\ stage # "waiting" => status = "resolved"
    /\ emission # "waiting" => stage = "lowered"
    /\ session # "idle" \/ entered # <<>> => emission = "emitted"

(***************************************************************************)
(* The state of the whole program: compiler and process keep to their      *)
(* order, a running process has a frame to return to, every frame is at a  *)
(* block that was emitted, and an object is of a frame or of the heap, or  *)
(* gone with its frame (RocCompiler.cpp 104-151, API.cpp 39-66).           *)
(***************************************************************************)
ProcessTypeOK ==
    /\ LoweringTypeOK /\ EmissionTypeOK /\ PhasesInOrder
    /\ session \in Sessions
    /\ session = "running" => frames # <<>>
    /\ \A k \in DOMAIN frames : frames[k].block \in DOMAIN code
    /\ \A o \in DOMAIN objects : objects[o].in \in 0..Heap

(***************************************************************************)
(* Once main has begun, a wrapped value finds the toString of what it      *)
(* holds, by a type id and a method id that four places of the program     *)
(* repeat (Types.h 17, Constants.h 15, API.cpp 39-66, LLVMUtils.cpp        *)
(* 183-237): myGetFunctionPointer throws only in a process where main did  *)
(* not begin, and myPrintln never reads one type's data as another's.      *)
(***************************************************************************)
DispatchFinds ==
    /\ session = "threw" => vTables = <<>>
    /\ \A o \in DOMAIN objects :
          vTables # <<>> /\ objects[o].typeId # 0 =>
              /\ objects[o].typeId \in DOMAIN vTables
              /\ vTables[objects[o].typeId][ToStringId] = Reader(objects[o])
=============================================================================
