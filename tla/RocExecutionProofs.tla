------------------------- MODULE RocExecutionProofs -------------------------
(***************************************************************************)
(* Theorems about RocExecution and the phases that lead to it, for every   *)
(* set of programs, every width of the integers and every bound of the     *)
(* stack.                                                                  *)
(***************************************************************************)
EXTENDS RocExecution, RocEmissionProofs

-----------------------------------------------------------------------------
(* The phases.                                                              *)

\* Each phase is at work only where the next one has not begun.
LEMMA PhasesCompile ==
    ASSUME PhasesInOrder, Compile
    PROVE  PhasesInOrder'
<1> USE DEF PhasesInOrder
<1>1. UNCHANGED <<session, entered>>
  BY DEF Compile, executionVars
<1>2. CASE Resolve /\ UNCHANGED emissionVars
  <2>1. status = "running" /\ (status' = "resolved" => problems' = {})
    BY <1>2, ResolverStep DEF Resolve
  <2>2. UNCHANGED <<stage, emission>>
    BY <1>2 DEF Resolve, loweringVars, emissionVars
  <2> QED
    BY <1>1, <2>1, <2>2
<1>3. CASE StartLowering /\ UNCHANGED emissionVars
  <2>1. status = "resolved" /\ stage = "waiting"
    BY <1>3 DEF StartLowering
  <2>2. UNCHANGED <<status, problems, emission>>
    BY <1>3 DEF StartLowering, resolverVars, emissionVars
  <2> QED
    BY <1>1, <2>1, <2>2
<1>4. CASE LoweringWork /\ UNCHANGED emissionVars
  <2>1. stage \in {"mir", "casts"} /\ UNCHANGED <<status, problems>>
    BY <1>4, LoweringStep
  <2>2. UNCHANGED emission
    BY <1>4 DEF emissionVars
  <2> QED
    BY <1>1, <2>1, <2>2
<1>5. CASE StartEmission
  <2>1. stage = "lowered" /\ emission = "waiting"
    BY <1>5 DEF StartEmission
  <2>2. UNCHANGED <<status, problems, stage>>
    BY <1>5 DEF StartEmission, backendVars, resolverVars, loweringVars
  <2> QED
    BY <1>1, <2>1, <2>2
<1>6. CASE EmissionWork
  <2>1. emission = "emitting"
    BY <1>6, EmissionStep
  <2>2. UNCHANGED <<status, problems, stage>>
    BY <1>6, EmissionStep DEF backendVars, resolverVars, loweringVars
  <2> QED
    BY <1>1, <2>1, <2>2
<1> QED
  BY <1>2, <1>3, <1>4, <1>5, <1>6
     DEF Compile, EmissionNext, EmissionWork, Lower, LoweringNext, LoweringWork

-----------------------------------------------------------------------------
(* The emitted program at work.                                             *)

\* A step of the client or of the program is one after the emission.
LEMMA ProcessStep ==
    ASSUME EnterMain \/ EnterFunction \/ Run
    PROVE  /\ UNCHANGED compilerVars
           /\ session = "running" \/ emission = "emitted"
<1> USE DEF Running, Ends
<1>1. CASE EnterMain \/ EnterFunction
  BY <1>1 DEF EnterMain, EnterFunction, Enter
<1>2. CASE RunBinary \/ RunBranch \/ RunOffBlock
  BY <1>2 DEF RunBinary, RunBranch, RunOffBlock
<1>3. CASE RunCall \/ RunOutside \/ RunReturn
  BY <1>3 DEF RunCall, RunOutside, RunReturn
<1>4. CASE RunVTables \/ RunWrap \/ RunCast
  BY <1>4 DEF RunVTables, RunWrap, RunCast
<1>5. CASE RunPrintln
  BY <1>5 DEF RunPrintln
<1>6. CASE RunMethod
  BY <1>6 DEF RunMethod
<1> QED
  BY <1>1, <1>2, <1>3, <1>4, <1>5, <1>6 DEF Run

LEMMA PhasesProcess ==
    ASSUME PhasesInOrder, EnterMain \/ EnterFunction \/ Run
    PROVE  PhasesInOrder'
<1>1. UNCHANGED <<status, problems, stage, emission>>
  BY ProcessStep DEF compilerVars, backendVars, resolverVars, loweringVars, emissionVars
<1>2. emission = "emitted"
  BY ProcessStep DEF PhasesInOrder
<1> QED
  BY <1>1, <1>2 DEF PhasesInOrder

(***************************************************************************)
(* No phase begins before the one it builds on ended well: a reported type *)
(* problem stops the compilation, and only a module that was emitted to    *)
(* its end is run (RocCompiler::compile).                                  *)
(***************************************************************************)
THEOREM PhasesOrdered == ProcessSpec => []PhasesInOrder
<1>1. ExecutionInit => PhasesInOrder
  BY DEF ExecutionInit, EmissionInit, LoweringInit, ResolverInit, PhasesInOrder
<1>2. PhasesInOrder /\ [ProcessNext]_processVars => PhasesInOrder'
  <2> SUFFICES ASSUME PhasesInOrder, [ProcessNext]_processVars PROVE PhasesInOrder'
    OBVIOUS
  <2>1. CASE ProcessNext
    BY <2>1, PhasesCompile, PhasesProcess DEF ProcessNext
  <2>2. CASE UNCHANGED processVars
    BY <2>2 DEF processVars, compilerVars, backendVars, resolverVars, loweringVars,
                emissionVars, executionVars, PhasesInOrder
  <2> QED
    BY <2>1, <2>2
<1> QED
  BY <1>1, <1>2, PTL DEF ProcessSpec

-----------------------------------------------------------------------------
(* Dispatch.                                                                *)

\* An object, of whatever it holds and wherever it lives.
Object0(S) == [typeId : {0, RawStringTypeId, Int32TypeId}, holds : S, in : S]

\* The type id is that of the data, or none was set.
Honest(o) ==
    \/ o.typeId = 0
    \/ o.typeId = Int32TypeId /\ o.holds.is = "int"
    \/ o.typeId = RawStringTypeId /\ o.holds.is = "raw"

AllHonest == \A o \in DOMAIN objects : Honest(objects[o])
AreObjects == \E S : objects \in Seq(Object0(S))

\* main maps both tables or none.
Mapped ==
    /\ DOMAIN vTables = {RawStringTypeId, Int32TypeId}
    /\ vTables[Int32TypeId] = VTable("Int32")
    /\ vTables[RawStringTypeId] = VTable("StringRaw")
Tables == vTables = <<>> \/ Mapped

ThrownBeforeMain == session = "threw" => vTables = <<>>

(***************************************************************************)
(* DispatchFinds is not inductive: it says nothing of what a table maps    *)
(* when there is no object yet, nor of the objects when there is no table. *)
(***************************************************************************)
DispatchInv == AreObjects /\ AllHonest /\ Tables /\ ThrownBeforeMain

LEMMA InvDispatches == DispatchInv => DispatchFinds
<1> SUFFICES ASSUME DispatchInv PROVE DispatchFinds
  OBVIOUS
<1>1. session = "threw" => vTables = <<>>
  BY DEF DispatchInv, ThrownBeforeMain
<1>2. ASSUME NEW o \in DOMAIN objects, vTables # <<>>, objects[o].typeId # 0
      PROVE  /\ objects[o].typeId \in DOMAIN vTables
             /\ vTables[objects[o].typeId][ToStringId] = Reader(objects[o])
  <2>1. Mapped /\ Honest(objects[o])
    BY <1>2 DEF DispatchInv, Tables, AllHonest
  <2>2. VTable("Int32")[ToStringId] = <<"Int32", "toString">>
    BY DEF VTable, ToStringId, TypeIdId
  <2>3. VTable("StringRaw")[ToStringId] = <<"StringRaw", "toString">>
    BY DEF VTable, ToStringId, TypeIdId
  <2>4. CASE objects[o].typeId = Int32TypeId /\ objects[o].holds.is = "int"
    BY <2>1, <2>2, <2>4 DEF Mapped, Reader, StructOf
  <2>5. CASE objects[o].typeId = RawStringTypeId /\ objects[o].holds.is = "raw"
    BY <2>1, <2>3, <2>5 DEF Mapped, Reader, StructOf
  <2> QED
    BY <1>2, <2>1, <2>4, <2>5 DEF Honest
<1> QED
  BY <1>1, <1>2 DEF DispatchFinds

LEMMA ObjectsGrow ==
    ASSUME NEW S, NEW T, NEW os, S \subseteq T, os \in Seq(Object0(S))
    PROVE  os \in Seq(Object0(T))
<1>1. Object0(S) \subseteq Object0(T)
  BY DEF Object0
<1> QED
  BY <1>1

LEMMA FunctionIsSeq ==
    ASSUME NEW S, NEW n \in Nat, NEW f \in [1..n -> S]
    PROVE  f \in Seq(S)
  OBVIOUS

\* A step that makes one honest object more.
LEMMA NewObject ==
    ASSUME AreObjects, AllHonest,
           NEW id \in {0, RawStringTypeId, Int32TypeId}, NEW held0, NEW in0,
           Honest([typeId |-> id, holds |-> held0, in |-> in0]),
           objects' = Append(objects, [typeId |-> id, holds |-> held0, in |-> in0])
    PROVE  AreObjects' /\ AllHonest'
<1> DEFINE new == [typeId |-> id, holds |-> held0, in |-> in0]
<1>1. PICK S : objects \in Seq(Object0(S))
  BY DEF AreObjects
<1> DEFINE T == S \union {held0, in0}
<1>2. objects \in Seq(Object0(T)) /\ new \in Object0(T)
  BY <1>1, ObjectsGrow DEF Object0
<1>3. objects' \in Seq(Object0(T))
  BY <1>2
<1>4. ASSUME NEW o \in DOMAIN objects' PROVE Honest(objects'[o])
  <2> HIDE DEF new
  <2>1. CASE o = Len(objects) + 1
    BY <1>2, <2>1 DEF new
  <2>2. CASE o \in DOMAIN objects
    BY <1>2, <2>2 DEF AllHonest, new
  <2> QED
    BY <1>2, <1>4, <2>1, <2>2 DEF new
<1> QED
  BY <1>3, <1>4 DEF AreObjects, AllHonest

\* The frame that is left takes its objects with it, and changes no other
\* part of them.
LEMMA LeftObjects ==
    ASSUME AreObjects, AllHonest, objects' = Left(objects)
    PROVE  AreObjects' /\ AllHonest'
<1>1. PICK S : objects \in Seq(Object0(S))
  BY DEF AreObjects
<1>2. ASSUME NEW o \in DOMAIN objects
      PROVE  /\ objects'[o] \in Object0(S \union {0})
             /\ objects'[o].typeId = objects[o].typeId
             /\ objects'[o].holds = objects[o].holds
  <2>1. objects[o] \in Object0(S)
    BY <1>1
  <2> QED
    BY <2>1 DEF Left, Object0
<1>3. objects' \in Seq(Object0(S \union {0})) /\ DOMAIN objects' = DOMAIN objects
  <2>1. objects' = [o \in DOMAIN objects |-> objects'[o]] /\ DOMAIN objects' = DOMAIN objects
    BY DEF Left
  <2>2. Len(objects) \in Nat /\ DOMAIN objects = 1..Len(objects)
    BY <1>1
  <2>3. objects' \in [1..Len(objects) -> Object0(S \union {0})]
    BY <1>2, <2>1, <2>2
  <2>4. objects' \in Seq(Object0(S \union {0}))
    BY <2>2, <2>3, FunctionIsSeq
  <2> QED
    BY <2>1, <2>4
<1> QED
  BY <1>2, <1>3 DEF AreObjects, AllHonest, Honest

\* The tables are mapped by main only, and stay.
LEMMA VTablesMapped ==
    ASSUME Tables, RunVTables
    PROVE  Mapped'
<1>1. DOMAIN TypeName = {RawStringTypeId, Int32TypeId}
  BY DEF TypeName
<1>2. TypeName[Int32TypeId] = "Int32" /\ TypeName[RawStringTypeId] = "StringRaw"
  BY DEF TypeName, Int32TypeId, RawStringTypeId
<1>3. vTables' = [id \in DOMAIN vTables \union DOMAIN TypeName |->
                     IF id \in DOMAIN vTables THEN vTables[id] ELSE VTable(TypeName[id])]
  BY DEF RunVTables
<1>4. CASE vTables = <<>>
  <2>1. DOMAIN vTables = {}
    BY <1>4
  <2> QED
    BY <1>1, <1>2, <1>3, <2>1 DEF Mapped
<1>5. CASE Mapped
  BY <1>1, <1>3, <1>5 DEF Mapped
<1> QED
  BY <1>4, <1>5 DEF Tables

\* An object that is read has a table, as soon as there is one.
LEMMA ReadableDispatches ==
    ASSUME DispatchInv, Readable(Arg(1)), ~Dispatches
    PROVE  vTables = <<>>
<1>1. Arg(1).v \in DOMAIN objects /\ Object.typeId # 0
  BY DEF Readable, Object
<1>2. Honest(Object)
  BY <1>1 DEF DispatchInv, AllHonest, Object
<1>3. ASSUME Mapped PROVE Dispatches
  <2>1. Object.typeId \in DOMAIN vTables
    BY <1>1, <1>2, <1>3 DEF Honest, Mapped
  <2>2. ToStringId \in DOMAIN vTables[Object.typeId]
    BY <1>1, <1>2, <1>3 DEF Honest, Mapped, VTable
  <2> QED
    BY <2>1, <2>2 DEF Dispatches
<1> QED
  BY <1>3 DEF DispatchInv, Tables

LEMMA DispatchStep ==
    ASSUME DispatchInv, ProcessNext
    PROVE  DispatchInv'
<1> USE DEF DispatchInv
<1>1. CASE UNCHANGED <<objects, vTables>> /\ session' # "threw"
  BY <1>1 DEF AreObjects, AllHonest, Tables, Mapped, ThrownBeforeMain
<1>2. CASE Compile
  BY <1>2 DEF Compile, executionVars, AreObjects, AllHonest, Tables, Mapped, ThrownBeforeMain
<1>3. CASE EnterMain \/ EnterFunction
  <2>1. objects' = <<>> /\ vTables' = vTables /\ session' = "running"
    BY <1>3 DEF EnterMain, EnterFunction, Enter
  <2>2. objects' \in Seq(Object0({})) /\ DOMAIN objects' = {}
    BY <2>1
  <2> QED
    BY <2>1, <2>2 DEF AreObjects, AllHonest, Tables, Mapped, ThrownBeforeMain
<1>4. CASE RunBinary \/ RunBranch \/ RunOffBlock \/ RunCall \/ RunOutside \/ RunCast
  BY <1>1, <1>4
     DEF RunBinary, RunBranch, RunOffBlock, RunCall, RunOutside, RunCast, Running, Ends
<1>5. CASE RunReturn
  <2>1. CASE objects' = Left(objects) /\ vTables' = vTables /\ session' # "threw"
    BY <2>1, LeftObjects DEF Tables, Mapped, ThrownBeforeMain
  <2> QED
    BY <1>1, <1>5, <2>1 DEF RunReturn, Running, Ends
<1>6. CASE RunVTables
  <2>1. UNCHANGED <<session, objects>> /\ session = "running"
    BY <1>6 DEF RunVTables, Running
  <2>2. Mapped'
    BY <1>6, VTablesMapped
  <2> QED
    BY <2>1, <2>2 DEF AreObjects, AllHonest, Tables, ThrownBeforeMain
<1>7. CASE RunWrap
  <2>1. CASE Ends("open")
    BY <1>1, <2>1 DEF Ends
  <2>2. CASE Arg(1).is \in {"int", "raw"}
    <3> DEFINE id == IF Arg(1).is = "int" THEN Int32TypeId ELSE RawStringTypeId
               new == [typeId |-> id, holds |-> Arg(1), in |-> Len(frames)]
    <3>1. objects' = Append(objects, new) /\ UNCHANGED <<session, vTables>>
      BY <1>7, <2>2 DEF RunWrap
    <3>2. session = "running"
      BY <1>7 DEF RunWrap, Running
    <3>3. Honest(new)
      BY <2>2 DEF Honest
    <3>4. AreObjects' /\ AllHonest'
      <4> HIDE DEF id
      <4>1. id \in {0, RawStringTypeId, Int32TypeId}
        BY DEF id
      <4> QED
        BY <3>1, <3>3, <4>1, NewObject
    <3> QED
      BY <3>1, <3>2, <3>4 DEF Tables, Mapped, ThrownBeforeMain
  <2> QED
    BY <1>7, <2>1, <2>2 DEF RunWrap
<1>8. CASE RunPrintln
  <2>1. CASE Readable(Arg(1)) /\ ~Dispatches /\ Ends("threw")
    BY <2>1, ReadableDispatches
       DEF Ends, AreObjects, AllHonest, Tables, Mapped, ThrownBeforeMain
  <2>2. CASE ~(Readable(Arg(1)) /\ ~Dispatches)
    BY <1>1, <1>8, <2>2 DEF RunPrintln, Running, Ends
  <2> QED
    BY <1>1, <1>8, <2>1, <2>2 DEF RunPrintln, Ends
<1>9. CASE RunMethod
  <2>1. CASE Readable(Arg(1)) /\ ~Dispatches /\ Ends("threw")
    BY <2>1, ReadableDispatches
       DEF Ends, AreObjects, AllHonest, Tables, Mapped, ThrownBeforeMain
  <2>2. CASE UNCHANGED <<session, vTables>> /\ session = "running"
             /\ objects' = Append(objects, [typeId |-> 0, holds |-> Object.holds, in |-> Heap])
    BY <2>2, NewObject DEF Honest, Tables, Mapped, ThrownBeforeMain
  <2>3. CASE UNCHANGED <<session, vTables, objects>> /\ session = "running"
    BY <1>1, <2>3
  <2>4. CASE Ends("open")
    BY <1>1, <2>4 DEF Ends
  <2> QED
    BY <1>9, <2>1, <2>2, <2>3, <2>4 DEF RunMethod, Running
<1> QED
  BY <1>2, <1>3, <1>4, <1>5, <1>6, <1>7, <1>8, <1>9 DEF ProcessNext, Run

LEMMA DispatchStarts ==
    ASSUME ExecutionInit
    PROVE  DispatchInv
<1>1. objects = <<>> /\ vTables = <<>> /\ session = "idle"
  BY DEF ExecutionInit
<1>2. objects \in Seq(Object0({})) /\ DOMAIN objects = {}
  BY <1>1
<1> QED
  BY <1>1, <1>2 DEF DispatchInv, AreObjects, AllHonest, Tables, ThrownBeforeMain

LEMMA DispatchInductive ==
    ASSUME DispatchInv, [ProcessNext]_processVars
    PROVE  DispatchInv'
<1>1. CASE UNCHANGED processVars
  BY <1>1 DEF processVars, executionVars, DispatchInv, AreObjects, AllHonest, Tables, Mapped,
              ThrownBeforeMain
<1> QED
  BY <1>1, DispatchStep

(***************************************************************************)
(* A wrapped value finds the toString of what it holds once main has       *)
(* begun, and the exception of myGetFunctionPointer is thrown only in a    *)
(* process where main did not begin.                                       *)
(***************************************************************************)
THEOREM PrintlnDispatches == ProcessSpec => []DispatchFinds
<1>1. ExecutionInit => DispatchInv
  BY DispatchStarts
<1>2. DispatchInv /\ [ProcessNext]_processVars => DispatchInv'
  BY DispatchInductive
<1> QED
  BY <1>1, <1>2, InvDispatches, PTL DEF ProcessSpec

-----------------------------------------------------------------------------
(* The emission in the process.                                             *)

(***************************************************************************)
(* What is emitted stays while it runs: in the process too every           *)
(* instruction takes its own operands, every call reaches the function it  *)
(* was typed with, no module the emission can do is given up, and blocks   *)
(* end in their only terminator where lists of statements return           *)
(* (RocCompiler::compile, LLVMBackend.cpp 49-590).                         *)
(***************************************************************************)
THEOREM EmissionInProcess ==
    ProcessSpec => [](OwnValues /\ CallsReachTargets /\ DirectIsEmitted /\ OneTerminator)
<1>1. ExecutionInit => EmissionInv /\ BlockInv
  BY EmissionBegins DEF ExecutionInit, EmissionInit, BlockInv
<1>2. EmissionInv /\ BlockInv /\ [ProcessNext]_processVars => (EmissionInv /\ BlockInv)'
  <2>1. ASSUME ProcessNext \/ UNCHANGED processVars
        PROVE  [EmissionNext]_compilerVars
    BY <2>1, ProcessStep DEF ProcessNext, Compile, processVars
  <2> QED
    BY <2>1, EmissionInductive, BlocksInductive
<1>3. EmissionInv /\ BlockInv => OwnValues /\ CallsReachTargets /\ DirectIsEmitted /\ OneTerminator
  BY InvOwnValues, InvCallsReachTargets, InvDirectIsEmitted, InvOneTerminator
<1> QED
  BY <1>1, <1>2, <1>3, PTL DEF ProcessSpec

-----------------------------------------------------------------------------
(* The frames and the objects.                                              *)

FrameStands(f, blocks) ==
  "block" \in DOMAIN f /\ f.block \in blocks
FramesStand(fs, blocks) ==
  /\ \E S : fs \in Seq(S) /\ \A f \in S : FrameStands(f, blocks)
  /\ Len(fs) <= MaxDepth
InHeap(os) == \A o \in DOMAIN os : os[o].in \in 0..Heap

(***************************************************************************)
(* ProcessTypeOK is not inductive: it knows neither how deep the stack is, *)
(* which bounds the frames objects live in, nor that no block comes or     *)
(* goes while there are frames.                                            *)
(***************************************************************************)
FramesInv ==
  /\ session \in Sessions
  /\ session = "running" => frames # <<>>
  /\ frames # <<>> => emission = "emitted"
  /\ FramesStand(frames, DOMAIN code)
  /\ InHeap(objects)

LEMMA Depth == MaxDepth \in Nat \ {0} /\ Heap = MaxDepth + 1
  BY ExecutionAssumption DEF Heap

LEMMA OneFrame ==
  ASSUME NEW f, NEW blocks, FrameStands(f, blocks)
  PROVE  FramesStand(<<f>>, blocks) /\ <<f>> # <<>>
<1> DEFINE S == {f}
           fs == <<f>>
<1>1. fs \in Seq(S) /\ Len(fs) = 1 /\ \A g \in S : FrameStands(g, blocks)
  OBVIOUS
<1>2. fs # <<>>
  OBVIOUS
<1> HIDE DEF S, fs
<1>3. Len(fs) <= MaxDepth
  BY <1>1, Depth
<1> QED
  BY <1>1, <1>2, <1>3 DEF FramesStand, fs

\* The frame at work is another one.
LEMMA FrameChanges ==
  ASSUME NEW fs, fs # <<>>, NEW blocks, FramesStand(fs, blocks), NEW g,
         FrameStands(g, blocks)
  PROVE  /\ FramesStand([fs EXCEPT ![Len(fs)] = g], blocks)
         /\ [fs EXCEPT ![Len(fs)] = g] # <<>>
<1>1. PICK S : fs \in Seq(S) /\ \A f \in S : FrameStands(f, blocks)
  BY DEF FramesStand
<1> DEFINE T == S \union {g}
           n == Len(fs)
           gs == [fs EXCEPT ![n] = g]
<1>2. fs \in Seq(T) /\ g \in T /\ \A f \in T : FrameStands(f, blocks)
  <2>1. Seq(S) \subseteq Seq(T)
    BY SeqGrows
  <2> QED
    BY <1>1, <2>1
<1> HIDE DEF T
<1>3. gs \in Seq(T) /\ Len(gs) = Len(fs)
  BY <1>2
<1>4. gs # <<>>
  <2>1. Len(fs) # 0
    BY <1>1
  <2> HIDE DEF gs
  <2>2. Len(gs) # 0
    BY <1>3, <2>1
  <2> QED
    BY <2>2
<1> HIDE DEF gs
<1>5. FramesStand(gs, blocks)
  BY <1>2, <1>3 DEF FramesStand
<1> QED
  BY <1>4, <1>5 DEF gs, n

LEMMA FrontIsShorter ==
  ASSUME NEW S, NEW s \in Seq(S), Len(s) - 1 \in Nat
  PROVE  Len(Front(s)) = Len(s) - 1
<1> DEFINE n == Len(s) - 1
           f == [k \in 1..n |-> s[k]]
<1>1. Front(s) = f
  BY DEF Front, SubSeq
<1>2. f \in Seq(S)
  BY DEF Seq
<1>3. DOMAIN f = 1..n /\ DOMAIN f = 1..Len(f) /\ Len(f) \in Nat
  <2> HIDE DEF f
  <2>1. DOMAIN f = 1..Len(f) /\ Len(f) \in Nat
    BY <1>2
  <2> QED
    BY <2>1 DEF f
<1> HIDE DEF f
<1> QED
  BY <1>1, <1>3

LEMMA TopStands ==
  ASSUME NEW fs, fs # <<>>, NEW blocks, FramesStand(fs, blocks)
  PROVE  /\ FrameStands(fs[Len(fs)], blocks) /\ Len(fs) \in 1..MaxDepth
         /\ Len(Front(fs)) = Len(fs) - 1
         /\ FramesStand(Front(fs), blocks)
         /\ Len(fs) # 1 => Front(fs) # <<>>
<1>1. PICK S : fs \in Seq(S) /\ \A f \in S : FrameStands(f, blocks)
  BY DEF FramesStand
<1>2. Len(fs) \in Nat /\ Len(fs) # 0
  BY <1>1
<1>3. fs[Len(fs)] \in S
  BY <1>1, <1>2
<1>4. Len(fs) \in 1..MaxDepth
  BY <1>2, Depth DEF FramesStand
<1>5. Front(fs) \in Seq(S)
  BY <1>1, SeqEnds
<1>6. Len(Front(fs)) = Len(fs) - 1
  <2>1. Len(fs) - 1 \in Nat
    BY <1>2
  <2> QED
    BY <1>1, <2>1, FrontIsShorter
<1>7. Len(Front(fs)) <= MaxDepth
  BY <1>2, <1>4, <1>6, Depth
<1>8. FramesStand(Front(fs), blocks)
  BY <1>1, <1>5, <1>7 DEF FramesStand
<1>9. Len(fs) # 1 => Front(fs) # <<>>
  BY <1>2, <1>5, <1>6
<1> QED
  BY <1>1, <1>3, <1>4, <1>6, <1>8, <1>9

LEMMA FramePushed ==
  ASSUME NEW fs, NEW blocks, FramesStand(fs, blocks), Len(fs) # MaxDepth,
         NEW g, FrameStands(g, blocks)
  PROVE  FramesStand(Append(fs, g), blocks) /\ Append(fs, g) # <<>>
<1>1. PICK S : fs \in Seq(S) /\ \A f \in S : FrameStands(f, blocks)
  BY DEF FramesStand
<1> DEFINE T == S \union {g}
           gs == Append(fs, g)
<1>2. fs \in Seq(T) /\ g \in T /\ \A f \in T : FrameStands(f, blocks)
  <2>1. Seq(S) \subseteq Seq(T)
    BY SeqGrows
  <2> QED
    BY <1>1, <2>1
<1> HIDE DEF T
<1>3. gs \in Seq(T) /\ Len(gs) = Len(fs) + 1 /\ Len(fs) \in Nat
  BY <1>2
<1> HIDE DEF gs
<1>4. Len(gs) <= MaxDepth /\ gs # <<>>
  BY <1>3, Depth DEF FramesStand
<1>5. FramesStand(gs, blocks)
  BY <1>2, <1>3, <1>4 DEF FramesStand
<1> QED
  BY <1>4, <1>5 DEF gs

LEMMA FrameReached ==
  ASSUME NEW f, NEW blocks, FrameStands(f, blocks), NEW value
  PROVE  FrameStands(Reached(f, value), blocks)
<1> DEFINE env == IF value = NoValue THEN f.env
                  ELSE With(f.env, code[f.block][f.next].value, value)
<1>1. Reached(f, value) = [f EXCEPT !.next = @ + 1, !.env = env]
  BY DEF Reached
<1> HIDE DEF env
<1> QED
  BY <1>1 DEF FrameStands

\* A step to the next instruction.
LEMMA NextStands ==
  ASSUME FramesInv, frames # <<>>, NEW value, Next1(value)
  PROVE  FramesStand(frames', DOMAIN code) /\ frames' # <<>>
<1>1. PICK fs, blocks : fs = frames /\ blocks = DOMAIN code
  OBVIOUS
<1>2. FramesStand(fs, blocks) /\ fs # <<>>
  BY <1>1 DEF FramesInv
<1>3. PICK g : g = Reached(fs[Len(fs)], value)
  OBVIOUS
<1>4. FrameStands(g, blocks)
  BY <1>2, <1>3, TopStands, FrameReached
<1>5. frames' = [fs EXCEPT ![Len(fs)] = g]
  BY <1>1, <1>3 DEF Next1
<1>6. /\ FramesStand([fs EXCEPT ![Len(fs)] = g], blocks)
      /\ [fs EXCEPT ![Len(fs)] = g] # <<>>
  BY <1>2, <1>4, FrameChanges
<1> QED
  BY <1>1, <1>5, <1>6

LEMMA OneObject ==
  ASSUME AreObjects, InHeap(objects), NEW o, o.in \in 0..Heap
  PROVE  InHeap(Append(objects, o))
<1>1. PICK S : objects \in Seq(Object0(S))
  BY DEF AreObjects
<1>2. /\ DOMAIN objects = 1..Len(objects) /\ Len(objects) \in Nat
      /\ DOMAIN Append(objects, o) = 1..(Len(objects) + 1)
      /\ Append(objects, o)[Len(objects) + 1] = o
      /\ \A j \in 1..Len(objects) : Append(objects, o)[j] = objects[j]
  BY <1>1
<1> QED
  BY <1>2 DEF InHeap

LEMMA HeapLeft ==
  ASSUME AreObjects, InHeap(objects)
  PROVE  InHeap(Left(objects))
<1>1. PICK S : objects \in Seq(Object0(S))
  BY DEF AreObjects
<1>2. 0 \in 0..Heap
  BY Depth
<1>3. ASSUME NEW o \in DOMAIN objects PROVE Left(objects)[o].in \in 0..Heap
  <2>1. objects[o] \in Object0(S)
    BY <1>1
  <2> QED
    BY <1>2, <2>1 DEF Left, InHeap, Object0
<1> QED
  BY <1>3 DEF InHeap, Left

\* The functions of the module, once it is emitted.
LEMMA FunctionsEmitted ==
  ASSUME EmissionInv, EmissionStands, emission = "emitted"
  PROVE  /\ DOMAIN functions = 1..Len(program.kids) /\ Len(program.kids) \in Nat \ {0}
         /\ \A k \in DOMAIN functions : <<k>> \in DOMAIN code
<1>1. stage = "lowered" /\ MirTyped /\ Rooted
  BY DEF EmissionInv, Emission, LoweringInv, ResolverInv, Built
<1>2. Len(functions) = Len(program.kids)
  BY <1>1 DEF EmissionInv, LoweringInv, Staged
<1>3. DOMAIN functions = 1..Len(program.kids)
  <2> DEFINE S == [of : Seq(Nat), body : Seq(DOMAIN mir)]
  <2>1. functions \in Seq(S)
    BY <1>1 DEF MirTyped
  <2> HIDE DEF S
  <2> QED
    BY <1>2, <2>1
<1>4. todo = <<>> /\ Declared(todo, DOMAIN code)
  BY DEF EmissionStands
<1>5. Range(todo) = {}
  BY <1>4 DEF Range
<1> QED
  BY <1>1, <1>3, <1>4, <1>5, TopKinds DEF Declared

LEMMA CalleeIsEmitted ==
  ASSUME EmissionInv, EmissionStands, emission = "emitted", NEW p,
         Callee(p) \notin {Runtime, Outside}
  PROVE  <<Callee(p)[1]>> \in DOMAIN code
<1>1. PICK name : Callee(p) = Lookup(name)
  BY DEF Callee
<1> DEFINE named == {j \in DOMAIN functions : Symbol(j) = name}
<1>2. named # {} /\ Lookup(name) = <<Min(named)>>
  BY <1>1 DEF Lookup
<1>3. named \in SUBSET Nat
  BY FunctionsEmitted
<1>4. Min(named) \in named
  <2> HIDE DEF named
  <2>1. \E x \in named : \A y \in named : x <= y
    BY <1>2, <1>3, LeastElement
  <2> QED
    BY <2>1 DEF Min
<1>5. PICK k \in DOMAIN functions : k = Min(named)
  BY <1>4
<1>6. Callee(p) = <<k>>
  BY <1>1, <1>2, <1>5
<1> QED
  BY <1>6, FunctionsEmitted

LEMMA BranchFinds ==
  ASSUME EmissionStands, NEW b \in DOMAIN code, NEW k \in DOMAIN code[b], code[b][k].op = "br"
  PROVE  IfStart(code[b][k].value) \in DOMAIN code /\ IfEnd(code[b][k].value) \in DOMAIN code
<1>1. PICK S : (\A x \in DOMAIN code : code[x] \in Seq(S))
               /\ \A j \in S : InstrStands(j, DOMAIN code)
  BY DEF EmissionStands, CodeStands
<1>2. code[b] \in Seq(S)
  BY <1>1
<1>3. code[b][k] \in S
  BY <1>2
<1> QED
  BY <1>1, <1>3 DEF InstrStands

LEMMA NoFrames ==
  ASSUME NEW blocks
  PROVE  FramesStand(<<>>, blocks)
<1>1. PICK none : none = <<>>
  OBVIOUS
<1>2. none \in Seq({}) /\ Len(none) = 0
  BY <1>1
<1>3. \E S : none \in Seq(S) /\ \A f \in S : FrameStands(f, blocks)
  BY <1>2
<1>4. FramesStand(none, blocks)
  BY <1>2, <1>3, Depth DEF FramesStand
<1> QED
  BY <1>1, <1>4

\* No phase of the compiler is at work once the module is emitted.
LEMMA CompilerRests ==
  ASSUME EmissionInv, EmissionNext
  PROVE  emission # "emitted"
<1>1. CASE Lower
  <2>1. LoweringNext => Resolve \/ StartLowering \/ LoweringWork
    BY DEF LoweringNext, LoweringWork
  <2>2. CASE Resolve
    <3>1. status = "running"
      BY <2>2, ResolverStep DEF Resolve, EmissionInv, LoweringInv
    <3> QED
      BY <3>1 DEF EmissionInv, LoweringInv, Staged, Emission
  <2>3. CASE StartLowering
    BY <2>3 DEF StartLowering, EmissionInv, Emission
  <2>4. CASE LoweringWork
    BY <2>4, LoweringStep DEF EmissionInv, Emission
  <2> QED
    BY <1>1, <2>1, <2>2, <2>3, <2>4 DEF Lower
<1>2. CASE StartEmission
  BY <1>2 DEF StartEmission
<1>3. CASE EmissionWork
  BY <1>3, EmissionStep
<1> QED
  BY <1>1, <1>2, <1>3 DEF EmissionNext, EmissionWork

LEMMA CompileKeepsFrames ==
  ASSUME EmissionInv, FramesInv, Compile
  PROVE  FramesInv'
<1>1. UNCHANGED <<session, frames, objects>> /\ EmissionNext
  BY DEF Compile, executionVars
<1>2. emission # "emitted"
  BY <1>1, CompilerRests
<1>3. frames = <<>> /\ session # "running" /\ session \in Sessions /\ InHeap(objects)
  BY <1>2 DEF FramesInv
<1>4. InHeap(objects')
  BY <1>1, <1>3
<1>5. FramesStand(frames', DOMAIN code')
  BY <1>1, <1>3, NoFrames
<1> QED
  BY <1>1, <1>3, <1>4, <1>5 DEF FramesInv, InHeap

LEMMA FramesInvNext ==
  ASSUME emission = "emitted", UNCHANGED compilerVars,
         session' \in Sessions, session' = "running" => frames' # <<>>,
         FramesStand(frames', DOMAIN code), InHeap(objects')
  PROVE  FramesInv'
<1>1. emission' = emission /\ code' = code
  BY DEF compilerVars, emissionVars
<1> QED
  BY <1>1 DEF FramesInv, InHeap, FramesStand, FrameStands

LEMMA FrameEntered ==
  ASSUME NEW k, NEW args, NEW blocks, <<k>> \in blocks
  PROVE  FrameStands(Frame(k, args), blocks)
BY DEF Frame, FrameStands

LEMMA EnterStands ==
  ASSUME EmissionInv, EmissionStands, EnterMain \/ EnterFunction
  PROVE  FramesInv'
<1>1. PICK k, args : Enter(k, args) /\ (k = 1 \/ k \in DOMAIN functions)
  BY DEF EnterMain, EnterFunction
<1>2. /\ emission = "emitted" /\ UNCHANGED compilerVars /\ session' = "running"
      /\ frames' = <<Frame(k, args)>> /\ objects' = <<>>
  BY <1>1 DEF Enter
<1>3. k \in DOMAIN functions /\ <<k>> \in DOMAIN code
  BY <1>1, <1>2, FunctionsEmitted
<1>4. PICK f, blocks : f = Frame(k, args) /\ blocks = DOMAIN code
  OBVIOUS
<1>5. FrameStands(f, blocks)
  BY <1>3, <1>4, FrameEntered
<1>6. FramesStand(<<f>>, blocks) /\ <<f>> # <<>>
  BY <1>5, OneFrame
<1>7. DOMAIN objects' = {}
  BY <1>2
<1>8. InHeap(objects')
  BY <1>7 DEF InHeap
<1> QED
  BY <1>2, <1>4, <1>6, <1>8, FramesInvNext DEF Sessions

\* The object of a step is of the frame at work, or of the heap.
LEMMA WithObject ==
  ASSUME AreObjects, FramesInv, frames # <<>>, NEW o, o.in = Len(frames) \/ o.in = Heap,
         objects' = Append(objects, o)
  PROVE  InHeap(objects')
<1>1. Len(frames) \in 1..MaxDepth
  BY TopStands DEF FramesInv
<1>2. o.in \in 0..Heap
  BY <1>1, Depth
<1> QED
  BY <1>2, OneObject DEF FramesInv

LEMMA SimpleRuns ==
  ASSUME AreObjects, FramesInv, emission = "emitted", UNCHANGED compilerVars,
         frames # <<>>, session \in Sessions,
         NEW value, Next1(value), session' = session,
         objects' = objects
           \/ (\E o : objects' = Append(objects, o) /\ (o.in = Len(frames) \/ o.in = Heap))
  PROVE  FramesInv'
<1>1. FramesStand(frames', DOMAIN code) /\ frames' # <<>>
  BY NextStands
<1>2. InHeap(objects')
  BY WithObject DEF FramesInv
<1> QED
  BY <1>1, <1>2, FramesInvNext

LEMMA EndStands ==
  ASSUME FramesInv, NEW how \in Sessions, frames # <<>>, Ends(how)
  PROVE  FramesInv'
<1>1. UNCHANGED compilerVars /\ UNCHANGED <<frames, objects>> /\ session' = how
  BY DEF Ends
<1>2. emission = "emitted" /\ FramesStand(frames, DOMAIN code) /\ InHeap(objects)
  BY DEF FramesInv
<1>3. FramesStand(frames', DOMAIN code) /\ InHeap(objects') /\ frames' # <<>>
  BY <1>1, <1>2
<1> QED
  BY <1>1, <1>2, <1>3, FramesInvNext

LEMMA BranchedStands ==
  ASSUME EmissionStands, FramesInv, RunBranch
  PROVE  FramesInv'
<1>1. session = "running" /\ Top1.next \in DOMAIN Code /\ Instruction.op = "br" /\ frames # <<>>
  BY DEF RunBranch, Running, FramesInv, Instruction
<1>2. CASE Ends("open")
  BY <1>1, <1>2, EndStands DEF Sessions
<1>3. ASSUME NEW target \in {IfStart(Instruction.value), IfEnd(Instruction.value)},
             frames' = [frames EXCEPT ![Len(frames)].block = target, ![Len(frames)].next = 1],
             UNCHANGED compilerVars, UNCHANGED <<session, objects>>
      PROVE  FramesInv'
  <2>1. PICK fs, blocks, f : fs = frames /\ blocks = DOMAIN code /\ f = fs[Len(fs)]
    OBVIOUS
  <2>2. FramesStand(fs, blocks) /\ fs # <<>>
    BY <1>1, <2>1 DEF FramesInv
  <2>3. FrameStands(f, blocks) /\ Len(fs) \in 1..MaxDepth
    BY <2>1, <2>2, TopStands
  <2>4. target \in blocks
    <3>1. Top1.block \in DOMAIN code
      BY <2>1, <2>3 DEF FrameStands, Top1
    <3> QED
      BY <1>1, <1>3, <2>1, <3>1, BranchFinds DEF Code, Instruction
  <2>5. PICK g : g = [f EXCEPT !.block = target, !.next = 1]
    OBVIOUS
  <2>6. FrameStands(g, blocks)
    BY <2>3, <2>4, <2>5 DEF FrameStands
  <2>7. frames' = [fs EXCEPT ![Len(fs)] = g]
    <3>1. PICK n : n = Len(fs)
      OBVIOUS
    <3>2. frames' = [fs EXCEPT ![n].block = target, ![n].next = 1]
      BY <1>3, <2>1, <3>1
    <3>3. n \in DOMAIN fs
      <4>1. PICK S : fs \in Seq(S)
        BY <2>2 DEF FramesStand
      <4> QED
        BY <2>3, <3>1, <4>1
    <3> QED
      BY <2>1, <2>5, <3>1, <3>2, <3>3
  <2>8. /\ FramesStand([fs EXCEPT ![Len(fs)] = g], blocks)
        /\ [fs EXCEPT ![Len(fs)] = g] # <<>>
    BY <2>2, <2>6, FrameChanges
  <2>9. emission = "emitted" /\ session \in Sessions /\ InHeap(objects)
    BY <1>1 DEF FramesInv
  <2> QED
    BY <1>3, <2>1, <2>7, <2>8, <2>9, FramesInvNext
<1> QED
  BY <1>2, <1>3 DEF RunBranch

LEMMA CallStands ==
  ASSUME EmissionInv, EmissionStands, FramesInv, RunCall
  PROVE  FramesInv'
<1>1. session = "running" /\ frames # <<>> /\ Callee(Instruction.value) \notin {Runtime, Outside}
  BY DEF RunCall, Running, FramesInv
<1>2. CASE Ends("open") \/ Ends("overflow")
  BY <1>1, <1>2, EndStands DEF Sessions
<1>3. ASSUME Len(frames) # MaxDepth,
             frames' = Append(frames, Frame(Callee(Instruction.value)[1], Args)),
             UNCHANGED compilerVars, UNCHANGED <<session, objects>>
      PROVE  FramesInv'
  <2>1. emission = "emitted" /\ session \in Sessions /\ InHeap(objects)
    BY <1>1 DEF FramesInv
  <2>2. PICK fs, blocks, f : fs = frames /\ blocks = DOMAIN code
                             /\ f = Frame(Callee(Instruction.value)[1], Args)
    OBVIOUS
  <2>3. FrameStands(f, blocks)
    BY <1>1, <2>1, <2>2, CalleeIsEmitted, FrameEntered
  <2>4. FramesStand(fs, blocks)
    BY <2>2 DEF FramesInv
  <2>5. FramesStand(Append(fs, f), blocks) /\ Append(fs, f) # <<>>
    BY <1>3, <2>2, <2>3, <2>4, FramePushed
  <2> QED
    BY <1>3, <2>1, <2>2, <2>5, FramesInvNext
<1> QED
  BY <1>2, <1>3 DEF RunCall

LEMMA ReturnStands ==
  ASSUME AreObjects, FramesInv, RunReturn
  PROVE  FramesInv'
<1>1. session = "running" /\ frames # <<>> /\ emission = "emitted"
  BY DEF RunReturn, Running, FramesInv
<1>2. CASE Ends("open")
  BY <1>1, <1>2, EndStands DEF Sessions
<1>3. InHeap(Left(objects))
  BY HeapLeft DEF FramesInv
<1>4. ASSUME objects' = Left(objects), UNCHANGED compilerVars,
             session' = "idle", frames' = <<>>
      PROVE  FramesInv'
  BY <1>1, <1>3, <1>4, NoFrames, FramesInvNext DEF Sessions
<1>5. ASSUME objects' = Left(objects), UNCHANGED compilerVars, session' = session,
             Len(frames) # 1,
             frames' = [Front(frames) EXCEPT ![Len(frames) - 1] = Reached(@, Returned)]
      PROVE  FramesInv'
  <2>1. PICK fs, blocks, gs : fs = frames /\ blocks = DOMAIN code /\ gs = Front(fs)
    OBVIOUS
  <2>2. FramesStand(fs, blocks) /\ fs # <<>>
    BY <1>1, <2>1 DEF FramesInv
  <2>3. FramesStand(gs, blocks) /\ gs # <<>> /\ Len(gs) = Len(fs) - 1
    BY <1>5, <2>1, <2>2, TopStands
  <2>4. PICK g : g = Reached(gs[Len(gs)], Returned)
    OBVIOUS
  <2>5. FrameStands(g, blocks)
    BY <2>3, <2>4, TopStands, FrameReached
  <2>6. frames' = [gs EXCEPT ![Len(gs)] = g]
    BY <1>5, <2>1, <2>3, <2>4
  <2>7. /\ FramesStand([gs EXCEPT ![Len(gs)] = g], blocks)
        /\ [gs EXCEPT ![Len(gs)] = g] # <<>>
    BY <2>3, <2>5, FrameChanges
  <2> QED
    BY <1>1, <1>3, <1>5, <2>1, <2>6, <2>7, FramesInvNext DEF Sessions
<1> QED
  BY <1>2, <1>4, <1>5 DEF RunReturn

LEMMA InstructionStands ==
  ASSUME AreObjects, FramesInv,
         RunBinary \/ RunOffBlock \/ RunOutside \/ RunVTables \/ RunWrap \/ RunCast
           \/ RunPrintln \/ RunMethod
  PROVE  FramesInv'
<1> USE DEF Running
<1>1. session = "running"
  BY DEF RunBinary, RunOffBlock, RunOutside, RunVTables, RunWrap, RunCast, RunPrintln, RunMethod
<1>2. frames # <<>> /\ emission = "emitted" /\ session \in Sessions
  BY <1>1 DEF FramesInv
<1>3. CASE Ends("open") \/ Ends("threw")
  BY <1>2, <1>3, EndStands DEF Sessions
<1>4. ASSUME NEW value, Next1(value), UNCHANGED compilerVars, session' = session,
             objects' = objects
      PROVE  FramesInv'
  BY <1>2, <1>4, SimpleRuns
<1>5. ASSUME NEW value, Next1(value), UNCHANGED compilerVars, session' = session,
             NEW o, objects' = Append(objects, o), o.in = Len(frames) \/ o.in = Heap
      PROVE  FramesInv'
  BY <1>2, <1>5, SimpleRuns
<1>6. CASE RunBinary
  BY <1>3, <1>4, <1>6 DEF RunBinary
<1>7. CASE RunOffBlock \/ RunOutside
  BY <1>3, <1>7 DEF RunOffBlock, RunOutside
<1>8. CASE RunVTables \/ RunCast
  BY <1>3, <1>4, <1>8 DEF RunVTables, RunCast
<1>9. CASE RunWrap
  <2> DEFINE new == [typeId |-> IF Arg(1).is = "int" THEN Int32TypeId ELSE RawStringTypeId,
                     holds |-> Arg(1), in |-> Len(frames)]
  <2>1. CASE Arg(1).is \in {"int", "raw"}
    <3>1. /\ objects' = Append(objects, new) /\ Next1(Ref(Len(objects) + 1, StructOf(Arg(1))))
          /\ UNCHANGED compilerVars /\ session' = session
      BY <1>9, <2>1 DEF RunWrap
    <3>2. new.in = Len(frames)
      OBVIOUS
    <3> HIDE DEF new
    <3> QED
      BY <1>5, <3>1, <3>2
  <2>2. CASE Arg(1).is \notin {"int", "raw"}
    BY <1>3, <1>9, <2>2 DEF RunWrap
  <2> QED
    BY <2>1, <2>2
<1>10. CASE RunPrintln
  BY <1>3, <1>4, <1>10 DEF RunPrintln
<1>11. CASE RunMethod
  <2> DEFINE new == [typeId |-> 0, holds |-> Object.holds, in |-> Heap]
  <2>1. CASE ~Readable(Arg(1)) \/ ~Dispatches
    BY <1>3, <1>11, <2>1 DEF RunMethod
  <2>2. CASE Readable(Arg(1)) /\ Dispatches /\ ToStringOf = <<"Int32", "toString">>
    <3>1. /\ objects' = Append(objects, new) /\ Next1(Ref(Len(objects) + 1, "String"))
          /\ UNCHANGED compilerVars /\ session' = session
      BY <1>11, <2>2 DEF RunMethod
    <3>2. new.in = Heap
      OBVIOUS
    <3> HIDE DEF new
    <3> QED
      BY <1>5, <3>1, <3>2
  <2>3. CASE Readable(Arg(1)) /\ Dispatches /\ ToStringOf # <<"Int32", "toString">>
    BY <1>4, <1>11, <2>3 DEF RunMethod
  <2> QED
    BY <2>1, <2>2, <2>3
<1> QED
  BY <1>6, <1>7, <1>8, <1>9, <1>10, <1>11

LEMMA FramesInductive ==
  ASSUME EmissionInv, EmissionStands, AreObjects, FramesInv, [ProcessNext]_processVars
  PROVE  FramesInv'
<1>1. CASE UNCHANGED processVars
  <2>1. UNCHANGED <<session, frames, emission, code, objects>>
    BY <1>1 DEF processVars, executionVars, compilerVars, emissionVars
  <2> QED
    BY <2>1 DEF FramesInv, FramesStand, FrameStands, InHeap
<1> QED
  BY <1>1, CompileKeepsFrames, EnterStands, BranchedStands, CallStands, ReturnStands,
     InstructionStands DEF ProcessNext, Run

LEMMA InvProcessTypeOK ==
  ASSUME EmissionInv, LoweringTypes, EmissionStands, PhasesInOrder, FramesInv
  PROVE  ProcessTypeOK
<1>1. LoweringTypeOK
  BY InvLoweringTypeOK DEF EmissionInv
<1>2. EmissionTypeOK
  BY InvEmissionTypeOK
<1>3. PICK S : frames \in Seq(S) /\ \A f \in S : FrameStands(f, DOMAIN code)
  BY DEF FramesInv, FramesStand
<1>4. \A k \in DOMAIN frames : frames[k].block \in DOMAIN code
  BY <1>3 DEF FrameStands
<1> QED
  BY <1>1, <1>2, <1>4 DEF ProcessTypeOK, FramesInv, InHeap

(***************************************************************************)
(* In the process that compiled it the module runs only in blocks that     *)
(* were emitted: every frame, entered by the client, pushed by a call,     *)
(* moved by a branch or returned to, stands in one, no deeper than the     *)
(* stack holds, and an object lives in a frame that is there, on the heap  *)
(* or no more (RocCompiler::compile, LLVMBackend.cpp 49-590).              *)
(***************************************************************************)
THEOREM ProcessTyped == ProcessSpec => []ProcessTypeOK
<1>1. ExecutionInit => FramesInv
  <2> SUFFICES ASSUME ExecutionInit PROVE FramesInv
    OBVIOUS
  <2>1. frames = <<>> /\ objects = <<>> /\ session = "idle" /\ DOMAIN objects = {}
    BY DEF ExecutionInit
  <2> QED
    BY <2>1, NoFrames DEF FramesInv, InHeap, Sessions
<1>2. ExecutionInit => EmissionInv /\ LoweringTypes /\ EmissionStands
  BY EmissionBegins, StandingStarts DEF ExecutionInit
<1>3. EmissionInv /\ LoweringTypes /\ EmissionStands /\ [ProcessNext]_processVars
        => (EmissionInv /\ LoweringTypes /\ EmissionStands)'
  <2>1. ASSUME ProcessNext \/ UNCHANGED processVars
        PROVE  [EmissionNext]_compilerVars
    BY <2>1, ProcessStep DEF ProcessNext, Compile, processVars
  <2> QED
    BY <2>1, EmissionInductive, CompilerTypesStep
<1>4. EmissionInv /\ EmissionStands /\ DispatchInv /\ FramesInv /\ [ProcessNext]_processVars
        => FramesInv'
  BY FramesInductive DEF DispatchInv
<1>5. ExecutionInit => DispatchInv
  BY DispatchStarts
<1>6. DispatchInv /\ [ProcessNext]_processVars => DispatchInv'
  BY DispatchInductive
<1>7. EmissionInv /\ LoweringTypes /\ EmissionStands /\ PhasesInOrder /\ FramesInv
        => ProcessTypeOK
  BY InvProcessTypeOK
<1> QED
  BY <1>1, <1>2, <1>3, <1>4, <1>5, <1>6, <1>7, PhasesOrdered, PTL DEF ProcessSpec
=============================================================================
