------------------------- MODULE RocEmissionProofs -------------------------
(***************************************************************************)
(* Theorems about RocEmission, for every set of programs: which values the *)
(* instructions take off the one stack of the module, which function a     *)
(* call reaches, and that only what the source names stops an emission.    *)
(***************************************************************************)
EXTENDS RocEmission, RocLoweringProofs, SequenceTheorems

-----------------------------------------------------------------------------
(* What the resolvers leave behind that the emission reads.                 *)

\* What a type node of the source that is no array and not Bool stands for.
NamedSolved == {"Unit", "Int32", "Int64", "Float64", "Any", "String"}
NameFits(p) ==
    ~IsExpression(p) /\ Kind(p) \notin {"array", "Bool"} => types[p] \in NamedSolved
SignatureNames == \A p \in DOMAIN types : NameFits(p)

\* While the signatures are resolved, only arrays are visits in progress.
ArrayLeaves ==
    pass = "signatures" => \A e \in Remaining : e.do = "leave" => Kind(e.at) = "array"

\* A function of the module with the name and the arity of a target.
Named(t, k) ==
    /\ k \in 2..Len(program.kids)
    /\ FunctionName(<<k>>) = t.name /\ Len(ParamTypes(<<k>>)) = Len(t.params)
TargetFits(t) == t.kind = "function" => \E k \in Nat : Named(t, k)
TargetsNamed == \A p \in DOMAIN targets : TargetFits(targets[p])

Resolution == SignatureNames /\ ArrayLeaves /\ TargetsNamed

LEMMA SameNames ==
    ASSUME program' = program
    PROVE  /\ \A p : Kind(p)' = Kind(p) /\ IsExpression(p)' = IsExpression(p)
           /\ \A t : TargetFits(t)' = TargetFits(t)
<1>1. \A p : At(p)' = At(p) /\ Kind(p)' = Kind(p) /\ IsExpression(p)' = IsExpression(p)
    BY SameModule
<1>2. \A k : FunctionName(<<k>>)' = FunctionName(<<k>>) /\ ParamTypes(<<k>>)' = ParamTypes(<<k>>)
    <2> SUFFICES ASSUME NEW k
                 PROVE  FunctionName(<<k>>)' = FunctionName(<<k>>)
                        /\ ParamTypes(<<k>>)' = ParamTypes(<<k>>)
        OBVIOUS
    <2>1. FunctionName(<<k>>)' = FunctionName(<<k>>)
        BY <1>1 DEF FunctionName, Kid
    <2>2. ParamTypes(<<k>>)' = ParamTypes(<<k>>)
        BY <1>1 DEF ParamTypes
    <2> QED BY <2>1, <2>2
<1>3. ASSUME NEW t, NEW k PROVE Named(t, k)' = Named(t, k)
    <2>1. FunctionName(<<k>>)' = FunctionName(<<k>>) /\ ParamTypes(<<k>>)' = ParamTypes(<<k>>)
        BY <1>2
    <2> QED BY <2>1 DEF Named
<1> QED BY <1>1, <1>3 DEF TargetFits

\* How a step of the resolvers may set a type context.
Contexts ==
    \/ types' = types
    \/ \E t : types' = With(types, Here, t)
              /\ (IsExpression(Here) \/ Kind(Here) \in {"array", "Bool"} \/ t \in NamedSolved)

LEMMA NamesKept ==
    ASSUME SignatureNames, program' = program, Contexts
    PROVE  SignatureNames'
<1>1. \A p : Kind(p)' = Kind(p) /\ IsExpression(p)' = IsExpression(p)
    BY SameNames
<1>2. CASE types' = types
    BY <1>1, <1>2 DEF SignatureNames, NameFits
<1>3. ASSUME NEW t, types' = With(types, Here, t),
             IsExpression(Here) \/ Kind(Here) \in {"array", "Bool"} \/ t \in NamedSolved
      PROVE  SignatureNames'
    <2>0. PICK h : h = Here
        OBVIOUS
    <2>1. DOMAIN types' = DOMAIN types \union {h} /\ types'[h] = t
          /\ \A y \in DOMAIN types : y # h => types'[y] = types[y]
        <3> DEFINE f == With(types, h, t)
        <3>1. DOMAIN f = DOMAIN types \union {h} /\ f[h] = t
              /\ \A y \in DOMAIN types : y # h => f[y] = types[y]
            BY DEF With
        <3>2. types' = f
            BY <1>3, <2>0
        <3> HIDE DEF f
        <3> QED BY <3>1, <3>2
    <2>2. ASSUME NEW p \in DOMAIN types' PROVE NameFits(p)'
        <3>1. CASE p = h
            BY <1>1, <1>3, <2>0, <2>1, <3>1 DEF NameFits
        <3>2. CASE p # h
            BY <1>1, <2>1, <3>2 DEF NameFits, SignatureNames
        <3> QED BY <3>1, <3>2
    <2> QED BY <2>2 DEF SignatureNames
<1> QED BY <1>2, <1>3 DEF Contexts

\* Where the type pass visits or leaves, there is an expression.
LEMMA TypesPass ==
    ASSUME ResolverInv, NEW do \in {"visit", "leave"}, Now(do, {"types"})
    PROVE  IsExpression(Here) /\ pass = "types"
<1>1. /\ Head(agenda).do = do /\ Here = Head(agenda).at /\ EntryFits(Head(agenda))
      /\ pass \in {"types"}
    BY AtHead
<1> QED BY <1>1 DEF EntryFits

LEMMA TypingSteps ==
    ASSUME ResolverInv, ArrayLeaves, ResolverNext
    PROVE  Contexts
<1>0. /\ \A s : Stop(s) => types' = types
      /\ \A es : Descend(es) => types' = types
      /\ Done => types' = types
      /\ \A t : TakeTarget(t) => types' = With(types, Here, t.returns)
      /\ \A ts : GiveType(ts) => \E t \in ts : types' = With(types, Here, t)
    BY DEF Stop, Descend, Done, TakeTarget, GiveType
<1>1. \A ts : GiveType(ts) /\ IsExpression(Here) => Contexts
    BY <1>0 DEF Contexts
<1>2. \A t : TakeTarget(t) /\ IsExpression(Here) => Contexts
    BY <1>0 DEF Contexts
<1>3. types' = types => Contexts
    BY DEF Contexts
<1>4. CASE FollowNullLeft \/ DescendLiterals \/ ResolveLiteral \/ LeaveLiterals
    BY <1>0, <1>3, <1>4 DEF FollowNullLeft, DescendLiterals, ResolveLiteral, LeaveLiterals
<1>5. CASE VisitSignature \/ DescendArrayType
    BY <1>0, <1>3, <1>5 DEF VisitSignature, DescendArrayType
<1>6. CASE ResolveTypeName
    <2>1. CASE Stop("syntaxError")
        BY <1>0, <1>3, <2>1
    <2>2. CASE GiveType({"Unit"})
        <3>1. types' = With(types, Here, "Unit")
            BY <1>0, <2>2
        <3> QED BY <3>1 DEF Contexts, NamedSolved
    <2>3. CASE Kind(Here) \in DOMAIN NamedTypes /\ GiveType({NamedTypes[Kind(Here)]})
        <3>1. types' = With(types, Here, NamedTypes[Kind(Here)])
            BY <1>0, <2>3
        <3>2. Kind(Here) = "Bool" \/ NamedTypes[Kind(Here)] \in NamedSolved
            BY <2>3 DEF NamedTypes, NamedSolved
        <3> QED BY <3>1, <3>2 DEF Contexts
    <2> QED BY <1>6, <2>1, <2>2, <2>3 DEF ResolveTypeName
<1>7. CASE TypeLeaf
    <2>1. IsExpression(Here)
        BY <1>7, TypesPass DEF TypeLeaf
    <2> QED BY <1>1, <1>7, <2>1 DEF TypeLeaf
<1>8. CASE DescendTypes \/ VisitCall \/ ReadArgument
    BY <1>0, <1>3, <1>8 DEF DescendTypes, VisitCall, ReadArgument
<1>9. CASE LeaveArithmetic
    <2>1. IsExpression(Here)
        BY <1>9, TypesPass DEF LeaveArithmetic
    <2> QED BY <1>0, <1>1, <1>3, <1>9, <2>1 DEF LeaveArithmetic
<1>10. CASE LeaveDivision
    <2>1. IsExpression(Here)
        BY <1>10, TypesPass DEF LeaveDivision
    <2> QED BY <1>1, <1>10, <2>1 DEF LeaveDivision
<1>11. CASE LeaveEqual
    <2>1. IsExpression(Here)
        BY <1>11, TypesPass DEF LeaveEqual
    <2> QED BY <1>1, <1>11, <2>1 DEF LeaveEqual
<1>12. CASE LeaveReference
    <2>1. IsExpression(Here)
        BY <1>12, TypesPass DEF LeaveReference
    <2> QED BY <1>0, <1>1, <1>3, <1>12, <2>1 DEF LeaveReference
<1>13. CASE LeaveIf \/ LeaveUntyped
    BY <1>0, <1>3, <1>13 DEF LeaveIf, LeaveUntyped
<1>14. CASE FindTargetCall
    <2>1. IsExpression(Here)
        BY <1>14, TypesPass DEF FindTargetCall
    <2>2. (\E s : Stop(s)) \/ (\E t : TakeTarget(t))
        BY <1>14 DEF FindTargetCall
    <2> QED BY <1>0, <1>2, <1>3, <2>1, <2>2
<1>15. CASE FindMethod
    <2>1. IsExpression(Here)
        BY <1>15, TypesPass DEF FindMethod
    <2>2. (\E s : Stop(s)) \/ (\E t : TakeTarget(t))
        BY <1>15 DEF FindMethod
    <2> QED BY <1>0, <1>2, <1>3, <2>1, <2>2
<1>16. CASE StartSignatures \/ StartTypes \/ FinishResolving
    BY <1>0, <1>3, <1>16 DEF StartSignatures, StartTypes, FinishResolving
<1>17. CASE LeaveArrayType
    <2>1. Now("leave", {"signatures"})
        BY <1>17 DEF LeaveArrayType
    <2>2. Head(agenda) \in Remaining /\ Head(agenda).do = "leave" /\ Here = Head(agenda).at
          /\ pass = "signatures"
        BY <2>1, AtHead
    <2>3. Kind(Here) = "array"
        BY <2>2 DEF ArrayLeaves
    <2>4. \E t : types' = With(types, Here, t)
        BY <1>0, <1>17 DEF LeaveArrayType
    <2> QED BY <2>3, <2>4 DEF Contexts
<1> QED BY <1>4, <1>5, <1>6, <1>7, <1>8, <1>9, <1>10, <1>11, <1>12, <1>13, <1>14, <1>15, <1>16,
           <1>17 DEF ResolverNext
-----------------------------------------------------------------------------
LEMMA AgendaSteps ==
    ASSUME ResolverInv, ArrayLeaves, ResolverNext
    PROVE  ArrayLeaves'
<1> DEFINE s == agenda
<1>1. /\ \A p : Kind(p)' = Kind(p)
      /\ program' = program
    BY ResolverStep, SameNames
<1>2. agenda \in Seq(AnEntry)
    BY DEF ResolverInv, AgendaFits
\* Entries es, without a visit in progress that is no array, come for the head.
<1>3. ASSUME NEW es \in Seq(AnEntry), agenda # <<>>, agenda' = es \o Tail(agenda), pass' = pass,
             pass = "signatures" => \A e \in Range(es) : e.do = "leave" => Kind(e.at) = "array"
      PROVE  ArrayLeaves'
    <2>1. Range(es \o Tail(agenda)) = Range(es) \union Range(Tail(agenda))
          /\ Range(agenda) = {Head(agenda)} \union Range(Tail(agenda))
        BY <1>2, <1>3, RangePut
    <2>2. Remaining' = Range(es) \union Range(Tail(agenda))
        BY <1>3, <2>1 DEF Remaining
    <2> QED BY <1>1, <1>3, <2>1, <2>2 DEF ArrayLeaves, Remaining
<1>4. ASSUME agenda # <<>>, agenda' = Tail(agenda), pass' = pass PROVE ArrayLeaves'
    <2>1. <<>> \in Seq(AnEntry) /\ Range(<<>>) = {}
        BY OnceEmpty
    <2>2. <<>> \o Tail(agenda) = Tail(agenda)
        BY <1>2, <1>4
    <2>3. agenda' = <<>> \o Tail(agenda)
        BY <1>4, <2>2
    <2> QED BY <1>3, <1>4, <2>1, <2>3
<1>5. ASSUME agenda' = agenda, pass' = pass PROVE ArrayLeaves'
    BY <1>1, <1>5 DEF ArrayLeaves, Remaining
<1>6. ASSUME pass' # "signatures" PROVE ArrayLeaves'
    BY <1>6 DEF ArrayLeaves
<1>7. CASE pass # "signatures" /\ ~StartSignatures
    <2>1. pass' # "signatures"
        BY <1>7 DEF ResolverNext, FollowNullLeft, DescendLiterals, ResolveLiteral, LeaveLiterals,
             VisitSignature, ResolveTypeName, DescendArrayType, LeaveArrayType,
             TypeLeaf, DescendTypes, VisitCall, ReadArgument,
             LeaveArithmetic, LeaveDivision, LeaveEqual, LeaveReference,
             LeaveIf, LeaveUntyped, FindTargetCall, FindMethod, StartTypes, FinishResolving,
             Stop, Descend, Done, TakeTarget, GiveType, Now
    <2> QED BY <1>6, <2>1
<1>8. CASE StartSignatures
    <2>1. \A k \in DOMAIN agenda' : agenda'[k].do = "signature"
        BY <1>8 DEF StartSignatures, Entry
    <2>2. \A e \in Remaining' : e.do = "signature"
        BY <2>1 DEF Remaining, Range
    <2> QED BY <2>2 DEF ArrayLeaves
<1>9. CASE VisitSignature
    <2> DEFINE ps == Append(ParamTypes(Here), ReturnType(Here))
               es == Entries("type", ps)
    <2>1. Now("signature", {"signatures"})
        BY <1>9 DEF VisitSignature
    <2>2. /\ Head(agenda).do = "signature" /\ Here = Head(agenda).at /\ EntryFits(Head(agenda))
          /\ agenda # <<>> /\ Rooted
        BY <2>1, AtHead
    <2>3. ps \in Seq(Seq(Nat))
        BY <2>2, SignatureIs DEF EntryFits
    <2>4. es \in Seq(AnEntry) /\ Range(es) = {Entry("type", q) : q \in Range(ps)}
        BY <2>3, EntriesAre DEF Jobs
    <2>5. agenda' = es \o Tail(agenda) /\ pass' = pass
        BY <1>9 DEF VisitSignature
    <2> HIDE DEF ps, es
    <2>6. \A e \in Range(es) : e.do = "type"
        BY <2>4 DEF Entry
    <2> QED BY <1>3, <2>2, <2>4, <2>5, <2>6
<1>10. CASE DescendArrayType
    <2> DEFINE t == Entry("type", Kid(Here, 1))
               l == Entry("leave", Here)
               es == <<t>> \o <<l>>
    <2>1. Now("type", {"signatures"}) /\ Descend(<<t>>) /\ Kind(Here) = "array"
        BY <1>10 DEF DescendArrayType
    <2>2. agenda # <<>> /\ Here \in Seq(Nat)
        BY <2>1, AtHead
    <2>3. Kid(Here, 1) \in Seq(Nat)
        BY <2>2, AtKid
    <2>4. /\ t \in AnEntry /\ t.do = "type" /\ l \in AnEntry /\ l.do = "leave" /\ l.at = Here
        BY <2>2, <2>3, EntryIs DEF Jobs
    <2>5. agenda' = es \o Tail(agenda) /\ pass' = pass
        BY <2>1 DEF Descend
    <2> HIDE DEF t, l
    <2>6. es \in Seq(AnEntry) /\ Range(es) = {t, l}
        BY <2>4 DEF Range
    <2> HIDE DEF es
    <2> QED BY <1>3, <2>1, <2>2, <2>4, <2>5, <2>6
<1>11. CASE ResolveTypeName
    <2>1. agenda # <<>>
        BY <1>11 DEF ResolveTypeName, Now
    <2> QED BY <1>4, <1>5, <1>11, <2>1 DEF ResolveTypeName, GiveType, Stop
<1>12. CASE LeaveArrayType
    BY <1>4, <1>12 DEF LeaveArrayType, GiveType, Now
<1>13. CASE StartTypes
    BY <1>6, <1>13 DEF StartTypes
<1>14. CASE FinishResolving
    BY <1>5, <1>14 DEF FinishResolving, Stop
<1>15. CASE pass = "signatures" /\ ~StartSignatures /\ ~VisitSignature /\ ~DescendArrayType
            /\ ~ResolveTypeName /\ ~LeaveArrayType /\ ~StartTypes /\ ~FinishResolving
    <2>1. FALSE
        BY <1>15 DEF ResolverNext, FollowNullLeft, DescendLiterals, ResolveLiteral, LeaveLiterals,
             TypeLeaf, DescendTypes, VisitCall, ReadArgument,
             LeaveArithmetic, LeaveDivision, LeaveEqual, LeaveReference,
             LeaveIf, LeaveUntyped, FindTargetCall, FindMethod, Now
    <2> QED BY <2>1
<1> QED BY <1>7, <1>8, <1>9, <1>10, <1>11, <1>12, <1>13, <1>14, <1>15

LEMMA TargetSteps ==
    ASSUME ResolverInv, ResolverNext
    PROVE  targets' = targets \/ \E t : TargetFits(t) /\ targets' = With(targets, Here, t)
<1>1. CASE FindTargetCall
    <2> DEFINE args == [k \in DOMAIN Arguments(Here) |-> types[Arguments(Here)[k]]]
               builtins == {b \in Builtins : b.name = CallName(Here)}
               fs == SameArity(CallName(Here), Len(args))
               f == FirstOf(fs)
    <2>2. \/ Stop("uncaught") \/ Stop("syntaxError")
          \/ \E b \in builtins : TakeTarget(b)
          \/ fs # {} /\ TakeTarget(FunctionTarget(f))
        BY <1>1 DEF FindTargetCall
    <2>3. \A b \in builtins : b.kind = "builtin"
        BY DEF Builtins, Target
    <2>4. ASSUME fs # {} PROVE TargetFits(FunctionTarget(f))
        <3>1. fs \in SUBSET FunctionNodes
            BY DEF SameArity
        <3>2. f \in FunctionNodes
            <4> HIDE DEF fs
            <4> QED BY <2>4, <3>1, FirstOfIs
        <3> HIDE DEF f, fs
        <3>3. PICK k \in 2..Len(program.kids) : f = <<k>>
            BY <3>2 DEF FunctionNodes
        <3>4. /\ FunctionTarget(f).name = FunctionName(f)
              /\ FunctionTarget(f).params = [j \in DOMAIN ParamTypes(f) |-> types[ParamTypes(f)[j]]]
            BY DEF FunctionTarget, Target
        <3>5. ParamTypes(f) \in Seq(Seq(Nat))
            BY <3>2, SignatureIs DEF ResolverInv
        <3>6. Len(ParamTypes(f)) = Len(FunctionTarget(f).params)
            <4> DEFINE ps == ParamTypes(f)
                       vs == [j \in DOMAIN ps |-> types[ps[j]]]
            <4>1. DOMAIN ps = 1..Len(ps) /\ Len(ps) \in Nat
                BY <3>5
            <4> HIDE DEF ps
            <4>2. Len(vs) = Len(ps)
                BY <4>1
            <4> QED BY <3>4, <4>2 DEF ps
        <3>7. Named(FunctionTarget(f), k)
            BY <3>3, <3>4, <3>6 DEF Named
        <3> QED BY <3>3, <3>7 DEF TargetFits
    <2> HIDE DEF args, builtins, fs, f
    <2>5. CASE Stop("uncaught") \/ Stop("syntaxError")
        BY <2>5 DEF Stop
    <2>6. CASE \E b \in builtins : TakeTarget(b)
        BY <2>3, <2>6 DEF TakeTarget, TargetFits
    <2>7. CASE fs # {} /\ TakeTarget(FunctionTarget(f))
        BY <2>4, <2>7 DEF TakeTarget
    <2> QED BY <2>2, <2>5, <2>6, <2>7
<1>2. CASE FindMethod
    <2> DEFINE found == {t \in Methods(types[Kid(Parent(Here), 1)]) : t.name = CallName(Here)}
    <2>2. Stop("crashed") \/ Stop("syntaxError") \/ \E t \in found : TakeTarget(t)
        BY <1>2 DEF FindMethod
    <2>3. \A t \in found : t.kind = "method"
        BY DEF Methods, Target
    <2> HIDE DEF found
    <2>4. CASE Stop("crashed") \/ Stop("syntaxError")
        BY <2>4 DEF Stop
    <2>5. CASE \E t \in found : TakeTarget(t)
        BY <2>3, <2>5 DEF TakeTarget, TargetFits
    <2> QED BY <2>2, <2>4, <2>5
<1>3. CASE ~FindTargetCall /\ ~FindMethod
    BY <1>3 DEF ResolverNext, FollowNullLeft, DescendLiterals, ResolveLiteral, LeaveLiterals,
             VisitSignature, ResolveTypeName, DescendArrayType, LeaveArrayType,
             TypeLeaf, DescendTypes, VisitCall, ReadArgument,
             LeaveArithmetic, LeaveDivision, LeaveEqual, LeaveReference,
             LeaveIf, LeaveUntyped, StartSignatures, StartTypes, FinishResolving,
             Stop, Descend, Done, GiveType
<1> QED BY <1>1, <1>2, <1>3

LEMMA TargetsKept ==
    ASSUME ResolverInv, TargetsNamed, ResolverNext
    PROVE  TargetsNamed'
<1>1. \A t : TargetFits(t)' = TargetFits(t)
    BY ResolverStep, SameNames
<1>2. CASE targets' = targets
    BY <1>1, <1>2 DEF TargetsNamed
<1>3. ASSUME NEW t, TargetFits(t), targets' = With(targets, Here, t) PROVE TargetsNamed'
    <2>1. ASSUME NEW p \in DOMAIN targets' PROVE TargetFits(targets'[p])
        <3>1. p \in DOMAIN targets \union {Here}
              /\ targets'[p] = IF p = Here THEN t ELSE targets[p]
            BY <1>3, <2>1 DEF With
        <3> QED BY <1>3, <3>1 DEF TargetsNamed
    <2> QED BY <1>1, <2>1 DEF TargetsNamed
<1> QED BY <1>2, <1>3, TargetSteps

LEMMA ResolutionStep ==
    ASSUME ResolverInv, Resolution, ResolverNext
    PROVE  Resolution'
<1>1. program' = program
    BY ResolverStep
<1> QED BY <1>1, TypingSteps, NamesKept, AgendaSteps, TargetsKept DEF Resolution

LEMMA ResolutionSame ==
    ASSUME Resolution, UNCHANGED resolverVars
    PROVE  Resolution'
<1>1. UNCHANGED <<program, pass, agenda, types, targets>>
    BY DEF resolverVars
<1>2. /\ \A p : Kind(p)' = Kind(p) /\ IsExpression(p)' = IsExpression(p)
      /\ \A t : TargetFits(t)' = TargetFits(t)
    BY <1>1, SameNames
<1>3. SignatureNames' /\ TargetsNamed'
    BY <1>1, <1>2 DEF Resolution, SignatureNames, NameFits, TargetsNamed
<1>4. ArrayLeaves'
    BY <1>1, <1>2 DEF Resolution, ArrayLeaves, Remaining
<1> QED BY <1>3, <1>4 DEF Resolution

LEMMA ResolutionStarts ==
    ASSUME ResolverInit
    PROVE  Resolution
<1>1. types = <<>> /\ targets = <<>> /\ pass = "literals"
    BY DEF ResolverInit
<1>2. DOMAIN types = {} /\ DOMAIN targets = {}
    BY <1>1
<1> QED BY <1>1, <1>2 DEF Resolution, SignatureNames, TargetsNamed, ArrayLeaves

-----------------------------------------------------------------------------
(* The shape of the values the lowering builds.                             *)

Shape(p, m) ==
    /\ m.op = "if" => Len(m.kids) = 2 /\ m.type = "Unit"
    /\ m.op = "block" => m.type = "none"
    /\ m.op \in BinaryOps => Len(m.kids) = 2
    /\ m.op = "call" => p \in DOMAIN targets
Shaped == \A p \in DOMAIN mir : Shape(p, mir[p])

LEMMA ShapedGrows ==
    ASSUME Shaped, targets' = targets, NEW p, NEW m, mir' = With(mir, p, m), Shape(p, m)
    PROVE  Shaped'
<1>1. ASSUME NEW q \in DOMAIN mir' PROVE Shape(q, mir[q])'
    <2>1. q \in DOMAIN mir \union {p} /\ mir'[q] = IF q = p THEN m ELSE mir[q]
        BY <1>1 DEF With
    <2>2. Shape(q, mir'[q])
        BY <2>1 DEF Shaped
    <2> QED BY <2>2 DEF Shape
<1> QED BY <1>1 DEF Shaped

LEMMA ShapedSame ==
    ASSUME Shaped, targets' = targets, mir' = mir
    PROVE  Shaped'
BY DEF Shaped, Shape

\* A value that is neither an if, a block, a call nor a binary operation.
LEMMA OtherShape ==
    ASSUME NEW p, NEW op, NEW type, NEW kids, op \notin {"if", "block", "call"} \union BinaryOps
    PROVE  Shape(p, Mir(op, type, kids))
BY DEF Shape, Mir

LEMMA ShapedCombine ==
    ASSUME Shaped, UNCHANGED resolverVars, NEW n, NEW op, NEW type, Combine(n, op, type),
           n <= Len(values) => Shape(Item, Mir(op, type, LastOfStack(values, n))),
           Len(values) \in Nat, n \in Nat
    PROVE  Shaped'
<1>1. targets' = targets
    BY DEF resolverVars
<1>2. CASE Len(values) < n
    BY <1>1, <1>2, ShapedSame DEF Combine, Fail
<1>3. CASE ~(Len(values) < n)
    <2>1. mir' = With(mir, Item, Mir(op, type, LastOfStack(values, n)))
        BY <1>3 DEF Combine, PushOn
    <2>2. Shape(Item, Mir(op, type, LastOfStack(values, n)))
        BY <1>3
    <2> DEFINE m == Mir(op, type, LastOfStack(values, n))
    <2> HIDE DEF m
    <2>3. mir' = With(mir, Item, m) /\ Shape(Item, m)
        BY <2>1, <2>2 DEF m
    <2>4. PICK i : i = Item
        OBVIOUS
    <2> QED BY <1>1, <2>3, <2>4, ShapedGrows
<1> QED BY <1>2, <1>3

LEMMA ShapedStep ==
    ASSUME LoweringInv, Shaped, LoweringWork
    PROVE  Shaped'
<1>1. targets' = targets /\ UNCHANGED resolverVars
    BY LoweringStep DEF resolverVars
<1>2. Len(values) \in Nat /\ values \in Seq(DOMAIN mir) /\ held \in Seq(DOMAIN mir)
    BY DEF LoweringInv, Built, MirTyped
<1>3. CASE LowerLeaf
    <2>1. PICK op, type : /\ Combine(0, op, type)
                          /\ op \in {"int", "string", "true", "false"}
        BY <1>3 DEF LowerLeaf, Lowers
    <2>2. Shape(Item, Mir(op, type, LastOfStack(values, 0)))
        BY <2>1, OtherShape DEF BinaryOps
    <2> QED BY <1>1, <1>2, <2>1, <2>2, ShapedCombine
<1>4. CASE LowerLocal
    <2>1. CASE Fail("crashed")
        BY <1>1, <2>1, ShapedSame DEF Fail
    <2>2. CASE Combine(0, "local", Clone(types[Item]))
        <3> DEFINE type == Clone(types[Item])
        <3> HIDE DEF type
        <3>1. Shape(Item, Mir("local", type, LastOfStack(values, 0)))
            BY OtherShape DEF BinaryOps
        <3> QED BY <1>1, <1>2, <2>2, <3>1, ShapedCombine DEF type
    <2> QED BY <1>4, <2>1, <2>2 DEF LowerLocal
<1>5. CASE LowerChildren \/ KeepValue \/ LowerOther \/ LowerModule
    <2>1. mir' = mir
        BY <1>5 DEF LowerChildren, KeepValue, LowerOther, LowerModule, Fail
    <2> QED BY <1>1, <2>1, ShapedSame
<1>6. CASE LowerBinExpr
    <2> DEFINE op == MirOp[Kind(Item)]
               type == MirType[Kind(Item)]
    <2>1. Kind(Item) \in DOMAIN MirOp /\ Combine(2, op, type)
        BY <1>6 DEF LowerBinExpr, Lowers
    <2>2. op \notin {"if", "block", "call"}
        BY <2>1 DEF MirOp, BinOps
    <2> HIDE DEF op, type
    <2>3. ASSUME 2 <= Len(values) PROVE Shape(Item, Mir(op, type, LastOfStack(values, 2)))
        <3> DEFINE kids == LastOfStack(values, 2)
        <3>1. 2 \in 0..Len(values)
            BY <1>2, <2>3
        <3>2. Len(kids) = 2
            BY <1>2, <3>1, Popping
        <3> HIDE DEF kids
        <3> QED BY <2>2, <3>2 DEF Shape, Mir, kids
    <2> QED BY <1>1, <1>2, <2>1, <2>3, ShapedCombine
<1>7. CASE LowerReturn
    <2> DEFINE type == mir[Last(values)].type
    <2>1. CASE Fail("crashed")
        BY <1>1, <2>1, ShapedSame DEF Fail
    <2>2. CASE Combine(1, "ret", type)
        <3> HIDE DEF type
        <3>1. Shape(Item, Mir("ret", type, LastOfStack(values, 1)))
            BY OtherShape DEF BinaryOps
        <3> QED BY <1>1, <1>2, <2>2, <3>1, ShapedCombine
    <2> QED BY <1>7, <2>1, <2>2 DEF LowerReturn
<1>8. CASE LowerCall
    <2> DEFINE n == Taken(Item)
               args == LastOfStack(values, n)
               isC == CallName(Item) = "ccall" /\ ~InDot(Item)
               bad == \/ Len(values) < n
                      \/ Item \notin DOMAIN targets
                      \/ isC /\ (args = <<>> \/ TypeVariables(Item) = <<>>)
               type == Clone(types[TypeVariables(Item)[1]])
               returns == targets[Item].returns
               op == IF InDot(Item) THEN "method" ELSE "call"
               value == Mir("ccall", type, Tail(args))
    <2>1. stage = "mir" /\ Head(work).do = "leave" /\ Kind(Item) = "call"
        BY <1>8 DEF LowerCall, Lowers
    <2>2. IF bad THEN Fail("crashed")
          ELSE IF isC THEN PushOn(Without(values, n), value) /\ UNCHANGED held
          ELSE Combine(n, op, returns)
        BY <1>8 DEF LowerCall, Taken
    <2> HIDE DEF type, returns
    <2>3. CASE bad
        BY <1>1, <2>2, <2>3, ShapedSame DEF Fail
    <2>4. CASE ~bad /\ isC
        <3>1. mir' = With(mir, Item, value)
            BY <2>2, <2>4 DEF PushOn
        <3>2. Shape(Item, value)
            BY OtherShape DEF BinaryOps
        <3> HIDE DEF value
        <3>3. PICK i : i = Item
            OBVIOUS
        <3> QED BY <1>1, <3>1, <3>2, <3>3, ShapedGrows
    <2>5. CASE ~bad /\ ~isC
        <3>1. n \in Nat /\ Item \in DOMAIN targets
            BY <2>1, <2>5, CallTakes
        <3>2. Combine(n, op, returns) /\ op \in {"call", "method"}
            BY <2>2, <2>5
        <3> HIDE DEF n, op
        <3>3. Shape(Item, Mir(op, returns, LastOfStack(values, n)))
            BY <3>1, <3>2 DEF Shape, Mir, BinaryOps
        <3> QED BY <1>1, <1>2, <3>1, <3>2, <3>3, ShapedCombine
    <2> QED BY <2>3, <2>4, <2>5
<1>9. CASE LowerIf
    <2> DEFINE kids == LastOfStack(held, 2)
               value == Mir("if", "Unit", kids)
    <2>1. stage = "mir" /\ Head(work).do = "leave" /\ Kind(Item) = "if"
        BY <1>9 DEF LowerIf, Lowers
    <2>2. Holding(Item) /\ Popped(Item) = 2
        BY <2>1 DEF Holding, Popped
    <2>3. Len(held) = Len(Held(Item)) + 2
        BY <2>1, <2>2, AtLeave
    <2>4. Len(Held(Item)) \in Nat
        <3>1. Held(Item) \in Seq(Seq(Nat))
            BY <2>1, AtWork, StacksTyped
        <3> QED BY <3>1
    <2>5. Len(kids) = 2
        <3>1. 2 \in 0..Len(held)
            BY <2>3, <2>4
        <3> QED BY <1>2, <3>1, Popping
    <2> HIDE DEF kids
    <2>6. Shape(Item, value)
        BY <2>5 DEF Shape, Mir, BinaryOps
    <2>7. CASE Len(At(Item).kids) = 3
        BY <1>1, <1>9, <2>7, ShapedSame DEF LowerIf
    <2>8. CASE Len(At(Item).kids) # 3
        <3>1. mir' = With(mir, Item, value)
            BY <1>9, <2>8 DEF LowerIf, PushOn, kids
        <3> HIDE DEF value
        <3>2. PICK i : i = Item
            OBVIOUS
        <3> QED BY <1>1, <2>6, <3>1, <3>2, ShapedGrows
    <2> QED BY <2>7, <2>8
<1>10. CASE LowerBlock
    <2> DEFINE kids == LastOfStack(held, Len(At(Item).kids))
               value == Mir("block", "none", kids)
    <2>1. mir' = With(mir, Item, value)
        BY <1>10 DEF LowerBlock, PushOn
    <2> HIDE DEF kids
    <2>2. Shape(Item, value)
        BY DEF Shape, Mir, BinaryOps
    <2> HIDE DEF value
    <2>3. PICK i : i = Item
        OBVIOUS
    <2> QED BY <1>1, <2>1, <2>2, <2>3, ShapedGrows
<1>11. CASE LowerFunction \/ LowerStatic
    <2>1. \/ mir' = mir
          \/ mir' = With(mir, End, Mir("ret", "Unit", <<>>))
          \/ mir' = With(mir, End, Mir("ret", "Int32", <<>>))
        BY <1>11 DEF LowerFunction, LowerStatic
    <2>2. ASSUME NEW type, mir' = With(mir, End, Mir("ret", type, <<>>)) PROVE Shaped'
        <3>1. Shape(End, Mir("ret", type, <<>>))
            BY OtherShape DEF BinaryOps
        <3>2. PICK i : i = End
            OBVIOUS
        <3> QED BY <1>1, <2>2, <3>1, <3>2, ShapedGrows
    <2> QED BY <1>1, <2>1, <2>2, ShapedSame
<1>12. CASE VisitMir \/ CastArguments \/ FinishLowering
    <2>1. mir' = mir
        BY <1>12 DEF VisitMir, CastArguments, FinishLowering, Fail
    <2> QED BY <1>1, <2>1, ShapedSame
<1> QED BY <1>3, <1>4, <1>5, <1>6, <1>7, <1>8, <1>9, <1>10, <1>11, <1>12 DEF LoweringWork

-----------------------------------------------------------------------------
(* What each entry of the traversal does to the stack.                      *)

\* The values a value pushes one of, as an operand.
Pushing(p) == mir[p].type \notin {"Unit", "none"}

\* The operands an instruction takes, coerced.
Own(p) ==
    IF mir[p].op \in CallOps
    THEN [k \in DOMAIN mir[p].kids |-> Coerced(Operand(p, k), mir[p].kids[k])]
    ELSE mir[p].kids

\* above, on top of the stack: with the value of p, or whatever it is.
Adds(p, above, after) == after = <<>> \/ (Pushing(p) /\ after = Append(above, p))

\* The instruction of p takes its operands, that around an operand o the
\* operand, and a branch the condition.
LeadsOn(p, before, after) ==
    \E above \in Seq(Seq(Nat)) : before = above \o Own(p) /\ Adds(p, above, after)
LeadsAround(o, before, after) ==
    \E above \in Seq(Seq(Nat)) :
        LET value == mir[CallWith(o)].kids[Last(o)]
        IN before = Append(above, value) /\ after = Append(above, Coerced(o, value))
HasCondition(p, before) ==
    \E above \in Seq(Seq(Nat)) : before = Append(above, mir[p].kids[1])

(***************************************************************************)
(* Where the entry finds before on top of the stack, it leaves after there. *)
(* The top of the stack is not all of it: nothing is known of the values   *)
(* the statements before left below, so that a statement finds <<>>.       *)
(***************************************************************************)
Leads(e, before, after) ==
    \/ e.do = "value" /\ Adds(e.at, before, after)
    \/ e.do = "leave" /\ LeadsOn(e.at, before, after)
    \/ e.do = "coerce" /\ LeadsAround(e.at, before, after)
    \/ e.do = "branch" /\ after = <<>> /\ HasCondition(e.at, before)
    \/ e.do \in {"function", "start", "end"} /\ after = <<>>

\* The entries of t find what they take when the first of them finds top.
FlowsBy(t, f) ==
    /\ f \in [1..(Len(t) + 1) -> Seq(Seq(Nat))]
    /\ \A j \in 1..Len(t) : Leads(t[j], f[j], f[j + 1])
Flow(t, top) == \E f : FlowsBy(t, f) /\ top = f[1]

\* The values s have on top what the entries of t need.
Rests(s, t) ==
    \E below \in Seq(Seq(Nat)), top \in Seq(Seq(Nat)) : s = below \o top /\ Flow(t, top)
Stacked == Rests(stack, todo)

LEMMA FlowTail ==
    ASSUME NEW S, NEW t \in Seq(S), t # <<>>, NEW top, Flow(t, top)
    PROVE  \E after \in Seq(Seq(Nat)) :
               top \in Seq(Seq(Nat)) /\ Leads(Head(t), top, after) /\ Flow(Tail(t), after)
<1>1. PICK f : FlowsBy(t, f) /\ top = f[1]
    BY DEF Flow
<1> DEFINE g == [j \in 1..(Len(Tail(t)) + 1) |-> f[j + 1]]
           X == Seq(Seq(Nat))
<1> HIDE DEF X
<1>2. /\ Len(t) \in Nat \ {0} /\ Len(Tail(t)) = Len(t) - 1 /\ Head(t) = t[1]
      /\ \A j \in 1..Len(Tail(t)) : Tail(t)[j] = t[j + 1]
    BY SeqEnds
<1>3. f \in [1..(Len(t) + 1) -> X] /\ \A j \in 1..Len(t) : Leads(t[j], f[j], f[j + 1])
    BY <1>1 DEF FlowsBy, X
<1>4. 1 \in 1..Len(t) /\ 2 \in 1..(Len(t) + 1) /\ 1 \in 1..(Len(t) + 1) /\ 1 + 1 = 2
    BY <1>2
<1>5. f[1] \in X /\ f[2] \in X /\ Leads(Head(t), f[1], f[2])
    BY <1>2, <1>3, <1>4
<1>6. \A j \in 1..(Len(Tail(t)) + 1) : j + 1 \in 1..(Len(t) + 1)
    BY <1>2
<1>7. g \in [1..(Len(Tail(t)) + 1) -> X]
    BY <1>3, <1>6
<1>8. ASSUME NEW j \in 1..Len(Tail(t)) PROVE Leads(Tail(t)[j], g[j], g[j + 1])
    <2>1. j + 1 \in 1..Len(t) /\ j \in 1..(Len(Tail(t)) + 1) /\ j + 1 \in 1..(Len(Tail(t)) + 1)
        BY <1>2
    <2>2. g[j] = f[j + 1] /\ g[j + 1] = f[(j + 1) + 1] /\ Tail(t)[j] = t[j + 1]
        BY <2>1, <1>2
    <2> HIDE DEF g
    <2> QED BY <2>1, <2>2, <1>3
<1>9. g[1] = f[2]
    BY <1>2
<1> HIDE DEF g
<1>10. Flow(Tail(t), f[2])
    <2>1. FlowsBy(Tail(t), g)
        BY <1>7, <1>8 DEF FlowsBy, X
    <2> QED BY <1>9, <2>1 DEF Flow
<1> QED BY <1>1, <1>5, <1>10 DEF X

\* Entries before others whose last one leads to what those find.
LEMMA FlowJoin ==
    ASSUME NEW S, NEW es \in Seq(S), NEW t \in Seq(S), NEW f, FlowsBy(es, f), Flow(t, f[Len(es) + 1])
    PROVE  Flow(es \o t, f[1])
<1>1. PICK g : FlowsBy(t, g) /\ f[Len(es) + 1] = g[1]
    BY DEF Flow
<1> DEFINE n == Len(es)
           m == Len(t)
           u == es \o t
           X == Seq(Seq(Nat))
           h == [j \in 1..(n + m + 1) |-> IF j <= n THEN f[j] ELSE g[j - n]]
<1> HIDE DEF X
<1>2. /\ n \in Nat /\ m \in Nat /\ u \in Seq(S) /\ Len(u) = n + m
      /\ \A j \in 1..n : u[j] = es[j]
      /\ \A j \in (n + 1)..(n + m) : u[j] = t[j - n]
    OBVIOUS
<1>3. /\ f \in [1..(n + 1) -> X] /\ \A j \in 1..n : Leads(es[j], f[j], f[j + 1])
      /\ g \in [1..(m + 1) -> X] /\ \A j \in 1..m : Leads(t[j], g[j], g[j + 1])
    BY <1>1 DEF FlowsBy, X
<1> HIDE DEF n, m, u
<1>4. h \in [1..(n + m + 1) -> X]
    BY <1>2, <1>3
<1>5. ASSUME NEW j \in 1..(n + m) PROVE Leads(u[j], h[j], h[j + 1])
    <2>0. j \in 1..(n + m + 1) /\ j + 1 \in 1..(n + m + 1)
        BY <1>2
    <2>1. CASE j \in 1..n /\ j # n
        <3>1. h[j] = f[j] /\ h[j + 1] = f[j + 1]
            BY <1>2, <2>0, <2>1
        <3> QED BY <1>2, <1>3, <2>1, <3>1
    <2>2. CASE j = n
        <3>1. h[j] = f[j] /\ h[j + 1] = g[1] /\ j \in 1..n
            BY <1>2, <2>0, <2>2
        <3>2. h[j + 1] = f[j + 1]
            BY <1>1, <2>2, <3>1 DEF n
        <3> QED BY <1>2, <1>3, <3>1, <3>2
    <2>3. CASE j \in (n + 1)..(n + m)
        <3>1. j - n \in 1..m /\ (j + 1) - n = (j - n) + 1 /\ ~(j <= n) /\ ~(j + 1 <= n)
            BY <1>2, <2>3
        <3>2. h[j] = g[j - n] /\ h[j + 1] = g[(j - n) + 1]
            BY <2>0, <3>1
        <3> HIDE DEF h
        <3> QED BY <1>2, <1>3, <2>3, <3>1, <3>2
    <2> QED BY <1>2, <2>1, <2>2, <2>3
<1>6. h[1] = f[1]
    <2>1. CASE n = 0
        <3>1. h[1] = g[1]
            BY <1>2, <2>1
        <3> QED BY <1>1, <2>1, <3>1 DEF n
    <2>2. CASE n # 0
        BY <1>2, <2>2
    <2> QED BY <2>1, <2>2
<1> HIDE DEF h
<1>7. FlowsBy(u, h)
    BY <1>2, <1>4, <1>5 DEF FlowsBy, X
<1> QED BY <1>6, <1>7 DEF Flow, u

\* One entry before others.
LEMMA FlowOne ==
    ASSUME NEW S, NEW e \in S, NEW t \in Seq(S), NEW top \in Seq(Seq(Nat)),
           NEW after \in Seq(Seq(Nat)), Leads(e, top, after), Flow(t, after)
    PROVE  Flow(<<e>> \o t, top)
<1> DEFINE f == [j \in 1..2 |-> IF j = 1 THEN top ELSE after]
           es == <<e>>
           X == Seq(Seq(Nat))
<1> HIDE DEF X
<1>1. es \in Seq(S) /\ Len(es) = 1 /\ es[1] = e
    OBVIOUS
<1>2. top \in X /\ after \in X
    BY DEF X
<1>3. f[1] = top /\ f[2] = after /\ f \in [1..2 -> X]
    BY <1>2
<1> HIDE DEF f, es
<1>4. FlowsBy(es, f)
    <2>1. Len(es) + 1 = 2 /\ 1..Len(es) = {1} /\ 1 + 1 = 2
        BY <1>1
    <2>2. f \in [1..(Len(es) + 1) -> X]
        BY <1>3, <2>1
    <2>3. \A j \in 1..Len(es) : Leads(es[j], f[j], f[j + 1])
        BY <1>1, <1>3, <2>1
    <2> QED BY <2>2, <2>3 DEF FlowsBy, X
<1>5. f[Len(es) + 1] = after
    BY <1>1, <1>3
<1>6. Flow(es \o t, f[1])
    BY <1>1, <1>4, <1>5, FlowJoin
<1> QED BY <1>3, <1>6 DEF es

-----------------------------------------------------------------------------
(* The invariant.                                                           *)

\* An operand of a call, as what was put around it is named.
IsOperand(o) ==
    \E c \in DOMAIN mir : \E k \in DOMAIN mir[c].kids :
        mir[c].op \in CallOps /\ o = Operand(c, k)

TodoEntry ==
    [do : {"function", "value", "leave", "coerce", "branch", "start", "end"}, at : Seq(Nat)]
EntryStands(e) ==
    /\ e.do = "function" => \E k \in DOMAIN functions : e.at = <<k>>
    /\ e.do \in {"value", "leave", "branch", "start", "end"} => e.at \in DOMAIN mir
    /\ e.do = "branch" => mir[e.at].op = "if"
    /\ e.do = "coerce" => IsOperand(e.at)
TodoStands(t) == t \in Seq(TodoEntry) /\ \A e \in Range(t) : EntryStands(e)

InstrFits(i) ==
    /\ Direct => i.args = OwnArguments(i)
    /\ i.op = "call" => i.value \in DOMAIN mir /\ mir[i.value].op = "call"
CodeFits(c) == \E S : (\A b \in DOMAIN c : c[b] \in Seq(S)) /\ \A i \in S : InstrFits(i)

Emission ==
    /\ emission \in Emissions
    /\ emission = "waiting" => todo = <<>> /\ stack = <<>> /\ code = <<>>
    /\ emission # "waiting" => stage = "lowered"
    /\ TodoStands(todo) /\ stack \in Seq(Seq(Nat)) /\ CodeFits(code)
    /\ emission = "emitting" /\ Direct => Stacked
    /\ emission = "crashed" => ~Direct
    /\ emission = "uncaught" => HasUnsolvedParam \/ WrapsOther

EmissionInv == LoweringInv /\ Resolution /\ Shaped /\ Emission

\* Nothing the invariant says of the module changes while it is emitted.
LEMMA SameMir ==
    ASSUME UNCHANGED backendVars
    PROVE  /\ Direct' = Direct /\ HasUnsolvedParam' = HasUnsolvedParam /\ WrapsOther' = WrapsOther
           /\ \A t : TodoStands(t)' = TodoStands(t)
           /\ \A c : CodeFits(c)' = CodeFits(c)
           /\ \A s, t : Rests(s, t)' = Rests(s, t)
<1>1. UNCHANGED <<program, types, targets, mir, casts, functions, stage>>
    BY DEF backendVars, resolverVars, loweringVars
<1>2. Plain' = Plain /\ \A p : At(p)' = At(p) /\ Kind(p)' = Kind(p)
    BY <1>1, SameTree
<1>3. Direct' = Direct
    BY <1>1, <1>2 DEF Direct, Uses
<1>4. HasUnsolvedParam' = HasUnsolvedParam
    <2>1. FunctionNodes' = FunctionNodes
        BY <1>1 DEF FunctionNodes
    <2>2. \A f : ParamTypes(f)' = ParamTypes(f)
        BY <1>2 DEF ParamTypes
    <2> QED BY <1>2, <2>1, <2>2 DEF HasUnsolvedParam
<1>5. WrapsOther' = WrapsOther
    BY <1>1 DEF WrapsOther
<1>6. \A o : Wraps(o)' = Wraps(o) /\ Bitcasts(o)' = Bitcasts(o) /\ IsOperand(o)' = IsOperand(o)
    BY <1>1 DEF Wraps, Bitcasts, CastOf, GivenType, IsOperand
<1>7. \A o, v : Coerced(o, v)' = Coerced(o, v)
    BY <1>6 DEF Coerced
<1>8. \A i : OwnArguments(i)' = OwnArguments(i)
    BY <1>1, <1>6, <1>7 DEF OwnArguments
<1>9. \A i : InstrFits(i)' = InstrFits(i)
    BY <1>1, <1>3, <1>8 DEF InstrFits
<1>10. \A t : TodoStands(t)' = TodoStands(t)
    <2>1. \A e : EntryStands(e)' = EntryStands(e)
        BY <1>1, <1>6 DEF EntryStands
    <2> QED BY <2>1 DEF TodoStands
<1>11. \A s, t : Rests(s, t)' = Rests(s, t)
    <2>1. \A p : Own(p)' = Own(p)
        BY <1>1, <1>7 DEF Own
    <2>2. \A p, a, b : Adds(p, a, b)' = Adds(p, a, b)
        BY <1>1 DEF Adds, Pushing
    <2>3. \A p, a, b : LeadsOn(p, a, b)' = LeadsOn(p, a, b)
        BY <2>1, <2>2 DEF LeadsOn
    <2>4. \A o, a, b : LeadsAround(o, a, b)' = LeadsAround(o, a, b)
        BY <1>1, <1>7 DEF LeadsAround
    <2>5. \A p, a : HasCondition(p, a)' = HasCondition(p, a)
        BY <1>1 DEF HasCondition
    <2>6. \A e, a, b : Leads(e, a, b)' = Leads(e, a, b)
        BY <2>2, <2>3, <2>4, <2>5 DEF Leads
    <2>7. \A t, f : FlowsBy(t, f)' = FlowsBy(t, f)
        BY <2>6 DEF FlowsBy
    <2>8. \A t, top : Flow(t, top)' = Flow(t, top)
        BY <2>7 DEF Flow
    <2> QED BY <2>8 DEF Rests
<1>12. \A c : CodeFits(c)' = CodeFits(c)
    BY <1>9 DEF CodeFits
<1> QED BY <1>3, <1>4, <1>5, <1>10, <1>11, <1>12

LEMMA SameModuleBuilt ==
    ASSUME EmissionInv, UNCHANGED backendVars
    PROVE  LoweringInv' /\ Resolution' /\ Shaped' /\ stage' = stage
<1>1. UNCHANGED resolverVars /\ UNCHANGED <<targets, mir, stage>>
    BY DEF backendVars, resolverVars, loweringVars
<1>2. LoweringInv'
    BY LoweringStutter DEF EmissionInv
<1>3. Resolution'
    BY <1>1, ResolutionSame DEF EmissionInv
<1>4. Shaped'
    BY <1>1, ShapedSame DEF EmissionInv
<1> QED BY <1>1, <1>2, <1>3, <1>4

\* A step that goes on with the emission.
LEMMA GoesOn ==
    ASSUME EmissionInv, UNCHANGED backendVars, stage = "lowered", emission' \in {"emitting", "emitted"},
           TodoStands(todo'), stack' \in Seq(Seq(Nat)), CodeFits(code'),
           emission' = "emitting" /\ Direct => Rests(stack', todo')
    PROVE  EmissionInv'
<1>1. LoweringInv' /\ Resolution' /\ Shaped' /\ stage' = stage
    BY SameModuleBuilt
<1>2. /\ Direct' = Direct
      /\ \A t : TodoStands(t)' = TodoStands(t)
      /\ \A c : CodeFits(c)' = CodeFits(c)
      /\ \A s, t : Rests(s, t)' = Rests(s, t)
    BY SameMir
<1>3. TodoStands(todo)' /\ CodeFits(code)'
    BY <1>2 DEF TodoStands, CodeFits
<1>4. emission' = "emitting" /\ Direct' => Stacked'
    BY <1>2 DEF Stacked, Rests
<1> QED BY <1>1, <1>3, <1>4 DEF EmissionInv, Emission, Emissions

LEMMA Breaks ==
    ASSUME EmissionInv, stage = "lowered", NEW how, Break(how),
           \/ how = "crashed" /\ ~Direct
           \/ how = "uncaught" /\ (HasUnsolvedParam \/ WrapsOther)
    PROVE  EmissionInv'
<1>1. UNCHANGED backendVars /\ UNCHANGED <<todo, stack, code>> /\ emission' = how
    BY DEF Break
<1>2. LoweringInv' /\ Resolution' /\ Shaped' /\ stage' = stage
    BY <1>1, SameModuleBuilt
<1>3. /\ Direct' = Direct /\ HasUnsolvedParam' = HasUnsolvedParam /\ WrapsOther' = WrapsOther
      /\ \A t : TodoStands(t)' = TodoStands(t)
      /\ \A c : CodeFits(c)' = CodeFits(c)
    BY <1>1, SameMir
<1>4. TodoStands(todo)'
    BY <1>1, <1>3 DEF EmissionInv, Emission, TodoStands
<1>5. CodeFits(code)'
    BY <1>1, <1>3 DEF EmissionInv, Emission, CodeFits
<1> QED BY <1>1, <1>2, <1>3, <1>4, <1>5 DEF EmissionInv, Emission, Emissions

\* The entry at the head of the traversal.
LEMMA AtTodo ==
    ASSUME EmissionInv, NEW dos, Emitting(dos)
    PROVE  /\ todo \in Seq(TodoEntry) /\ Head(todo) \in TodoEntry /\ Head(todo).do \in dos
           /\ EntryStands(Head(todo)) /\ Value = Head(todo).at /\ Value \in Seq(Nat)
           /\ Tail(todo) \in Seq(TodoEntry) /\ TodoStands(Tail(todo))
           /\ stage = "lowered" /\ emission = "emitting" /\ stack \in Seq(Seq(Nat))
           /\ CodeFits(code) /\ MirTyped /\ Shaped
<1>1. todo # <<>> /\ emission = "emitting" /\ Head(todo).do \in dos
    BY DEF Emitting
<1>2. todo \in Seq(TodoEntry) /\ \A e \in Range(todo) : EntryStands(e)
    BY DEF EmissionInv, Emission, TodoStands
<1>3. <<>> \in Seq(TodoEntry)
    OBVIOUS
<1>4. Range(todo) = {Head(todo)} \union Range(Tail(todo)) /\ Head(todo) \in TodoEntry
    BY <1>1, <1>2, <1>3, RangePut
<1>5. Tail(todo) \in Seq(TodoEntry)
    BY <1>1, <1>2, SeqEnds
<1>6. Value \in Seq(Nat)
    BY <1>4 DEF Value, TodoEntry
<1> QED BY <1>1, <1>2, <1>4, <1>5, <1>6 DEF Value, TodoStands, EmissionInv, Emission, LoweringInv, Built

LEMMA AtStack ==
    ASSUME EmissionInv, NEW dos, Emitting(dos), Direct
    PROVE  \E below \in Seq(Seq(Nat)), top \in Seq(Seq(Nat)), after \in Seq(Seq(Nat)) :
               /\ stack = below \o top /\ Leads(Head(todo), top, after)
               /\ Flow(Tail(todo), after)
<1>1. todo \in Seq(TodoEntry) /\ todo # <<>> /\ emission = "emitting"
    BY AtTodo DEF Emitting
<1>2. Stacked
    BY <1>1 DEF EmissionInv, Emission
<1>3. PICK below \in Seq(Seq(Nat)), top \in Seq(Seq(Nat)) : stack = below \o top /\ Flow(todo, top)
    BY <1>2 DEF Stacked, Rests
<1>4. PICK after \in Seq(Seq(Nat)) :
          top \in Seq(Seq(Nat)) /\ Leads(Head(todo), top, after) /\ Flow(Tail(todo), after)
    BY <1>1, <1>3, FlowTail
<1> QED BY <1>3, <1>4

LEMMA TodoPut ==
    ASSUME NEW es \in Seq(TodoEntry), todo \in Seq(TodoEntry), todo # <<>>,
           TodoStands(Tail(todo)), \A e \in Range(es) : EntryStands(e)
    PROVE  TodoStands(es \o Tail(todo))
<1>1. /\ es \o Tail(todo) \in Seq(TodoEntry)
      /\ Range(es \o Tail(todo)) = Range(es) \union Range(Tail(todo))
    BY RangePut
<1>2. \A e \in Range(Tail(todo)) : EntryStands(e)
    BY DEF TodoStands
<1> QED BY <1>1, <1>2 DEF TodoStands

\* One entry, and entries of the same kind, that stand.
LEMMA EntriesStand ==
    ASSUME NEW ps \in Seq(DOMAIN mir), MirTyped
    PROVE  /\ Entries("value", ps) \in Seq(TodoEntry) /\ Len(Entries("value", ps)) = Len(ps)
           /\ \A j \in 1..Len(ps) : Entries("value", ps)[j] = Entry("value", ps[j])
           /\ \A e \in Range(Entries("value", ps)) : EntryStands(e)
<1>1. DOMAIN mir \subseteq Seq(Nat)
    BY DEF MirTyped
<1> DEFINE es == Entries("value", ps)
<1>2. Len(ps) \in Nat /\ DOMAIN ps = 1..Len(ps) /\ \A j \in 1..Len(ps) : ps[j] \in DOMAIN mir
    OBVIOUS
<1>3. es = [j \in 1..Len(ps) |-> Entry("value", ps[j])]
    BY <1>2 DEF Entries
<1>4. \A p \in DOMAIN mir : Entry("value", p) \in TodoEntry /\ EntryStands(Entry("value", p))
    BY <1>1 DEF Entry, TodoEntry, EntryStands
<1>5. es \in Seq(TodoEntry) /\ Len(es) = Len(ps)
    BY <1>2, <1>3, <1>4
<1>6. \A e \in Range(es) : EntryStands(e)
    BY <1>2, <1>3, <1>4 DEF Range
<1> QED BY <1>2, <1>3, <1>5, <1>6

LEMMA OneEntry ==
    ASSUME NEW e \in TodoEntry
    PROVE  <<e>> \in Seq(TodoEntry) /\ Range(<<e>>) = {e} /\ Len(<<e>>) = 1 /\ <<e>>[1] = e
BY DEF Range

LEMMA CodeAdds ==
    ASSUME NEW c, CodeFits(c), NEW b, NEW T, NEW is \in Seq(T), \A i \in T : InstrFits(i)
    PROVE  CodeFits([c EXCEPT ![b] = @ \o is]) /\ CodeFits(With(c, b, is))
<1>1. PICK S : (\A x \in DOMAIN c : c[x] \in Seq(S)) /\ \A i \in S : InstrFits(i)
    BY DEF CodeFits
<1> DEFINE U == S \union T
<1>2. Seq(S) \subseteq Seq(U) /\ Seq(T) \subseteq Seq(U)
    BY SeqGrows
<1>3. \A i \in U : InstrFits(i)
    BY <1>1
<1> HIDE DEF U
<1>4. (\A x \in DOMAIN c : c[x] \in Seq(U)) /\ is \in Seq(U)
    BY <1>1, <1>2
<1>5. \A s \in Seq(U) : s \o is \in Seq(U)
    BY <1>4
<1> DEFINE d == [c EXCEPT ![b] = @ \o is]
           w == With(c, b, is)
<1>6. \A x \in DOMAIN d : d[x] \in Seq(U)
    BY <1>4, <1>5
<1>7. \A x \in DOMAIN w : w[x] \in Seq(U)
    BY <1>4 DEF With
<1> HIDE DEF d, w
<1> QED BY <1>3, <1>6, <1>7 DEF CodeFits, d, w

-----------------------------------------------------------------------------
(* The steps.                                                               *)

\* What is below the top may be taken for nothing known.
LEMMA Whatever ==
    ASSUME NEW s \in Seq(Seq(Nat))
    PROVE  <<>> \in Seq(Seq(Nat)) /\ s = s \o <<>>
OBVIOUS

LEMMA PushedOn ==
    ASSUME NEW below \in Seq(Seq(Nat)), NEW top \in Seq(Seq(Nat)), NEW v \in Seq(Nat)
    PROVE  /\ Append(below \o top, v) = below \o Append(top, v)
           /\ (below \o top) \o <<v>> = below \o Append(top, v)
           /\ Append(top, v) \in Seq(Seq(Nat)) /\ below \o top \in Seq(Seq(Nat))
<1> DEFINE X == Seq(Nat)
           l == Append(below \o top, v)
           r == below \o Append(top, v)
           m == (below \o top) \o <<v>>
           n == Len(below) + Len(top)
<1> HIDE DEF X, n
<1>1. below \in Seq(X) /\ top \in Seq(X) /\ v \in X
    BY DEF X
<1>2. /\ l \in Seq(X) /\ r \in Seq(X) /\ m \in Seq(X) /\ n \in Nat
      /\ Len(l) = n + 1 /\ Len(r) = n + 1 /\ Len(m) = n + 1
      /\ Append(top, v) \in Seq(X) /\ below \o top \in Seq(X)
    BY <1>1 DEF n
<1>3. ASSUME NEW j \in 1..(n + 1) PROVE l[j] = r[j] /\ m[j] = l[j]
    <2>1. CASE j = n + 1
        BY <1>1, <2>1 DEF n
    <2>2. CASE j \in 1..Len(below)
        BY <1>1, <2>2 DEF n
    <2>3. CASE j \in (Len(below) + 1)..n
        BY <1>1, <2>3 DEF n
    <2> DEFINE a == Len(below)
               b == Len(top)
    <2>4. a \in Nat /\ b \in Nat /\ n = a + b
        BY <1>1 DEF n
    <2> HIDE DEF a, b
    <2>6. j = n + 1 \/ j \in 1..a \/ j \in (a + 1)..n
        BY <2>4
    <2>5. j = n + 1 \/ j \in 1..Len(below) \/ j \in (Len(below) + 1)..n
        BY <2>6 DEF a
    <2> QED BY <2>1, <2>2, <2>3, <2>5
<1> HIDE DEF l, r, m, n
<1>4. /\ l = [j \in 1..(n + 1) |-> l[j]] /\ r = [j \in 1..(n + 1) |-> r[j]]
      /\ m = [j \in 1..(n + 1) |-> m[j]]
    BY <1>2
<1>5. l = r /\ m = r
    <2>1. l = r
        BY <1>3, <1>4
    <2>2. m = l
        BY <1>3, <1>4
    <2> QED BY <2>1, <2>2
<1> QED BY <1>2, <1>5 DEF l, r, m, X

\* A step that takes the head and pushes values on what is left.
LEMMA Adding ==
    ASSUME NEW rest \in Seq(Seq(Nat)), NEW above \in Seq(Seq(Nat)), NEW p \in Seq(Nat),
           NEW after \in Seq(Seq(Nat)), Adds(p, above, after), NEW pushed, NEW t,
           Flow(t, after), pushed = <<p>> \/ (pushed = <<>> /\ ~Pushing(p))
    PROVE  Rests((rest \o above) \o pushed, t)
<1> DEFINE s == (rest \o above) \o pushed
<1>1. rest \o above \in Seq(Seq(Nat))
    BY PushedOn
<1>2. s \in Seq(Seq(Nat))
    <2>1. CASE pushed = <<p>>
        <3>1. s = rest \o Append(above, p) /\ Append(above, p) \in Seq(Seq(Nat))
            BY <2>1, PushedOn
        <3> QED BY <3>1
    <2>2. CASE pushed = <<>>
        BY <1>1, <2>2, Whatever
    <2> QED BY <2>1, <2>2
<1>3. CASE after = <<>>
    <2>1. s = s \o after /\ after \in Seq(Seq(Nat))
        BY <1>2, <1>3, Whatever
    <2> HIDE DEF s
    <2> QED BY <1>2, <2>1 DEF s, Rests
<1>4. CASE Pushing(p) /\ after = Append(above, p)
    <2>1. s = rest \o after
        <3>1. pushed = <<p>>
            BY <1>4
        <3> QED BY <1>4, <3>1, PushedOn
    <2> HIDE DEF s
    <2> QED BY <2>1 DEF s, Rests
<1> QED BY <1>3, <1>4 DEF Adds

LEMMA LeafEmitted ==
    ASSUME EmissionInv, EmitLeaf
    PROVE  EmissionInv'
<1>1. /\ Emitting({"value"}) /\ stack' = Append(stack, Value) /\ todo' = Tail(todo)
      /\ UNCHANGED <<backendVars, emission, block, code>>
    BY DEF EmitLeaf, Emits
<1>2. /\ Head(todo).do = "value" /\ Value = Head(todo).at /\ Value \in Seq(Nat)
      /\ TodoStands(Tail(todo)) /\ stage = "lowered" /\ emission = "emitting"
      /\ stack \in Seq(Seq(Nat)) /\ CodeFits(code)
    BY <1>1, AtTodo
<1>3. stack' \in Seq(Seq(Nat))
    BY <1>1, <1>2
<1>4. ASSUME Direct PROVE Rests(stack', todo')
    <2>1. PICK below \in Seq(Seq(Nat)), top \in Seq(Seq(Nat)), after \in Seq(Seq(Nat)) :
              /\ stack = below \o top /\ Leads(Head(todo), top, after)
              /\ Flow(Tail(todo), after)
        BY <1>1, <1>4, AtStack
    <2>2. Adds(Value, top, after)
        BY <1>2, <2>1 DEF Leads
    <2>3. stack' = (below \o top) \o <<Value>>
        BY <1>1, <1>2, <2>1, PushedOn
    <2>4. Rests((below \o top) \o <<Value>>, Tail(todo))
        BY <1>2, <2>1, <2>2, Adding
    <2> QED BY <1>1, <2>3, <2>4
<1> QED BY <1>1, <1>2, <1>3, <1>4, GoesOn

\* The head takes nothing off, and finds what its entries find.
LEMMA RestsOn ==
    ASSUME NEW below \in Seq(Seq(Nat)), NEW top \in Seq(Seq(Nat)), NEW t, Flow(t, top)
    PROVE  Rests(below \o top, t)
BY DEF Rests

LEMMA NothingOn ==
    ASSUME NEW s \in Seq(Seq(Nat)), NEW t, Flow(t, <<>>)
    PROVE  Rests(s, t)
<1>1. s = s \o <<>> /\ <<>> \in Seq(Seq(Nat))
    BY Whatever
<1> DEFINE e == <<>>
<1>2. s = s \o e /\ e \in Seq(Seq(Nat)) /\ Flow(t, e)
    BY <1>1
<1> HIDE DEF e
<1> QED BY <1>2 DEF Rests

\* Operands, each of which pushes one value.
LEMMA OperandsFlow ==
    ASSUME MirTyped, NEW ps \in Seq(DOMAIN mir), \A k \in 1..Len(ps) : Pushing(ps[k]),
           NEW top \in Seq(Seq(Nat)), NEW t \in Seq(TodoEntry), Flow(t, top \o ps)
    PROVE  Flow(Entries("value", ps) \o t, top)
<1> DEFINE X == Seq(Nat)
           n == Len(ps)
           es == Entries("value", ps)
           f == [j \in 1..(n + 1) |-> top \o Beginning(ps, j - 1)]
<1>1. /\ es \in Seq(TodoEntry) /\ Len(es) = n /\ n \in Nat
      /\ \A j \in 1..n : es[j] = Entry("value", ps[j])
    BY EntriesStand
<1>2. ps \in Seq(X) /\ top \in Seq(X)
    <2>1. Seq(DOMAIN mir) \subseteq Seq(X)
        BY SeqGrows DEF MirTyped
    <2> QED BY <2>1
<1> HIDE DEF X, es
<1>3. \A k \in 0..n : top \o Beginning(ps, k) \in Seq(X)
    <2>1. \A k \in 0..n : Beginning(ps, k) \in Seq(X)
        BY <1>2, BeginningIs
    <2> QED BY <1>2, <2>1
<1>4. top \o Beginning(ps, 0) = top /\ top \o Beginning(ps, n) = top \o ps
    <2>1. Beginning(ps, 0) = <<>> /\ Beginning(ps, n) = ps
        BY <1>2, BeginningIs
    <2> QED BY <1>2, <2>1, ConcatNothing
<1>5. \A k \in 1..n : Append(top \o Beginning(ps, k - 1), ps[k]) = top \o Beginning(ps, k)
    BY <1>2, ConcatNext
<1> DEFINE b(k) == top \o Beginning(ps, k)
<1>6. /\ \A k \in 0..n : b(k) \in Seq(X)
      /\ b(0) = top /\ b(n) = top \o ps
      /\ \A k \in 1..n : Append(b(k - 1), ps[k]) = b(k)
    BY <1>3, <1>4, <1>5
<1>7. f = [j \in 1..(n + 1) |-> b(j - 1)]
    OBVIOUS
<1> HIDE DEF b, f, n
<1>8. f \in [1..(n + 1) -> Seq(X)]
    <2>1. \A j \in 1..(n + 1) : j - 1 \in 0..n
        BY <1>1
    <2> QED BY <1>6, <1>7, <2>1
<1>9. ASSUME NEW j \in 1..n PROVE Leads(es[j], f[j], f[j + 1])
    <2>1. j \in 1..(n + 1) /\ j + 1 \in 1..(n + 1) /\ (j + 1) - 1 = j
        BY <1>1
    <2>2. f[j] = b(j - 1) /\ f[j + 1] = b(j)
        BY <1>7, <2>1
    <2>3. Pushing(ps[j]) /\ f[j + 1] = Append(f[j], ps[j])
        BY <1>6, <2>2 DEF n
    <2>4. es[j].do = "value" /\ es[j].at = ps[j]
        BY <1>1 DEF Entry
    <2> QED BY <2>3, <2>4 DEF Leads, Adds
<1>10. f[1] = top /\ f[n + 1] = top \o ps
    <2>1. 1 \in 1..(n + 1) /\ n + 1 \in 1..(n + 1) /\ 1 - 1 = 0 /\ (n + 1) - 1 = n
        BY <1>1
    <2> QED BY <1>6, <1>7, <2>1
<1>11. FlowsBy(es, f)
    BY <1>1, <1>8, <1>9 DEF FlowsBy, X
<1>12. Flow(es \o t, f[1])
    BY <1>1, <1>10, <1>11, FlowJoin
<1> QED BY <1>10, <1>12 DEF es

\* Statements and functions, which find nothing and whose values are not used.
LEMMA StatementsFlow ==
    ASSUME NEW es \in Seq(TodoEntry), \A j \in 1..Len(es) : es[j].do \in {"value", "function"},
           NEW t \in Seq(TodoEntry), Flow(t, <<>>)
    PROVE  Flow(es \o t, <<>>)
<1> DEFINE e == <<>>
           n == Len(es)
           f == [j \in 1..(n + 1) |-> e]
           X == Seq(Seq(Nat))
<1>1. n \in Nat /\ e \in X /\ Flow(t, e)
    OBVIOUS
<1>2. \A j \in 1..n : Leads(es[j], e, e)
    BY DEF Leads, Adds
<1> HIDE DEF e, X, n
<1>3. 1 \in 1..(n + 1) /\ n + 1 \in 1..(n + 1)
      /\ \A j \in 1..n : j \in 1..(n + 1) /\ j + 1 \in 1..(n + 1)
    BY <1>1
<1>4. /\ f \in [1..(n + 1) -> X] /\ f[1] = e /\ f[n + 1] = e
      /\ \A j \in 1..n : Leads(es[j], f[j], f[j + 1])
    BY <1>1, <1>2, <1>3
<1> HIDE DEF f
<1>5. FlowsBy(es, f) /\ Flow(t, f[n + 1])
    BY <1>1, <1>4 DEF FlowsBy, X, n
<1>6. Flow(es \o t, f[1])
    BY <1>5, FlowJoin DEF n
<1> QED BY <1>4, <1>6 DEF e

LEMMA NothingLeft == Flow(<<>>, <<>>)
<1> DEFINE f == [j \in 1..1 |-> <<>>]
<1>1. f \in [1..1 -> Seq(Seq(Nat))] /\ f[1] = <<>>
    OBVIOUS
<1>2. Len(<<>>) + 1 = 1 /\ 1..Len(<<>>) = {}
    OBVIOUS
<1> HIDE DEF f
<1>3. FlowsBy(<<>>, f)
    BY <1>1, <1>2 DEF FlowsBy
<1> QED BY <1>1, <1>3 DEF Flow

\* The operands of a value, as paths.
LEMMA KidsTyped ==
    ASSUME MirTyped, NEW p \in DOMAIN mir
    PROVE  /\ p \in Seq(Nat) /\ mir[p].kids \in Seq(DOMAIN mir) /\ mir[p].kids \in Seq(Seq(Nat))
           /\ Len(mir[p].kids) \in Nat
           /\ \A k \in 1..Len(mir[p].kids) : mir[p].kids[k] \in Seq(Nat)
<1> DEFINE X == Seq(Nat)
           kids == mir[p].kids
<1>1. DOMAIN mir \subseteq X /\ kids \in Seq(DOMAIN mir)
    BY DEF MirTyped, MirKids
<1>2. Seq(DOMAIN mir) \subseteq Seq(X)
    BY <1>1, SeqGrows
<1> HIDE DEF X, kids
<1>3. p \in X /\ kids \in Seq(X)
    BY <1>1, <1>2
<1>4. Len(kids) \in Nat /\ \A k \in 1..Len(kids) : kids[k] \in X
    BY <1>3
<1> QED BY <1>1, <1>3, <1>4 DEF X, kids

LEMMA OperandPath ==
    ASSUME NEW c \in Seq(Nat), NEW k \in Nat
    PROVE  /\ Operand(c, k) \in Seq(Nat) /\ CallWith(Operand(c, k)) = c /\ Last(Operand(c, k)) = k
           /\ WrapperOf(Operand(c, k)) \in Seq(Nat) /\ BitcastOf(Operand(c, k)) \in Seq(Nat)
           /\ Front(WrapperOf(Operand(c, k))) = Operand(c, k)
           /\ Front(BitcastOf(Operand(c, k))) = Operand(c, k)
<1> DEFINE t == <<0, k>>
           o == c \o t
<1>1. t \in Seq(Nat) /\ Len(t) = 2 /\ t[2] = k
    OBVIOUS
<1> HIDE DEF t
<1>2. o \in Seq(Nat) /\ Len(o) = Len(c) + 2 /\ Len(c) \in Nat /\ o[Len(c) + 2] = k
    <2>1. Len(c) \in Nat
        OBVIOUS
    <2>2. o \in Seq(Nat) /\ Len(o) = Len(c) + 2
        BY <1>1, LastOfStackIs
    <2> DEFINE n == Len(c)
    <2>3. \A i \in 1..(n + Len(t)) : o[i] = IF i <= n THEN c[i] ELSE t[i - n]
        BY <1>1, ConcatProperties
    <2> HIDE DEF n
    <2>4. n + 2 \in 1..(n + Len(t)) /\ ~(n + 2 <= n) /\ (n + 2) - n = 2
        BY <1>1, <2>1 DEF n
    <2>5. o[n + 2] = t[2]
        BY <2>3, <2>4
    <2> QED BY <1>1, <2>1, <2>2, <2>5 DEF n
<1>3. Without(o, 2) = c
    BY <1>1, LastOfStackIs
<1>4. CallWith(o) = c
    BY <1>3 DEF CallWith, Without
<1>5. Last(o) = k
    BY <1>2 DEF Last
<1>6. Operand(c, k) = o
    BY DEF Operand, t
<1> HIDE DEF o
<1>7. /\ Append(o, 1) \in Seq(Nat) /\ Append(o, 2) \in Seq(Nat)
      /\ Front(Append(o, 1)) = o /\ Front(Append(o, 2)) = o
    BY <1>2, ConcatOne
<1> QED BY <1>2, <1>4, <1>5, <1>6, <1>7 DEF WrapperOf, BitcastOf

LEMMA CoercedPath ==
    ASSUME NEW c \in Seq(Nat), NEW k \in Nat, NEW v \in Seq(Nat)
    PROVE  Coerced(Operand(c, k), v) \in Seq(Nat)
BY OperandPath DEF Coerced

LEMMA OwnTyped ==
    ASSUME MirTyped, NEW p \in DOMAIN mir
    PROVE  Own(p) \in Seq(Seq(Nat)) /\ Len(Own(p)) = Len(mir[p].kids)
<1> DEFINE X == Seq(Nat)
           kids == mir[p].kids
<1>1. p \in X /\ kids \in Seq(X) /\ Len(kids) \in Nat /\ \A k \in 1..Len(kids) : kids[k] \in X
    BY KidsTyped
<1>2. \A k \in 1..Len(kids) : Coerced(Operand(p, k), kids[k]) \in X
    BY <1>1, CoercedPath
<1>3. DOMAIN kids = 1..Len(kids)
    BY <1>1
<1>4. CASE mir[p].op \in CallOps
    <2>1. Own(p) = [k \in 1..Len(kids) |-> Coerced(Operand(p, k), kids[k])]
        BY <1>3, <1>4 DEF Own
    <2> HIDE DEF X, kids
    <2>2. Own(p) \in Seq(X) /\ Len(Own(p)) = Len(kids)
        BY <1>1, <1>2, <2>1
    <2> QED BY <2>2 DEF X, kids
<1>5. CASE mir[p].op \notin CallOps
    BY <1>1, <1>5 DEF Own
<1> QED BY <1>4, <1>5

\* Of the modules with a value for each operand, every operand of an
\* instruction pushes one.
LEMMA DirectPushes ==
    ASSUME Direct, MirTyped, NEW p \in DOMAIN mir
    PROVE  /\ mir[p].op \notin {"block", "if"} =>
                  \A k \in 1..Len(mir[p].kids) : Pushing(mir[p].kids[k])
           /\ mir[p].op = "if" => Pushing(mir[p].kids[1])
           /\ mir[p].op \notin {"%", "method"}
<1>1. \A v \in Range(Uses(p)) : Pushing(v)
    BY DEF Direct, Pushing
<1>2. CASE mir[p].op \notin {"block", "if"}
    <2>1. Uses(p) = mir[p].kids
        BY <1>2 DEF Uses
    <2>2. DOMAIN mir[p].kids = 1..Len(mir[p].kids)
        BY KidsTyped
    <2> QED BY <1>1, <1>2, <2>1, <2>2 DEF Range, Direct
<1>3. CASE mir[p].op = "if"
    <2>1. Uses(p) = <<mir[p].kids[1]>>
        BY <1>3 DEF Uses
    <2>2. mir[p].kids[1] \in Range(<<mir[p].kids[1]>>)
        BY DEF Range
    <2> QED BY <1>1, <1>3, <2>1, <2>2
<1>4. CASE mir[p].op = "block"
    BY <1>4
<1> QED BY <1>2, <1>3, <1>4 DEF Direct

\* The entry that ends the visit of a value.
LEMMA LeaveFlow ==
    ASSUME MirTyped, NEW p \in DOMAIN mir, NEW top \in Seq(Seq(Nat)), NEW after \in Seq(Seq(Nat)),
           Adds(p, top, after), NEW t \in Seq(TodoEntry), Flow(t, after)
    PROVE  /\ Flow(<<Entry("leave", p)>> \o t, top \o Own(p))
           /\ <<Entry("leave", p)>> \o t \in Seq(TodoEntry)
<1> DEFINE e == Entry("leave", p)
<1>1. e \in TodoEntry /\ e.do = "leave" /\ e.at = p
    BY KidsTyped DEF Entry, TodoEntry
<1>2. top \o Own(p) \in Seq(Seq(Nat))
    BY OwnTyped, LastOfStackIs
<1>3. Leads(e, top \o Own(p), after)
    <2>1. LeadsOn(p, top \o Own(p), after)
        BY DEF LeadsOn
    <2> QED BY <1>1, <2>1 DEF Leads
<1> HIDE DEF e
<1>4. <<e>> \o t \in Seq(TodoEntry)
    BY <1>1
<1>5. Flow(<<e>> \o t, top \o Own(p))
    BY <1>1, <1>2, <1>3, FlowOne
<1> QED BY <1>4, <1>5 DEF e

LEMMA RangeAppend ==
    ASSUME NEW S, NEW s \in Seq(S), NEW x \in S
    PROVE  Range(Append(s, x)) = Range(s) \union {x}
<1> DEFINE t == Append(s, x)
           n == Len(s)
<1>1. n \in Nat /\ DOMAIN s = 1..n /\ DOMAIN t = 1..(n + 1)
      /\ t[n + 1] = x /\ \A i \in 1..n : t[i] = s[i]
    OBVIOUS
<1> HIDE DEF t, n
<1>2. \A i : i \in 1..(n + 1) <=> i \in 1..n \/ i = n + 1
    BY <1>1
<1> QED BY <1>1, <1>2 DEF Range, t

\* The entries of a value: its operands', and its own.
LEMMA Unfolds ==
    ASSUME MirTyped, NEW p \in DOMAIN mir, NEW es \in Seq(TodoEntry),
           \A e \in Range(es) : EntryStands(e)
    PROVE  /\ es \o <<Entry("leave", p)>> \in Seq(TodoEntry)
           /\ \A e \in Range(es \o <<Entry("leave", p)>>) : EntryStands(e)
           /\ \A t \in Seq(TodoEntry) :
                 (es \o <<Entry("leave", p)>>) \o t = es \o (<<Entry("leave", p)>> \o t)
<1> DEFINE e == Entry("leave", p)
           l == <<e>>
<1>1. e \in TodoEntry /\ EntryStands(e)
    BY KidsTyped DEF Entry, TodoEntry, EntryStands
<1> HIDE DEF e
<1>2. l \in Seq(TodoEntry)
    BY <1>1, OneEntry
<1> HIDE DEF l
<1>3. es \o l \in Seq(TodoEntry)
    BY <1>2
<1>4. Range(es \o l) = Range(es) \union {e}
    <2>1. es \o l = Append(es, e)
        BY <1>1, ConcatOne DEF l
    <2>2. Range(Append(es, e)) = Range(es) \union {e}
        BY <1>1, RangeAppend
    <2> QED BY <2>1, <2>2
<1>5. \A t \in Seq(TodoEntry) : (es \o l) \o t = es \o (l \o t)
    BY <1>2, ConcatAssociative
<1> QED BY <1>1, <1>3, <1>4, <1>5 DEF l, e

\* A step that replaces the head by entries of its own.
LEMMA Replaces ==
    ASSUME EmissionInv, NEW dos, Emitting(dos), UNCHANGED <<backendVars, emission, stack>>,
           CodeFits(code'), NEW es \in Seq(TodoEntry), \A e \in Range(es) : EntryStands(e),
           todo' = es \o Tail(todo),
           \A top, after \in Seq(Seq(Nat)) :
               Direct /\ Leads(Head(todo), top, after) /\ Flow(Tail(todo), after)
                   => Flow(es \o Tail(todo), top)
    PROVE  EmissionInv'
<1>1. /\ todo \in Seq(TodoEntry) /\ TodoStands(Tail(todo)) /\ stage = "lowered"
      /\ emission = "emitting" /\ stack \in Seq(Seq(Nat)) /\ todo # <<>>
    BY AtTodo DEF Emitting
<1>2. TodoStands(todo')
    BY <1>1, TodoPut
<1>3. ASSUME Direct PROVE Rests(stack', todo')
    <2>1. PICK below \in Seq(Seq(Nat)), top \in Seq(Seq(Nat)), after \in Seq(Seq(Nat)) :
              /\ stack = below \o top /\ Leads(Head(todo), top, after)
              /\ Flow(Tail(todo), after)
        BY <1>3, AtStack
    <2>2. Flow(es \o Tail(todo), top)
        BY <1>3, <2>1
    <2> QED BY <2>1, <2>2, RestsOn
<1> QED BY <1>1, <1>2, <1>3, GoesOn

\* A step whose entries find nothing, as what is left does.
LEMMA Restarts ==
    ASSUME EmissionInv, NEW dos, Emitting(dos), UNCHANGED <<backendVars, emission, stack>>,
           CodeFits(code'), NEW es \in Seq(TodoEntry), \A e \in Range(es) : EntryStands(e),
           todo' = es \o Tail(todo),
           \A top, after : Leads(Head(todo), top, after) => after = <<>>,
           Direct /\ Flow(Tail(todo), <<>>) => Flow(es \o Tail(todo), <<>>)
    PROVE  EmissionInv'
<1>1. /\ todo \in Seq(TodoEntry) /\ TodoStands(Tail(todo)) /\ stage = "lowered"
      /\ emission = "emitting" /\ stack \in Seq(Seq(Nat)) /\ todo # <<>>
    BY AtTodo DEF Emitting
<1>2. TodoStands(todo')
    BY <1>1, TodoPut
<1>3. ASSUME Direct PROVE Rests(stack', todo')
    <2>1. PICK top \in Seq(Seq(Nat)), after \in Seq(Seq(Nat)) :
              Leads(Head(todo), top, after) /\ Flow(Tail(todo), after)
        BY <1>3, AtStack
    <2>2. after = <<>>
        BY <2>1
    <2>3. Flow(es \o Tail(todo), <<>>)
        BY <1>3, <2>1, <2>2
    <2> QED BY <1>1, <2>3, NothingOn
<1> QED BY <1>1, <1>2, <1>3, GoesOn

\* A step that is done with the head.
LEMMA Proceeds ==
    ASSUME EmissionInv, NEW dos, Emitting(dos), UNCHANGED <<backendVars, emission>>,
           CodeFits(code'), stack' \in Seq(Seq(Nat)), todo' = Tail(todo),
           \A below, top, after \in Seq(Seq(Nat)) :
               Direct /\ stack = below \o top
                   /\ Leads(Head(todo), top, after) /\ Flow(Tail(todo), after)
                   => Rests(stack', Tail(todo))
    PROVE  EmissionInv'
<1>1. TodoStands(Tail(todo)) /\ stage = "lowered" /\ emission = "emitting"
    BY AtTodo
<1>2. ASSUME Direct PROVE Rests(stack', todo')
    BY <1>2, AtStack
<1> QED BY <1>1, <1>2, GoesOn

LEMMA OperandsEmitted ==
    ASSUME EmissionInv, EmitOperands
    PROVE  EmissionInv'
<1> DEFINE p == Value
           kids == mir[p].kids
           l == <<Entry("leave", p)>>
           t == Tail(todo)
           es == Entries("value", kids)
<1>1. /\ Emitting({"value"}) /\ todo' = (es \o l) \o t
      /\ UNCHANGED <<backendVars, emission, stack, block, code>>
      /\ mir[p].op \in BinaryOps \union {"%", "ret"}
    BY DEF EmitOperands, Emits
<1>2. /\ Head(todo).do = "value" /\ p = Head(todo).at /\ EntryStands(Head(todo))
      /\ t \in Seq(TodoEntry) /\ CodeFits(code) /\ MirTyped
    BY <1>1, AtTodo
<1>3. p \in DOMAIN mir /\ mir[p].op \notin {"block", "if"} \union CallOps
    BY <1>1, <1>2 DEF EntryStands, BinaryOps, CallOps
<1> HIDE DEF p, t
<1>4. kids \in Seq(DOMAIN mir)
    BY <1>2, <1>3, KidsTyped
<1>5. es \in Seq(TodoEntry) /\ \A e \in Range(es) : EntryStands(e)
    BY <1>2, <1>4, EntriesStand
<1> HIDE DEF es, l, kids
<1>6. /\ es \o l \in Seq(TodoEntry) /\ \A e \in Range(es \o l) : EntryStands(e)
      /\ (es \o l) \o t = es \o (l \o t)
    BY <1>2, <1>3, <1>5, Unfolds DEF l
<1>7. ASSUME NEW top \in Seq(Seq(Nat)), NEW after \in Seq(Seq(Nat)),
             Direct, Leads(Head(todo), top, after), Flow(t, after)
      PROVE  Flow((es \o l) \o t, top)
    <2>1. Adds(p, top, after)
        BY <1>2, <1>7 DEF Leads
    <2>2. Flow(l \o t, top \o Own(p)) /\ l \o t \in Seq(TodoEntry)
        BY <1>2, <1>3, <1>7, <2>1, LeaveFlow DEF l
    <2>3. Own(p) = kids
        BY <1>3 DEF Own, kids
    <2>4. \A k \in 1..Len(kids) : Pushing(kids[k])
        BY <1>2, <1>3, <1>7, DirectPushes DEF kids
    <2>5. Flow(es \o (l \o t), top)
        BY <1>2, <1>4, <2>2, <2>3, <2>4, OperandsFlow DEF es
    <2> QED BY <1>6, <2>5
<1>8. CodeFits(code') /\ UNCHANGED <<backendVars, emission, stack>>
    BY <1>1, <1>2
<1> DEFINE u == es \o l
<1>9. /\ u \in Seq(TodoEntry) /\ \A e \in Range(u) : EntryStands(e)
      /\ todo' = u \o Tail(todo)
      /\ \A top, after \in Seq(Seq(Nat)) :
            Direct /\ Leads(Head(todo), top, after) /\ Flow(Tail(todo), after)
                => Flow(u \o Tail(todo), top)
    BY <1>1, <1>6, <1>7 DEF t
<1> HIDE DEF u
<1> QED BY <1>1, <1>8, <1>9, Replaces

\* Instructions at the end of the current block.
LEMMA CodePut ==
    ASSUME CodeFits(code), NEW T, NEW is \in Seq(T), \A i \in T : InstrFits(i)
    PROVE  CodeFits(Emitted(is))
<1>1. PICK b, c : b = block /\ c = code
    OBVIOUS
<1>2. CodeFits([c EXCEPT ![b] = @ \o is])
    BY <1>1, CodeAdds
<1> QED BY <1>1, <1>2 DEF Emitted

LEMMA OneInstr ==
    ASSUME CodeFits(code), NEW i, InstrFits(i)
    PROVE  CodeFits(Emitted(<<i>>))
<1> DEFINE T == {i}
           is == <<i>>
<1>1. is \in Seq(T) /\ \A j \in T : InstrFits(j)
    OBVIOUS
<1> HIDE DEF is, T
<1>2. CodeFits(Emitted(is))
    BY <1>1, CodePut
<1> QED BY <1>2 DEF is

LEMMA EmptyBlock ==
    ASSUME NEW c, CodeFits(c), NEW b
    PROVE  CodeFits(With(c, b, <<>>))
<1> DEFINE e == <<>>
           T == {}
<1>1. e \in Seq(T) /\ \A i \in T : InstrFits(i)
    OBVIOUS
<1> HIDE DEF e, T
<1>2. CodeFits(With(c, b, e))
    BY <1>1, CodeAdds
<1> QED BY <1>2 DEF e

LEMMA TakenOff ==
    ASSUME NEW S, NEW below \in Seq(S), NEW above \in Seq(S), NEW own \in Seq(S)
    PROVE  /\ LastOfStack(below \o (above \o own), Len(own)) = own
           /\ Without(below \o (above \o own), Len(own)) = below \o above
           /\ Len(below \o (above \o own)) = Len(below \o above) + Len(own)
           /\ Len(below \o above) \in Nat
<1> DEFINE s == below \o above
<1>1. s \in Seq(S) /\ Len(s) \in Nat
    OBVIOUS
<1>2. s \o own = below \o (above \o own)
    BY ConcatAssociative
<1> HIDE DEF s
<1>3. /\ LastOfStack(s \o own, Len(own)) = own /\ Without(s \o own, Len(own)) = s
      /\ Len(s \o own) = Len(s) + Len(own)
    BY <1>1, LastOfStackIs
<1> QED BY <1>1, <1>2, <1>3 DEF s

\* Pops the operands of an instruction that takes its own, coerced.
LEMMA Builds ==
    ASSUME EmissionInv, Emitting({"leave"}), mir[Value].op \in BinaryOps \union {"ret", "call", "ccall"},
           NEW n, n = Len(mir[Value].kids), NEW pushed \in Seq(Seq(Nat)),
           pushed = <<Value>> \/ (pushed = <<>> /\ ~Pushing(Value)),
           Build(n, mir[Value].op, Value, pushed)
    PROVE  EmissionInv'
<1> DEFINE p == Value
           op == mir[p].op
           X == Seq(Nat)
<1>1. /\ Head(todo).do = "leave" /\ p = Head(todo).at /\ EntryStands(Head(todo))
      /\ CodeFits(code) /\ MirTyped /\ stage = "lowered" /\ stack \in Seq(X)
    BY AtTodo
<1>2. p \in DOMAIN mir
    BY <1>1 DEF EntryStands
<1>3. n \in Nat /\ Len(Own(p)) = n /\ Own(p) \in Seq(X) /\ p \in X /\ pushed \in Seq(X)
    BY <1>1, <1>2, KidsTyped, OwnTyped
<1>4. op \in BinaryOps \union {"ret", "call", "ccall"} /\ Build(n, op, p, pushed)
    OBVIOUS
<1> HIDE DEF X, op, p
<1>5. ASSUME NEW below \in Seq(X), NEW top \in Seq(X), NEW after \in Seq(X), Direct,
             stack = below \o top, Leads(Head(todo), top, after), Flow(Tail(todo), after)
      PROVE  /\ ~(Len(stack) < n) /\ Top(n) = Own(p)
             /\ Rests(Without(stack, n) \o pushed, Tail(todo))
    <2>1. LeadsOn(p, top, after)
        BY <1>1, <1>5 DEF Leads
    <2>2. PICK above \in Seq(X) : top = above \o Own(p) /\ Adds(p, above, after)
        BY <2>1 DEF LeadsOn, X
    <2>0. PICK own \in Seq(X) : own = Own(p) /\ Len(own) = n
        BY <1>3
    <2>3. stack = below \o (above \o own)
        BY <1>5, <2>0, <2>2
    <2>4. /\ LastOfStack(stack, n) = Own(p) /\ Without(stack, n) = below \o above
          /\ Len(stack) = Len(below \o above) + n /\ Len(below \o above) \in Nat
        <3>1. /\ LastOfStack(below \o (above \o own), Len(own)) = own
              /\ Without(below \o (above \o own), Len(own)) = below \o above
              /\ Len(below \o (above \o own)) = Len(below \o above) + Len(own)
              /\ Len(below \o above) \in Nat
            BY TakenOff
        <3> QED BY <2>0, <2>3, <3>1
    <2>5. ~(Len(stack) < n)
        <3> DEFINE m == Len(below \o above)
        <3>1. m \in Nat /\ Len(stack) = m + n
            BY <2>4
        <3> HIDE DEF m
        <3> QED BY <1>3, <3>1
    <2>6. Rests((below \o above) \o pushed, Tail(todo))
        <3>1. pushed = <<p>> \/ (pushed = <<>> /\ ~Pushing(p))
            BY DEF p
        <3> QED BY <1>3, <1>5, <2>2, <3>1, Adding DEF X
    <2> QED BY <2>4, <2>5, <2>6 DEF Top
<1>6. ASSUME Len(stack) < n PROVE EmissionInv'
    <2>1. Break("crashed")
        BY <1>4, <1>6 DEF Build
    <2>2. ~Direct
        <3> SUFFICES ASSUME Direct PROVE FALSE
            OBVIOUS
        <3>1. PICK below \in Seq(X), top \in Seq(X), after \in Seq(X) :
                  /\ stack = below \o top /\ Leads(Head(todo), top, after)
                  /\ Flow(Tail(todo), after)
            BY AtStack DEF X
        <3> QED BY <1>5, <1>6, <3>1
    <2> QED BY <1>1, <2>1, <2>2, Breaks
<1>7. ASSUME ~(Len(stack) < n) PROVE EmissionInv'
    <2> DEFINE i == Instr(op, p, Top(n))
    <2>1. /\ code' = Emitted(<<i>>) /\ stack' = Without(stack, n) \o pushed
          /\ todo' = Tail(todo) /\ UNCHANGED <<backendVars, emission, block>>
        BY <1>4, <1>7 DEF Build
    <2>2. stack' \in Seq(X)
        <3>1. n \in 0..Len(stack)
            BY <1>1, <1>3, <1>7
        <3>2. Without(stack, n) \in Seq(X)
            BY <1>1, <3>1, Popping
        <3> QED BY <1>3, <2>1, <3>2
    <2>3. InstrFits(i)
        <3>1. ASSUME Direct PROVE Top(n) = Own(p)
            <4>1. PICK below \in Seq(X), top \in Seq(X), after \in Seq(X) :
                      /\ stack = below \o top /\ Leads(Head(todo), top, after)
                      /\ Flow(Tail(todo), after)
                BY <3>1, AtStack DEF X
            <4> QED BY <1>5, <3>1, <4>1
        <3>2. i.op = op /\ i.value = p /\ i.args = Top(n)
            BY DEF Instr
        <3> HIDE DEF i
        <3>3. OwnArguments(i) = Own(p)
            BY <1>4, <3>2 DEF OwnArguments, Own, op, BinaryOps, CallOps
        <3> QED BY <1>2, <3>1, <3>2, <3>3 DEF InstrFits, op
    <2>4. CodeFits(code')
        <3> HIDE DEF i
        <3>1. CodeFits(Emitted(<<i>>))
            BY <1>1, <2>3, OneInstr
        <3> QED BY <2>1, <3>1
    <2> HIDE DEF i
    <2>5. \A below, top, after \in Seq(Seq(Nat)) :
              Direct /\ stack = below \o top
                  /\ Leads(Head(todo), top, after) /\ Flow(Tail(todo), after)
                  => Rests(stack', Tail(todo))
        <3> SUFFICES ASSUME NEW below \in Seq(Seq(Nat)), NEW top \in Seq(Seq(Nat)),
                            NEW after \in Seq(Seq(Nat)), Direct, stack = below \o top,
                            Leads(Head(todo), top, after), Flow(Tail(todo), after)
                     PROVE  Rests(stack', Tail(todo))
            OBVIOUS
        <3>1. Rests(Without(stack, n) \o pushed, Tail(todo))
            BY <1>5 DEF X
        <3> QED BY <2>1, <3>1
    <2> QED BY <2>1, <2>2, <2>4, <2>5, Proceeds DEF X
<1> QED BY <1>6, <1>7

\* The value a leave or a visit is at.
LEMMA AtValue ==
    ASSUME EmissionInv, NEW do \in {"value", "leave", "branch", "start", "end"}, Emitting({do})
    PROVE  /\ Value \in DOMAIN mir /\ Value \in Seq(Nat) /\ Head(todo).do = do
           /\ Head(todo).at = Value /\ MirTyped /\ CodeFits(code)
           /\ stack \in Seq(Seq(Nat)) /\ stage = "lowered" /\ Tail(todo) \in Seq(TodoEntry)
           /\ Shape(Value, mir[Value])
<1>1. /\ Head(todo).do \in {do} /\ EntryStands(Head(todo)) /\ Value = Head(todo).at
      /\ MirTyped /\ CodeFits(code) /\ stage = "lowered" /\ stack \in Seq(Seq(Nat))
      /\ Value \in Seq(Nat) /\ Shaped /\ Tail(todo) \in Seq(TodoEntry)
    BY AtTodo
<1>2. Value \in DOMAIN mir
    BY <1>1 DEF EntryStands
<1> QED BY <1>1, <1>2 DEF Shaped

LEMMA ValueBuilt ==
    ASSUME EmissionInv, EmitBinary \/ EmitReturn \/ EmitCall
    PROVE  EmissionInv'
<1> DEFINE op == mir[Value].op
           kids == mir[Value].kids
<1>1. Emitting({"leave"})
    BY DEF EmitBinary, EmitReturn, EmitCall, Emits
<1>2. /\ Value \in DOMAIN mir /\ Value \in Seq(Nat) /\ Shape(Value, mir[Value])
      /\ MirTyped
    BY <1>1, AtValue
<1>3. PICK v \in Seq(Nat) : v = Value
    BY <1>2
<1>4. <<v>> \in Seq(Seq(Nat)) /\ <<>> \in Seq(Seq(Nat))
    OBVIOUS
<1>5. CASE EmitBinary
    <2>1. op \in BinaryOps /\ Build(2, op, Value, <<v>>)
        BY <1>3, <1>5 DEF EmitBinary, Emits
    <2>2. 2 = Len(kids)
        BY <1>2, <2>1 DEF Shape
    <2> QED BY <1>1, <1>3, <1>4, <2>1, <2>2, Builds
<1>6. CASE EmitReturn
    <2>1. op = "ret" /\ Build(Len(kids), op, Value, <<v>>)
        BY <1>3, <1>6 DEF EmitReturn, Emits
    <2> QED BY <1>1, <1>3, <1>4, <2>1, Builds
<1>7. CASE EmitCall
    <2>1. /\ op \in {"call", "ccall"}
          /\ Build(Len(kids), op, Value, IF mir[Value].type = "Unit" THEN <<>> ELSE <<v>>)
        BY <1>3, <1>7 DEF EmitCall, Emits
    <2>2. CASE mir[Value].type = "Unit"
        <3>1. Build(Len(kids), op, Value, <<>>) /\ ~Pushing(Value)
            BY <2>1, <2>2 DEF Pushing
        <3> QED BY <1>1, <1>4, <2>1, <3>1, Builds
    <2>3. CASE mir[Value].type # "Unit"
        <3>1. Build(Len(kids), op, Value, <<v>>)
            BY <2>1, <2>3
        <3> QED BY <1>1, <1>3, <1>4, <2>1, <3>1, Builds
    <2> QED BY <2>2, <2>3
<1> QED BY <1>5, <1>6, <1>7

LEMMA ModEmitted ==
    ASSUME EmissionInv, EmitMod
    PROVE  EmissionInv'
<1>1. /\ Emitting({"leave"}) /\ todo' = Tail(todo) /\ mir[Value].op = "%"
      /\ UNCHANGED <<backendVars, emission, stack, block, code>>
    BY DEF EmitMod, Emits
<1>2. Value \in DOMAIN mir /\ MirTyped /\ CodeFits(code) /\ stack \in Seq(Seq(Nat))
    BY <1>1, AtValue
<1>3. ~Direct
    BY <1>1, <1>2, DirectPushes
<1> QED BY <1>1, <1>2, <1>3, Proceeds

LEMMA MethodEmitted ==
    ASSUME EmissionInv, EmitMethod
    PROVE  EmissionInv'
<1> DEFINE crash == Len(mir[Value].kids) > 1 \/ Len(stack) < 2
<1>1. /\ Emitting({"leave"}) /\ mir[Value].op = "method"
      /\ IF crash THEN Break("crashed")
         ELSE /\ code' = Emitted(<<Instr("method", Value, Top(1))>>)
              /\ stack' = Append(Without(stack, 2), Value)
              /\ todo' = Tail(todo)
              /\ UNCHANGED <<backendVars, emission, block>>
    BY DEF EmitMethod, Emits
<1>2. /\ Value \in DOMAIN mir /\ MirTyped /\ CodeFits(code) /\ stack \in Seq(Seq(Nat))
      /\ Value \in Seq(Nat) /\ stage = "lowered"
    BY <1>1, AtValue
<1>3. ~Direct
    BY <1>1, <1>2, DirectPushes
<1>4. CASE crash
    BY <1>1, <1>2, <1>3, <1>4, Breaks
<1>5. CASE ~crash
    <2> DEFINE i == Instr("method", Value, Top(1))
    <2>1. InstrFits(i)
        BY <1>3 DEF InstrFits, Instr
    <2> HIDE DEF i
    <2>2. CodeFits(code')
        <3>1. CodeFits(Emitted(<<i>>))
            BY <1>2, <2>1, OneInstr
        <3> QED BY <1>1, <1>5, <3>1 DEF i
    <2>3. stack' \in Seq(Seq(Nat))
        <3>1. 2 \in 0..Len(stack)
            <4>1. Len(stack) \in Nat /\ ~(Len(stack) < 2)
                BY <1>2, <1>5
            <4> QED BY <4>1
        <3>2. Without(stack, 2) \in Seq(Seq(Nat))
            BY <1>2, <3>1, Popping
        <3>3. Append(Without(stack, 2), Value) \in Seq(Seq(Nat))
            BY <1>2, <3>2
        <3> QED BY <1>1, <1>5, <3>3
    <2> QED BY <1>1, <1>3, <1>5, <2>2, <2>3, Proceeds
<1> QED BY <1>4, <1>5

LEMMA VTablesFit ==
    /\ VTables \in Seq({Instr("vtables.init", <<>>, <<>>)})
    /\ InstrFits(Instr("vtables.init", <<>>, <<>>))
<1> DEFINE i == Instr("vtables.init", <<>>, <<>>)
<1>1. i.op = "vtables.init" /\ i.args = <<>>
    BY DEF Instr
<1> HIDE DEF i
<1>2. VTables = <<i>> \/ VTables = <<>>
    BY DEF VTables, i
<1>3. VTables \in Seq({i})
    <2> DEFINE T == {i}
    <2>1. i \in T
        OBVIOUS
    <2> HIDE DEF T
    <2>2. <<i>> \in Seq(T) /\ <<>> \in Seq(T)
        BY <2>1
    <2> QED BY <1>2, <2>2 DEF T
<1>4. InstrFits(i)
    BY <1>1 DEF InstrFits, OwnArguments, CallOps
<1> QED BY <1>3, <1>4 DEF i

\* The body of a function, and a block.
LEMMA BlockEmitted ==
    ASSUME EmissionInv, EmitBlock \/ EmitIfBlock
    PROVE  EmissionInv'
<1> DEFINE dos == {"function", "value", "start"}
           ps == IF Head(todo).do = "function" THEN functions[Value[1]].body ELSE mir[Value].kids
           es == Entries("value", ps)
<1>1. /\ Emitting(dos) /\ todo' = es \o Tail(todo)
      /\ UNCHANGED <<backendVars, emission, stack>>
      /\ code' = With(code, Value, VTables) \/ code' = Emitted(VTables)
      /\ Head(todo).do = "value" => mir[Value].op = "block"
    BY DEF EmitBlock, EmitIfBlock, Emits, Emitting
<1>2. /\ Head(todo).do \in dos /\ EntryStands(Head(todo)) /\ Value = Head(todo).at
      /\ Value \in Seq(Nat) /\ MirTyped /\ CodeFits(code) /\ Shaped
      /\ Tail(todo) \in Seq(TodoEntry)
    BY <1>1, AtTodo
<1>3. ps \in Seq(DOMAIN mir)
    <2>1. CASE Head(todo).do = "function"
        <3>1. PICK k \in DOMAIN functions : Value = <<k>>
            BY <1>2, <2>1 DEF EntryStands
        <3>2. functions[k].body \in Seq(DOMAIN mir)
            <4> DEFINE S == [of : Seq(Nat), body : Seq(DOMAIN mir)]
            <4>1. functions \in Seq(S) /\ \A f \in S : f.body \in Seq(DOMAIN mir)
                BY <1>2 DEF MirTyped
            <4> HIDE DEF S
            <4>2. functions[k] \in S
                BY <4>1
            <4> QED BY <4>1, <4>2
        <3>3. Value[1] = k
            BY <3>1
        <3> QED BY <2>1, <3>2, <3>3
    <2>2. CASE Head(todo).do # "function"
        <3>1. Value \in DOMAIN mir
            BY <1>2, <2>2 DEF EntryStands
        <3> QED BY <1>2, <2>2, <3>1 DEF MirTyped, MirKids
    <2> QED BY <2>1, <2>2
<1> HIDE DEF ps
<1>4. /\ es \in Seq(TodoEntry) /\ \A e \in Range(es) : EntryStands(e)
      /\ \A j \in 1..Len(es) : es[j].do = "value"
    <2>1. /\ es \in Seq(TodoEntry) /\ Len(es) = Len(ps) /\ \A e \in Range(es) : EntryStands(e)
          /\ \A j \in 1..Len(ps) : es[j] = Entry("value", ps[j])
        BY <1>2, <1>3, EntriesStand
    <2>2. \A x : Entry("value", x).do = "value"
        BY DEF Entry
    <2> HIDE DEF es
    <2>3. \A j \in 1..Len(es) : es[j].do = "value"
        BY <2>1, <2>2
    <2> QED BY <2>1, <2>3
<1>5. CodeFits(code')
    <2> DEFINE i == Instr("vtables.init", <<>>, <<>>)
               T == {i}
    <2>1. VTables \in Seq(T) /\ \A j \in T : InstrFits(j)
        BY VTablesFit
    <2> HIDE DEF i, T
    <2>2. CodeFits(Emitted(VTables))
        BY <1>2, <2>1, CodePut
    <2>3. CodeFits(With(code, Value, VTables))
        <3>1. PICK b, c : b = Value /\ c = code
            OBVIOUS
        <3>2. PICK is \in Seq(T) : is = VTables
            BY <2>1
        <3>3. CodeFits(With(c, b, is))
            BY <1>2, <2>1, <3>1, CodeAdds
        <3> QED BY <3>1, <3>2, <3>3
    <2> QED BY <1>1, <2>2, <2>3
<1> HIDE DEF es
<1>6. ASSUME NEW top, NEW after, Leads(Head(todo), top, after) PROVE after = <<>>
    <2>1. CASE Head(todo).do = "value"
        <3>1. mir[Value].type = "none"
            BY <1>1, <1>2, <2>1 DEF EntryStands, Shaped, Shape
        <3>2. Adds(Value, top, after)
            BY <1>2, <1>6, <2>1 DEF Leads
        <3> QED BY <3>1, <3>2 DEF Adds, Pushing
    <2>2. CASE Head(todo).do # "value"
        BY <1>2, <1>6, <2>2 DEF Leads
    <2> QED BY <2>1, <2>2
<1>7. ASSUME Flow(Tail(todo), <<>>) PROVE Flow(es \o Tail(todo), <<>>)
    BY <1>2, <1>4, <1>7, StatementsFlow
<1> QED BY <1>1, <1>4, <1>5, <1>6, <1>7, Restarts

\* The condition, the branch on it, the block and the end of an if.
LEMMA IfFlow ==
    ASSUME NEW p, NEW q, NEW r, r = mir[p].kids[1], r \in Seq(Nat), Pushing(r),
           NEW es \in Seq(TodoEntry), Len(es) = 4,
           es[1] = Entry("value", r), es[2] = Entry("branch", p),
           es[3] = Entry("start", q), es[4] = Entry("end", p),
           NEW t \in Seq(TodoEntry), Flow(t, <<>>)
    PROVE  Flow(es \o t, <<>>)
<1> DEFINE e == <<>>
           c == <<r>>
           f == [j \in 1..5 |-> IF j = 2 THEN c ELSE e]
           X == Seq(Seq(Nat))
<1>1. e \in X /\ c \in X /\ c = Append(e, r)
    OBVIOUS
<1> HIDE DEF e, c, X
<1>2. f \in [1..5 -> X] /\ f[1] = e /\ f[2] = c /\ f[3] = e /\ f[4] = e /\ f[5] = e
    BY <1>1
<1> HIDE DEF f
<1>3. Leads(es[1], e, c)
    BY <1>1 DEF Leads, Adds, Entry
<1>4. Leads(es[2], c, e)
    <2>1. HasCondition(p, c)
        BY <1>1 DEF HasCondition, X
    <2> QED BY <2>1 DEF Leads, Entry, e
<1>5. Leads(es[3], e, e) /\ Leads(es[4], e, e)
    BY DEF Leads, Entry, e
<1>6. FlowsBy(es, f)
    <2>1. Len(es) + 1 = 5 /\ 1 + 1 = 2 /\ 2 + 1 = 3 /\ 3 + 1 = 4 /\ 4 + 1 = 5
        OBVIOUS
    <2>2. \A j \in 1..Len(es) : j = 1 \/ j = 2 \/ j = 3 \/ j = 4
        OBVIOUS
    <2>3. \A j \in 1..Len(es) : Leads(es[j], f[j], f[j + 1])
        BY <1>2, <1>3, <1>4, <1>5, <2>1, <2>2
    <2> QED BY <1>2, <2>1, <2>3 DEF FlowsBy, X
<1>7. f[Len(es) + 1] = e
    BY <1>2
<1>8. Flow(es \o t, f[1])
    BY <1>6, <1>7, FlowJoin DEF e
<1> QED BY <1>2, <1>8 DEF e

LEMMA IfEmitted ==
    ASSUME EmissionInv, EmitIf
    PROVE  EmissionInv'
<1> DEFINE p == Value
           kids == mir[p].kids
           es == <<Entry("value", kids[1]), Entry("branch", p), Entry("start", kids[2]),
                   Entry("end", p)>>
<1>1. /\ Emitting({"value"}) /\ mir[p].op = "if" /\ todo' = es \o Tail(todo)
      /\ UNCHANGED <<backendVars, emission, stack, block, code>>
    BY DEF EmitIf, Emits
<1>2. /\ p \in DOMAIN mir /\ Shape(p, mir[p]) /\ Head(todo).do = "value" /\ Head(todo).at = p
      /\ MirTyped /\ CodeFits(code) /\ Tail(todo) \in Seq(TodoEntry)
    BY <1>1, AtValue
<1>3. Len(kids) = 2 /\ ~Pushing(p)
    BY <1>1, <1>2 DEF Shape, Pushing
<1>4. kids[1] \in DOMAIN mir /\ kids[2] \in DOMAIN mir /\ DOMAIN mir \subseteq Seq(Nat)
    <2>1. kids \in Seq(DOMAIN mir) /\ DOMAIN mir \subseteq Seq(Nat)
        BY <1>2 DEF MirTyped, MirKids
    <2> HIDE DEF kids
    <2>2. 1 \in 1..Len(kids) /\ 2 \in 1..Len(kids)
        BY <1>3
    <2> QED BY <2>1, <2>2
<1> DEFINE a == Entry("value", kids[1])
           b == Entry("branch", p)
           c == Entry("start", kids[2])
           d == Entry("end", p)
<1>5. /\ a \in TodoEntry /\ EntryStands(a) /\ b \in TodoEntry /\ EntryStands(b)
      /\ c \in TodoEntry /\ EntryStands(c) /\ d \in TodoEntry /\ EntryStands(d)
    BY <1>1, <1>2, <1>4 DEF Entry, TodoEntry, EntryStands
<1> HIDE DEF a, b, c, d, kids, p
<1>6. es = <<a, b, c, d>>
    BY DEF a, b, c, d
<1> HIDE DEF es
<1>7. /\ es \in Seq(TodoEntry) /\ Len(es) = 4
      /\ es[1] = a /\ es[2] = b /\ es[3] = c /\ es[4] = d
    BY <1>5, <1>6
<1>8. \A e \in Range(es) : EntryStands(e)
    <2>1. DOMAIN es = 1..4
        BY <1>7
    <2>2. \A j \in 1..4 : j = 1 \/ j = 2 \/ j = 3 \/ j = 4
        OBVIOUS
    <2> QED BY <1>5, <1>7, <2>1, <2>2 DEF Range
<1>9. ASSUME NEW top, NEW after, Leads(Head(todo), top, after) PROVE after = <<>>
    BY <1>2, <1>3, <1>9 DEF Leads, Adds
<1>10. ASSUME Direct, Flow(Tail(todo), <<>>) PROVE Flow(es \o Tail(todo), <<>>)
    <2>1. Pushing(kids[1])
        BY <1>1, <1>2, <1>10, DirectPushes DEF kids
    <2>2. PICK r : r = kids[1]
        OBVIOUS
    <2>3. PICK q : q = kids[2]
        OBVIOUS
    <2>4. PICK v : v = p
        OBVIOUS
    <2>5. es[1] = Entry("value", r) /\ es[2] = Entry("branch", v) /\ es[3] = Entry("start", q)
          /\ es[4] = Entry("end", v) /\ r = mir[v].kids[1] /\ r \in Seq(Nat) /\ Pushing(r)
        BY <1>4, <1>7, <2>1, <2>2, <2>3, <2>4 DEF a, b, c, d, kids
    <2> QED BY <1>2, <1>7, <1>10, <2>5, IfFlow
<1>11. UNCHANGED <<backendVars, emission, stack>> /\ CodeFits(code')
    BY <1>1, <1>2
<1> QED BY <1>1, <1>7, <1>8, <1>9, <1>10, <1>11, Restarts

LEMMA IfEndEmitted ==
    ASSUME EmissionInv, EmitIfEnd
    PROVE  EmissionInv'
<1>1. /\ Emitting({"end"}) /\ todo' = Tail(todo)
      /\ UNCHANGED <<backendVars, emission, stack, code>>
    BY DEF EmitIfEnd
<1>2. Head(todo).do = "end" /\ CodeFits(code) /\ stack \in Seq(Seq(Nat))
    BY <1>1, AtValue
<1>3. ASSUME NEW top, NEW after, Leads(Head(todo), top, after), Flow(Tail(todo), after)
      PROVE  Rests(stack, Tail(todo))
    <2>1. after = <<>>
        BY <1>2, <1>3 DEF Leads
    <2> QED BY <1>2, <1>3, <2>1, NothingOn
<1> QED BY <1>1, <1>2, <1>3, Proceeds

LEMMA BranchEmitted ==
    ASSUME EmissionInv, EmitBranch
    PROVE  EmissionInv'
<1> DEFINE p == Value
           i == Instr("br", p, Top(1))
           X == Seq(Nat)
<1>1. /\ Emitting({"branch"})
      /\ IF stack = <<>> THEN Break("crashed")
         ELSE /\ code' = With(With(Emitted(<<i>>), IfEnd(p), <<>>), IfStart(p), <<>>)
              /\ stack' = Append(Without(stack, 1), p)
              /\ todo' = Tail(todo)
              /\ UNCHANGED <<backendVars, emission>>
    BY DEF EmitBranch
<1>2. /\ p \in DOMAIN mir /\ p \in X /\ Head(todo).do = "branch" /\ Head(todo).at = p
      /\ CodeFits(code) /\ stack \in Seq(X) /\ stage = "lowered"
    BY <1>1, AtValue
<1> HIDE DEF p, X
<1>3. ASSUME NEW below \in Seq(X), NEW top \in Seq(X), NEW after,
             stack = below \o top, Leads(Head(todo), top, after)
      PROVE  after = <<>> /\ stack # <<>> /\ Top(1) = <<mir[p].kids[1]>>
    <2>1. after = <<>> /\ HasCondition(p, top)
        BY <1>2, <1>3 DEF Leads
    <2>2. PICK above \in Seq(X) : top = Append(above, mir[p].kids[1])
        BY <2>1 DEF HasCondition, X
    <2>3. PICK v : v = mir[p].kids[1]
        OBVIOUS
    <2>4. v \in X
        <3>1. top[Len(above) + 1] = v /\ Len(above) + 1 \in 1..Len(top)
            BY <2>2, <2>3
        <3> QED BY <3>1
    <2>5. PICK own \in Seq(X) : own = <<v>> /\ Len(own) = 1
        <3> DEFINE u == <<v>>
        <3>1. u \in Seq(X) /\ u = <<v>> /\ Len(u) = 1
            BY <2>4
        <3> HIDE DEF u
        <3> QED BY <3>1
    <2>6. stack = below \o (above \o own)
        <3>1. above \o own = Append(above, v)
            BY <2>4, <2>5, ConcatOne
        <3> QED BY <1>3, <2>2, <2>3, <3>1
    <2>7. /\ LastOfStack(below \o (above \o own), Len(own)) = own
          /\ Len(below \o (above \o own)) = Len(below \o above) + Len(own)
          /\ Len(below \o above) \in Nat
        BY TakenOff
    <2>8. Top(1) = own
        BY <2>5, <2>6, <2>7 DEF Top
    <2>9. stack # <<>>
        <3>1. Len(stack) # 0
            BY <2>5, <2>6, <2>7
        <3> QED BY <3>1
    <2> QED BY <2>1, <2>3, <2>5, <2>8, <2>9
<1>4. CASE stack = <<>>
    <2>1. ~Direct
        <3> SUFFICES ASSUME Direct PROVE FALSE
            OBVIOUS
        <3>1. PICK below \in Seq(X), top \in Seq(X), after \in Seq(X) :
                  stack = below \o top /\ Leads(Head(todo), top, after)
            BY <1>1, AtStack DEF X
        <3> QED BY <1>3, <1>4, <3>1
    <2> QED BY <1>1, <1>2, <1>4, <2>1, Breaks
<1>5. CASE stack # <<>>
    <2>1. InstrFits(i)
        <3>1. ASSUME Direct PROVE Top(1) = <<mir[p].kids[1]>>
            <4>1. PICK below \in Seq(X), top \in Seq(X), after \in Seq(X) :
                      stack = below \o top /\ Leads(Head(todo), top, after)
                BY <1>1, <3>1, AtStack DEF X
            <4> QED BY <1>3, <4>1
        <3>2. i.op = "br" /\ i.value = p /\ i.args = Top(1)
            BY DEF Instr
        <3> HIDE DEF i
        <3>3. OwnArguments(i) = <<mir[p].kids[1]>>
            BY <3>2 DEF OwnArguments, CallOps
        <3> QED BY <3>1, <3>2, <3>3 DEF InstrFits
    <2> HIDE DEF i
    <2>2. CodeFits(code')
        <3>1. CodeFits(Emitted(<<i>>))
            BY <1>2, <2>1, OneInstr
        <3>2. PICK c, d, start, end : c = Emitted(<<i>>) /\ d = With(c, end, <<>>)
                                      /\ start = IfStart(p) /\ end = IfEnd(p)
            OBVIOUS
        <3>3. CodeFits(With(c, end, <<>>))
            BY <3>1, <3>2, EmptyBlock
        <3>4. CodeFits(With(d, start, <<>>))
            BY <3>2, <3>3, EmptyBlock
        <3> QED BY <1>1, <1>5, <3>2, <3>4
    <2>3. stack' \in Seq(X)
        <3>1. 1 \in 0..Len(stack)
            <4>1. Len(stack) \in Nat /\ Len(stack) # 0
                BY <1>2, <1>5
            <4> QED BY <4>1
        <3>2. Without(stack, 1) \in Seq(X)
            BY <1>2, <3>1, Popping
        <3> QED BY <1>1, <1>2, <1>5, <3>2
    <2>4. ASSUME NEW below \in Seq(X), NEW top \in Seq(X), NEW after,
                 stack = below \o top, Leads(Head(todo), top, after), Flow(Tail(todo), after)
          PROVE  Rests(stack', Tail(todo))
        <3>1. after = <<>>
            BY <1>3, <2>4
        <3>2. PICK s \in Seq(X) : s = stack'
            BY <2>3
        <3>3. Rests(s, Tail(todo))
            BY <2>4, <3>1, NothingOn DEF X
        <3> QED BY <3>2, <3>3
    <2> QED BY <1>1, <1>5, <2>2, <2>3, <2>4, Proceeds DEF X
<1> QED BY <1>4, <1>5

\* The arguments of a call, each with what is put around it.
LEMMA ArgumentsAre ==
    ASSUME MirTyped, NEW p \in DOMAIN mir, mir[p].op \in CallOps
    PROVE  /\ ArgumentEntries(p) \in Seq(TodoEntry)
           /\ Len(ArgumentEntries(p)) = 2 * Len(mir[p].kids)
           /\ \A k \in 1..Len(mir[p].kids) :
                 /\ ArgumentEntries(p)[2 * k - 1] = Entry("value", mir[p].kids[k])
                 /\ ArgumentEntries(p)[2 * k] = Entry("coerce", Operand(p, k))
           /\ \A e \in Range(ArgumentEntries(p)) : EntryStands(e)
<1> DEFINE kids == mir[p].kids
           n == Len(kids)
           es == ArgumentEntries(p)
           a(k) == Entry("value", kids[k])
           b(k) == Entry("coerce", Operand(p, k))
<1>1. n \in Nat /\ DOMAIN kids = 1..n /\ p \in Seq(Nat) /\ \A k \in 1..n : kids[k] \in DOMAIN mir
    <2>1. kids \in Seq(DOMAIN mir) /\ p \in Seq(Nat)
        BY KidsTyped
    <2> HIDE DEF kids
    <2> QED BY <2>1
<1>2. \A k \in 1..n : a(k) \in TodoEntry /\ EntryStands(a(k))
    <2>1. DOMAIN mir \subseteq Seq(Nat)
        BY DEF MirTyped
    <2> QED BY <1>1, <2>1 DEF Entry, TodoEntry, EntryStands
<1>3. \A k \in 1..n : b(k) \in TodoEntry /\ EntryStands(b(k))
    <2>1. \A k \in 1..n : Operand(p, k) \in Seq(Nat) /\ IsOperand(Operand(p, k))
        <3>1. \A k \in 1..n : k \in Nat
            BY <1>1
        <3>2. \A k \in 1..n : Operand(p, k) \in Seq(Nat)
            BY <1>1, <3>1, OperandPath
        <3> QED BY <1>1, <3>2 DEF IsOperand
    <2> QED BY <2>1 DEF Entry, TodoEntry, EntryStands
<1>4. es = [j \in 1..(2 * n) |-> IF j % 2 = 1 THEN a((j + 1) \div 2) ELSE b(j \div 2)]
    BY DEF ArgumentEntries
<1> HIDE DEF es, a, b, n, kids
<1>5. \A j \in 1..(2 * n) : (j + 1) \div 2 \in 1..n /\ (j % 2 = 1 \/ j \div 2 \in 1..n)
    BY <1>1
<1>6. \A j \in 1..(2 * n) : es[j] \in TodoEntry /\ EntryStands(es[j])
    BY <1>2, <1>3, <1>4, <1>5
<1>7. es \in Seq(TodoEntry) /\ Len(es) = 2 * n /\ DOMAIN es = 1..(2 * n)
    <2>1. 2 * n \in Nat
        BY <1>1
    <2> QED BY <1>4, <1>6, <2>1
<1>8. ASSUME NEW k \in 1..n PROVE es[2 * k - 1] = a(k) /\ es[2 * k] = b(k)
    <2>1. /\ 2 * k - 1 \in 1..(2 * n) /\ 2 * k \in 1..(2 * n)
          /\ (2 * k - 1) % 2 = 1 /\ (2 * k) % 2 # 1
          /\ ((2 * k - 1) + 1) \div 2 = k /\ (2 * k) \div 2 = k
        BY <1>1
    <2> QED BY <1>4, <2>1
<1>9. \A e \in Range(es) : EntryStands(e)
    BY <1>6, <1>7 DEF Range
<1> QED BY <1>7, <1>8, <1>9 DEF es, a, b, n, kids

LEMMA Halves ==
    ASSUME NEW n \in Nat, NEW j \in 1..(2 * n)
    PROVE  \E k \in 1..n : j = 2 * k - 1 \/ j = 2 * k
<1> DEFINE k == (j + 1) \div 2
<1>1. k \in 1..n /\ (j = 2 * k - 1 \/ j = 2 * k)
    OBVIOUS
<1> QED BY <1>1

\* Each argument pushes its value, which becomes the operand.
LEMMA ArgumentsFlow ==
    ASSUME MirTyped, NEW p \in DOMAIN mir, mir[p].op \in CallOps,
           \A k \in 1..Len(mir[p].kids) : Pushing(mir[p].kids[k]),
           NEW top \in Seq(Seq(Nat)), NEW t \in Seq(TodoEntry), Flow(t, top \o Own(p))
    PROVE  Flow(ArgumentEntries(p) \o t, top)
<1> DEFINE X == Seq(Nat)
           kids == mir[p].kids
           n == Len(kids)
           es == ArgumentEntries(p)
           g(k) == top \o Beginning(Own(p), k)
           h(k) == Append(g(k - 1), kids[k])
           f == [j \in 1..(2 * n + 1) |-> IF j % 2 = 1 THEN g((j - 1) \div 2) ELSE h(j \div 2)]
<1>1. n \in Nat /\ p \in X /\ \A k \in 1..n : kids[k] \in X /\ Pushing(kids[k])
    BY KidsTyped
<1>2. /\ es \in Seq(TodoEntry) /\ Len(es) = 2 * n
      /\ \A k \in 1..n : es[2 * k - 1] = Entry("value", kids[k])
                         /\ es[2 * k] = Entry("coerce", Operand(p, k))
    BY ArgumentsAre
<1>3. PICK own \in Seq(X) : own = Own(p) /\ Len(own) = n
    BY OwnTyped
<1>4. \A k \in 1..n : own[k] = Coerced(Operand(p, k), kids[k])
    <2>1. DOMAIN kids = 1..n
        BY KidsTyped
    <2> QED BY <1>3, <2>1 DEF Own
<1> HIDE DEF X, kids, es
<1>5. /\ \A k \in 0..n : g(k) \in Seq(X)
      /\ g(0) = top /\ g(n) = top \o Own(p)
      /\ \A k \in 1..n : g(k) = Append(g(k - 1), own[k])
    <2>0. top \in Seq(X)
        BY DEF X
    <2>1. \A k \in 0..n : g(k) \in Seq(X)
        <3>1. \A k \in 0..n : Beginning(own, k) \in Seq(X)
            BY <1>3, BeginningIs
        <3> QED BY <1>3, <2>0, <3>1
    <2>2. g(0) = top /\ g(n) = top \o Own(p)
        <3>1. Beginning(own, 0) = <<>> /\ Beginning(own, n) = own
            BY <1>3, BeginningIs
        <3> QED BY <1>3, <2>0, <3>1, ConcatNothing
    <2>3. \A k \in 1..n : g(k) = Append(g(k - 1), own[k])
        <3>1. \A k \in 1..n : Append(top \o Beginning(own, k - 1), own[k]) = top \o Beginning(own, k)
            BY <1>3, <2>0, ConcatNext
        <3> QED BY <1>3, <3>1
    <2> QED BY <2>1, <2>2, <2>3
<1> HIDE DEF g, n
<1>6. \A k \in 1..n : h(k) \in Seq(X) /\ h(k) = Append(g(k - 1), kids[k])
    <2> SUFFICES ASSUME NEW k \in 1..n PROVE h(k) \in Seq(X)
        OBVIOUS
    <2>1. k - 1 \in 0..n
        BY <1>1
    <2>2. g(k - 1) \in Seq(X) /\ kids[k] \in X
        BY <1>1, <1>5, <2>1 DEF X
    <2> QED BY <2>2
<1> HIDE DEF h
<1>7. /\ \A k \in 1..n : /\ 2 * k - 1 \in 1..(2 * n + 1) /\ 2 * k \in 1..(2 * n + 1)
                         /\ 2 * k + 1 \in 1..(2 * n + 1)
                         /\ (2 * k - 1) % 2 = 1 /\ (2 * k) % 2 # 1 /\ (2 * k + 1) % 2 = 1
                         /\ ((2 * k - 1) - 1) \div 2 = k - 1 /\ (2 * k) \div 2 = k
                         /\ ((2 * k + 1) - 1) \div 2 = k
    BY <1>1
<1>8. \A k \in 1..n : f[2 * k - 1] = g(k - 1) /\ f[2 * k] = h(k) /\ f[2 * k + 1] = g(k)
    BY <1>7
<1>9. f[1] = top /\ f[2 * n + 1] = top \o Own(p)
    <2>1. /\ 1 \in 1..(2 * n + 1) /\ 1 % 2 = 1 /\ (1 - 1) \div 2 = 0
          /\ 2 * n + 1 \in 1..(2 * n + 1) /\ (2 * n + 1) % 2 = 1 /\ ((2 * n + 1) - 1) \div 2 = n
        BY <1>1
    <2> QED BY <1>5, <2>1
<1>10. f \in [1..(2 * n + 1) -> Seq(X)]
    <2>1. \A j \in 1..(2 * n + 1) : IF j % 2 = 1 THEN (j - 1) \div 2 \in 0..n ELSE j \div 2 \in 1..n
        BY <1>1
    <2> QED BY <1>5, <1>6, <2>1
<1> HIDE DEF f
<1>11. ASSUME NEW k \in 1..n
       PROVE  /\ Leads(es[2 * k - 1], f[2 * k - 1], f[2 * k])
              /\ Leads(es[2 * k], f[2 * k], f[2 * k + 1])
    <2>1. Leads(es[2 * k - 1], f[2 * k - 1], f[2 * k])
        <3>1. /\ es[2 * k - 1].do = "value" /\ es[2 * k - 1].at = kids[k] /\ Pushing(kids[k])
            <4>1. es[2 * k - 1] = Entry("value", kids[k]) /\ Pushing(kids[k])
                BY <1>1, <1>2
            <4> QED BY <4>1 DEF Entry
        <3>2. f[2 * k] = Append(f[2 * k - 1], kids[k])
            BY <1>6, <1>8
        <3> QED BY <3>1, <3>2 DEF Leads, Adds
    <2>2. Leads(es[2 * k], f[2 * k], f[2 * k + 1])
        <3>1. es[2 * k].do = "coerce" /\ es[2 * k].at = Operand(p, k)
            <4>1. es[2 * k] = Entry("coerce", Operand(p, k))
                BY <1>2
            <4> QED BY <4>1 DEF Entry
        <3>2. CallWith(Operand(p, k)) = p /\ Last(Operand(p, k)) = k
            <4>1. k \in Nat
                BY <1>1
            <4> QED BY <1>1, <4>1, OperandPath DEF X
        <3>3. f[2 * k] = Append(g(k - 1), kids[k])
              /\ f[2 * k + 1] = Append(g(k - 1), Coerced(Operand(p, k), kids[k]))
            BY <1>4, <1>5, <1>6, <1>8 DEF n
        <3>4. g(k - 1) \in Seq(X)
            <4>1. k - 1 \in 0..n
                BY <1>1
            <4> QED BY <1>5, <4>1
        <3>5. LeadsAround(Operand(p, k), f[2 * k], f[2 * k + 1])
            BY <3>2, <3>3, <3>4 DEF LeadsAround, X, kids
        <3> QED BY <3>1, <3>5 DEF Leads
    <2> QED BY <2>1, <2>2
<1>12. ASSUME NEW j \in 1..(2 * n) PROVE Leads(es[j], f[j], f[j + 1])
    <2>1. PICK k \in 1..n : j = 2 * k - 1 \/ j = 2 * k
        BY <1>1, Halves
    <2>2. CASE j = 2 * k - 1
        <3>1. j + 1 = 2 * k
            BY <1>1, <2>2
        <3> QED BY <1>11, <2>2, <3>1
    <2>3. CASE j = 2 * k
        BY <1>11, <2>3
    <2> QED BY <2>1, <2>2, <2>3
<1>13. FlowsBy(es, f)
    BY <1>2, <1>10, <1>12 DEF FlowsBy, X, n
<1>14. Flow(es \o t, f[1])
    <2>1. f[Len(es) + 1] = top \o Own(p)
        BY <1>2, <1>9 DEF n
    <2> QED BY <1>2, <1>13, <2>1, FlowJoin
<1> QED BY <1>9, <1>14 DEF es

LEMMA ArgumentsEmitted ==
    ASSUME EmissionInv, EmitArguments
    PROVE  EmissionInv'
<1> DEFINE p == Value
           l == <<Entry("leave", p)>>
           t == Tail(todo)
           es == ArgumentEntries(p)
<1>1. /\ Emitting({"value"}) /\ todo' = (es \o l) \o t
      /\ UNCHANGED <<backendVars, emission, stack, block, code>>
      /\ mir[p].op \in CallOps
    BY DEF EmitArguments, Emits
<1>2. /\ Head(todo).do = "value" /\ p = Head(todo).at /\ p \in DOMAIN mir
      /\ t \in Seq(TodoEntry) /\ CodeFits(code) /\ MirTyped
    BY <1>1, AtValue
<1>3. mir[p].op \notin {"block", "if"}
    BY <1>1 DEF CallOps
<1> HIDE DEF p, t
<1>5. es \in Seq(TodoEntry) /\ \A e \in Range(es) : EntryStands(e)
    BY <1>1, <1>2, ArgumentsAre
<1> HIDE DEF es, l
<1>6. /\ es \o l \in Seq(TodoEntry) /\ \A e \in Range(es \o l) : EntryStands(e)
      /\ (es \o l) \o t = es \o (l \o t)
    BY <1>2, <1>5, Unfolds DEF l
<1>7. ASSUME NEW top \in Seq(Seq(Nat)), NEW after \in Seq(Seq(Nat)),
             Direct, Leads(Head(todo), top, after), Flow(t, after)
      PROVE  Flow((es \o l) \o t, top)
    <2>1. Adds(p, top, after)
        BY <1>2, <1>7 DEF Leads
    <2>2. Flow(l \o t, top \o Own(p)) /\ l \o t \in Seq(TodoEntry)
        BY <1>2, <1>7, <2>1, LeaveFlow DEF l
    <2>3. \A k \in 1..Len(mir[p].kids) : Pushing(mir[p].kids[k])
        BY <1>2, <1>3, <1>7, DirectPushes
    <2>4. Flow(es \o (l \o t), top)
        BY <1>1, <1>2, <2>2, <2>3, ArgumentsFlow DEF es
    <2> QED BY <1>6, <2>4
<1>8. CodeFits(code') /\ UNCHANGED <<backendVars, emission, stack>>
    BY <1>1, <1>2
<1> DEFINE u == es \o l
<1>9. /\ u \in Seq(TodoEntry) /\ \A e \in Range(u) : EntryStands(e)
      /\ todo' = u \o Tail(todo)
      /\ \A top, after \in Seq(Seq(Nat)) :
            Direct /\ Leads(Head(todo), top, after) /\ Flow(Tail(todo), after)
                => Flow(u \o Tail(todo), top)
    BY <1>1, <1>6, <1>7 DEF t
<1> HIDE DEF u
<1> QED BY <1>1, <1>8, <1>9, Replaces

\* What was put around an operand.
LEMMA CoercionFits ==
    ASSUME NEW o, NEW w, Front(WrapperOf(o)) = o, Front(BitcastOf(o)) = o,
           Direct => w = mir[CallWith(o)].kids[Last(o)]
    PROVE  \E T : CoercionOf(o, w) \in Seq(T) /\ \A i \in T : InstrFits(i)
<1> DEFINE a == Instr("wrap", WrapperOf(o), <<w>>)
           b == Instr("cast", BitcastOf(o), <<IF Wraps(o) THEN WrapperOf(o) ELSE w>>)
           T == {a, b}
<1>1. InstrFits(a)
    <2>1. a.op = "wrap" /\ a.value = WrapperOf(o) /\ a.args = <<w>>
        BY DEF Instr
    <2> HIDE DEF a
    <2>2. OwnArguments(a) = <<mir[CallWith(o)].kids[Last(o)]>>
        BY <2>1 DEF OwnArguments, CallOps
    <2> QED BY <2>1, <2>2 DEF InstrFits
<1>2. InstrFits(b)
    <2>1. /\ b.op = "cast" /\ b.value = BitcastOf(o)
          /\ b.args = <<IF Wraps(o) THEN WrapperOf(o) ELSE w>>
        BY DEF Instr
    <2> HIDE DEF b
    <2>2. OwnArguments(b) =
              <<IF Wraps(o) THEN WrapperOf(o) ELSE mir[CallWith(o)].kids[Last(o)]>>
        BY <2>1 DEF OwnArguments, CallOps
    <2> QED BY <2>1, <2>2 DEF InstrFits
<1>3. /\ CoercionOf(o, w) = (IF Wraps(o) THEN <<a>> ELSE <<>>)
                                \o (IF Bitcasts(o) THEN <<b>> ELSE <<>>)
    BY DEF CoercionOf
<1>4. a \in T /\ b \in T /\ \A i \in T : InstrFits(i)
    BY <1>1, <1>2
<1> HIDE DEF a, b, T
<1>5. <<a>> \in Seq(T) /\ <<b>> \in Seq(T) /\ <<>> \in Seq(T)
    BY <1>4
<1>6. (IF Wraps(o) THEN <<a>> ELSE <<>>) \in Seq(T) /\ (IF Bitcasts(o) THEN <<b>> ELSE <<>>) \in Seq(T)
    BY <1>5
<1>7. \A s, t \in Seq(T) : s \o t \in Seq(T)
    OBVIOUS
<1>8. CoercionOf(o, w) \in Seq(T)
    BY <1>3, <1>6, <1>7
<1> QED BY <1>4, <1>8

LEMMA CoercionEmitted ==
    ASSUME EmissionInv, EmitCoercion
    PROVE  EmissionInv'
<1> DEFINE X == Seq(Nat)
           o == Value
           c == CallWith(o)
           k == Last(o)
           v == mir[c].kids[k]
           bare == ~Wraps(o) /\ ~Bitcasts(o)
           other == Wraps(o) /\ GivenType(c, k) \notin {"Raw", "Int32"}
           Finds(below, top, after) ==
               /\ stack # <<>> /\ Last(stack) = v
               /\ \E above \in Seq(X) :
                     /\ top = Append(above, v) /\ after = Append(above, Coerced(o, v))
                     /\ Front(stack) = below \o above
<1>1. /\ Emitting({"coerce"})
      /\ IF bare
         THEN todo' = Tail(todo) /\ UNCHANGED <<backendVars, emission, stack, block, code>>
         ELSE IF stack = <<>> THEN Break("crashed")
         ELSE IF other THEN Break("uncaught")
         ELSE /\ code' = Emitted(CoercionOf(o, Last(stack)))
              /\ stack' = Append(Front(stack), Coerced(o, Last(stack)))
              /\ todo' = Tail(todo)
              /\ UNCHANGED <<backendVars, emission, block>>
    BY DEF EmitCoercion
<1>2. /\ Head(todo).do = "coerce" /\ Head(todo).at = o /\ EntryStands(Head(todo))
      /\ CodeFits(code) /\ stack \in Seq(X) /\ stage = "lowered" /\ MirTyped
    BY <1>1, AtTodo
<1>3. IsOperand(o)
    BY <1>2 DEF EntryStands
<1>4. PICK call \in DOMAIN mir : \E j \in DOMAIN mir[call].kids : o = Operand(call, j)
    BY <1>3 DEF IsOperand
<1>5. PICK j \in DOMAIN mir[call].kids : o = Operand(call, j)
    BY <1>4
<1>6. call \in X /\ j \in 1..Len(mir[call].kids) /\ mir[call].kids[j] \in X /\ j \in Nat
    <2>1. /\ call \in X /\ mir[call].kids \in Seq(X) /\ Len(mir[call].kids) \in Nat
          /\ \A i \in 1..Len(mir[call].kids) : mir[call].kids[i] \in X
        BY <1>2, KidsTyped
    <2>2. DOMAIN mir[call].kids = 1..Len(mir[call].kids)
        BY <2>1
    <2>3. j \in 1..Len(mir[call].kids)
        BY <1>5, <2>2
    <2> QED BY <2>1, <2>3
<1>7. c = call /\ k = j /\ v \in X /\ Front(WrapperOf(o)) = o /\ Front(BitcastOf(o)) = o
    BY <1>5, <1>6, OperandPath
<1>8. \A w \in X : Coerced(o, w) \in X
    BY <1>5, <1>6, CoercedPath
<1>9. Wraps(o) => c \in DOMAIN casts /\ casts[c][k].wrapped
    BY DEF Wraps, CastOf, Uncast
<1>10. other => WrapsOther
    <2> SUFFICES ASSUME other PROVE WrapsOther
        OBVIOUS
    <2>1. call \in DOMAIN casts /\ casts[call][j].wrapped
        BY <1>7, <1>9
    <2>2. mir[mir[call].kids[j]].type \notin {"Raw", "Int32"}
        BY <1>7 DEF GivenType
    <2> QED BY <1>5, <2>1, <2>2 DEF WrapsOther
<1> HIDE DEF X, o, c, k, v, other, bare, Finds
<1>11. ASSUME NEW below \in Seq(X), NEW top \in Seq(X), NEW after,
              stack = below \o top, Leads(Head(todo), top, after)
       PROVE  Finds(below, top, after)
    <2>1. LeadsAround(o, top, after)
        BY <1>2, <1>11 DEF Leads
    <2>2. PICK above \in Seq(X) : top = Append(above, v) /\ after = Append(above, Coerced(o, v))
        BY <2>1 DEF LeadsAround, X, v, c, k
    <2>3. PICK x \in X : x = v
        BY <1>7
    <2>4. stack = Append(below \o above, x) /\ below \o above \in Seq(X)
        BY <1>11, <2>2, <2>3, PushedOn DEF X
    <2>5. stack # <<>> /\ Last(stack) = x /\ Front(stack) = below \o above
        BY <2>3, <2>4, ConcatOne
    <2> QED BY <2>2, <2>3, <2>5 DEF Finds
<1>12. CASE bare
    <2>1. Coerced(o, v) = v
        BY <1>12 DEF Coerced, bare
    <2>2. ASSUME NEW below \in Seq(X), NEW top \in Seq(X), NEW after \in Seq(X),
                 stack = below \o top, Leads(Head(todo), top, after), Flow(Tail(todo), after)
          PROVE  Rests(stack', Tail(todo))
        <3>1. after = top
            <4>1. Finds(below, top, after)
                BY <1>11, <2>2
            <4> QED BY <2>1, <4>1 DEF Finds
        <3>2. Rests(below \o top, Tail(todo))
            BY <2>2, <3>1, RestsOn DEF X
        <3> QED BY <1>1, <1>12, <2>2, <3>2
    <2> QED BY <1>1, <1>2, <1>12, <2>2, Proceeds DEF X
<1>13. CASE ~bare /\ stack = <<>>
    <2>1. ~Direct
        <3> SUFFICES ASSUME Direct PROVE FALSE
            OBVIOUS
        <3>1. PICK below \in Seq(X), top \in Seq(X), after \in Seq(X) :
                  stack = below \o top /\ Leads(Head(todo), top, after)
            BY <1>1, AtStack DEF X
        <3>2. Finds(below, top, after)
            BY <1>11, <3>1
        <3> QED BY <1>13, <3>2 DEF Finds
    <2> QED BY <1>1, <1>2, <1>13, <2>1, Breaks
<1>14. CASE ~bare /\ stack # <<>> /\ other
    BY <1>1, <1>2, <1>10, <1>14, Breaks
<1>15. CASE ~bare /\ stack # <<>> /\ ~other
    <2>1. /\ code' = Emitted(CoercionOf(o, Last(stack)))
          /\ stack' = Append(Front(stack), Coerced(o, Last(stack)))
          /\ todo' = Tail(todo) /\ UNCHANGED <<backendVars, emission>>
        BY <1>1, <1>15
    <2>2. Front(stack) \in Seq(X) /\ Last(stack) \in X
        BY <1>2, <1>15, SeqEnds
    <2>3. PICK y \in X : y = Coerced(o, Last(stack))
        BY <1>8, <2>2
    <2>4. stack' \in Seq(X)
        BY <2>1, <2>2, <2>3
    <2>5. CodeFits(code')
        <3>1. Direct => Last(stack) = mir[CallWith(o)].kids[Last(o)]
            <4> SUFFICES ASSUME Direct PROVE Last(stack) = v
                BY DEF v, c, k
            <4>1. PICK below \in Seq(X), top \in Seq(X), after \in Seq(X) :
                      stack = below \o top /\ Leads(Head(todo), top, after)
                BY <1>1, AtStack DEF X
            <4>2. Finds(below, top, after)
                BY <1>11, <4>1
            <4> QED BY <4>2 DEF Finds
        <3>2. PICK T : CoercionOf(o, Last(stack)) \in Seq(T) /\ \A i \in T : InstrFits(i)
            BY <1>7, <3>1, CoercionFits
        <3>3. CodeFits(Emitted(CoercionOf(o, Last(stack))))
            BY <1>2, <3>2, CodePut
        <3> QED BY <2>1, <3>3
    <2>6. ASSUME NEW below \in Seq(X), NEW top \in Seq(X), NEW after \in Seq(X),
                 stack = below \o top, Leads(Head(todo), top, after), Flow(Tail(todo), after)
          PROVE  Rests(stack', Tail(todo))
        <3>1. PICK above \in Seq(X) :
                  /\ after = Append(above, Coerced(o, v)) /\ Front(stack) = below \o above
                  /\ Last(stack) = v
            <4>1. Finds(below, top, after)
                BY <1>11, <2>6
            <4> QED BY <4>1 DEF Finds
        <3>2. stack' = below \o after
            <4>1. stack' = Append(below \o above, y) /\ after = Append(above, y)
                BY <2>1, <2>3, <3>1
            <4>2. Append(below \o above, y) = below \o Append(above, y)
                BY PushedOn DEF X
            <4> QED BY <4>1, <4>2
        <3>3. Rests(below \o after, Tail(todo))
            BY <2>6, RestsOn DEF X
        <3> QED BY <3>2, <3>3
    <2> QED BY <1>1, <2>1, <2>4, <2>5, <2>6, Proceeds DEF X
<1> QED BY <1>12, <1>13, <1>14, <1>15

-----------------------------------------------------------------------------
(* The beginning and the end of an emission.                                *)

\* A parameter the type visitor has no visit for is a Bool or an array.
LEMMA UnsolvedParam ==
    ASSUME EmissionInv, stage = "lowered", NotSolved # {}
    PROVE  HasUnsolvedParam
<1>1. PICK k \in DOMAIN functions \ {1} :
          \E t \in Range(ParamTypes(<<k>>)) : Clone(types[t]) \notin SolvedTypes
    BY DEF NotSolved
<1>2. PICK t \in Range(ParamTypes(<<k>>)) : Clone(types[t]) \notin SolvedTypes
    BY <1>1
<1>3. /\ Rooted /\ pass = "types" /\ SignaturesTyped /\ SignatureNames
      /\ Len(functions) = Len(program.kids) /\ MirTyped
    BY DEF EmissionInv, LoweringInv, ResolverInv, Resolution, EndsWell, Staged, Built
<1>4. k \in 2..Len(program.kids)
    <2> DEFINE S == [of : Seq(Nat), body : Seq(DOMAIN mir)]
    <2>1. functions \in Seq(S)
        BY <1>3 DEF MirTyped
    <2> HIDE DEF S
    <2>2. DOMAIN functions = 1..Len(functions) /\ Len(functions) \in Nat
        BY <2>1
    <2> QED BY <1>1, <1>3, <2>2
<1>5. PICK f \in FunctionNodes : f = <<k>>
    BY <1>4 DEF FunctionNodes
<1>6. t \in SignatureOf(f)
    BY <1>2, <1>5 DEF SignatureOf
<1>7. ~IsExpression(t) /\ t \in DOMAIN types
    BY <1>3, <1>6, TypesAreNoExpressions DEF SignaturesTyped, Typed
<1>8. types[t] \notin NamedSolved
    BY <1>2 DEF NamedSolved, SolvedTypes, Clone
<1>9. Kind(t) \in {"array", "Bool"}
    BY <1>3, <1>7, <1>8 DEF SignatureNames, NameFits
<1> QED BY <1>2, <1>5, <1>9 DEF HasUnsolvedParam

LEMMA EmissionStarts ==
    ASSUME EmissionInv, StartEmission
    PROVE  EmissionInv'
<1> DEFINE es == [k \in DOMAIN functions |-> Entry("function", <<k>>)]
<1>1. /\ stage = "lowered" /\ emission = "waiting"
      /\ IF NotSolved # {} THEN emission' = "uncaught" /\ UNCHANGED todo
         ELSE emission' = "emitting" /\ todo' = es
      /\ UNCHANGED <<backendVars, stack, block, code>>
    BY DEF StartEmission
<1>2. stack \in Seq(Seq(Nat)) /\ CodeFits(code)
    BY DEF EmissionInv, Emission
<1>3. CASE NotSolved # {}
    <2>1. Break("uncaught")
        BY <1>1, <1>3 DEF Break
    <2> QED BY <1>1, <1>3, <2>1, UnsolvedParam, Breaks
<1>4. CASE NotSolved = {}
    <2> DEFINE n == Len(functions)
    <2>1. DOMAIN functions = 1..n /\ n \in Nat
        <3> DEFINE S == [of : Seq(Nat), body : Seq(DOMAIN mir)]
        <3>1. functions \in Seq(S)
            BY DEF EmissionInv, LoweringInv, Built, MirTyped
        <3> HIDE DEF S
        <3> QED BY <3>1
    <2>2. \A k \in 1..n : Entry("function", <<k>>) \in TodoEntry
        BY DEF Entry, TodoEntry
    <2>3. \A k \in DOMAIN functions : EntryStands(Entry("function", <<k>>))
        BY DEF Entry, EntryStands
    <2>4. es \in Seq(TodoEntry) /\ DOMAIN es = 1..n /\ Len(es) = n
        <3> DEFINE a(k) == Entry("function", <<k>>)
        <3>1. es = [k \in 1..n |-> a(k)] /\ \A k \in 1..n : a(k) \in TodoEntry
            BY <2>1, <2>2
        <3> HIDE DEF es, a, n
        <3> QED BY <2>1, <3>1
    <2>5. TodoStands(es)
        BY <2>1, <2>3, <2>4 DEF TodoStands, Range
    <2>6. \A k \in 1..n : es[k].do = "function"
        BY <2>1 DEF Entry
    <2> HIDE DEF es, n
    <2>7. Flow(es, <<>>)
        <3> DEFINE e == <<>>
        <3>1. e \in Seq(TodoEntry) /\ es \o e = es
            BY <2>4, ConcatNothing
        <3>2. Flow(e, <<>>)
            BY NothingLeft
        <3> HIDE DEF e
        <3>3. Flow(es \o e, <<>>)
            BY <2>4, <2>6, <3>1, <3>2, StatementsFlow
        <3> QED BY <3>1, <3>3
    <2>8. Rests(stack, es)
        BY <1>2, <2>7, NothingOn
    <2>9. emission' = "emitting" /\ todo' = es /\ UNCHANGED <<backendVars, stack, code>>
        BY <1>1, <1>4
    <2> QED BY <1>1, <1>2, <2>5, <2>8, <2>9, GoesOn
<1> QED BY <1>3, <1>4

LEMMA EmissionEnds ==
    ASSUME EmissionInv, FinishEmission
    PROVE  EmissionInv'
<1>1. /\ emission = "emitting" /\ emission' = "emitted"
      /\ UNCHANGED <<backendVars, todo, stack, block, code>>
    BY DEF FinishEmission
<1>2. stack \in Seq(Seq(Nat)) /\ CodeFits(code) /\ TodoStands(todo) /\ stage = "lowered"
    BY <1>1 DEF EmissionInv, Emission
<1> QED BY <1>1, <1>2, GoesOn

\* What a step of the emission proper has in common.
EmissionWork ==
    \/ EmitLeaf \/ EmitOperands \/ EmitBinary \/ EmitMod \/ EmitReturn
    \/ EmitArguments \/ EmitCoercion \/ EmitCall \/ EmitMethod
    \/ EmitBlock \/ EmitIf \/ EmitBranch \/ EmitIfBlock \/ EmitIfEnd
    \/ FinishEmission

LEMMA EmissionStep ==
    ASSUME EmissionWork
    PROVE  emission = "emitting" /\ UNCHANGED backendVars
<1> USE DEF Emits, Emitting, Break, Build
<1>1. CASE EmitLeaf \/ EmitOperands \/ EmitBinary \/ EmitMod \/ EmitReturn
    BY <1>1 DEF EmitLeaf, EmitOperands, EmitBinary, EmitMod, EmitReturn
<1>2. CASE EmitArguments \/ EmitCoercion \/ EmitCall \/ EmitMethod
    BY <1>2 DEF EmitArguments, EmitCoercion, EmitCall, EmitMethod
<1>3. CASE EmitBlock \/ EmitIf \/ EmitBranch \/ EmitIfBlock \/ EmitIfEnd
    BY <1>3 DEF EmitBlock, EmitIf, EmitBranch, EmitIfBlock, EmitIfEnd
<1>4. CASE FinishEmission
    BY <1>4 DEF FinishEmission
<1> QED BY <1>1, <1>2, <1>3, <1>4 DEF EmissionWork

LEMMA WorkEmitted ==
    ASSUME EmissionInv, EmissionWork
    PROVE  EmissionInv'
<1>1. CASE EmitLeaf \/ EmitOperands \/ EmitArguments
    BY <1>1, LeafEmitted, OperandsEmitted, ArgumentsEmitted
<1>2. CASE EmitBinary \/ EmitReturn \/ EmitCall
    BY <1>2, ValueBuilt
<1>3. CASE EmitMod \/ EmitMethod \/ EmitCoercion
    BY <1>3, ModEmitted, MethodEmitted, CoercionEmitted
<1>4. CASE EmitBlock \/ EmitIfBlock
    BY <1>4, BlockEmitted
<1>5. CASE EmitIf \/ EmitBranch \/ EmitIfEnd
    BY <1>5, IfEmitted, BranchEmitted, IfEndEmitted
<1>6. CASE FinishEmission
    BY <1>6, EmissionEnds
<1> QED BY <1>1, <1>2, <1>3, <1>4, <1>5, <1>6 DEF EmissionWork

\* A step before the emission: nothing is emitted, and the module is the
\* resolvers' and the lowering's.
LEMMA EmissionWaits ==
    ASSUME EmissionInv, Lower
    PROVE  EmissionInv'
<1>1. LoweringNext /\ UNCHANGED <<emission, todo, stack, block, code>>
    BY DEF Lower, emissionVars
<1>2. LoweringInv'
    BY <1>1, LoweringInductive DEF EmissionInv
<1>3. LoweringNext => Resolve \/ StartLowering \/ LoweringWork
    BY DEF LoweringNext, LoweringWork
<1>4. ASSUME Resolve PROVE Resolution' /\ Shaped' /\ stage # "lowered"
    <2>1. ResolverNext /\ UNCHANGED loweringVars
        BY <1>4 DEF Resolve
    <2>2. status = "running"
        BY <2>1, ResolverStep
    <2>3. stage = "waiting" /\ mir = <<>>
        BY <2>2 DEF EmissionInv, LoweringInv, Staged
    <2>4. Resolution'
        BY <2>1, ResolutionStep DEF EmissionInv, LoweringInv
    <2>5. Shaped'
        <3>1. mir' = <<>>
            BY <2>1, <2>3 DEF loweringVars
        <3> QED BY <3>1 DEF Shaped
    <2> QED BY <2>3, <2>4, <2>5
<1>5. ASSUME StartLowering PROVE Resolution' /\ Shaped' /\ stage # "lowered"
    <2>1. UNCHANGED resolverVars /\ mir' = mir /\ stage = "waiting"
        BY <1>5 DEF StartLowering
    <2>2. targets' = targets
        BY <2>1 DEF resolverVars
    <2> QED BY <2>1, <2>2, ResolutionSame, ShapedSame DEF EmissionInv
<1>6. ASSUME LoweringWork PROVE Resolution' /\ Shaped' /\ stage # "lowered"
    <2>1. UNCHANGED resolverVars /\ stage \in {"mir", "casts"}
        BY <1>6, LoweringStep
    <2> QED BY <1>6, <2>1, ResolutionSame, ShapedStep DEF EmissionInv
<1>7. Resolution' /\ Shaped' /\ stage # "lowered"
    BY <1>1, <1>3, <1>4, <1>5, <1>6
<1>8. emission = "waiting" /\ todo = <<>> /\ stack = <<>> /\ code = <<>>
    BY <1>7 DEF EmissionInv, Emission
<1>9. Emission'
    <2>1. TodoStands(<<>>)' /\ <<>> \in Seq(Seq(Nat))
        <3>1. <<>> \in Seq(TodoEntry) /\ Range(<<>>) = {}
            BY DEF Range
        <3> QED BY <3>1 DEF TodoStands
    <2>2. CodeFits(code)'
        <3> DEFINE T == {}
        <3>1. code' = <<>>
            BY <1>1, <1>8
        <3>2. DOMAIN code' = {}
            BY <3>1
        <3>3. (\A b \in DOMAIN code' : code'[b] \in Seq(T)) /\ \A i \in T : InstrFits(i)'
            BY <3>2
        <3> HIDE DEF T
        <3> QED BY <3>3 DEF CodeFits
    <2> QED BY <1>1, <1>8, <2>1, <2>2 DEF Emission, Emissions, TodoStands
<1> QED BY <1>2, <1>7, <1>9 DEF EmissionInv

LEMMA EmissionBegins ==
    ASSUME EmissionInit
    PROVE  EmissionInv
<1>1. LoweringInit /\ emission = "waiting" /\ todo = <<>> /\ stack = <<>> /\ code = <<>>
    BY DEF EmissionInit
<1>2. ResolverInit /\ mir = <<>>
    BY <1>1 DEF LoweringInit
<1>3. Shaped
    <2>1. DOMAIN mir = {}
        BY <1>2
    <2> QED BY <2>1 DEF Shaped
<1>4. CodeFits(code)
    <2> DEFINE T == {}
    <2>1. DOMAIN code = {}
        BY <1>1
    <2>2. (\A b \in DOMAIN code : code[b] \in Seq(T)) /\ \A i \in T : InstrFits(i)
        BY <2>1
    <2> HIDE DEF T
    <2> QED BY <2>2 DEF CodeFits
<1>5. TodoStands(todo) /\ stack \in Seq(Seq(Nat))
    <2>1. todo \in Seq(TodoEntry) /\ Range(todo) = {} /\ stack \in Seq(Seq(Nat))
        BY <1>1 DEF Range
    <2> QED BY <2>1 DEF TodoStands
<1> QED BY <1>1, <1>2, <1>3, <1>4, <1>5, LoweringStarts, ResolutionStarts
        DEF EmissionInv, Emission, Emissions

LEMMA EmissionStutter ==
    ASSUME EmissionInv, UNCHANGED compilerVars
    PROVE  EmissionInv'
<1>1. UNCHANGED backendVars /\ UNCHANGED <<emission, todo, stack, code>>
    BY DEF compilerVars, emissionVars
<1>2. LoweringInv' /\ Resolution' /\ Shaped' /\ stage' = stage
    BY <1>1, SameModuleBuilt
<1>3. /\ Direct' = Direct /\ HasUnsolvedParam' = HasUnsolvedParam /\ WrapsOther' = WrapsOther
      /\ \A t : TodoStands(t)' = TodoStands(t)
      /\ \A c : CodeFits(c)' = CodeFits(c)
      /\ \A s, t : Rests(s, t)' = Rests(s, t)
    BY <1>1, SameMir
<1>4. TodoStands(todo)'
    BY <1>1, <1>3 DEF EmissionInv, Emission, TodoStands
<1>5. CodeFits(code)'
    BY <1>1, <1>3 DEF EmissionInv, Emission, CodeFits
<1>6. Stacked => Stacked'
    BY <1>1, <1>3 DEF Stacked, Rests
<1> QED BY <1>1, <1>2, <1>3, <1>4, <1>5, <1>6 DEF EmissionInv, Emission

LEMMA EmissionInductive ==
    ASSUME EmissionInv, [EmissionNext]_compilerVars
    PROVE  EmissionInv'
<1>1. EmissionNext => Lower \/ StartEmission \/ EmissionWork
    BY DEF EmissionNext, EmissionWork
<1> QED BY <1>1, EmissionWaits, EmissionStarts, WorkEmitted, EmissionStutter

-----------------------------------------------------------------------------
(***************************************************************************)
(* The basic blocks, as long as each list of statements ends in its only   *)
(* return.                                                                 *)
(***************************************************************************)

\* The entries that find the block of the one before them open, and those
\* that leave an open block behind.
GoesIn(e) == e.do \notin {"function", "end"}
LeavesOpen(e) ==
    \/ e.do \in {"value", "leave"} /\ mir[e.at].op # "ret"
    \/ e.do \in {"coerce", "branch", "end"}

\* What finds a block open stands after what leaves one open; after is
\* whether what follows the last entry finds one.
Linked(t, after) ==
    \A j \in 1..Len(t) : LeavesOpen(t[j]) <=> IF j < Len(t) THEN GoesIn(t[j + 1]) ELSE after

\* What is left before the end of an if is within the if.
DeeperThan(p, q) == Len(q) < Len(p)
Nested(t) ==
    \A i, j \in 1..Len(t) :
        i < j /\ t[j].do \in {"branch", "end"} =>
            \/ DeeperThan(t[i].at, t[j].at)
            \/ t[i].do = "branch" /\ t[j].do = "end" /\ t[i].at = t[j].at

Places(t, do) == {e.at : e \in {x \in Range(t) : x.do = do}}

\* The ifs whose blocks are there, and the second is still to be filled.
Pending(t) == Places(t, "end") \ Places(t, "branch")

EntryLaid(e) ==
    /\ e.do = "value" => mir[e.at].op # "block"
    /\ e.do = "start" => mir[e.at].kids \in Lists
Laid(t) ==
    /\ Linked(t, FALSE) /\ Nested(t) /\ Places(t, "branch") \subseteq Places(t, "end")
    /\ \A e \in Range(t) : EntryLaid(e)

Going(t) == t # <<>> /\ GoesIn(Head(t))
BlocksAre(t, b, c) ==
    /\ \A p \in Pending(t) : IfEnd(p) \in DOMAIN c /\ c[IfEnd(p)] = <<>>
    /\ Going(t) => /\ b \in DOMAIN c /\ Terminators(c[b]) = {}
                   /\ \A p \in Pending(t) : b # IfEnd(p)
    /\ \A x \in DOMAIN c : \/ Going(t) /\ x = b
                           \/ \E p \in Pending(t) : x = IfEnd(p)
                           \/ Terminators(c[x]) = {Len(c[x])}

Returning == Direct /\ ListsReturn /\ NoReturnIsUsed
BlockInv ==
    /\ emission = "emitted" => todo = <<>>
    /\ emission \in {"emitting", "emitted"} /\ Returning => Laid(todo) /\ BlocksAre(todo, block, code)

-----------------------------------------------------------------------------
LEMMA LinkedTail ==
    ASSUME NEW t \in Seq(TodoEntry), t # <<>>, Linked(t, FALSE)
    PROVE  Linked(Tail(t), FALSE) /\ (LeavesOpen(Head(t)) <=> Going(Tail(t)))
<1> DEFINE u == Tail(t)
           n == Len(u)
<1>1. /\ u \in Seq(TodoEntry) /\ n \in Nat /\ Len(t) = n + 1 /\ Head(t) = t[1]
      /\ \A j \in 1..n : u[j] = t[j + 1]
    OBVIOUS
<1>0. u # <<>> <=> n # 0
    <2> HIDE DEF u
    <2> QED BY <1>1
<1>2. n # 0 => Head(u) = t[2]
    <2>1. n # 0 => u # <<>> /\ 1 \in 1..n /\ 1 + 1 = 2
        BY <1>0, <1>1
    <2>2. u # <<>> => Head(u) = u[1]
        BY <1>1
    <2> QED BY <1>1, <2>1, <2>2
<1> HIDE DEF u, n
<1>3. ASSUME NEW j \in 1..n
      PROVE  LeavesOpen(u[j]) <=> IF j < n THEN GoesIn(u[j + 1]) ELSE FALSE
    <2>1. j + 1 \in 1..Len(t) /\ (j + 1 < Len(t) <=> j < n) /\ u[j] = t[j + 1]
        BY <1>1
    <2>2. j < n => u[j + 1] = t[(j + 1) + 1]
        BY <1>1
    <2> QED BY <2>1, <2>2 DEF Linked
<1>4. Linked(u, FALSE)
    BY <1>3 DEF Linked, n
<1>5. LeavesOpen(t[1]) <=> IF 1 < Len(t) THEN GoesIn(t[2]) ELSE FALSE
    <2>1. 1 \in 1..Len(t) /\ 1 + 1 = 2
        BY <1>1
    <2> QED BY <2>1 DEF Linked
<1>6. Going(u) <=> n # 0 /\ GoesIn(t[2])
    BY <1>0, <1>2 DEF Going
<1>7. 1 < Len(t) <=> n # 0
    BY <1>1
<1> QED BY <1>1, <1>4, <1>5, <1>6, <1>7 DEF u

LEMMA LinkedPut ==
    ASSUME NEW es \in Seq(TodoEntry), NEW t \in Seq(TodoEntry), NEW after \in BOOLEAN,
           Linked(t, after),
           Linked(es, IF t = <<>> THEN after ELSE GoesIn(t[1]))
    PROVE  Linked(es \o t, after)
<1> DEFINE n == Len(es)
           m == Len(t)
           u == es \o t
<1>1. /\ n \in Nat /\ m \in Nat /\ Len(u) = n + m /\ (t = <<>> <=> m = 0)
      /\ \A j \in 1..n : u[j] = es[j]
      /\ \A j \in (n + 1)..(n + m) : u[j] = t[j - n]
    OBVIOUS
<1> HIDE DEF n, m, u
<1>2. ASSUME NEW j \in 1..(n + m)
      PROVE  LeavesOpen(u[j]) <=> IF j < n + m THEN GoesIn(u[j + 1]) ELSE after
    <2>1. CASE j < n
        <3>1. j \in 1..n /\ j + 1 \in 1..n /\ j < n + m
            BY <1>1, <2>1
        <3>2. LeavesOpen(es[j]) <=> GoesIn(es[j + 1])
            BY <2>1, <3>1 DEF Linked, n
        <3> QED BY <1>1, <3>1, <3>2
    <2>2. CASE j = n
        <3>1. j \in 1..n /\ ~(j < n)
            BY <1>1, <2>2
        <3>2. LeavesOpen(es[j]) <=> IF t = <<>> THEN after ELSE GoesIn(t[1])
            BY <3>1 DEF Linked, n
        <3>3. CASE m = 0
            <4>1. ~(j < n + m)
                BY <1>1, <2>2, <3>3
            <4> QED BY <1>1, <3>1, <3>2, <3>3, <4>1
        <3>4. CASE m # 0
            <4>1. j < n + m /\ j + 1 \in (n + 1)..(n + m) /\ (j + 1) - n = 1
                BY <1>1, <2>2, <3>4
            <4> QED BY <1>1, <3>1, <3>2, <3>4, <4>1
        <3> QED BY <3>3, <3>4
    <2>3. CASE j > n
        <3>1. j \in (n + 1)..(n + m) /\ j - n \in 1..m /\ (j - n < m <=> j < n + m)
            BY <1>1, <2>3
        <3>2. j < n + m => j + 1 \in (n + 1)..(n + m) /\ (j + 1) - n = (j - n) + 1
            BY <1>1, <2>3
        <3>3. LeavesOpen(t[j - n]) <=> IF j - n < m THEN GoesIn(t[(j - n) + 1]) ELSE after
            BY <3>1 DEF Linked, m
        <3> QED BY <1>1, <3>1, <3>2, <3>3
    <2> QED BY <1>1, <2>1, <2>2, <2>3
<1> QED BY <1>1, <1>2 DEF Linked, u

\* What is left of a head's entries and those below it.
Around(e, x) ==
    x.do \in {"branch", "end"} =>
        DeeperThan(e.at, x.at) \/ (e.do = "branch" /\ x.do = "end" /\ e.at = x.at)

LEMMA NestedTail ==
    ASSUME NEW t \in Seq(TodoEntry), t # <<>>, Nested(t)
    PROVE  Nested(Tail(t)) /\ \A x \in Range(Tail(t)) : Around(Head(t), x)
<1> DEFINE u == Tail(t)
           n == Len(u)
<1>1. /\ u \in Seq(TodoEntry) /\ n \in Nat /\ Len(t) = n + 1 /\ Head(t) = t[1] /\ DOMAIN u = 1..n
      /\ \A j \in 1..n : u[j] = t[j + 1]
    OBVIOUS
<1> HIDE DEF u, n
<1>2. \A j \in 1..n : j + 1 \in 1..Len(t) /\ 1 < j + 1
    BY <1>1
<1>3. \A i, j \in 1..n : i < j => i + 1 < j + 1
    BY <1>1
<1>4. Nested(u)
    BY <1>1, <1>2, <1>3 DEF Nested, n
<1>5. 1 \in 1..Len(t)
    BY <1>1
<1>6. \A j \in 1..n : Around(t[1], u[j])
    BY <1>1, <1>2, <1>5 DEF Nested, Around
<1> QED BY <1>1, <1>4, <1>6 DEF Range, u

LEMMA NestedPut ==
    ASSUME NEW t \in Seq(TodoEntry), t # <<>>, Nested(t), Head(t).do # "branch",
           NEW es \in Seq(TodoEntry), Nested(es), \A x \in Range(es) : ~DeeperThan(Head(t).at, x.at)
    PROVE  Nested(es \o Tail(t))
<1> DEFINE r == Tail(t)
           n == Len(es)
           m == Len(r)
           u == es \o r
<1>1. /\ Nested(r) /\ \A x \in Range(r) : Around(Head(t), x)
      /\ r \in Seq(TodoEntry) /\ Head(t) \in TodoEntry
    BY NestedTail, SeqEnds
<1> HIDE DEF r
<1>2. /\ n \in Nat /\ m \in Nat /\ Len(u) = n + m
      /\ \A j \in 1..n : u[j] = es[j] /\ es[j] \in TodoEntry
      /\ \A j \in (n + 1)..(n + m) : u[j] = r[j - n]
      /\ \A j \in 1..m : r[j] \in TodoEntry
      /\ DOMAIN es = 1..n /\ DOMAIN r = 1..m
    BY <1>1
<1> HIDE DEF n, m, u
<1>3. ASSUME NEW i \in 1..(n + m), NEW j \in 1..(n + m), i < j, u[j].do \in {"branch", "end"}
      PROVE  DeeperThan(u[i].at, u[j].at)
             \/ (u[i].do = "branch" /\ u[j].do = "end" /\ u[i].at = u[j].at)
    <2>1. CASE j <= n
        <3>1. i \in 1..n /\ j \in 1..n
            BY <1>2, <1>3, <2>1
        <3>2. u[i] = es[i] /\ u[j] = es[j]
            BY <1>2, <3>1
        <3>3. i \in 1..Len(es) /\ j \in 1..Len(es)
            BY <3>1 DEF n
        <3>4. es[j].do \in {"branch", "end"} /\ i < j
            BY <1>3, <3>2
        <3> QED BY <3>2, <3>3, <3>4 DEF Nested
    <2>2. CASE i > n
        <3>1. /\ i - n \in 1..m /\ j - n \in 1..m /\ i - n < j - n
              /\ i \in (n + 1)..(n + m) /\ j \in (n + 1)..(n + m)
            BY <1>2, <1>3, <2>2
        <3>2. u[i] = r[i - n] /\ u[j] = r[j - n]
            BY <1>2, <3>1
        <3> QED BY <1>1, <1>3, <3>1, <3>2 DEF Nested, m
    <2>3. CASE i <= n /\ j > n
        <3>1. i \in 1..n /\ j - n \in 1..m /\ j \in (n + 1)..(n + m)
            BY <1>2, <1>3, <2>3
        <3> DEFINE x == r[j - n]
                   y == es[i]
        <3>2. u[j] = x /\ u[i] = y /\ x \in TodoEntry /\ y \in TodoEntry
              /\ x \in Range(r) /\ y \in Range(es)
            BY <1>2, <3>1 DEF Range
        <3> HIDE DEF x, y
        <3>3. DeeperThan(Head(t).at, x.at) /\ ~DeeperThan(Head(t).at, y.at)
            BY <1>1, <1>3, <3>2 DEF Around
        <3>4. Len(Head(t).at) \in Nat /\ Len(x.at) \in Nat /\ Len(y.at) \in Nat
            <4>1. \A e \in TodoEntry : Len(e.at) \in Nat
                BY DEF TodoEntry
            <4> QED BY <1>1, <3>2, <4>1
        <3> QED BY <3>2, <3>3, <3>4 DEF DeeperThan
    <2> QED BY <1>2, <2>1, <2>2, <2>3
<1> QED BY <1>2, <1>3 DEF Nested, u, r

LEMMA PlacesPut ==
    ASSUME NEW es \in Seq(TodoEntry), NEW t \in Seq(TodoEntry), t # <<>>, NEW do
    PROVE  /\ Places(es \o Tail(t), do) = Places(es, do) \union Places(Tail(t), do)
           /\ Places(t, do) = Places(Tail(t), do)
                                  \union (IF Head(t).do = do THEN {Head(t).at} ELSE {})
<1>1. Range(es \o Tail(t)) = Range(es) \union Range(Tail(t))
      /\ Range(t) = {Head(t)} \union Range(Tail(t))
    BY RangePut
<1> QED BY <1>1 DEF Places

\* The entry at the head is done.
LEMMA LaidOff ==
    ASSUME NEW t \in Seq(TodoEntry), t # <<>>, Laid(t)
    PROVE  /\ Laid(Tail(t)) /\ (LeavesOpen(Head(t)) <=> Going(Tail(t))) /\ EntryLaid(Head(t))
           /\ Head(t).do \notin {"branch", "end"} => Pending(Tail(t)) = Pending(t)
           /\ Head(t).do = "branch" => Pending(Tail(t)) = Pending(t) \union {Head(t).at}
           /\ Head(t).do = "end" => /\ Pending(Tail(t)) = Pending(t) \ {Head(t).at}
                                    /\ Head(t).at \in Pending(t)
<1> DEFINE e == Head(t)
           r == Tail(t)
<1>1. /\ Linked(r, FALSE) /\ (LeavesOpen(e) <=> Going(r))
      /\ Nested(r) /\ \A x \in Range(r) : Around(e, x)
    BY LinkedTail, NestedTail DEF Laid
<1>2. /\ e \in TodoEntry /\ r \in Seq(TodoEntry) /\ <<>> \in Seq(TodoEntry)
    BY SeqEnds
<1>3. Range(t) = {e} \union Range(r)
    BY <1>2, RangePut
<1>4. \A do : Places(t, do) = Places(r, do) \union (IF e.do = do THEN {e.at} ELSE {})
    BY <1>2, PlacesPut
<1> HIDE DEF e, r
<1>5. ~DeeperThan(e.at, e.at)
    <2>1. Len(e.at) \in Nat
        BY <1>2 DEF TodoEntry
    <2> QED BY <2>1 DEF DeeperThan
<1>6. \A x \in Range(r) : x.do \in {"branch", "end"} /\ x.at = e.at => e.do = "branch" /\ x.do = "end"
    BY <1>1, <1>5 DEF Around
<1>7. e.at \notin Places(r, "branch") /\ (e.do # "branch" => e.at \notin Places(r, "end"))
    BY <1>6 DEF Places
<1>8. Places(t, "branch") \subseteq Places(t, "end") /\ \A x \in Range(t) : EntryLaid(x)
    BY DEF Laid
<1>9. Places(r, "branch") \subseteq Places(r, "end")
    BY <1>4, <1>7, <1>8
<1>10. Laid(r) /\ EntryLaid(e)
    BY <1>1, <1>3, <1>8, <1>9 DEF Laid
<1>11. e.do \notin {"branch", "end"} => Pending(r) = Pending(t)
    BY <1>4 DEF Pending
<1>12. e.do = "branch" => Pending(r) = Pending(t) \union {e.at}
    BY <1>4, <1>7, <1>8 DEF Pending
<1>13. e.do = "end" => Pending(r) = Pending(t) \ {e.at} /\ e.at \in Pending(t)
    BY <1>4, <1>7 DEF Pending
<1> QED BY <1>1, <1>10, <1>11, <1>12, <1>13 DEF e, r

\* Entries come for the one at the head.
LEMMA LaidPut ==
    ASSUME NEW t \in Seq(TodoEntry), t # <<>>, Laid(t), Head(t).do \notin {"branch", "end"},
           NEW es \in Seq(TodoEntry), es # <<>>, Linked(es, LeavesOpen(Head(t))), Nested(es),
           \A x \in Range(es) : ~DeeperThan(Head(t).at, x.at) /\ EntryLaid(x),
           Places(es, "branch") = Places(es, "end"), Places(es, "end") \subseteq {Head(t).at}
    PROVE  /\ Laid(es \o Tail(t)) /\ Pending(es \o Tail(t)) = Pending(t)
           /\ Going(es \o Tail(t)) <=> GoesIn(es[1])
<1> DEFINE e == Head(t)
           r == Tail(t)
           u == es \o r
<1>1. /\ e \in TodoEntry /\ r \in Seq(TodoEntry) /\ u \in Seq(TodoEntry)
      /\ Laid(r) /\ (LeavesOpen(e) <=> Going(r)) /\ Pending(r) = Pending(t)
    BY LaidOff, SeqEnds
<1>2. Nested(u)
    BY NestedPut DEF Laid
<1>3. /\ \A do : Places(u, do) = Places(es, do) \union Places(r, do)
      /\ Range(u) = Range(es) \union Range(r)
    BY PlacesPut, RangePut
<1>4. \A x \in Range(r) : Around(e, x)
    BY NestedTail DEF Laid
<1>5. u # <<>> /\ Head(u) = es[1]
    OBVIOUS
<1>6. r # <<>> => Head(r) = r[1]
    BY <1>1
<1> HIDE DEF e, r, u
<1>7. e.at \notin Places(r, "end")
    <2>1. Len(e.at) \in Nat
        BY <1>1 DEF TodoEntry
    <2>2. ~DeeperThan(e.at, e.at)
        BY <2>1 DEF DeeperThan
    <2> QED BY <1>4, <2>2 DEF Around, Places, e
<1>8. Linked(u, FALSE)
    <2> DEFINE after == IF r = <<>> THEN FALSE ELSE GoesIn(r[1])
    <2>1. LeavesOpen(e) <=> after
        BY <1>1, <1>6 DEF Going
    <2> HIDE DEF after
    <2>2. Linked(es, after)
        BY <2>1 DEF Linked, e
    <2>3. Linked(r, FALSE) /\ FALSE \in BOOLEAN
        BY <1>1 DEF Laid
    <2> QED BY <1>1, <2>2, <2>3, LinkedPut DEF u, after
<1>9. Laid(u)
    BY <1>1, <1>2, <1>3, <1>8 DEF Laid
<1>10. Pending(u) = Pending(r)
    BY <1>3, <1>7 DEF Pending, e
<1>11. Going(u) <=> GoesIn(es[1])
    BY <1>5 DEF Going
<1> QED BY <1>1, <1>9, <1>10, <1>11 DEF u, r

-----------------------------------------------------------------------------
(* What the instructions added to a block make of it.                       *)

LEMMA TerminatorsPut ==
    ASSUME NEW S, NEW s \in Seq(S), Terminators(s) = {}, NEW is \in Seq(S)
    PROVE  /\ Terminators(is) = {} => Terminators(s \o is) = {}
           /\ Len(is) = 1 /\ is[1].op \in {"ret", "br"} => Terminators(s \o is) = {Len(s \o is)}
<1> DEFINE n == Len(s)
           m == Len(is)
           u == s \o is
<1>1. /\ n \in Nat /\ m \in Nat /\ Len(u) = n + m /\ DOMAIN s = 1..n /\ DOMAIN is = 1..m
      /\ DOMAIN u = 1..(n + m)
      /\ \A j \in 1..n : u[j] = s[j]
      /\ \A j \in (n + 1)..(n + m) : u[j] = is[j - n]
    OBVIOUS
<1> HIDE DEF n, m, u
<1>2. \A j \in 1..n : u[j].op \notin {"ret", "br"}
    BY <1>1 DEF Terminators
<1>3. \A j \in 1..(n + m) : j \in 1..n \/ (j \in (n + 1)..(n + m) /\ j - n \in 1..m)
    BY <1>1
<1>4. ASSUME Terminators(is) = {} PROVE Terminators(u) = {}
    <2>1. \A j \in 1..m : is[j].op \notin {"ret", "br"}
        BY <1>1, <1>4 DEF Terminators
    <2>2. \A j \in 1..(n + m) : u[j].op \notin {"ret", "br"}
        BY <1>1, <1>2, <1>3, <2>1
    <2> QED BY <1>1, <2>2 DEF Terminators
<1>5. ASSUME m = 1, is[1].op \in {"ret", "br"} PROVE Terminators(u) = {n + m}
    <2>1. n + m \in (n + 1)..(n + m) /\ (n + m) - n = 1
        BY <1>1, <1>5
    <2>2. u[n + m].op \in {"ret", "br"} /\ n + m \in 1..(n + m)
        BY <1>1, <1>5, <2>1
    <2>3. \A j \in 1..(n + m) : j # n + m => j \in 1..n
        BY <1>1, <1>5
    <2> QED BY <1>1, <1>2, <2>2, <2>3 DEF Terminators
<1> QED BY <1>1, <1>4, <1>5 DEF u, n, m

LEMMA NoTerminators ==
    /\ Terminators(<<>>) = {}
    /\ \A i : i.op \notin {"ret", "br"} => Terminators(<<i>>) = {}
BY DEF Terminators

LEMMA IfEndIs ==
    ASSUME NEW p \in Seq(Nat), NEW q \in Seq(Nat)
    PROVE  /\ IfEnd(p) = IfEnd(q) => p = q
           /\ IfStart(p) # IfEnd(q) /\ (Len(p) = 1 => p # IfEnd(q))
<1> DEFINE a == IfEnd(p)
           b == IfEnd(q)
           c == IfStart(p)
<1>1. /\ a \in Seq(Nat) /\ Len(a) = Len(p) + 2 /\ a[Len(p) + 2] = 2
      /\ \A j \in 1..Len(p) : a[j] = p[j]
    BY DEF IfEnd
<1>2. /\ b \in Seq(Nat) /\ Len(b) = Len(q) + 2 /\ b[Len(q) + 2] = 2
      /\ \A j \in 1..Len(q) : b[j] = q[j]
    BY DEF IfEnd
<1>3. c \in Seq(Nat) /\ Len(c) = Len(p) + 2 /\ c[Len(p) + 2] = 1
    BY DEF IfStart
<1>4. Len(p) \in Nat /\ Len(q) \in Nat
    OBVIOUS
<1>5. p = [j \in 1..Len(p) |-> p[j]] /\ q = [j \in 1..Len(q) |-> q[j]]
    OBVIOUS
<1> HIDE DEF a, b, c
<1>6. a = b => p = q
    <2> SUFFICES ASSUME a = b PROVE p = q
        OBVIOUS
    <2>1. Len(p) = Len(q)
        BY <1>1, <1>2, <1>4
    <2>2. \A j \in 1..Len(p) : p[j] = q[j]
        BY <1>1, <1>2, <2>1
    <2> QED BY <1>5, <2>1, <2>2
<1>7. c # b
    <2> SUFFICES ASSUME c = b PROVE FALSE
        OBVIOUS
    <2>1. Len(p) = Len(q)
        BY <1>2, <1>3, <1>4
    <2> QED BY <1>2, <1>3, <2>1
<1>8. Len(p) = 1 => p # b
    <2> SUFFICES ASSUME Len(p) = 1, p = b PROVE FALSE
        OBVIOUS
    <2>1. Len(q) + 2 = 1
        BY <1>2
    <2> QED BY <1>4, <2>1
<1> QED BY <1>6, <1>7, <1>8 DEF a, b, c

\* The block instructions are put into stays open, or is ended.
LEMMA BlocksPut ==
    ASSUME NEW t, NEW u, NEW b, NEW c, NEW S, \A x \in DOMAIN c : c[x] \in Seq(S),
           Going(t), BlocksAre(t, b, c), Pending(u) = Pending(t), NEW is \in Seq(S),
           \/ Going(u) /\ Terminators(is) = {}
           \/ ~Going(u) /\ Len(is) = 1 /\ is[1].op \in {"ret", "br"}
    PROVE  BlocksAre(u, b, [c EXCEPT ![b] = @ \o is])
<1> DEFINE d == [c EXCEPT ![b] = @ \o is]
<1>1. /\ b \in DOMAIN c /\ Terminators(c[b]) = {} /\ \A p \in Pending(t) : b # IfEnd(p)
      /\ \A p \in Pending(t) : IfEnd(p) \in DOMAIN c /\ c[IfEnd(p)] = <<>>
      /\ \A x \in DOMAIN c : x = b \/ (\E p \in Pending(t) : x = IfEnd(p))
                             \/ Terminators(c[x]) = {Len(c[x])}
    BY DEF BlocksAre
<1>2. DOMAIN d = DOMAIN c /\ d[b] = c[b] \o is /\ \A x \in DOMAIN c : x # b => d[x] = c[x]
    BY <1>1
<1> HIDE DEF d
<1>3. \A p \in Pending(u) : IfEnd(p) \in DOMAIN d /\ d[IfEnd(p)] = <<>> /\ b # IfEnd(p)
    BY <1>1, <1>2
<1>4. c[b] \in Seq(S)
    BY <1>1
<1>5. /\ Going(u) => Terminators(d[b]) = {}
      /\ ~Going(u) => Terminators(d[b]) = {Len(d[b])}
    <2>1. PICK s \in Seq(S) : s = c[b]
        BY <1>4
    <2>2. Terminators(s) = {} /\ d[b] = s \o is
        BY <1>1, <1>2, <2>1
    <2>3. /\ Terminators(is) = {} => Terminators(s \o is) = {}
          /\ Len(is) = 1 /\ is[1].op \in {"ret", "br"} => Terminators(s \o is) = {Len(s \o is)}
        BY <2>2, TerminatorsPut
    <2> QED BY <2>2, <2>3
<1>6. \A x \in DOMAIN d : \/ Going(u) /\ x = b
                          \/ \E p \in Pending(u) : x = IfEnd(p)
                          \/ Terminators(d[x]) = {Len(d[x])}
    BY <1>1, <1>2, <1>5
<1> QED BY <1>1, <1>2, <1>3, <1>5, <1>6 DEF BlocksAre, d

LEMMA BlocksSame ==
    ASSUME NEW t, NEW u, NEW b, NEW c, BlocksAre(t, b, c), Pending(u) = Pending(t),
           Going(u) <=> Going(t)
    PROVE  BlocksAre(u, b, c)
BY DEF BlocksAre

-----------------------------------------------------------------------------
(* Where the operands of a value stand.                                     *)

LEMMA DeeperIsNotBelow ==
    ASSUME NEW p \in Seq(Nat), NEW q \in Seq(Nat)
    PROVE  /\ Len(q) >= Len(p) => ~DeeperThan(p, q)
           /\ Len(q) > Len(p) => ~DeeperThan(p, q) /\ DeeperThan(q, p)
<1>1. Len(p) \in Nat /\ Len(q) \in Nat
    OBVIOUS
<1> QED BY <1>1 DEF DeeperThan

LEMMA ValueOfDeep ==
    ASSUME NEW q \in Seq(Nat)
    PROVE  ValueOf(q) \in Seq(Nat) /\ Len(ValueOf(q)) >= Len(q) /\ Len(q) \in Nat
<1>1. Len(q) \in Nat
    OBVIOUS
<1>2. Kid(q, 2) \in Seq(Nat) /\ Len(Kid(q, 2)) = Len(q) + 1
    BY KidPath
<1> QED BY <1>1, <1>2 DEF ValueOf

\* The values of the children of an expression are within it.
LEMMA ChildrenDeep ==
    ASSUME Rooted, NEW p, IsExpression(p), NEW c \in 1..Len(Children(p))
    PROVE  ValuesOf(Children(p))[c] \in Seq(Nat) /\ Len(ValuesOf(Children(p))[c]) > Len(p)
<1>1. p \in Seq(Nat) /\ Len(p) \in Nat /\ DOMAIN Children(p) = 1..Len(Children(p))
    BY ChildrenFrom
<1>2. PICK i \in ExpressionKids(At(p)) : i \in Nat /\ Children(p)[c] = Kid(p, i)
    BY <1>1, ChildrenAreExpressions
<1>3. Kid(p, i) \in Seq(Nat) /\ Len(Kid(p, i)) = Len(p) + 1
    BY <1>1, <1>2, KidPath
<1>4. /\ ValueOf(Kid(p, i)) \in Seq(Nat) /\ Len(ValueOf(Kid(p, i))) >= Len(Kid(p, i))
    BY <1>3, ValueOfDeep
<1>5. ValuesOf(Children(p))[c] = ValueOf(Kid(p, i))
    BY <1>1, <1>2, ValuesAre
<1>6. PICK v \in Seq(Nat) : v = ValueOf(Kid(p, i))
    BY <1>4
<1>7. Len(v) \in Nat
    OBVIOUS
<1> QED BY <1>1, <1>3, <1>4, <1>5, <1>6, <1>7

\* So are those of the arguments but the first.
LEMMA ArgumentsDeep ==
    ASSUME Rooted, NEW p, IsExpression(p), Arguments(p) # <<>>
    PROVE  LET vs == Tail(ValuesOf(Arguments(p)))
           IN \A k \in 1..Len(vs) : vs[k] \in Seq(Nat) /\ Len(vs[k]) > Len(p)
<1> DEFINE m == Len(At(p).kids) - 2 + 1
           as == Arguments(p)
           vs == ValuesOf(as)
<1>1. p \in Seq(Nat) /\ Len(p) \in Nat /\ Len(At(p).kids) \in Nat
    BY ExpressionNode, NodesAre
<1>2. as = [k \in 1..m |-> Kid(p, 2 + k - 1)]
    BY DEF Arguments, Kids
<1>3. m \in Nat \ {0}
    <2>1. m \in Int
        BY <1>1
    <2>2. ASSUME ~(m >= 1) PROVE as = <<>>
        <3>1. 1..m = {}
            BY <2>1, <2>2
        <3> HIDE DEF as, m
        <3> QED BY <1>2, <3>1
    <2> HIDE DEF m
    <2> QED BY <2>1, <2>2
<1> HIDE DEF m
<1>4. DOMAIN as = 1..m
    BY <1>2
<1>5. vs = [k \in 1..m |-> ValueOf(Kid(p, 2 + k - 1))]
    BY <1>2, <1>4 DEF ValuesOf
<1> HIDE DEF as
<1>6. ASSUME NEW k \in 1..m
      PROVE  vs[k] \in Seq(Nat) /\ Len(vs[k]) > Len(p)
    <2>1. 2 + k - 1 \in Nat
        BY <1>3
    <2> DEFINE q == Kid(p, 2 + k - 1)
    <2>2. q \in Seq(Nat) /\ Len(q) = Len(p) + 1
        BY <1>1, <2>1, KidPath
    <2>3. vs[k] = ValueOf(q)
        BY <1>5
    <2> HIDE DEF q, vs
    <2>4. vs[k] \in Seq(Nat) /\ Len(vs[k]) >= Len(q)
        BY <2>2, <2>3, ValueOfDeep
    <2>5. Len(vs[k]) \in Nat
        BY <2>4
    <2> QED BY <1>1, <2>2, <2>4, <2>5
<1>7. vs \in Seq(Seq(Nat)) /\ Len(vs) = m
    <2> DEFINE X == Seq(Nat)
               v(k) == ValueOf(Kid(p, 2 + k - 1))
    <2>1. \A k \in 1..m : v(k) \in X
        BY <1>5, <1>6
    <2> HIDE DEF X
    <2>2. vs = [k \in 1..m |-> v(k)]
        BY <1>5
    <2> HIDE DEF v, vs
    <2> QED BY <1>3, <2>1, <2>2 DEF X
<1> HIDE DEF vs
<1>8. vs # <<>> /\ Len(Tail(vs)) = m - 1
    <2>1. vs # <<>>
        BY <1>3, <1>7
    <2> QED BY <1>7, <2>1, SeqEnds
<1>9. \A k \in 1..(m - 1) : Tail(vs)[k] = vs[k + 1] /\ k + 1 \in 1..m
    BY <1>3, <1>7, <1>8
<1> QED BY <1>6, <1>8, <1>9 DEF vs, as

LEMMA KidsBelow ==
    ASSUME LoweringInv, Shaped, Plain, NEW p \in DOMAIN mir, NEW k \in 1..Len(mir[p].kids)
    PROVE  /\ p # <<>> /\ ~DeeperThan(p, mir[p].kids[k])
           /\ mir[p].op = "if" => DeeperThan(mir[p].kids[k], p)
<1> DEFINE kids == mir[p].kids
<1>1. /\ p \in Seq(Nat) /\ Len(p) \in Nat /\ Len(kids) \in Nat /\ kids[k] \in Seq(Nat)
      /\ Rooted /\ ValueFits(p) /\ (mir[p].op = "if" => Len(kids) = 2)
    <2>1. MirTyped /\ ValueFits(p) /\ Rooted
        BY DEF LoweringInv, Built, ValuesFit, ResolverInv
    <2>2. mir[p].op = "if" => Len(kids) = 2
        BY DEF Shaped, Shape
    <2>3. p \in Seq(Nat) /\ Len(kids) \in Nat /\ kids[k] \in Seq(Nat)
        BY <2>1, KidsTyped
    <2> QED BY <2>1, <2>2, <2>3
<1>2. kids # <<>>
    <2>1. kids = <<>> => Len(kids) = 0
        OBVIOUS
    <2> QED BY <1>1, <2>1
<1>3. /\ IsExpression(p) /\ p # <<>> /\ kids = Operands(p)
      /\ mir[p].op = "ccall" => Arguments(p) # <<>> /\ ~InDot(p)
    BY <1>1, <1>2 DEF ValueFits
<1>4. /\ IsExpression(Parent(p)) /\ Parent(p) \in Seq(Nat) /\ Len(Parent(p)) + 1 = Len(p)
    <2>1. IsExpression(Parent(p)) /\ Last(p) \in ExpressionKids(At(Parent(p)))
          /\ p = Kid(Parent(p), Last(p))
        BY <1>1, <1>3, ParentOf
    <2> QED BY <1>1, <2>1, ExpressionNode, KidIsExpression
<1>5. CASE Kind(p) = "call" /\ InDot(p)
    <2> DEFINE q == Kid(Parent(p), 1)
    <2>1. kids = <<ValueOf(q)>>
        <3> HIDE DEF kids
        <3> QED BY <1>3, <1>5 DEF Operands
    <2>2. q \in Seq(Nat) /\ Len(q) = Len(p)
        BY <1>4, KidPath
    <2> HIDE DEF q
    <2>3. ValueOf(q) \in Seq(Nat) /\ Len(ValueOf(q)) >= Len(q)
        BY <2>2, ValueOfDeep
    <2> HIDE DEF kids
    <2>4. Len(kids) = 1
        BY <2>1
    <2>5. k = 1 /\ mir[p].op # "if"
        BY <1>1, <2>4 DEF kids
    <2>6. kids[k] = ValueOf(q)
        BY <2>1, <2>5
    <2>7. Len(kids[k]) >= Len(p)
        BY <2>2, <2>3, <2>6
    <2> QED BY <1>1, <1>3, <2>5, <2>7, DeeperIsNotBelow DEF kids
<1>6. CASE ~(Kind(p) = "call" /\ InDot(p))
    <2>1. kids = IF mir[p].op = "ccall" THEN Tail(ValuesOf(Arguments(p))) ELSE ValuesOf(Children(p))
        <3> HIDE DEF kids
        <3> QED BY <1>3, <1>6 DEF Operands
    <2>2. CASE mir[p].op = "ccall"
        <3> DEFINE vs == Tail(ValuesOf(Arguments(p)))
        <3>1. \A j \in 1..Len(vs) : vs[j] \in Seq(Nat) /\ Len(vs[j]) > Len(p)
            BY <1>1, <1>3, <2>2, ArgumentsDeep
        <3>2. kids = vs
            BY <2>1, <2>2
        <3> HIDE DEF vs
        <3>3. Len(kids[k]) > Len(p)
            BY <3>1, <3>2
        <3> QED BY <1>1, <1>3, <3>3, DeeperIsNotBelow
    <2>3. CASE mir[p].op # "ccall"
        <3> DEFINE vs == ValuesOf(Children(p))
        <3>1. \A j \in 1..Len(Children(p)) : vs[j] \in Seq(Nat) /\ Len(vs[j]) > Len(p)
            BY <1>1, <1>3, ChildrenDeep
        <3>2. Len(vs) = Len(Children(p))
            BY <1>1, <1>3, ValuesAre
        <3>3. kids = vs
            BY <2>1, <2>3
        <3> HIDE DEF vs
        <3>4. Len(kids[k]) > Len(p)
            BY <3>1, <3>2, <3>3
        <3> QED BY <1>1, <1>3, <3>4, DeeperIsNotBelow
    <2> QED BY <2>2, <2>3
<1> QED BY <1>5, <1>6

-----------------------------------------------------------------------------
(* The steps.                                                               *)

LEMMA SameLaid ==
    ASSUME UNCHANGED backendVars
    PROVE  Returning' = Returning /\ \A t : Laid(t)' = Laid(t)
<1>1. Direct' = Direct /\ mir' = mir /\ functions' = functions
    BY SameMir DEF backendVars, loweringVars
<1>2. Lists' = Lists
    BY <1>1 DEF Lists
<1>3. ListsReturn' = ListsReturn /\ NoReturnIsUsed' = NoReturnIsUsed
    BY <1>1, <1>2 DEF ListsReturn, ReturnsAt, NoReturnIsUsed, Uses
<1>4. \A e : LeavesOpen(e)' = LeavesOpen(e) /\ EntryLaid(e)' = EntryLaid(e)
    BY <1>1, <1>2 DEF LeavesOpen, EntryLaid
<1>5. \A t : Laid(t)' = Laid(t)
    BY <1>4 DEF Laid, Linked
<1> QED BY <1>1, <1>3, <1>5 DEF Returning

LEMMA BlocksGoOn ==
    ASSUME UNCHANGED backendVars, emission' = "emitting" \/ todo' = <<>>,
           Returning => Laid(todo') /\ BlocksAre(todo', block', code')
    PROVE  BlockInv'
<1>1. Returning' = Returning /\ \A t : Laid(t)' = Laid(t)
    BY SameLaid
<1>2. Laid(todo') => Laid(todo)'
    BY <1>1 DEF Laid
<1> QED BY <1>1, <1>2 DEF BlockInv

LEMMA BlocksBreak ==
    ASSUME NEW how, Break(how), how \in {"crashed", "uncaught"}
    PROVE  BlockInv'
BY DEF Break, BlockInv

LEMMA BlocksEmitted ==
    ASSUME CodeFits(code), NEW u, Going(todo), BlocksAre(todo, block, code),
           Pending(u) = Pending(todo), NEW T, NEW is \in Seq(T),
           \/ Going(u) /\ Terminators(is) = {}
           \/ ~Going(u) /\ Len(is) = 1 /\ is[1].op \in {"ret", "br"}
    PROVE  BlocksAre(u, block, Emitted(is))
<1>1. PICK S : \A x \in DOMAIN code : code[x] \in Seq(S)
    BY DEF CodeFits
<1> DEFINE U == S \union T
<1>2. Seq(S) \subseteq Seq(U) /\ Seq(T) \subseteq Seq(U)
    BY SeqGrows
<1> HIDE DEF U
<1>3. (\A x \in DOMAIN code : code[x] \in Seq(U)) /\ is \in Seq(U)
    BY <1>1, <1>2
<1>4. PICK b, c, t : b = block /\ c = code /\ t = todo
    OBVIOUS
<1>5. BlocksAre(u, b, [c EXCEPT ![b] = @ \o is])
    BY <1>3, <1>4, BlocksPut
<1> QED BY <1>4, <1>5 DEF Emitted

\* What is at the head while a module that returns is emitted.
LEMMA AtLaid ==
    ASSUME EmissionInv, BlockInv, NEW dos, Emitting(dos), Returning
    PROVE  /\ todo \in Seq(TodoEntry) /\ todo # <<>> /\ Laid(todo) /\ EntryLaid(Head(todo))
           /\ BlocksAre(todo, block, code) /\ Laid(Tail(todo))
           /\ LeavesOpen(Head(todo)) <=> Going(Tail(todo))
           /\ Going(todo) <=> GoesIn(Head(todo))
           /\ Head(todo).do \notin {"branch", "end"} => Pending(Tail(todo)) = Pending(todo)
<1>1. todo \in Seq(TodoEntry) /\ todo # <<>> /\ emission = "emitting"
    BY AtTodo DEF Emitting
<1>2. Laid(todo) /\ BlocksAre(todo, block, code)
    BY <1>1 DEF BlockInv
<1> QED BY <1>1, <1>2, LaidOff DEF Going

\* The head is done, and leaves the block it found open as it was.
LEMMA HeadPassed ==
    ASSUME EmissionInv, BlockInv, NEW dos, Emitting(dos), UNCHANGED <<backendVars, emission, block, code>>,
           todo' = Tail(todo), Head(todo).do \notin {"branch", "end"},
           GoesIn(Head(todo)), LeavesOpen(Head(todo))
    PROVE  BlockInv'
<1>1. ASSUME Returning PROVE Laid(todo') /\ BlocksAre(todo', block', code')
    <2>1. PICK t, b, c : t = Tail(todo) /\ b = block /\ c = code
        OBVIOUS
    <2>2. BlocksAre(t, b, c) /\ Laid(Tail(todo))
        BY <1>1, <2>1, AtLaid, BlocksSame
    <2> QED BY <2>1, <2>2
<1> QED BY <1>1, AtTodo, BlocksGoOn

\* The head is done, and adds instructions to the block.
LEMMA HeadPutIn ==
    ASSUME EmissionInv, BlockInv, NEW dos, Emitting(dos), UNCHANGED <<backendVars, emission, block>>,
           todo' = Tail(todo), Head(todo).do \notin {"branch", "end"}, GoesIn(Head(todo)),
           NEW T, NEW is \in Seq(T), code' = Emitted(is),
           \/ LeavesOpen(Head(todo)) /\ Terminators(is) = {}
           \/ ~LeavesOpen(Head(todo)) /\ Len(is) = 1 /\ is[1].op \in {"ret", "br"}
    PROVE  BlockInv'
<1>1. ASSUME Returning PROVE Laid(todo') /\ BlocksAre(todo', block', code')
    <2>1. PICK t, b : t = Tail(todo) /\ b = block
        OBVIOUS
    <2>2. CodeFits(code)
        BY AtTodo
    <2>3. BlocksAre(t, block, Emitted(is))
        BY <1>1, <2>1, <2>2, AtLaid, BlocksEmitted
    <2>4. Laid(Tail(todo))
        BY <1>1, AtLaid
    <2> QED BY <2>1, <2>3, <2>4
<1> QED BY <1>1, AtTodo, BlocksGoOn

LEMMA LeafBlocks ==
    ASSUME EmissionInv, BlockInv, EmitLeaf
    PROVE  BlockInv'
<1>1. /\ Emitting({"value"}) /\ todo' = Tail(todo) /\ mir[Value].op # "ret"
      /\ UNCHANGED <<backendVars, emission, block, code>>
    BY DEF EmitLeaf, Emits
<1>2. Head(todo).do = "value" /\ Value = Head(todo).at
    BY <1>1, AtTodo
<1>3. GoesIn(Head(todo)) /\ LeavesOpen(Head(todo))
    BY <1>1, <1>2 DEF GoesIn, LeavesOpen
<1> QED BY <1>1, <1>2, <1>3, HeadPassed

LEMMA BuildBlocks ==
    ASSUME EmissionInv, BlockInv, EmitBinary \/ EmitReturn \/ EmitCall
    PROVE  BlockInv'
<1> DEFINE op == mir[Value].op
<1>1. /\ Emitting({"leave"}) /\ op \in BinaryOps \union {"ret", "call", "ccall"}
      /\ \E n, pushed : Build(n, op, Value, pushed)
    <2>1. CASE EmitBinary
        BY <2>1 DEF EmitBinary, Emits
    <2>2. CASE EmitReturn
        BY <2>2 DEF EmitReturn, Emits
    <2>3. CASE EmitCall
        BY <2>3 DEF EmitCall, Emits
    <2> QED BY <2>1, <2>2, <2>3
<1>2. PICK n, pushed : Build(n, op, Value, pushed)
    BY <1>1
<1>3. Head(todo).do = "leave" /\ Value = Head(todo).at
    BY <1>1, AtTodo
<1>4. CASE Break("crashed")
    BY <1>4, BlocksBreak
<1>5. CASE ~Break("crashed")
    <2> DEFINE i == Instr(op, Value, Top(n))
               is == <<i>>
    <2>1. /\ code' = Emitted(is) /\ todo' = Tail(todo)
          /\ UNCHANGED <<backendVars, emission, block>>
        BY <1>2, <1>5 DEF Build
    <2>2. i.op = op
        BY DEF Instr
    <2> HIDE DEF i, op
    <2>3. is \in Seq({i}) /\ Len(is) = 1 /\ is[1] = i
        OBVIOUS
    <2>4. op # "ret" => op \notin {"ret", "br"}
        BY <1>1 DEF BinaryOps
    <2>5. op # "ret" => Terminators(is) = {}
        BY <2>2, <2>4, NoTerminators
    <2>6. GoesIn(Head(todo)) /\ (LeavesOpen(Head(todo)) <=> op # "ret")
        BY <1>3 DEF GoesIn, LeavesOpen, op
    <2> HIDE DEF is
    <2> QED BY <1>1, <1>3, <2>1, <2>2, <2>3, <2>5, <2>6, HeadPutIn
<1> QED BY <1>4, <1>5

LEMMA CoercionBlocks ==
    ASSUME EmissionInv, BlockInv, EmitCoercion
    PROVE  BlockInv'
<1>1. Emitting({"coerce"})
    BY DEF EmitCoercion
<1>2. Head(todo).do = "coerce" /\ Value = Head(todo).at
    BY <1>1, AtTodo
<1>3. GoesIn(Head(todo)) /\ LeavesOpen(Head(todo))
    BY <1>2 DEF GoesIn, LeavesOpen
<1>4. CASE Break("crashed") \/ Break("uncaught")
    BY <1>4, BlocksBreak
<1>5. CASE ~Wraps(Value) /\ ~Bitcasts(Value)
    <2>1. todo' = Tail(todo) /\ UNCHANGED <<backendVars, emission, block, code>>
        BY <1>5 DEF EmitCoercion
    <2> QED BY <1>1, <1>2, <1>3, <2>1, HeadPassed
<1>6. CASE ~(~Wraps(Value) /\ ~Bitcasts(Value)) /\ ~Break("crashed") /\ ~Break("uncaught")
    <2> DEFINE is == CoercionOf(Value, Last(stack))
    <2>1. /\ code' = Emitted(is) /\ todo' = Tail(todo)
          /\ UNCHANGED <<backendVars, emission, block>>
        BY <1>6 DEF EmitCoercion
    <2>2. \E T : is \in Seq(T) /\ Terminators(is) = {}
        <3> DEFINE o == Value
                   v == Last(stack)
                   i == Instr("wrap", WrapperOf(o), <<v>>)
                   j == Instr("cast", BitcastOf(o), <<IF Wraps(o) THEN WrapperOf(o) ELSE v>>)
                   T == {i, j}
                   a == IF Wraps(o) THEN <<i>> ELSE <<>>
                   b == IF Bitcasts(o) THEN <<j>> ELSE <<>>
        <3>1. is = a \o b
            BY DEF CoercionOf
        <3>2. i.op = "wrap" /\ j.op = "cast"
            BY DEF Instr
        <3> HIDE DEF i, j
        <3>3. a \in Seq(T) /\ b \in Seq(T)
            <4>1. i \in T /\ j \in T
                OBVIOUS
            <4> HIDE DEF T
            <4>2. <<>> \in Seq(T) /\ <<i>> \in Seq(T) /\ <<j>> \in Seq(T)
                BY <4>1
            <4> QED BY <4>2
        <3>4. Terminators(a) = {} /\ Terminators(b) = {}
            BY <3>2, NoTerminators
        <3> HIDE DEF a, b, T, is
        <3>5. Terminators(a \o b) = {} /\ a \o b \in Seq(T)
            BY <3>3, <3>4, TerminatorsPut
        <3> QED BY <3>1, <3>5
    <2>3. PICK T : is \in Seq(T) /\ Terminators(is) = {}
        BY <2>2
    <2> HIDE DEF is
    <2> QED BY <1>1, <1>2, <1>3, <2>1, <2>3, HeadPutIn
<1> QED BY <1>4, <1>5, <1>6

\* Entries of which none is about the end of an if.
LEMMA PlainEntries ==
    ASSUME NEW es \in Seq(TodoEntry), \A x \in Range(es) : x.do \notin {"branch", "end"}
    PROVE  Nested(es) /\ Places(es, "branch") = {} /\ Places(es, "end") = {}
<1>1. DOMAIN es = 1..Len(es)
    OBVIOUS
<1>2. \A j \in 1..Len(es) : es[j].do \notin {"branch", "end"}
    BY <1>1 DEF Range
<1> QED BY <1>2 DEF Nested, Places

\* Entries that find a block open and leave it so, and one that finds it.
LEMMA OpenEntries ==
    ASSUME NEW es \in Seq(TodoEntry), NEW l \in TodoEntry, GoesIn(l),
           \A x \in Range(es) : GoesIn(x) /\ LeavesOpen(x)
    PROVE  /\ es \o <<l>> \in Seq(TodoEntry) /\ es \o <<l>> # <<>>
           /\ Range(es \o <<l>>) = Range(es) \union {l}
           /\ Linked(es \o <<l>>, LeavesOpen(l)) /\ GoesIn((es \o <<l>>)[1])
<1> DEFINE n == Len(es)
           u == es \o <<l>>
<1>1. /\ n \in Nat /\ Len(u) = n + 1 /\ u \in Seq(TodoEntry) /\ u[n + 1] = l
      /\ DOMAIN es = 1..n /\ DOMAIN u = 1..(n + 1)
      /\ \A j \in 1..n : u[j] = es[j]
    OBVIOUS
<1> HIDE DEF n, u
<1>2. \A j \in 1..n : u[j] \in Range(es)
    BY <1>1 DEF Range
<1>3. 1..(n + 1) = 1..n \union {n + 1} /\ n + 1 # 0
    BY <1>1
<1>4. Range(u) = Range(es) \union {l}
    <2>1. \A j \in 1..n : es[j] = u[j] /\ j \in 1..(n + 1)
        BY <1>1
    <2>2. n + 1 \in 1..(n + 1)
        BY <1>1
    <2> QED BY <1>1, <1>2, <1>3, <2>1, <2>2 DEF Range
<1>5. \A j \in 1..(n + 1) : GoesIn(u[j])
    BY <1>1, <1>2, <1>3
<1>6. ASSUME NEW j \in 1..(n + 1)
      PROVE  LeavesOpen(u[j]) <=> IF j < n + 1 THEN GoesIn(u[j + 1]) ELSE LeavesOpen(l)
    <2>1. CASE j = n + 1
        BY <1>1, <2>1
    <2>2. CASE j # n + 1
        <3>1. j \in 1..n /\ j < n + 1 /\ j + 1 \in 1..(n + 1)
            BY <1>1, <2>2
        <3> QED BY <1>2, <1>5, <3>1
    <2> QED BY <2>1, <2>2
<1>7. Linked(u, LeavesOpen(l))
    BY <1>1, <1>6 DEF Linked
<1>8. 1 \in 1..(n + 1) /\ u # <<>>
    BY <1>1, <1>3
<1> QED BY <1>1, <1>4, <1>5, <1>7, <1>8 DEF u

\* Entries come for the head, and the block stays open.
LEMMA EntriesBlocks ==
    ASSUME EmissionInv, BlockInv, NEW dos, Emitting(dos), UNCHANGED <<backendVars, emission, block, code>>,
           GoesIn(Head(todo)), Head(todo).do \notin {"branch", "end"},
           NEW es \in Seq(TodoEntry), es # <<>>, todo' = es \o Tail(todo),
           Returning => /\ Linked(es, LeavesOpen(Head(todo))) /\ Nested(es) /\ GoesIn(es[1])
                        /\ \A x \in Range(es) : ~DeeperThan(Head(todo).at, x.at) /\ EntryLaid(x)
                        /\ Places(es, "branch") = Places(es, "end")
                        /\ Places(es, "end") \subseteq {Head(todo).at}
    PROVE  BlockInv'
<1>1. ASSUME Returning PROVE Laid(todo') /\ BlocksAre(todo', block', code')
    <2>1. PICK u : u = es \o Tail(todo)
        OBVIOUS
    <2>2. /\ todo \in Seq(TodoEntry) /\ todo # <<>> /\ Laid(todo)
          /\ BlocksAre(todo, block, code) /\ Going(todo)
        BY <1>1, AtLaid
    <2>3. Laid(u) /\ Pending(u) = Pending(todo) /\ Going(u)
        BY <1>1, <2>1, <2>2, LaidPut
    <2>4. BlocksAre(u, block, code)
        BY <2>2, <2>3, BlocksSame
    <2> QED BY <2>1, <2>3, <2>4
<1> QED BY <1>1, AtTodo, BlocksGoOn

\* A value that is no block is the operand of one that is no block either.
LEMMA OperandsLaid ==
    ASSUME Direct, NoReturnIsUsed, MirTyped, Shaped, NEW p \in DOMAIN mir, NEW v \in Range(Uses(p)),
           v \in DOMAIN mir
    PROVE  mir[v].op \notin {"ret", "block"}
<1>1. mir[v].op # "ret"
    BY DEF NoReturnIsUsed
<1>2. mir[v].type # "none"
    BY DEF Direct
<1>3. mir[v].op = "block" => mir[v].type = "none"
    BY DEF Shaped, Shape
<1> QED BY <1>1, <1>2, <1>3

\* The value of an operand finds the block open and leaves it so.
LEMMA OperandEntry ==
    ASSUME NEW v, mir[v].op \notin {"ret", "block"}
    PROVE  /\ GoesIn(Entry("value", v)) /\ LeavesOpen(Entry("value", v))
           /\ EntryLaid(Entry("value", v)) /\ Entry("value", v).do = "value" /\ Entry("value", v).at = v
BY DEF GoesIn, LeavesOpen, EntryLaid, Entry

\* The visit of the operands of a value and then of the value.
LEMMA VisitBlocks ==
    ASSUME EmissionInv, BlockInv, Emitting({"value"}), UNCHANGED <<backendVars, emission, block, code>>,
           NEW es \in Seq(TodoEntry), todo' = (es \o <<Entry("leave", Value)>>) \o Tail(todo),
           Returning => \A x \in Range(es) :
               GoesIn(x) /\ LeavesOpen(x) /\ EntryLaid(x) /\ x.do # "branch" /\ ~DeeperThan(Value, x.at)
    PROVE  BlockInv'
<1> DEFINE l == Entry("leave", Value)
           us == es \o <<l>>
<1>1. /\ todo \in Seq(TodoEntry) /\ Head(todo).do = "value" /\ Value = Head(todo).at
      /\ Value \in Seq(Nat)
    BY AtTodo
<1>2. l.do = "leave" /\ l.at = Value /\ l \in TodoEntry
    BY <1>1 DEF Entry, TodoEntry
<1> HIDE DEF l
<1>3. GoesIn(l) /\ EntryLaid(l) /\ (LeavesOpen(l) <=> LeavesOpen(Head(todo))) /\ GoesIn(Head(todo))
    BY <1>1, <1>2 DEF GoesIn, EntryLaid, LeavesOpen
<1>4. ~DeeperThan(Value, l.at)
    BY <1>1, <1>2, DeeperIsNotBelow DEF DeeperThan
<1>5. us \in Seq(TodoEntry) /\ us # <<>>
    <2>1. <<l>> \in Seq(TodoEntry)
        BY <1>2
    <2> QED BY <1>2, <2>1
<1>6. ASSUME Returning
      PROVE  /\ Linked(us, LeavesOpen(Head(todo))) /\ Nested(us) /\ GoesIn(us[1])
             /\ \A x \in Range(us) : ~DeeperThan(Head(todo).at, x.at) /\ EntryLaid(x)
             /\ Places(us, "branch") = Places(us, "end")
             /\ Places(us, "end") \subseteq {Head(todo).at}
    <2>1. /\ Range(us) = Range(es) \union {l} /\ Linked(us, LeavesOpen(l)) /\ GoesIn(us[1])
        BY <1>2, <1>3, <1>6, OpenEntries
    <2> HIDE DEF us
    <2>2. \A x \in Range(us) : x.do \notin {"branch", "end"} /\ ~DeeperThan(Value, x.at) /\ EntryLaid(x)
        BY <1>2, <1>3, <1>4, <1>6, <2>1 DEF GoesIn
    <2>3. Nested(us) /\ Places(us, "branch") = {} /\ Places(us, "end") = {}
        BY <1>5, <2>2, PlainEntries
    <2>4. Linked(us, LeavesOpen(Head(todo)))
        BY <1>3, <2>1 DEF Linked
    <2> QED BY <1>1, <2>1, <2>2, <2>3, <2>4
<1> HIDE DEF us
<1>7. todo' = us \o Tail(todo)
    BY DEF us, l
<1> QED BY <1>1, <1>3, <1>5, <1>6, <1>7, EntriesBlocks

LEMMA OperandsBlocks ==
    ASSUME EmissionInv, BlockInv, EmitOperands
    PROVE  BlockInv'
<1> DEFINE p == Value
           kids == mir[p].kids
           es == Entries("value", kids)
<1>1. /\ Emitting({"value"}) /\ todo' = (es \o <<Entry("leave", Value)>>) \o Tail(todo)
      /\ UNCHANGED <<backendVars, emission, block, code>>
      /\ mir[p].op \in BinaryOps \union {"%", "ret"}
    BY DEF EmitOperands, Emits
<1>2. p \in DOMAIN mir /\ MirTyped /\ Shaped
    BY <1>1, AtTodo DEF EntryStands
<1>3. kids \in Seq(DOMAIN mir) /\ Len(kids) \in Nat /\ DOMAIN kids = 1..Len(kids)
    BY <1>2, KidsTyped
<1>4. es \in Seq(TodoEntry) /\ Len(es) = Len(kids) /\ \A j \in 1..Len(kids) : es[j] = Entry("value", kids[j])
    BY <1>2, <1>3, EntriesStand
<1>5. Uses(p) = kids
    BY <1>1 DEF Uses, BinaryOps
<1>6. ASSUME Returning, NEW x \in Range(es)
      PROVE  GoesIn(x) /\ LeavesOpen(x) /\ EntryLaid(x) /\ x.do # "branch" /\ ~DeeperThan(p, x.at)
    <2>1. PICK j \in 1..Len(kids) : x = Entry("value", kids[j])
        BY <1>4, <1>6 DEF Range
    <2>2. kids[j] \in DOMAIN mir /\ kids[j] \in Range(Uses(p))
        BY <1>3, <1>5 DEF Range
    <2>3. mir[kids[j]].op \notin {"ret", "block"}
        BY <1>2, <1>6, <2>2, OperandsLaid DEF Returning
    <2>4. ~DeeperThan(p, kids[j])
        BY <1>2, <1>6, KidsBelow DEF Returning, Direct, EmissionInv
    <2> QED BY <2>1, <2>3, <2>4, OperandEntry
<1> HIDE DEF es, kids
<1> QED BY <1>1, <1>4, <1>6, VisitBlocks

LEMMA ArgumentsBlocks ==
    ASSUME EmissionInv, BlockInv, EmitArguments
    PROVE  BlockInv'
<1> DEFINE p == Value
           kids == mir[p].kids
           es == ArgumentEntries(p)
<1>1. /\ Emitting({"value"}) /\ todo' = (es \o <<Entry("leave", Value)>>) \o Tail(todo)
      /\ UNCHANGED <<backendVars, emission, block, code>>
      /\ mir[p].op \in CallOps
    BY DEF EmitArguments, Emits
<1>2. p \in DOMAIN mir /\ p \in Seq(Nat) /\ MirTyped /\ Shaped
    BY <1>1, AtTodo DEF EntryStands
<1>3. kids \in Seq(DOMAIN mir) /\ Len(kids) \in Nat /\ DOMAIN kids = 1..Len(kids)
    BY <1>2, KidsTyped
<1>4. es \in Seq(TodoEntry)
    BY <1>1, <1>2, ArgumentsAre
<1>5. Uses(p) = kids
    BY <1>1 DEF Uses, CallOps
<1>6. ASSUME Returning, NEW x \in Range(es)
      PROVE  GoesIn(x) /\ LeavesOpen(x) /\ EntryLaid(x) /\ x.do # "branch" /\ ~DeeperThan(p, x.at)
    <2>1. PICK k \in 1..Len(kids) : x = Entry("value", kids[k]) \/ x = Entry("coerce", Operand(p, k))
        <3>1. /\ DOMAIN es = 1..(2 * Len(kids))
              /\ \A k \in 1..Len(kids) : /\ es[2 * k - 1] = Entry("value", kids[k])
                                       /\ es[2 * k] = Entry("coerce", Operand(p, k))
            BY <1>1, <1>2, <1>4, ArgumentsAre
        <3>2. PICK j \in 1..(2 * Len(kids)) : x = es[j]
            BY <1>6, <3>1 DEF Range
        <3>3. PICK k \in 1..Len(kids) : j = 2 * k - 1 \/ j = 2 * k
            BY <1>3, Halves
        <3> QED BY <3>1, <3>2, <3>3
    <2>2. CASE x = Entry("value", kids[k])
        <3>2. kids[k] \in DOMAIN mir /\ kids[k] \in Range(Uses(p))
            BY <1>3, <1>5 DEF Range
        <3>3. mir[kids[k]].op \notin {"ret", "block"}
            BY <1>2, <1>6, <3>2, OperandsLaid DEF Returning
        <3>4. ~DeeperThan(p, kids[k])
            BY <1>2, <1>6, KidsBelow DEF Returning, Direct, EmissionInv
        <3> QED BY <2>2, <3>3, <3>4, OperandEntry
    <2>3. CASE x = Entry("coerce", Operand(p, k))
        <3>1. x.do = "coerce" /\ x.at = p \o <<0, k>>
            BY <2>3 DEF Entry, Operand
        <3>2. ~DeeperThan(p, x.at)
            <4>1. k \in Nat /\ Len(p) \in Nat
                BY <1>2, <1>3
            <4> DEFINE t == <<0, k>>
            <4>2. t \in Seq(Nat) /\ Len(t) = 2
                BY <4>1
            <4> HIDE DEF t
            <4>3. Len(p \o t) = Len(p) + 2
                BY <1>2, <4>2, LastOfStackIs
            <4>4. Len(x.at) = Len(p) + 2
                BY <3>1, <4>3 DEF t
            <4> QED BY <4>1, <4>4 DEF DeeperThan
        <3> QED BY <3>1, <3>2 DEF GoesIn, LeavesOpen, EntryLaid
    <2> QED BY <2>1, <2>2, <2>3
<1> HIDE DEF es, kids
<1> QED BY <1>1, <1>4, <1>6, VisitBlocks

LEMMA IfBlocks ==
    ASSUME EmissionInv, BlockInv, EmitIf
    PROVE  BlockInv'
<1> DEFINE p == Value
           e1 == Entry("value", mir[p].kids[1])
           e2 == Entry("branch", p)
           e3 == Entry("start", mir[p].kids[2])
           e4 == Entry("end", p)
           es == <<e1, e2, e3, e4>>
<1>1. /\ Emitting({"value"}) /\ todo' = es \o Tail(todo) /\ mir[p].op = "if"
      /\ UNCHANGED <<backendVars, emission, block, code>>
    BY DEF EmitIf, Emits
<1>2. /\ p \in DOMAIN mir /\ p \in Seq(Nat) /\ Len(p) \in Nat /\ MirTyped /\ Shaped
      /\ Head(todo).do = "value" /\ Head(todo).at = p
    BY <1>1, AtTodo DEF EntryStands
<1>3. /\ Len(mir[p].kids) = 2 /\ mir[p].kids[1] \in DOMAIN mir
      /\ mir[p].kids[1] \in Seq(Nat) /\ mir[p].kids[2] \in Seq(Nat)
    <2>1. Len(mir[p].kids) = 2 /\ mir[p].kids \in Seq(DOMAIN mir)
        BY <1>1, <1>2, KidsTyped DEF Shaped, Shape
    <2>2. mir[p].kids[1] \in DOMAIN mir
        BY <2>1
    <2> QED BY <1>2, <2>1, <2>2, KidsTyped
<1>4. /\ e1.do = "value" /\ e1.at = mir[p].kids[1] /\ e2.do = "branch" /\ e2.at = p
      /\ e3.do = "start" /\ e3.at = mir[p].kids[2] /\ e4.do = "end" /\ e4.at = p
    BY DEF Entry
<1>5. e1 \in TodoEntry /\ e2 \in TodoEntry /\ e3 \in TodoEntry /\ e4 \in TodoEntry
    BY <1>2, <1>3 DEF Entry, TodoEntry
<1>6. GoesIn(Head(todo)) /\ LeavesOpen(Head(todo))
    BY <1>1, <1>2 DEF GoesIn, LeavesOpen
<1> HIDE DEF e1, e2, e3, e4, p
<1>7. /\ es \in Seq(TodoEntry) /\ es # <<>> /\ Len(es) = 4 /\ DOMAIN es = 1..4
      /\ es[1] = e1 /\ es[2] = e2 /\ es[3] = e3 /\ es[4] = e4
    BY <1>5
<1>8. Range(es) = {e1, e2, e3, e4}
    BY DEF Range
<1> HIDE DEF es
<1>9. ASSUME Returning
      PROVE  /\ Linked(es, LeavesOpen(Head(todo))) /\ Nested(es) /\ GoesIn(es[1])
             /\ \A x \in Range(es) : ~DeeperThan(p, x.at) /\ EntryLaid(x)
             /\ Places(es, "branch") = Places(es, "end")
             /\ Places(es, "end") \subseteq {p}
    <2>1. mir[mir[p].kids[1]].op \notin {"ret", "block"}
        <3>1. mir[p].kids[1] \in Range(Uses(p))
            BY <1>1 DEF Uses, Range, p
        <3> QED BY <1>2, <1>3, <1>9, <3>1, OperandsLaid DEF Returning
    <2>2. /\ GoesIn(e1) /\ LeavesOpen(e1) /\ EntryLaid(e1)
        BY <2>1, <1>4 DEF GoesIn, LeavesOpen, EntryLaid
    <2>3. /\ GoesIn(e2) /\ LeavesOpen(e2) /\ EntryLaid(e2)
          /\ GoesIn(e3) /\ ~LeavesOpen(e3)
          /\ ~GoesIn(e4) /\ LeavesOpen(e4) /\ EntryLaid(e4)
        BY <1>4 DEF GoesIn, LeavesOpen, EntryLaid
    <2>4. EntryLaid(e3)
        BY <1>1, <1>2, <1>4 DEF EntryLaid, Lists, p
    <2>5. Linked(es, LeavesOpen(Head(todo)))
        <3>1. 1..4 = {1, 2, 3, 4} /\ 1 + 1 = 2 /\ 2 + 1 = 3 /\ 3 + 1 = 4 /\ 1 < 4 /\ 2 < 4 /\ 3 < 4 /\ ~(4 < 4)
            OBVIOUS
        <3> QED BY <1>6, <1>7, <2>2, <2>3, <3>1 DEF Linked
    <2>6. /\ DeeperThan(mir[p].kids[1], p) /\ DeeperThan(mir[p].kids[2], p)
          /\ ~DeeperThan(p, mir[p].kids[1]) /\ ~DeeperThan(p, mir[p].kids[2]) /\ ~DeeperThan(p, p)
        <3>1. 1 \in 1..Len(mir[p].kids) /\ 2 \in 1..Len(mir[p].kids)
            BY <1>3
        <3>2. \A k \in 1..Len(mir[p].kids) : DeeperThan(mir[p].kids[k], p) /\ ~DeeperThan(p, mir[p].kids[k])
            BY <1>1, <1>2, <1>9, KidsBelow DEF Returning, Direct, EmissionInv, p
        <3> QED BY <1>2, <3>1, <3>2 DEF DeeperThan
    <2>7. Nested(es)
        <3>1. 1..4 = {1, 2, 3, 4}
            OBVIOUS
        <3>2. \A i, j \in 1..4 : i < j /\ es[j].do \in {"branch", "end"} =>
                  \/ DeeperThan(es[i].at, es[j].at)
                  \/ es[i].do = "branch" /\ es[j].do = "end" /\ es[i].at = es[j].at
            <4> SUFFICES ASSUME NEW i \in 1..4, NEW j \in 1..4, i < j, es[j].do \in {"branch", "end"}
                         PROVE  \/ DeeperThan(es[i].at, es[j].at)
                                \/ es[i].do = "branch" /\ es[j].do = "end" /\ es[i].at = es[j].at
                OBVIOUS
            <4>1. (j = 2 /\ i = 1) \/ (j = 4 /\ i \in {1, 2, 3})
                BY <1>4, <1>7, <3>1
            <4> QED BY <1>4, <1>7, <2>6, <4>1
        <3> QED BY <1>7, <3>2 DEF Nested
    <2>8. \A x \in Range(es) : ~DeeperThan(p, x.at) /\ EntryLaid(x)
        BY <1>4, <1>8, <2>2, <2>3, <2>4, <2>6
    <2>9. Places(es, "branch") = {p} /\ Places(es, "end") = {p}
        BY <1>4, <1>8 DEF Places
    <2> QED BY <1>7, <2>2, <2>5, <2>7, <2>8, <2>9
<1>10. todo' = es \o Tail(todo)
    BY <1>1 DEF es, e1, e2, e3, e4, p
<1>11. ASSUME Returning
       PROVE  \A x \in Range(es) : ~DeeperThan(Head(todo).at, x.at) /\ EntryLaid(x)
    BY <1>2, <1>9, <1>11
<1> QED BY <1>1, <1>2, <1>6, <1>7, <1>9, <1>10, <1>11, EntriesBlocks DEF p

\* The statements of a list that only its end returns from.
LEMMA StatementsLaid ==
    ASSUME Returning, MirTyped, NEW vs \in Lists, vs \in Seq(DOMAIN mir),
           NEW p, \A j \in 1..Len(vs) : ~DeeperThan(p, vs[j])
    PROVE  LET es == Entries("value", vs)
           IN /\ es \in Seq(TodoEntry) /\ es # <<>> /\ Linked(es, FALSE) /\ Nested(es) /\ GoesIn(es[1])
              /\ \A x \in Range(es) : ~DeeperThan(p, x.at) /\ EntryLaid(x)
              /\ Places(es, "branch") = {} /\ Places(es, "end") = {}
<1> DEFINE n == Len(vs)
           es == Entries("value", vs)
<1>1. /\ es \in Seq(TodoEntry) /\ Len(es) = n /\ n \in Nat /\ DOMAIN vs = 1..n
      /\ \A j \in 1..n : es[j] = Entry("value", vs[j])
    BY EntriesStand
<1>2. vs # <<>> /\ ReturnsAt(vs) = {n} /\ \A v \in Range(vs) : mir[v].op # "block"
    BY DEF Returning, ListsReturn
<1>3. n # 0
    BY <1>2
<1> HIDE DEF n, es
<1>4. DOMAIN es = 1..n /\ es # <<>> /\ 1 \in 1..n
    BY <1>1, <1>3
<1>5. \A j \in 1..n : /\ es[j].do = "value" /\ es[j].at = vs[j] /\ mir[vs[j]].op # "block"
                      /\ mir[vs[j]].op = "ret" <=> j = n
    BY <1>1, <1>2 DEF Entry, ReturnsAt, Range
<1>6. \A j \in 1..n : /\ GoesIn(es[j]) /\ EntryLaid(es[j]) /\ ~DeeperThan(p, es[j].at)
                      /\ LeavesOpen(es[j]) <=> j # n
    BY <1>5 DEF GoesIn, EntryLaid, LeavesOpen, n
<1>7. Linked(es, FALSE)
    <2>1. \A j \in 1..n : j < n <=> j # n
        BY <1>1
    <2>2. \A j \in 1..n : j < n => j + 1 \in 1..n
        BY <1>1
    <2> QED BY <1>1, <1>6, <2>1, <2>2 DEF Linked
<1>8. \A x \in Range(es) : x.do \notin {"branch", "end"} /\ ~DeeperThan(p, x.at) /\ EntryLaid(x)
    BY <1>4, <1>5, <1>6 DEF Range
<1>9. Nested(es) /\ Places(es, "branch") = {} /\ Places(es, "end") = {}
    BY <1>1, <1>8, PlainEntries
<1> QED BY <1>1, <1>4, <1>6, <1>7, <1>8, <1>9 DEF es

LEMMA NoVTables ==
    \E T : VTables \in Seq(T) /\ Terminators(VTables) = {}
<1> DEFINE i == Instr("vtables.init", <<>>, <<>>)
           T == {i}
<1>1. i.op = "vtables.init"
    BY DEF Instr
<1>2. VTables = <<i>> \/ VTables = <<>>
    BY DEF VTables
<1>3. i \in T
    OBVIOUS
<1> HIDE DEF i, T
<1>4. <<i>> \in Seq(T) /\ <<>> \in Seq(T) /\ Terminators(<<i>>) = {} /\ Terminators(<<>>) = {}
    BY <1>1, <1>3, NoTerminators
<1> QED BY <1>2, <1>4

LEMMA IfBlockBlocks ==
    ASSUME EmissionInv, BlockInv, EmitIfBlock
    PROVE  BlockInv'
<1> DEFINE vs == mir[Value].kids
           es == Entries("value", vs)
<1>1. /\ Emitting({"start"}) /\ code' = Emitted(VTables) /\ todo' = es \o Tail(todo)
      /\ UNCHANGED <<backendVars, emission, stack, block>>
    BY DEF EmitIfBlock
<1>2. /\ Value \in DOMAIN mir /\ Head(todo).do = "start" /\ Head(todo).at = Value
      /\ MirTyped /\ Shaped /\ CodeFits(code)
    BY <1>1, AtTodo DEF EntryStands
<1>3. ASSUME Returning PROVE Laid(todo') /\ BlocksAre(todo', block', code')
    <2>1. /\ todo \in Seq(TodoEntry) /\ todo # <<>> /\ Laid(todo) /\ EntryLaid(Head(todo))
          /\ BlocksAre(todo, block, code) /\ (Going(todo) <=> GoesIn(Head(todo)))
        BY <1>1, <1>3, AtLaid
    <2>2. Going(todo) /\ ~LeavesOpen(Head(todo)) /\ vs \in Lists
        BY <1>2, <2>1 DEF GoesIn, LeavesOpen, EntryLaid
    <2>3. vs \in Seq(DOMAIN mir) /\ \A j \in 1..Len(vs) : ~DeeperThan(Value, vs[j])
        BY <1>2, <1>3, KidsTyped, KidsBelow DEF Returning, Direct, EmissionInv
    <2> HIDE DEF vs
    <2>4. /\ es \in Seq(TodoEntry) /\ es # <<>> /\ Linked(es, FALSE) /\ Nested(es) /\ GoesIn(es[1])
          /\ \A x \in Range(es) : ~DeeperThan(Value, x.at) /\ EntryLaid(x)
          /\ Places(es, "branch") = {} /\ Places(es, "end") = {}
        BY <1>2, <1>3, <2>2, <2>3, StatementsLaid
    <2> HIDE DEF es
    <2>5. Linked(es, LeavesOpen(Head(todo)))
        BY <2>2, <2>4 DEF Linked
    <2>6. PICK u : u = es \o Tail(todo)
        OBVIOUS
    <2>7. Laid(u) /\ Pending(u) = Pending(todo) /\ Going(u)
        BY <1>2, <2>1, <2>4, <2>5, <2>6, LaidPut
    <2>8. PICK T : VTables \in Seq(T) /\ Terminators(VTables) = {}
        BY NoVTables
    <2>9. BlocksAre(u, block, Emitted(VTables))
        BY <1>2, <2>1, <2>2, <2>7, <2>8, BlocksEmitted
    <2> QED BY <1>1, <2>6, <2>7, <2>9
<1> QED BY <1>1, <1>3, AtTodo, BlocksGoOn

\* The one block of a function is begun when no other is open.
LEMMA BlocksBegun ==
    ASSUME NEW t, NEW u, NEW b0, NEW b \in Seq(Nat), Len(b) = 1, NEW c, NEW is,
           \A p \in Pending(t) : p \in Seq(Nat),
           BlocksAre(t, b0, c), ~Going(t), Going(u), Pending(u) = Pending(t), Terminators(is) = {}
    PROVE  BlocksAre(u, b, With(c, b, is))
<1> DEFINE d == With(c, b, is)
<1>1. DOMAIN d = DOMAIN c \union {b} /\ d[b] = is /\ \A x \in DOMAIN c : x # b => d[x] = c[x]
    BY DEF With
<1> HIDE DEF d
<1>2. /\ \A p \in Pending(t) : IfEnd(p) \in DOMAIN c /\ c[IfEnd(p)] = <<>>
      /\ \A x \in DOMAIN c : (\E p \in Pending(t) : x = IfEnd(p)) \/ Terminators(c[x]) = {Len(c[x])}
    BY DEF BlocksAre
<1>3. \A p \in Pending(t) : b # IfEnd(p)
    BY IfEndIs
<1>4. \A p \in Pending(u) : IfEnd(p) \in DOMAIN d /\ d[IfEnd(p)] = <<>> /\ b # IfEnd(p)
    BY <1>1, <1>2, <1>3
<1>5. \A x \in DOMAIN d : \/ x = b
                          \/ \E p \in Pending(u) : x = IfEnd(p)
                          \/ Terminators(d[x]) = {Len(d[x])}
    BY <1>1, <1>2
<1> QED BY <1>1, <1>4, <1>5 DEF BlocksAre, d

\* What is pending is an if of the module.
LEMMA PendingIs ==
    ASSUME NEW t \in Seq(TodoEntry), NEW p \in Pending(t)
    PROVE  p \in Seq(Nat)
<1>1. PICK e \in Range(t) : p = e.at
    BY DEF Pending, Places
<1>2. e \in TodoEntry
    BY DEF Range
<1> QED BY <1>1, <1>2 DEF TodoEntry

LEMMA BlockBlocks ==
    ASSUME EmissionInv, BlockInv, EmitBlock
    PROVE  BlockInv'
<1>1. CASE Emits("value", {"block"})
    <2>1. /\ Emitting({"value"}) /\ mir[Value].op = "block" /\ UNCHANGED <<backendVars, emission>>
        BY <1>1 DEF Emits, EmitBlock
    <2>2. Head(todo).do = "value" /\ Head(todo).at = Value /\ emission = "emitting"
        BY <2>1, AtTodo
    <2>3. ~Returning
        <3>1. Returning => EntryLaid(Head(todo))
            BY <2>1, AtLaid
        <3> QED BY <2>1, <2>2, <3>1 DEF EntryLaid
    <2> QED BY <2>1, <2>2, <2>3, BlocksGoOn
<1>2. CASE ~Emits("value", {"block"})
    <2> DEFINE vs == functions[Value[1]].body
               es == Entries("value", vs)
    <2>1. Emitting({"function"})
        BY <1>2 DEF EmitBlock
    <2>2. /\ Head(todo).do = "function" /\ Head(todo).at = Value /\ MirTyped /\ Shaped
          /\ \E k \in DOMAIN functions : Value = <<k>>
        <3>1. /\ Head(todo).do = "function" /\ Head(todo).at = Value /\ MirTyped /\ Shaped
              /\ EntryStands(Head(todo))
            BY <2>1, AtTodo
        <3> QED BY <3>1 DEF EntryStands
    <2>3. PICK k \in DOMAIN functions : Value = <<k>>
        BY <2>2
    <2>4. /\ block' = Value /\ code' = With(code, Value, VTables) /\ todo' = es \o Tail(todo)
          /\ UNCHANGED <<backendVars, emission, stack>>
        BY <2>2 DEF EmitBlock
    <2>5. Value \in Seq(Nat) /\ Len(Value) = 1 /\ vs = functions[k].body /\ vs \in Seq(DOMAIN mir)
        <3> DEFINE S == [of : Seq(Nat), body : Seq(DOMAIN mir)]
        <3>1. functions \in Seq(S)
            BY <2>2 DEF MirTyped
        <3>2. \A f \in S : f.body \in Seq(DOMAIN mir)
            OBVIOUS
        <3> HIDE DEF S
        <3>3. DOMAIN functions \subseteq Nat /\ functions[k] \in S
            BY <3>1
        <3> QED BY <2>3, <3>2, <3>3
    <2>6. ASSUME Returning PROVE Laid(todo') /\ BlocksAre(todo', block', code')
        <3>1. /\ todo \in Seq(TodoEntry) /\ todo # <<>> /\ Laid(todo)
              /\ BlocksAre(todo, block, code) /\ (Going(todo) <=> GoesIn(Head(todo)))
            BY <2>1, <2>6, AtLaid
        <3>2. ~Going(todo) /\ ~LeavesOpen(Head(todo)) /\ vs \in Lists
            BY <2>2, <2>3, <2>5, <3>1 DEF GoesIn, LeavesOpen, Lists
        <3>3. ASSUME NEW j \in 1..Len(vs) PROVE ~DeeperThan(Value, vs[j])
            <4>1. vs[j] \in DOMAIN mir
                BY <2>5
            <4>2. vs[j] \in Seq(Nat) /\ vs[j] # <<>>
                BY <4>1 DEF EmissionInv, LoweringInv, Built, MirTyped, ValuesFit, ValueFits
            <4>3. Len(vs[j]) \in Nat \ {0}
                BY <4>2
            <4> QED BY <2>5, <4>3 DEF DeeperThan
        <3> HIDE DEF vs
        <3>4. /\ es \in Seq(TodoEntry) /\ es # <<>> /\ Linked(es, FALSE) /\ Nested(es) /\ GoesIn(es[1])
              /\ \A x \in Range(es) : ~DeeperThan(Value, x.at) /\ EntryLaid(x)
              /\ Places(es, "branch") = {} /\ Places(es, "end") = {}
            BY <2>2, <2>5, <2>6, <3>2, <3>3, StatementsLaid
        <3> HIDE DEF es
        <3>5. Linked(es, LeavesOpen(Head(todo)))
            BY <3>2, <3>4 DEF Linked
        <3>6. PICK u : u = es \o Tail(todo)
            OBVIOUS
        <3>7. Laid(u) /\ Pending(u) = Pending(todo) /\ Going(u)
            BY <2>2, <3>1, <3>4, <3>5, <3>6, LaidPut
        <3>8. Terminators(VTables) = {}
            BY NoVTables
        <3>9. PICK b, is, c : b = Value /\ is = VTables /\ c = code
            OBVIOUS
        <3>10. \A p \in Pending(todo) : p \in Seq(Nat)
            BY <3>1, PendingIs
        <3>11. BlocksAre(u, b, With(c, b, is))
            BY <2>5, <3>1, <3>2, <3>7, <3>8, <3>9, <3>10, BlocksBegun
        <3> QED BY <2>4, <3>6, <3>7, <3>9, <3>11
    <2> QED BY <2>1, <2>4, <2>6, AtTodo, BlocksGoOn
<1> QED BY <1>1, <1>2

\* A branch ends the block, and begins the two it leads to.
LEMMA BlocksParted ==
    ASSUME NEW t, NEW u, NEW b, NEW c, NEW S, \A x \in DOMAIN c : c[x] \in Seq(S),
           NEW v \in Seq(Nat), \A p \in Pending(t) : p \in Seq(Nat),
           BlocksAre(t, b, c), Going(t), Going(u), Pending(u) = Pending(t) \union {v},
           NEW is \in Seq(S), Len(is) = 1, is[1].op = "br"
    PROVE  BlocksAre(u, IfStart(v), With(With([c EXCEPT ![b] = @ \o is], IfEnd(v), <<>>), IfStart(v), <<>>))
<1> DEFINE d1 == [c EXCEPT ![b] = @ \o is]
           e == <<>>
           d2 == With(d1, IfEnd(v), e)
           d == With(d2, IfStart(v), e)
<1>1. /\ b \in DOMAIN c /\ Terminators(c[b]) = {} /\ \A p \in Pending(t) : b # IfEnd(p)
      /\ \A p \in Pending(t) : IfEnd(p) \in DOMAIN c /\ c[IfEnd(p)] = <<>>
      /\ \A x \in DOMAIN c : x = b \/ (\E p \in Pending(t) : x = IfEnd(p))
                             \/ Terminators(c[x]) = {Len(c[x])}
    BY DEF BlocksAre
<1>2. DOMAIN d1 = DOMAIN c /\ d1[b] = c[b] \o is /\ \A x \in DOMAIN c : x # b => d1[x] = c[x]
    BY <1>1
<1> HIDE DEF d1
<1>3. /\ DOMAIN d2 = DOMAIN c \union {IfEnd(v)} /\ d2[IfEnd(v)] = e
      /\ \A x \in DOMAIN c : x # IfEnd(v) => d2[x] = d1[x]
    BY <1>2 DEF With
<1> HIDE DEF d2
<1>4. /\ DOMAIN d = DOMAIN d2 \union {IfStart(v)} /\ d[IfStart(v)] = e
      /\ \A x \in DOMAIN d2 : x # IfStart(v) => d[x] = d2[x]
    BY DEF With
<1> HIDE DEF d
<1>5. Terminators(d1[b]) = {Len(d1[b])}
    <2>1. PICK s \in Seq(S) : s = c[b]
        BY <1>1
    <2>2. Terminators(s) = {} /\ d1[b] = s \o is
        BY <1>1, <1>2, <2>1
    <2> QED BY <2>2, TerminatorsPut
<1>6. \A p \in Pending(u) : IfStart(v) # IfEnd(p)
    BY IfEndIs
<1>7. ASSUME NEW p \in Pending(u) PROVE IfEnd(p) \in DOMAIN d /\ d[IfEnd(p)] = e
    <2>1. CASE p = v
        BY <1>3, <1>4, <1>6, <1>7, <2>1
    <2>2. CASE p # v
        <3>1. p \in Pending(t)
            BY <1>7, <2>2
        <3>2. IfEnd(p) # IfEnd(v)
            BY <2>2, <3>1, IfEndIs
        <3> QED BY <1>1, <1>2, <1>3, <1>4, <1>6, <1>7, <3>1, <3>2
    <2> QED BY <2>1, <2>2
<1>8. ASSUME NEW x \in DOMAIN d
      PROVE  \/ x = IfStart(v)
             \/ \E p \in Pending(u) : x = IfEnd(p)
             \/ Terminators(d[x]) = {Len(d[x])}
    <2>1. CASE x = IfStart(v) \/ x = IfEnd(v)
        BY <2>1
    <2>2. CASE ~(x = IfStart(v) \/ x = IfEnd(v))
        <3>1. x \in DOMAIN c /\ d[x] = d1[x]
            BY <1>3, <1>4, <1>8, <2>2
        <3>2. CASE x = b
            BY <1>5, <3>1, <3>2
        <3>3. CASE x # b
            BY <1>1, <1>2, <3>1, <3>3
        <3> QED BY <3>2, <3>3
    <2> QED BY <2>1, <2>2
<1>9. Terminators(e) = {}
    BY NoTerminators
<1>10. BlocksAre(u, IfStart(v), d)
    BY <1>4, <1>6, <1>7, <1>8, <1>9 DEF BlocksAre
<1> QED BY <1>10 DEF d, d2, d1, e

LEMMA BranchBlocks ==
    ASSUME EmissionInv, BlockInv, EmitBranch
    PROVE  BlockInv'
<1>1. Emitting({"branch"})
    BY DEF EmitBranch
<1>2. /\ Head(todo).do = "branch" /\ Head(todo).at = Value /\ Value \in Seq(Nat) /\ CodeFits(code)
    BY <1>1, AtTodo
<1>3. CASE Break("crashed")
    BY <1>3, BlocksBreak
<1>4. CASE ~Break("crashed")
    <2> DEFINE i == Instr("br", Value, Top(1))
               is == <<i>>
    <2>1. /\ code' = With(With(Emitted(is), IfEnd(Value), <<>>), IfStart(Value), <<>>)
          /\ block' = IfStart(Value) /\ todo' = Tail(todo)
          /\ UNCHANGED <<backendVars, emission>>
        BY <1>4 DEF EmitBranch
    <2>2. i.op = "br"
        BY DEF Instr
    <2> HIDE DEF i
    <2>3. ASSUME Returning PROVE Laid(todo') /\ BlocksAre(todo', block', code')
        <3>1. /\ todo \in Seq(TodoEntry) /\ todo # <<>> /\ Laid(todo)
              /\ BlocksAre(todo, block, code) /\ (Going(todo) <=> GoesIn(Head(todo)))
            BY <1>1, <2>3, AtLaid
        <3>2. Going(todo) /\ LeavesOpen(Head(todo))
            BY <1>2, <3>1 DEF GoesIn, LeavesOpen
        <3>3. /\ Laid(Tail(todo)) /\ Pending(Tail(todo)) = Pending(todo) \union {Value}
              /\ Going(Tail(todo))
            BY <1>2, <3>1, <3>2, LaidOff
        <3>4. PICK S : \A x \in DOMAIN code : code[x] \in Seq(S)
            BY <1>2 DEF CodeFits
        <3> DEFINE U == S \union {i}
        <3>5. Seq(S) \subseteq Seq(U) /\ Seq({i}) \subseteq Seq(U) /\ is \in Seq({i})
            BY SeqGrows
        <3> HIDE DEF U
        <3>6. (\A x \in DOMAIN code : code[x] \in Seq(U)) /\ is \in Seq(U) /\ Len(is) = 1 /\ is[1].op = "br"
            BY <2>2, <3>4, <3>5
        <3>7. PICK t, u, b, c, v : t = todo /\ u = Tail(todo) /\ b = block /\ c = code /\ v = Value
            OBVIOUS
        <3>8. /\ \A p \in Pending(t) : p \in Seq(Nat)
              /\ v \in Seq(Nat) /\ BlocksAre(t, b, c) /\ Going(t) /\ Going(u)
              /\ Pending(u) = Pending(t) \union {v} /\ \A x \in DOMAIN c : c[x] \in Seq(U)
            BY <1>2, <3>1, <3>2, <3>3, <3>6, <3>7, PendingIs
        <3>10. PICK js \in Seq(U) : js = is /\ Len(js) = 1 /\ js[1].op = "br"
            BY <3>6
        <3> HIDE DEF is
        <3>9. BlocksAre(u, IfStart(v),
                        With(With([c EXCEPT ![b] = @ \o js], IfEnd(v), <<>>), IfStart(v), <<>>))
            BY <3>8, <3>10, BlocksParted
        <3> QED BY <2>1, <3>3, <3>7, <3>9, <3>10 DEF Emitted
    <2> QED BY <1>1, <2>1, <2>3, AtTodo, BlocksGoOn
<1> QED BY <1>3, <1>4

LEMMA IfEndBlocks ==
    ASSUME EmissionInv, BlockInv, EmitIfEnd
    PROVE  BlockInv'
<1>1. /\ Emitting({"end"}) /\ block' = IfEnd(Value) /\ todo' = Tail(todo)
      /\ UNCHANGED <<backendVars, emission, stack, code>>
    BY DEF EmitIfEnd
<1>2. /\ Head(todo).do = "end" /\ Head(todo).at = Value /\ Value \in Seq(Nat)
    BY <1>1, AtTodo
<1>3. ASSUME Returning PROVE Laid(todo') /\ BlocksAre(todo', block', code')
    <2>1. /\ todo \in Seq(TodoEntry) /\ todo # <<>> /\ Laid(todo) /\ BlocksAre(todo, block, code)
          /\ ~Going(todo)
        BY <1>1, <1>2, <1>3, AtLaid DEF GoesIn
    <2>2. /\ Laid(Tail(todo)) /\ Going(Tail(todo))
          /\ Pending(Tail(todo)) = Pending(todo) \ {Value} /\ Value \in Pending(todo)
        BY <1>2, <2>1, LaidOff DEF LeavesOpen
    <2>3. PICK t, u, b, c, v : t = todo /\ u = Tail(todo) /\ b = block /\ c = code /\ v = Value
        OBVIOUS
    <2>4. /\ \A p \in Pending(t) : p \in Seq(Nat)
          /\ Pending(u) = Pending(t) \ {v} /\ v \in Pending(t) /\ Going(u) /\ ~Going(t) /\ BlocksAre(t, b, c)
        BY <2>1, <2>2, <2>3, PendingIs
    <2>5. /\ \A p \in Pending(t) : IfEnd(p) \in DOMAIN c /\ c[IfEnd(p)] = <<>>
          /\ \A x \in DOMAIN c : (\E p \in Pending(t) : x = IfEnd(p)) \/ Terminators(c[x]) = {Len(c[x])}
        BY <2>4 DEF BlocksAre
    <2>6. \A p \in Pending(u) : p \in Pending(t) /\ IfEnd(v) # IfEnd(p)
        BY <2>4, IfEndIs
    <2>7. Terminators(c[IfEnd(v)]) = {}
        BY <2>4, <2>5, NoTerminators
    <2>8. \A x \in DOMAIN c : \/ x = IfEnd(v)
                              \/ \E p \in Pending(u) : x = IfEnd(p)
                              \/ Terminators(c[x]) = {Len(c[x])}
        BY <2>4, <2>5
    <2>9. BlocksAre(u, IfEnd(v), c)
        BY <2>4, <2>5, <2>6, <2>7, <2>8 DEF BlocksAre
    <2> QED BY <1>1, <2>2, <2>3, <2>9
<1> QED BY <1>1, <1>3, AtTodo, BlocksGoOn

LEMMA BlocksStart ==
    ASSUME EmissionInv, StartEmission
    PROVE  BlockInv'
<1> DEFINE es == [k \in DOMAIN functions |-> Entry("function", <<k>>)]
<1>1. CASE emission' = "uncaught"
    BY <1>1 DEF BlockInv
<1>2. CASE emission' # "uncaught"
    <2>1. /\ emission' = "emitting" /\ todo' = es /\ UNCHANGED backendVars
          /\ code' = code /\ code = <<>>
        BY <1>2 DEF StartEmission, EmissionInv, Emission
    <2>2. DOMAIN es = DOMAIN functions /\ \E n \in Nat : DOMAIN functions = 1..n
        <3> DEFINE S == [of : Seq(Nat), body : Seq(DOMAIN mir)]
        <3>1. functions \in Seq(S)
            BY DEF EmissionInv, LoweringInv, Built, MirTyped
        <3> HIDE DEF S
        <3> QED BY <3>1
    <2>3. \A k \in DOMAIN es : es[k].do = "function"
        BY DEF Entry
    <2>4. PICK n \in Nat : DOMAIN es = 1..n
        BY <2>2
    <2>5. Len(es) = n /\ (n = 0 => es = <<>>)
        <3>1. es = [k \in 1..n |-> Entry("function", <<k>>)]
            BY <2>2, <2>4
        <3> HIDE DEF es
        <3>2. Len(es) = n
            BY <2>4
        <3>3. 1..0 = {}
            OBVIOUS
        <3>4. n = 0 => es = <<>>
            BY <3>1, <3>3
        <3> QED BY <3>2, <3>4
    <2> HIDE DEF es
    <2>6. \A e \in Range(es) : e.do = "function"
        BY <2>3 DEF Range
    <2>7. /\ Linked(es, FALSE) /\ Nested(es)
        <3>1. \A j \in 1..n : ~LeavesOpen(es[j]) /\ ~GoesIn(es[j]) /\ es[j].do = "function"
            BY <2>3, <2>4 DEF LeavesOpen, GoesIn
        <3>2. \A j \in 1..n : j < n => j + 1 \in 1..n
            BY <2>4
        <3> QED BY <2>5, <3>1, <3>2 DEF Linked, Nested
    <2>8. /\ Places(es, "branch") = {} /\ Places(es, "end") = {}
          /\ \A e \in Range(es) : EntryLaid(e)
        BY <2>6 DEF Places, EntryLaid
    <2>9. Laid(es)
        BY <2>7, <2>8 DEF Laid
    <2>10. ~Going(es)
        <3>1. es # <<>> => 1 \in DOMAIN es
            BY <2>4, <2>5
        <3>2. es # <<>> => Head(es) = es[1]
            BY <2>4
        <3> QED BY <2>3, <3>1, <3>2 DEF Going, GoesIn
    <2>11. BlocksAre(es, block', code')
        <3>1. PICK b, c : b = block' /\ c = code'
            OBVIOUS
        <3>2. DOMAIN c = {}
            BY <2>1, <3>1
        <3>3. Pending(es) = {}
            BY <2>8 DEF Pending
        <3>4. BlocksAre(es, b, c)
            BY <2>10, <3>2, <3>3 DEF BlocksAre
        <3> QED BY <3>1, <3>4
    <2> QED BY <2>1, <2>9, <2>11, BlocksGoOn
<1> QED BY <1>1, <1>2

LEMMA BlocksEndWork ==
    ASSUME EmissionInv, BlockInv, FinishEmission
    PROVE  BlockInv'
<1>1. /\ emission = "emitting" /\ todo = <<>> /\ UNCHANGED <<backendVars, todo, stack, block, code>>
    BY DEF FinishEmission
<1>2. Returning => Laid(todo) /\ BlocksAre(todo, block, code)
    BY <1>1 DEF BlockInv
<1> QED BY <1>1, <1>2, BlocksGoOn

\* What a module that returns has no instruction for.
LEMMA NoneOfThese ==
    ASSUME EmissionInv, BlockInv, EmitMod \/ EmitMethod
    PROVE  BlockInv'
<1>1. /\ Emitting({"leave"}) /\ mir[Value].op \in {"%", "method"}
      /\ UNCHANGED backendVars
    BY DEF EmitMod, EmitMethod, Emits, Break
<1>2. Value \in DOMAIN mir /\ MirTyped
    BY <1>1, AtTodo DEF EntryStands
<1>3. ~Returning
    BY <1>1, <1>2, DirectPushes DEF Returning
<1>4. Break("crashed") \/ emission' = emission
    BY DEF EmitMod, EmitMethod
<1>5. emission = "emitting"
    BY <1>1 DEF Emitting
<1> QED BY <1>1, <1>3, <1>4, <1>5, BlocksBreak, BlocksGoOn

LEMMA BlocksWork ==
    ASSUME EmissionInv, BlockInv, EmissionWork
    PROVE  BlockInv'
<1>1. CASE EmitLeaf \/ EmitOperands \/ EmitArguments
    BY <1>1, LeafBlocks, OperandsBlocks, ArgumentsBlocks
<1>2. CASE EmitBinary \/ EmitReturn \/ EmitCall \/ EmitCoercion
    BY <1>2, BuildBlocks, CoercionBlocks
<1>3. CASE EmitMod \/ EmitMethod
    BY <1>3, NoneOfThese
<1>4. CASE EmitBlock \/ EmitIfBlock
    BY <1>4, BlockBlocks, IfBlockBlocks
<1>5. CASE EmitIf \/ EmitBranch \/ EmitIfEnd
    BY <1>5, IfBlocks, BranchBlocks, IfEndBlocks
<1>6. CASE FinishEmission
    BY <1>6, BlocksEndWork
<1> QED BY <1>1, <1>2, <1>3, <1>4, <1>5, <1>6 DEF EmissionWork

\* Before the emission there is nothing to keep.
LEMMA BlocksWait ==
    ASSUME EmissionInv, Lower
    PROVE  BlockInv'
<1>1. LoweringNext /\ UNCHANGED <<emission, todo>>
    BY DEF Lower, emissionVars
<1>2. LoweringNext => Resolve \/ StartLowering \/ LoweringWork
    BY DEF LoweringNext, LoweringWork
<1>3. stage # "lowered"
    <2>1. CASE Resolve
        <3>1. status = "running"
            BY <2>1, ResolverStep DEF Resolve, EmissionInv, LoweringInv
        <3> QED BY <3>1 DEF EmissionInv, LoweringInv, Staged
    <2>2. CASE StartLowering
        BY <2>2 DEF StartLowering
    <2>3. CASE LoweringWork
        BY <2>3, LoweringStep DEF EmissionInv
    <2> QED BY <1>1, <1>2, <2>1, <2>2, <2>3
<1>4. emission = "waiting"
    BY <1>3 DEF EmissionInv, Emission
<1> QED BY <1>1, <1>4 DEF BlockInv

LEMMA BlocksStutter ==
    ASSUME BlockInv, UNCHANGED compilerVars
    PROVE  BlockInv'
<1>1. UNCHANGED backendVars /\ UNCHANGED <<emission, todo, block, code>>
    BY DEF compilerVars, emissionVars
<1>2. Returning' = Returning /\ \A t : Laid(t)' = Laid(t)
    BY <1>1, SameLaid
<1>3. Laid(todo) => Laid(todo)'
    BY <1>1, <1>2 DEF Laid
<1>4. BlocksAre(todo, block, code) => BlocksAre(todo', block', code')
    BY <1>1
<1> QED BY <1>1, <1>2, <1>3, <1>4 DEF BlockInv

LEMMA BlocksInductive ==
    ASSUME EmissionInv, BlockInv, [EmissionNext]_compilerVars
    PROVE  BlockInv'
<1>1. EmissionNext => Lower \/ StartEmission \/ EmissionWork
    BY DEF EmissionNext, EmissionWork
<1> QED BY <1>1, BlocksWait, BlocksStart, BlocksWork, BlocksStutter

-----------------------------------------------------------------------------
(* Theorems.                                                                *)

LEMMA FittingInstructions ==
    ASSUME EmissionInv, NEW i \in Instructions
    PROVE  InstrFits(i)
<1>1. PICK S : (\A b \in DOMAIN code : code[b] \in Seq(S)) /\ \A j \in S : InstrFits(j)
    BY DEF EmissionInv, Emission, CodeFits
<1>2. PICK b \in DOMAIN code : i \in Range(code[b])
    BY DEF Instructions
<1>3. code[b] \in Seq(S)
    BY <1>1
<1>4. i \in S
    BY <1>2, <1>3 DEF Range
<1> QED BY <1>1, <1>4

LEMMA InvOwnValues ==
    ASSUME EmissionInv
    PROVE  OwnValues
BY FittingInstructions DEF OwnValues, InstrFits

LEMMA InvDirectIsEmitted ==
    ASSUME EmissionInv
    PROVE  DirectIsEmitted
BY DEF EmissionInv, Emission, DirectIsEmitted

\* The first of the functions of a name and arity, which a call was typed
\* with.
LEMMA TypedWithIs ==
    ASSUME EmissionInv, stage = "lowered", NEW p \in DOMAIN targets, targets[p].kind = "function"
    PROVE  LET k == TypedWith(p)
           IN /\ k \in DOMAIN functions \ {1} /\ k \in Nat
              /\ FunctionName(<<k>>) = targets[p].name
<1> DEFINE n == Len(functions)
           Fits1(k) == /\ FunctionName(<<k>>) = targets[p].name
                       /\ Len(ParamTypes(<<k>>)) = Len(targets[p].params)
           T == {k \in 2..n : Fits1(k)}
           First(k) == \A j \in 2..(k - 1) : FunctionName(<<j>>) # targets[p].name
                           \/ Len(ParamTypes(<<j>>)) # Len(targets[p].params)
<1>1. n = Len(program.kids) /\ DOMAIN functions = 1..n /\ n \in Nat
    <2> DEFINE S == [of : Seq(Nat), body : Seq(DOMAIN mir)]
    <2>1. functions \in Seq(S) /\ Len(functions) = Len(program.kids)
        BY DEF EmissionInv, LoweringInv, Staged, Built, MirTyped
    <2> HIDE DEF S
    <2> QED BY <2>1
<1>2. \E k \in Nat : Named(targets[p], k)
    BY DEF EmissionInv, Resolution, TargetsNamed, TargetFits
<1>3. \E k \in 2..Len(program.kids) : Fits1(k)
    BY <1>2 DEF Named
<1>4. T # {}
    BY <1>1, <1>3
<1>5. T \in SUBSET Nat
    BY <1>1
<1>6. PICK k \in T : \A j \in T : k <= j
    <2> HIDE DEF T
    <2> QED BY <1>4, <1>5, LeastElement
<1>7. \A j \in 2..(k - 1) : j \in 2..n /\ ~(k <= j)
    BY <1>1, <1>6
<1>8. First(k)
    BY <1>6, <1>7
<1>9. k \in DOMAIN functions \ {1} /\ Fits1(k)
    BY <1>1, <1>6
<1>10. TypedWith(p) = CHOOSE q \in DOMAIN functions \ {1} : Fits1(q) /\ First(q)
    BY DEF TypedWith
<1> HIDE DEF First
<1>11. TypedWith(p) \in DOMAIN functions \ {1} /\ Fits1(TypedWith(p))
    BY <1>8, <1>9, <1>10
<1> QED BY <1>1, <1>11

\* A function of the module is found by its name, or another one of it.
LEMMA LookupFinds ==
    ASSUME DOMAIN functions \subseteq Nat \ {0}, NEW k \in DOMAIN functions
    PROVE  Lookup(Symbol(k)) = <<k>> \/ Shadowed(k)
<1> DEFINE name == Symbol(k)
           named == {j \in DOMAIN functions : Symbol(j) = name}
<1>1. CASE name \in RuntimeSymbols
    BY <1>1 DEF Shadowed
<1>2. CASE name \notin RuntimeSymbols
    <2>1. named \in SUBSET Nat /\ k \in named
        OBVIOUS
    <2>2. Lookup(name) = <<Min(named)>>
        <3> HIDE DEF name
        <3> QED BY <1>2, <2>1 DEF Lookup
    <2> HIDE DEF named
    <2>3. \E x \in named : \A y \in named : x <= y
        BY <2>1, LeastElement
    <2>4. Min(named) \in named /\ Min(named) <= k
        BY <2>1, <2>3 DEF Min
    <2>5. PICK m \in named : m = Min(named)
        BY <2>4
    <2>6. m \in DOMAIN functions /\ m \in Nat \ {0} /\ k \in Nat /\ m <= k /\ Symbol(m) = Symbol(k)
        BY <2>1, <2>4, <2>5 DEF named
    <2>7. CASE m = k
        BY <2>2, <2>5, <2>7
    <2>8. CASE m < k
        BY <2>6, <2>8 DEF Shadowed
    <2> QED BY <2>6, <2>7, <2>8
<1> QED BY <1>1, <1>2

LEMMA InvCallsReachTargets ==
    ASSUME EmissionInv
    PROVE  CallsReachTargets
<1> SUFFICES ASSUME NEW i \in Instructions, i.op = "call", targets[i.value].kind = "function"
             PROVE  Callee(i.value) = <<TypedWith(i.value)>> \/ Shadowed(TypedWith(i.value))
    BY DEF CallsReachTargets
<1>1. PICK p : p = i.value
    OBVIOUS
<1>2. p \in DOMAIN mir /\ mir[p].op = "call"
    BY <1>1, FittingInstructions DEF InstrFits
<1>3. p \in DOMAIN targets /\ targets[p].kind = "function"
    BY <1>1, <1>2 DEF EmissionInv, Shaped, Shape
<1>4. stage = "lowered"
    <2>1. code # <<>>
        <3>1. DOMAIN <<>> = {}
            OBVIOUS
        <3> QED BY <3>1 DEF Instructions
    <2> QED BY <2>1 DEF EmissionInv, Emission
<1>5. PICK k : k = TypedWith(p)
    OBVIOUS
<1>6. k \in DOMAIN functions \ {1} /\ FunctionName(<<k>>) = targets[p].name
    BY <1>3, <1>4, <1>5, TypedWithIs
<1>7. Symbol(k) = targets[p].name /\ Callee(p) = Lookup(targets[p].name)
    BY <1>2, <1>6 DEF Symbol, Callee
<1>8. DOMAIN functions \subseteq Nat \ {0}
    <2> DEFINE S == [of : Seq(Nat), body : Seq(DOMAIN mir)]
    <2>1. functions \in Seq(S)
        BY DEF EmissionInv, LoweringInv, Built, MirTyped
    <2> HIDE DEF S
    <2> QED BY <2>1
<1>9. Lookup(Symbol(k)) = <<k>> \/ Shadowed(k)
    BY <1>6, <1>8, LookupFinds
<1> QED BY <1>1, <1>5, <1>7, <1>9

(***************************************************************************)
(* What the emission keeps (LLVMBackend.cpp 49-590): the module it reads   *)
(* is the one that was resolved and lowered, every instruction has the     *)
(* values of its own operands, and what is left of the traversal finds on  *)
(* the stack what it will take off.                                        *)
(***************************************************************************)
THEOREM EmissionInvariant == EmissionSpec => []EmissionInv
<1>1. EmissionInit => EmissionInv
    BY EmissionBegins
<1>2. EmissionInv /\ [EmissionNext]_compilerVars => EmissionInv'
    BY EmissionInductive
<1> QED BY <1>1, <1>2, PTL DEF EmissionSpec

(***************************************************************************)
(* Every instruction of a module without a "%", a method call or a missing *)
(* value takes its own operands off valueStack, wrapped and cast as the    *)
(* call needs them, and never a value another statement, block or function *)
(* left there (LLVMBackend.cpp 200-238, 265-275, 312-590).                 *)
(***************************************************************************)
THEOREM OperandsTakenOff == EmissionSpec => []OwnValues
BY EmissionInvariant, InvOwnValues, PTL

(***************************************************************************)
(* The call that was typed with a function is emitted as a call of it, but *)
(* for names an earlier function or the runtime has (Types.cpp 386-391,    *)
(* LLVMBackend.cpp 69-97, 226).                                            *)
(***************************************************************************)
THEOREM CalleesReached == EmissionSpec => []CallsReachTargets
BY EmissionInvariant, InvCallsReachTargets, PTL

(***************************************************************************)
(* No pop from an empty valueStack ends the emission of such a module, and *)
(* an exception nothing catches does only for a parameter type without an  *)
(* LLVM type and an argument no struct is made for (LLVMBackend.cpp 81-86, *)
(* 415-427).                                                               *)
(***************************************************************************)
THEOREM EmissionSucceeds == EmissionSpec => []DirectIsEmitted
BY EmissionInvariant, InvDirectIsEmitted, PTL

LEMMA InvOneTerminator ==
    ASSUME BlockInv
    PROVE  OneTerminator
<1> SUFFICES ASSUME emission = "emitted", Returning, NEW b \in DOMAIN code
             PROVE  Terminators(code[b]) = {Len(code[b])}
    BY DEF OneTerminator, Returning
<1>1. todo = <<>> /\ BlocksAre(todo, block, code)
    BY DEF BlockInv
<1>2. ~Going(todo) /\ Pending(todo) = {}
    <2>1. Range(todo) = {}
        BY <1>1 DEF Range
    <2> QED BY <1>1, <2>1 DEF Going, Pending, Places
<1> QED BY <1>1, <1>2 DEF BlocksAre

(***************************************************************************)
(* What the emission keeps of the blocks of a module whose lists of        *)
(* statements end in their only return: the one at work has no terminator, *)
(* the ones an if is still to go on in are there and empty, and every      *)
(* other one is ended (LLVMBackend.cpp 111-130, 265-275, 565-590).         *)
(***************************************************************************)
THEOREM BlocksInvariant == EmissionSpec => []BlockInv
<1>1. EmissionInit => BlockInv
    BY DEF EmissionInit, BlockInv
<1>2. EmissionInv /\ BlockInv /\ [EmissionNext]_compilerVars => BlockInv'
    BY BlocksInductive
<1> QED BY <1>1, <1>2, EmissionInvariant, PTL DEF EmissionSpec

(***************************************************************************)
(* Once such a module is emitted, each of its basic blocks ends in its only *)
(* terminator, as LLVM requires of a block (LLVMBackend.cpp 111-130,       *)
(* 265-275, 565-590).                                                      *)
(***************************************************************************)
THEOREM BlocksEnd == EmissionSpec => []OneTerminator
BY BlocksInvariant, InvOneTerminator, PTL
-----------------------------------------------------------------------------
(* What the instructions and the stack name, and the blocks there are.       *)

\* A value of the module, or what was put around an operand of a call that
\* was cast.
Stands(v) ==
    \/ v \in DOMAIN mir
    \/ \E o : /\ IsOperand(o) /\ CallWith(o) \in DOMAIN casts
              /\ v = WrapperOf(o) \/ v = BitcastOf(o)
Standing == {v \in Seq(Nat) : Stands(v)}

\* An instruction stands for such a value, and a branch goes to blocks.
InstrStands(i, blocks) ==
    /\ i.value # <<>> => i.value \in Standing
    /\ i.op = "br" => IfStart(i.value) \in blocks /\ IfEnd(i.value) \in blocks
CodeStands(c, blocks) ==
    /\ c = [b \in DOMAIN c |-> c[b]]
    /\ \E S : /\ \A b \in DOMAIN c : c[b] \in Seq(S)
              /\ \A i \in S : InstrStands(i, blocks)

\* The block an if goes on in is there, or its branch comes first; that of a
\* function is there, or the function is still to come.
Prepared(t, blocks) ==
    \A k \in 1..Len(t) :
        t[k].do = "end" =>
            IfEnd(t[k].at) \in blocks \/ \E j \in 1..(k - 1) : t[j] = Entry("branch", t[k].at)
Declared(t, blocks) ==
    \A k \in DOMAIN functions : <<k>> \in blocks \/ Entry("function", <<k>>) \in Range(t)

EmissionStands ==
    /\ stack \in Seq(Standing) /\ CodeStands(code, DOMAIN code)
    /\ DOMAIN code # {} => block \in DOMAIN code
    /\ emission = "emitted" => todo = <<>>
    /\ emission \in {"emitting", "emitted"} =>
          Prepared(todo, DOMAIN code) /\ Declared(todo, DOMAIN code)

LEMMA SameStanding ==
    ASSUME UNCHANGED backendVars
    PROVE  /\ Standing' = Standing
           /\ \A i, blocks : InstrStands(i, blocks)' = InstrStands(i, blocks)
           /\ functions' = functions
<1>1. UNCHANGED <<mir, casts, functions>>
    BY DEF backendVars, loweringVars
<1>2. \A o : IsOperand(o)' = IsOperand(o)
    BY <1>1 DEF IsOperand
<1>3. \A v : Stands(v)' = Stands(v)
    BY <1>1, <1>2 DEF Stands
<1>4. Standing' = Standing
    BY <1>3 DEF Standing
<1> QED BY <1>1, <1>4 DEF InstrStands

LEMMA CodeStays ==
    ASSUME UNCHANGED backendVars, NEW c, NEW blocks, CodeStands(c, blocks)
    PROVE  CodeStands(c, blocks)'
<1>1. c = [b \in DOMAIN c |-> c[b]]
    BY DEF CodeStands
<1>2. PICK S : (\A b \in DOMAIN c : c[b] \in Seq(S)) /\ \A i \in S : InstrStands(i, blocks)
    BY DEF CodeStands
<1>3. \A i \in S : InstrStands(i, blocks)'
    BY <1>2, SameStanding
<1> QED BY <1>1, <1>2, <1>3 DEF CodeStands

LEMMA MoreInstructions ==
    ASSUME NEW c, NEW blocks, CodeStands(c, blocks), NEW more, blocks \subseteq more,
           NEW T, NEW is \in Seq(T), \A i \in T : InstrStands(i, more)
    PROVE  \E U : /\ \A x \in DOMAIN c : c[x] \in Seq(U)
                  /\ is \in Seq(U) /\ \A s \in Seq(U) : s \o is \in Seq(U)
                  /\ \A i \in U : InstrStands(i, more)
<1>1. PICK S : (\A x \in DOMAIN c : c[x] \in Seq(S)) /\ \A i \in S : InstrStands(i, blocks)
    BY DEF CodeStands
<1> DEFINE U == S \union T
<1>2. Seq(S) \subseteq Seq(U) /\ Seq(T) \subseteq Seq(U)
    BY SeqGrows
<1>3. \A i \in U : InstrStands(i, more)
    BY <1>1 DEF InstrStands
<1> HIDE DEF U
<1>4. (\A x \in DOMAIN c : c[x] \in Seq(U)) /\ is \in Seq(U)
    BY <1>1, <1>2
<1>5. \A s \in Seq(U) : s \o is \in Seq(U)
    BY <1>4
<1> QED BY <1>3, <1>4, <1>5

LEMMA CodeMore ==
    ASSUME NEW c, NEW blocks, CodeStands(c, blocks), NEW more, blocks \subseteq more,
           NEW T, NEW is \in Seq(T), \A i \in T : InstrStands(i, more), NEW b
    PROVE  /\ CodeStands([c EXCEPT ![b] = @ \o is], more)
           /\ DOMAIN [c EXCEPT ![b] = @ \o is] = DOMAIN c
<1>1. PICK U : /\ \A x \in DOMAIN c : c[x] \in Seq(U)
               /\ is \in Seq(U) /\ \A s \in Seq(U) : s \o is \in Seq(U)
               /\ \A i \in U : InstrStands(i, more)
    BY MoreInstructions
<1> DEFINE d == [c EXCEPT ![b] = @ \o is]
<1>2. DOMAIN d = DOMAIN c /\ d = [x \in DOMAIN d |-> d[x]] /\ \A x \in DOMAIN d : d[x] \in Seq(U)
    BY <1>1
<1> HIDE DEF d
<1>3. CodeStands(d, more)
    BY <1>1, <1>2 DEF CodeStands
<1> QED BY <1>2, <1>3 DEF d

LEMMA CodeWith ==
    ASSUME NEW c, NEW blocks, CodeStands(c, blocks), NEW more, blocks \subseteq more,
           NEW T, NEW is \in Seq(T), \A i \in T : InstrStands(i, more), NEW b
    PROVE  CodeStands(With(c, b, is), more)
<1>1. PICK U : /\ \A x \in DOMAIN c : c[x] \in Seq(U)
               /\ is \in Seq(U) /\ \A s \in Seq(U) : s \o is \in Seq(U)
               /\ \A i \in U : InstrStands(i, more)
    BY MoreInstructions
<1> DEFINE w == With(c, b, is)
<1>2. /\ DOMAIN w = DOMAIN c \union {b} /\ w = [x \in DOMAIN w |-> w[x]]
      /\ \A x \in DOMAIN w : w[x] \in Seq(U)
    BY <1>1 DEF With
<1> HIDE DEF w
<1>3. CodeStands(w, more)
    BY <1>1, <1>2 DEF CodeStands
<1> QED BY <1>3 DEF w

\* Instructions at the end of the current block.
LEMMA CodeGrows ==
    ASSUME EmissionStands, NEW T, NEW is \in Seq(T), \A i \in T : InstrStands(i, DOMAIN code)
    PROVE  CodeStands(Emitted(is), DOMAIN code) /\ DOMAIN Emitted(is) = DOMAIN code
<1>1. PICK b, c, blocks : b = block /\ c = code /\ blocks = DOMAIN code
    OBVIOUS
<1>2. CodeStands(c, blocks)
    BY <1>1 DEF EmissionStands
<1>3. /\ CodeStands([c EXCEPT ![b] = @ \o is], blocks)
      /\ DOMAIN [c EXCEPT ![b] = @ \o is] = DOMAIN c
    BY <1>1, <1>2, CodeMore
<1> QED BY <1>1, <1>3 DEF Emitted

LEMMA OneMore ==
    ASSUME EmissionStands, NEW i, InstrStands(i, DOMAIN code)
    PROVE  CodeStands(Emitted(<<i>>), DOMAIN code) /\ DOMAIN Emitted(<<i>>) = DOMAIN code
<1> DEFINE T == {i}
           is == <<i>>
<1>1. is \in Seq(T) /\ \A j \in T : InstrStands(j, DOMAIN code)
    OBVIOUS
<1> HIDE DEF is, T
<1>2. CodeStands(Emitted(is), DOMAIN code) /\ DOMAIN Emitted(is) = DOMAIN code
    BY <1>1, CodeGrows
<1> QED BY <1>2 DEF is

LEMMA EmptyMore ==
    ASSUME NEW c, NEW blocks, CodeStands(c, blocks), NEW b
    PROVE  CodeStands(With(c, b, <<>>), blocks) /\ DOMAIN With(c, b, <<>>) = DOMAIN c \union {b}
<1> DEFINE T == {}
           is == <<>>
<1>1. is \in Seq(T) /\ (\A i \in T : InstrStands(i, blocks)) /\ blocks \subseteq blocks
    OBVIOUS
<1> HIDE DEF is, T
<1>2. CodeStands(With(c, b, is), blocks)
    BY <1>1, CodeWith
<1> QED BY <1>2, WithIs DEF is

-----------------------------------------------------------------------------
(* The entries that are left.                                               *)

LEMMA PreparedPut ==
    ASSUME NEW t \in Seq(TodoEntry), t # <<>>, NEW es \in Seq(TodoEntry), NEW blocks, NEW more,
           blocks \subseteq more, Prepared(t, blocks), Prepared(es, more),
           Head(t).do = "branch" => IfEnd(Head(t).at) \in more
    PROVE  Prepared(es \o Tail(t), more)
<1> DEFINE n == Len(es)
           w == es \o Tail(t)
<1>1. /\ n \in Nat /\ Len(t) \in Nat \ {0} /\ t[1] = Head(t)
      /\ DOMAIN w = 1..(n + Len(t) - 1) /\ Len(w) = n + Len(t) - 1
      /\ \A i \in 1..n : w[i] = es[i]
      /\ \A i \in 2..Len(t) : w[n + i - 1] = t[i]
    OBVIOUS
<1> HIDE DEF n, w
<1>2. ASSUME NEW k \in 1..Len(w), w[k].do = "end"
      PROVE  IfEnd(w[k].at) \in more \/ \E j \in 1..(k - 1) : w[j] = Entry("branch", w[k].at)
    <2>1. CASE k \in 1..n
        <3>1. es[k] = w[k] /\ k \in 1..Len(es)
            BY <1>1, <2>1 DEF n
        <3>2. IfEnd(es[k].at) \in more \/ \E j \in 1..(k - 1) : es[j] = Entry("branch", es[k].at)
            BY <1>2, <3>1 DEF Prepared
        <3>3. \A j \in 1..(k - 1) : w[j] = es[j]
            BY <1>1, <2>1
        <3> QED BY <3>1, <3>2, <3>3
    <2>2. CASE k \notin 1..n
        <3> DEFINE i == k - n + 1
        <3>1. i \in 2..Len(t) /\ n + i - 1 = k
            BY <1>1, <2>2
        <3> HIDE DEF i
        <3>2. w[k] = t[i] /\ i \in 1..Len(t)
            BY <1>1, <3>1
        <3>3. IfEnd(t[i].at) \in blocks \/ \E j \in 1..(i - 1) : t[j] = Entry("branch", t[i].at)
            BY <1>2, <3>2 DEF Prepared
        <3>4. CASE IfEnd(t[i].at) \in blocks
            BY <3>2, <3>4
        <3>5. ASSUME NEW j \in 1..(i - 1), t[j] = Entry("branch", t[i].at)
              PROVE  IfEnd(w[k].at) \in more \/ \E h \in 1..(k - 1) : w[h] = Entry("branch", w[k].at)
            <4>1. CASE j = 1
                <5>1. Head(t).do = "branch" /\ Head(t).at = t[i].at
                    BY <1>1, <3>5, <4>1 DEF Entry
                <5> QED BY <3>2, <5>1
            <4>2. CASE j # 1
                <5>1. j \in 2..Len(t) /\ n + j - 1 \in 1..(k - 1)
                    BY <1>1, <3>1, <4>2
                <5>2. w[n + j - 1] = Entry("branch", w[k].at)
                    BY <1>1, <3>2, <3>5, <5>1
                <5> QED BY <5>1, <5>2
            <4> QED BY <4>1, <4>2
        <3> QED BY <3>3, <3>4, <3>5
    <2> QED BY <2>1, <2>2
<1> QED BY <1>2 DEF Prepared, w

LEMMA DeclaredPut ==
    ASSUME NEW t \in Seq(TodoEntry), t # <<>>, NEW es \in Seq(TodoEntry), NEW blocks, NEW more,
           blocks \subseteq more, Declared(t, blocks),
           Head(t).do = "function" => Head(t).at \in more
    PROVE  Declared(es \o Tail(t), more)
<1>1. /\ Range(es \o Tail(t)) = Range(es) \union Range(Tail(t))
      /\ Range(t) = {Head(t)} \union Range(Tail(t))
    BY RangePut
<1>2. ASSUME NEW k \in DOMAIN functions
      PROVE  <<k>> \in more \/ Entry("function", <<k>>) \in Range(es \o Tail(t))
    <2>1. <<k>> \in blocks \/ Entry("function", <<k>>) \in Range(t)
        BY DEF Declared
    <2>2. CASE Entry("function", <<k>>) = Head(t)
        <3>1. Head(t).do = "function" /\ Head(t).at = <<k>>
            BY <2>2 DEF Entry
        <3> QED BY <3>1
    <2> QED BY <1>1, <2>1, <2>2
<1> QED BY <1>2 DEF Declared

\* The head is replaced by entries that are prepared.
LEMMA StandingGoesOn ==
    ASSUME EmissionInv, EmissionStands, NEW dos, Emitting(dos), UNCHANGED <<backendVars, emission>>,
           NEW es \in Seq(TodoEntry), todo' = es \o Tail(todo), NEW more, more = DOMAIN code',
           DOMAIN code \subseteq more, Prepared(es, more),
           Head(todo).do = "branch" => IfEnd(Value) \in more,
           Head(todo).do = "function" => Value \in more,
           CodeStands(code', more), more # {} => block' \in more, stack' \in Seq(Standing)
    PROVE  EmissionStands'
<1>1. todo \in Seq(TodoEntry) /\ todo # <<>> /\ emission = "emitting" /\ Value = Head(todo).at
    BY AtTodo DEF Emitting
<1>2. Prepared(todo, DOMAIN code) /\ Declared(todo, DOMAIN code)
    BY <1>1 DEF EmissionStands
<1>3. PICK t, blocks : t = todo /\ blocks = DOMAIN code
    OBVIOUS
<1>4. Prepared(es \o Tail(t), more) /\ Declared(es \o Tail(t), more)
    BY <1>1, <1>2, <1>3, PreparedPut, DeclaredPut
<1>5. PICK u, c : u = es \o Tail(t) /\ c = code'
    OBVIOUS
<1>6. Standing' = Standing /\ functions' = functions
    BY SameStanding
<1>7. Prepared(u, more) /\ Declared(u, more)' /\ CodeStands(c, more)'
    BY <1>4, <1>5, <1>6, CodeStays DEF Declared
<1>8. todo' = u /\ code' = c /\ DOMAIN code' = more
    BY <1>3, <1>5
<1>9. CodeStands(code, DOMAIN code)' /\ Declared(todo, DOMAIN code)' /\ Prepared(todo', DOMAIN code')
    BY <1>7, <1>8 DEF CodeStands, Declared
<1>10. stack' \in Seq(Standing)' /\ emission' = "emitting"
    BY <1>1, <1>6
<1> QED BY <1>8, <1>9, <1>10 DEF EmissionStands, Prepared

LEMMA NoneAreEnds ==
    ASSUME NEW es \in Seq(TodoEntry), \A e \in Range(es) : e.do # "end", NEW blocks
    PROVE  Prepared(es, blocks)
<1>1. DOMAIN es = 1..Len(es)
    OBVIOUS
<1> QED BY <1>1 DEF Prepared, Range

\* The head is done, or given up.
LEMMA StandingPasses ==
    ASSUME EmissionInv, EmissionStands, NEW dos, Emitting(dos), UNCHANGED <<backendVars, emission>>,
           todo' = Tail(todo), NEW more, more = DOMAIN code', DOMAIN code \subseteq more,
           Head(todo).do = "branch" => IfEnd(Value) \in more, Head(todo).do # "function",
           CodeStands(code', more), more # {} => block' \in more, stack' \in Seq(Standing)
    PROVE  EmissionStands'
<1> DEFINE es == <<>>
<1>1. es \in Seq(TodoEntry) /\ Len(es) = 0 /\ Range(es) = {}
    BY DEF Range
<1>2. Tail(todo) \in Seq(TodoEntry)
    BY AtTodo
<1>3. todo' = es \o Tail(todo)
    BY <1>2, ConcatNothing
<1> HIDE DEF es
<1>4. Prepared(es, more)
    BY <1>1, NoneAreEnds
<1> QED BY <1>1, <1>3, <1>4, StandingGoesOn

LEMMA StandingBreaks ==
    ASSUME EmissionStands, NEW how, Break(how), how \in {"crashed", "uncaught"}
    PROVE  EmissionStands'
<1>1. emission' = how /\ UNCHANGED <<backendVars, todo, stack, block, code>>
    BY DEF Break
<1>2. PICK c, blocks : c = code /\ blocks = DOMAIN code
    OBVIOUS
<1>3. CodeStands(c, blocks)'
    BY <1>1, <1>2, CodeStays DEF EmissionStands
<1>4. CodeStands(code, DOMAIN code)'
    BY <1>1, <1>2, <1>3 DEF CodeStands
<1> QED BY <1>1, <1>4, SameStanding DEF EmissionStands

\* A value is one, and so are those put around an operand that was cast.
LEMMA ValuesStand ==
    ASSUME MirTyped
    PROVE  /\ \A v \in DOMAIN mir : v \in Standing
           /\ \A o : IsOperand(o) => (Wraps(o) => WrapperOf(o) \in Standing)
                                     /\ (Bitcasts(o) => BitcastOf(o) \in Standing)
<1>1. DOMAIN mir \subseteq Seq(Nat)
    BY DEF MirTyped
<1>2. ASSUME NEW o, IsOperand(o), Wraps(o) \/ Bitcasts(o)
      PROVE  WrapperOf(o) \in Standing /\ BitcastOf(o) \in Standing
    <2>1. PICK c \in DOMAIN mir : \E k \in DOMAIN mir[c].kids : o = Operand(c, k)
        BY <1>2 DEF IsOperand
    <2>2. PICK k \in DOMAIN mir[c].kids : o = Operand(c, k)
        BY <2>1
    <2>3. c \in Seq(Nat) /\ k \in Nat
        <3>1. mir[c].kids \in Seq(Seq(Nat)) /\ c \in Seq(Nat)
            BY KidsTyped
        <3> QED BY <3>1
    <2>4. WrapperOf(o) \in Seq(Nat) /\ BitcastOf(o) \in Seq(Nat)
        BY <2>2, <2>3, OperandPath
    <2>5. CallWith(o) \in DOMAIN casts
        BY <1>2 DEF Wraps, Bitcasts, CastOf, Uncast
    <2> QED BY <1>2, <2>4, <2>5 DEF Standing, Stands
<1> QED BY <1>1, <1>2 DEF Standing, Stands

LEMMA LeafStands ==
    ASSUME EmissionInv, EmissionStands, EmitLeaf \/ EmitMod
    PROVE  EmissionStands'
<1>1. PICK do \in {"value", "leave"} :
          /\ Emitting({do}) /\ todo' = Tail(todo) /\ UNCHANGED <<backendVars, emission, block, code>>
          /\ stack' = Append(stack, Value) \/ stack' = stack
    BY DEF EmitLeaf, EmitMod, Emits
<1>2. Value \in DOMAIN mir /\ Head(todo).do = do
    BY <1>1, AtValue
<1>3. Value \in Standing /\ stack \in Seq(Standing)
    BY <1>1, <1>2, AtTodo, ValuesStand DEF EmissionStands
<1>4. stack' \in Seq(Standing)
    BY <1>1, <1>3
<1>5. PICK more : more = DOMAIN code'
    OBVIOUS
<1>6. CodeStands(code', more) /\ (more # {} => block' \in more) /\ DOMAIN code \subseteq more
    BY <1>1, <1>5 DEF EmissionStands
<1> QED BY <1>1, <1>2, <1>4, <1>5, <1>6, StandingPasses

\* An instruction for the value at the head.
LEMMA BuildStands ==
    ASSUME EmissionInv, EmissionStands, Emitting({"leave"}), NEW n \in Nat, NEW op, op # "br",
           NEW args, NEW pushed \in Seq(Standing), n <= Len(stack),
           code' = Emitted(<<Instr(op, Value, args)>>), stack' = Without(stack, n) \o pushed,
           todo' = Tail(todo), UNCHANGED <<backendVars, emission, block>>
    PROVE  EmissionStands'
<1>1. Value \in DOMAIN mir /\ Head(todo).do = "leave" /\ MirTyped
    BY AtValue
<1>2. Value \in Standing
    BY <1>1, ValuesStand
<1> DEFINE i == Instr(op, Value, args)
<1>3. InstrStands(i, DOMAIN code)
    BY <1>2 DEF Instr, InstrStands
<1> HIDE DEF i
<1>4. CodeStands(Emitted(<<i>>), DOMAIN code) /\ DOMAIN Emitted(<<i>>) = DOMAIN code
    BY <1>3, OneMore
<1>5. CodeStands(code', DOMAIN code) /\ DOMAIN code' = DOMAIN code
    BY <1>4 DEF i
<1>6. stack \in Seq(Standing)
    BY DEF EmissionStands
<1>7. Without(stack, n) \in Seq(Standing)
    <2>1. n \in 0..Len(stack)
        BY <1>6
    <2> QED BY <1>6, <2>1, Popping
<1>8. stack' \in Seq(Standing)
    BY <1>7
<1>9. PICK more : more = DOMAIN code'
    OBVIOUS
<1>10. CodeStands(code', more) /\ (more # {} => block' \in more) /\ DOMAIN code \subseteq more
    BY <1>5, <1>9 DEF EmissionStands
<1> QED BY <1>1, <1>8, <1>9, <1>10, StandingPasses

LEMMA ValueStands ==
    ASSUME EmissionInv, EmissionStands, EmitBinary \/ EmitReturn \/ EmitCall
    PROVE  EmissionStands'
<1>1. /\ Emitting({"leave"}) /\ mir[Value].op \in BinaryOps \union {"ret", "call", "ccall"}
      /\ \E pushed \in {<<Value>>, <<>>} : \E n \in {2, Len(mir[Value].kids)} :
            Build(n, mir[Value].op, Value, pushed)
    BY DEF EmitBinary, EmitReturn, EmitCall, Emits
<1>2. PICK pushed \in {<<Value>>, <<>>}, n \in {2, Len(mir[Value].kids)} :
          Build(n, mir[Value].op, Value, pushed)
    BY <1>1
<1>3. Value \in DOMAIN mir /\ MirTyped /\ stack \in Seq(Seq(Nat))
    BY <1>1, AtValue
<1>4. Value \in Standing /\ n \in Nat /\ Len(stack) \in Nat
    BY <1>2, <1>3, ValuesStand, KidsTyped
<1>5. PICK v \in Standing : v = Value
    BY <1>4
<1>6. pushed \in Seq(Standing)
    <2>1. <<v>> \in Seq(Standing) /\ <<>> \in Seq(Standing)
        OBVIOUS
    <2> QED BY <1>2, <1>5, <2>1
<1>7. PICK op : op = mir[Value].op
    OBVIOUS
<1>8. op # "br"
    BY <1>1, <1>7 DEF BinaryOps
<1>9. CASE Len(stack) < n
    <2>1. Break("crashed")
        BY <1>2, <1>9 DEF Build
    <2> QED BY <2>1, StandingBreaks
<1>10. CASE ~(Len(stack) < n)
    <2>1. /\ code' = Emitted(<<Instr(op, Value, Top(n))>>) /\ stack' = Without(stack, n) \o pushed
          /\ todo' = Tail(todo) /\ UNCHANGED <<backendVars, emission, block>>
        BY <1>2, <1>7, <1>10 DEF Build
    <2>2. n <= Len(stack)
        BY <1>4, <1>10
    <2> QED BY <1>1, <1>4, <1>6, <1>8, <2>1, <2>2, BuildStands
<1> QED BY <1>9, <1>10

LEMMA MethodStands ==
    ASSUME EmissionInv, EmissionStands, EmitMethod
    PROVE  EmissionStands'
<1> DEFINE crash == Len(mir[Value].kids) > 1 \/ Len(stack) < 2
<1>1. /\ Emitting({"leave"})
      /\ IF crash THEN Break("crashed")
         ELSE /\ code' = Emitted(<<Instr("method", Value, Top(1))>>)
              /\ stack' = Append(Without(stack, 2), Value)
              /\ todo' = Tail(todo)
              /\ UNCHANGED <<backendVars, emission, block>>
    BY DEF EmitMethod, Emits
<1>2. Value \in DOMAIN mir /\ MirTyped /\ stack \in Seq(Standing) /\ Value \in Standing
    BY <1>1, AtValue, ValuesStand DEF EmissionStands
<1>3. CASE crash
    BY <1>1, <1>3, StandingBreaks
<1>4. CASE ~crash
    <2>1. Len(stack) \in Nat /\ 2 <= Len(stack) /\ 2 \in 0..Len(stack)
        BY <1>2, <1>4
    <2>2. Without(stack, 2) \in Seq(Standing)
        BY <1>2, <2>1, Popping
    <2>0. PICK v \in Standing : v = Value
        BY <1>2
    <2>7. <<v>> \in Seq(Standing)
        OBVIOUS
    <2>3. PICK pushed \in Seq(Standing) : pushed = <<v>>
        BY <2>7
    <2>4. stack' = Without(stack, 2) \o pushed
        BY <1>1, <1>4, <2>0, <2>2, <2>3, ConcatOne
    <2>5. PICK op, args : op = "method" /\ args = Top(1)
        OBVIOUS
    <2>6. code' = Emitted(<<Instr(op, Value, args)>>) /\ op # "br"
        BY <1>1, <1>4, <2>5
    <2> QED BY <1>1, <1>4, <2>1, <2>4, <2>6, BuildStands
<1> QED BY <1>3, <1>4

LEMMA CoercionStands ==
    ASSUME EmissionInv, EmissionStands, EmitCoercion
    PROVE  EmissionStands'
<1> DEFINE o == Value
           bare == ~Wraps(o) /\ ~Bitcasts(o)
<1>1. /\ Emitting({"coerce"})
      /\ \/ todo' = Tail(todo) /\ UNCHANGED <<backendVars, emission, stack, block, code>>
         \/ Break("crashed") \/ Break("uncaught")
         \/ /\ stack # <<>> /\ code' = Emitted(CoercionOf(o, Last(stack)))
            /\ stack' = Append(Front(stack), Coerced(o, Last(stack)))
            /\ todo' = Tail(todo)
            /\ UNCHANGED <<backendVars, emission, block>>
    BY DEF EmitCoercion
<1>2. /\ Head(todo).do = "coerce" /\ IsOperand(o) /\ MirTyped /\ stack \in Seq(Standing)
    <2>1. /\ Head(todo).do = "coerce" /\ Head(todo).at = o /\ EntryStands(Head(todo)) /\ MirTyped
        BY <1>1, AtTodo
    <2> HIDE DEF o
    <2>2. IsOperand(o)
        BY <2>1 DEF EntryStands
    <2> QED BY <2>1, <2>2 DEF EmissionStands
<1>3. /\ Wraps(o) => WrapperOf(o) \in Standing
      /\ Bitcasts(o) => BitcastOf(o) \in Standing
    BY <1>2, ValuesStand
<1>4. PICK more : more = DOMAIN code'
    OBVIOUS
<1>5. CASE todo' = Tail(todo) /\ UNCHANGED <<backendVars, emission, stack, block, code>>
    <2>1. CodeStands(code', more) /\ (more # {} => block' \in more) /\ DOMAIN code \subseteq more
        BY <1>4, <1>5 DEF EmissionStands
    <2>2. stack' \in Seq(Standing)
        BY <1>2, <1>5
    <2> QED BY <1>1, <1>2, <1>4, <1>5, <2>1, <2>2, StandingPasses
<1>6. CASE Break("crashed") \/ Break("uncaught")
    BY <1>6, StandingBreaks
<1>7. CASE /\ stack # <<>> /\ code' = Emitted(CoercionOf(o, Last(stack)))
           /\ stack' = Append(Front(stack), Coerced(o, Last(stack)))
           /\ todo' = Tail(todo)
           /\ UNCHANGED <<backendVars, emission, block>>
    <2>1. PICK w, p : w = Last(stack) /\ p = o
        OBVIOUS
    <2>2. w \in Standing /\ Front(stack) \in Seq(Standing)
        BY <1>2, <1>7, <2>1, SeqEnds
    <2>3. Coerced(p, w) \in Standing
        BY <1>3, <2>1, <2>2 DEF Coerced
    <2>4. stack' \in Seq(Standing)
        BY <1>7, <2>1, <2>2, <2>3
    <2> DEFINE a == Instr("wrap", WrapperOf(p), <<w>>)
               b == Instr("cast", BitcastOf(p), <<IF Wraps(p) THEN WrapperOf(p) ELSE w>>)
               T == {i \in {a, b} : InstrStands(i, DOMAIN code)}
    <2>5. (Wraps(p) => a \in T) /\ (Bitcasts(p) => b \in T)
        BY <1>3, <2>1 DEF InstrStands, Instr
    <2>6. \A i \in T : InstrStands(i, DOMAIN code)
        OBVIOUS
    <2> HIDE DEF T
    <2>7. /\ (IF Wraps(p) THEN <<a>> ELSE <<>>) \in Seq(T)
          /\ (IF Bitcasts(p) THEN <<b>> ELSE <<>>) \in Seq(T)
        <3> HIDE DEF a, b
        <3>1. <<>> \in Seq(T) /\ (a \in T => <<a>> \in Seq(T)) /\ (b \in T => <<b>> \in Seq(T))
            OBVIOUS
        <3> QED BY <2>5, <3>1
    <2>8. PICK is \in Seq(T) : is = CoercionOf(p, w)
        <3> DEFINE l == IF Wraps(p) THEN <<a>> ELSE <<>>
                   r == IF Bitcasts(p) THEN <<b>> ELSE <<>>
        <3>1. CoercionOf(p, w) = l \o r
            BY DEF CoercionOf
        <3>2. l \in Seq(T) /\ r \in Seq(T)
            BY <2>7
        <3> HIDE DEF l, r
        <3>3. l \o r \in Seq(T)
            BY <3>2
        <3>4. CoercionOf(p, w) \in Seq(T)
            BY <3>1, <3>3
        <3> QED BY <3>4
    <2>9. code' = Emitted(is)
        BY <1>7, <2>1, <2>8
    <2>10. CodeStands(code', DOMAIN code) /\ DOMAIN code' = DOMAIN code
        BY <2>6, <2>9, CodeGrows
    <2>11. CodeStands(code', more) /\ (more # {} => block' \in more) /\ DOMAIN code \subseteq more
        BY <1>4, <1>7, <2>10 DEF EmissionStands
    <2> QED BY <1>1, <1>2, <1>4, <1>7, <2>4, <2>11, StandingPasses
<1> QED BY <1>1, <1>5, <1>6, <1>7

\* The head is replaced by what it visits.
LEMMA UnfoldStands ==
    ASSUME EmissionInv, EmissionStands, EmitOperands \/ EmitArguments
    PROVE  EmissionStands'
<1> DEFINE p == Value
           l == <<Entry("leave", p)>>
<1>1. /\ Emitting({"value"}) /\ UNCHANGED <<backendVars, emission, stack, block, code>>
      /\ \/ todo' = (Entries("value", mir[p].kids) \o l) \o Tail(todo)
         \/ mir[p].op \in CallOps /\ todo' = (ArgumentEntries(p) \o l) \o Tail(todo)
    BY DEF EmitOperands, EmitArguments, Emits
<1>2. /\ p \in DOMAIN mir /\ p \in Seq(Nat) /\ MirTyped /\ Head(todo).do = "value"
      /\ mir[p].kids \in Seq(DOMAIN mir)
    BY <1>1, AtValue, KidsTyped
<1>3. PICK es \in Seq(TodoEntry) :
          todo' = (es \o l) \o Tail(todo) /\ \A e \in Range(es) : e.do # "end"
    <2>1. CASE todo' = (Entries("value", mir[p].kids) \o l) \o Tail(todo)
        <3>1. PICK ps \in Seq(DOMAIN mir) : ps = mir[p].kids
            BY <1>2
        <3>2. Entries("value", ps) \in Seq(TodoEntry)
            BY <1>2, EntriesStand
        <3>3. \A e \in Range(Entries("value", ps)) : e.do # "end"
            BY DEF Entries, Range, Entry
        <3> QED BY <2>1, <3>1, <3>2, <3>3
    <2>2. CASE mir[p].op \in CallOps /\ todo' = (ArgumentEntries(p) \o l) \o Tail(todo)
        <3>1. ArgumentEntries(p) \in Seq(TodoEntry)
            BY <1>2, <2>2, ArgumentsAre
        <3>2. \A j \in DOMAIN ArgumentEntries(p) : ArgumentEntries(p)[j].do \in {"value", "coerce"}
            BY DEF ArgumentEntries, Entry
        <3>3. \A e \in Range(ArgumentEntries(p)) : e.do # "end"
            BY <3>2 DEF Range
        <3> QED BY <2>2, <3>1, <3>3
    <2> QED BY <1>1, <2>1, <2>2
<1>4. Entry("leave", p) \in TodoEntry /\ Entry("leave", p).do # "end"
    BY <1>2 DEF TodoEntry, Entry
<1>5. PICK e \in TodoEntry : e = Entry("leave", p)
    BY <1>4
<1>6. es \o <<e>> = Append(es, e) /\ Append(es, e) \in Seq(TodoEntry)
    BY ConcatOne
<1>7. Range(Append(es, e)) = Range(es) \union {e}
    BY RangeAppend
<1>8. PICK u \in Seq(TodoEntry) : u = Append(es, e)
    BY <1>6
<1>9. todo' = u \o Tail(todo) /\ \A x \in Range(u) : x.do # "end"
    BY <1>3, <1>4, <1>5, <1>6, <1>7, <1>8
<1>10. PICK more : more = DOMAIN code'
    OBVIOUS
<1>11. Prepared(u, more)
    BY <1>9, NoneAreEnds
<1>12. CodeStands(code', more) /\ (more # {} => block' \in more) /\ DOMAIN code \subseteq more
       /\ stack' \in Seq(Standing)
    BY <1>1, <1>10 DEF EmissionStands
<1> QED BY <1>1, <1>2, <1>9, <1>10, <1>11, <1>12, StandingGoesOn

LEMMA IfStands ==
    ASSUME EmissionInv, EmissionStands, EmitIf
    PROVE  EmissionStands'
<1> DEFINE p == Value
           kids == mir[p].kids
           a == Entry("value", kids[1])
           b == Entry("branch", p)
           c == Entry("start", kids[2])
           d == Entry("end", p)
           es == <<a, b, c, d>>
<1>1. /\ Emitting({"value"}) /\ mir[p].op = "if" /\ todo' = es \o Tail(todo)
      /\ UNCHANGED <<backendVars, emission, stack, block, code>>
    BY DEF EmitIf, Emits
<1>2. p \in DOMAIN mir /\ p \in Seq(Nat) /\ Shape(p, mir[p]) /\ Head(todo).do = "value" /\ MirTyped
    BY <1>1, AtValue
<1>3. kids[1] \in Seq(Nat) /\ kids[2] \in Seq(Nat)
    <2>1. /\ Len(kids) = 2
          /\ \A k \in 1..Len(kids) : kids[k] \in Seq(Nat)
        BY <1>1, <1>2, KidsTyped DEF Shape
    <2>2. 1 \in 1..Len(kids) /\ 2 \in 1..Len(kids)
        BY <2>1
    <2> QED BY <2>1, <2>2
<1>4. /\ a \in TodoEntry /\ b \in TodoEntry /\ c \in TodoEntry /\ d \in TodoEntry
      /\ a.do # "end" /\ b.do # "end" /\ c.do # "end" /\ d.at = p
    BY <1>2, <1>3 DEF Entry, TodoEntry
<1> HIDE DEF a, b, c, d, p
<1>5. /\ es \in Seq(TodoEntry) /\ Len(es) = 4
      /\ es[1] = a /\ es[2] = b /\ es[3] = c /\ es[4] = d
    BY <1>4
<1> HIDE DEF es
<1>6. PICK more : more = DOMAIN code'
    OBVIOUS
<1>7. Prepared(es, more)
    <2> SUFFICES ASSUME NEW k \in 1..Len(es), es[k].do = "end"
                 PROVE  \E j \in 1..(k - 1) : es[j] = Entry("branch", es[k].at)
        BY DEF Prepared
    <2>1. k = 4
        BY <1>4, <1>5
    <2>2. es[2] = Entry("branch", es[4].at)
        BY <1>4, <1>5 DEF b
    <2> QED BY <2>1, <2>2
<1>8. CodeStands(code', more) /\ (more # {} => block' \in more) /\ DOMAIN code \subseteq more
      /\ stack' \in Seq(Standing)
    BY <1>1, <1>6 DEF EmissionStands
<1> QED BY <1>1, <1>2, <1>5, <1>6, <1>7, <1>8, StandingGoesOn

\* A block is begun, and its statements are visited.
LEMMA BlockStands ==
    ASSUME EmissionInv, EmissionStands, EmitBlock \/ EmitIfBlock
    PROVE  EmissionStands'
<1> DEFINE ps == IF Head(todo).do = "function" THEN functions[Value[1]].body ELSE mir[Value].kids
           es == Entries("value", ps)
           i == Instr("vtables.init", <<>>, <<>>)
<1>1. /\ Emitting({"function", "value", "start"}) /\ todo' = es \o Tail(todo)
      /\ UNCHANGED <<backendVars, emission, stack>>
      /\ \/ code' = With(code, Value, VTables) /\ block' = Value
         \/ code' = Emitted(VTables) /\ block' = block /\ Head(todo).do = "start"
    BY DEF EmitBlock, EmitIfBlock, Emits, Emitting
<1>2. /\ Head(todo).do \in {"function", "value", "start"} /\ EntryStands(Head(todo))
      /\ Value = Head(todo).at /\ MirTyped
    BY <1>1, AtTodo
<1>3. ps \in Seq(DOMAIN mir)
    <2>1. CASE Head(todo).do = "function"
        <3>1. PICK k \in DOMAIN functions : Value = <<k>>
            BY <1>2, <2>1 DEF EntryStands
        <3>2. functions[k].body \in Seq(DOMAIN mir)
            <4> DEFINE S == [of : Seq(Nat), body : Seq(DOMAIN mir)]
            <4>1. functions \in Seq(S) /\ \A f \in S : f.body \in Seq(DOMAIN mir)
                BY <1>2 DEF MirTyped
            <4> HIDE DEF S
            <4>2. functions[k] \in S
                BY <4>1
            <4> QED BY <4>1, <4>2
        <3>3. Value[1] = k
            BY <3>1
        <3> QED BY <2>1, <3>2, <3>3
    <2>2. CASE Head(todo).do # "function"
        <3>1. Value \in DOMAIN mir
            BY <1>2, <2>2 DEF EntryStands
        <3> QED BY <1>2, <2>2, <3>1 DEF MirTyped, MirKids
    <2> QED BY <2>1, <2>2
<1> HIDE DEF ps
<1>4. es \in Seq(TodoEntry) /\ \A e \in Range(es) : e.do # "end"
    <2>1. es \in Seq(TodoEntry)
        BY <1>2, <1>3, EntriesStand
    <2>2. \A e \in Range(es) : e.do # "end"
        BY DEF Entries, Range, Entry
    <2> QED BY <2>1, <2>2
<1> HIDE DEF es
<1>5. VTables \in Seq({i}) /\ \A blocks : InstrStands(i, blocks)
    <2>1. \A blocks : InstrStands(i, blocks)
        BY DEF InstrStands, Instr
    <2> QED BY <2>1, VTablesFit
<1>6. PICK more : more = DOMAIN code'
    OBVIOUS
<1> HIDE DEF i
<1>7. /\ CodeStands(code', more) /\ DOMAIN code \subseteq more
      /\ Head(todo).do = "function" => Value \in more
      /\ block' \in more \/ (more = DOMAIN code /\ block' = block)
    <2>0. PICK T : T = {i}
        OBVIOUS
    <2>1. PICK is \in Seq(T) : is = VTables
        BY <1>5, <2>0
    <2>2. CASE code' = With(code, Value, VTables) /\ block' = Value
        <3>1. PICK b, c, blocks : b = Value /\ c = code /\ blocks = DOMAIN code
            OBVIOUS
        <3>2. CodeStands(c, blocks)
            BY <3>1 DEF EmissionStands
        <3>6. PICK all : all = blocks \union {b} /\ blocks \subseteq all
            OBVIOUS
        <3>3. \A j \in T : InstrStands(j, all)
            BY <1>5, <2>0
        <3>7. CodeStands(With(c, b, is), all)
            BY <3>2, <3>3, <3>6, CodeWith
        <3>4. CodeStands(With(c, b, is), all) /\ DOMAIN With(c, b, is) = DOMAIN c \union {b}
            BY <3>7, WithIs
        <3>5. code' = With(c, b, is) /\ more = all
            BY <1>6, <2>1, <2>2, <3>1, <3>4, <3>6
        <3> QED BY <2>2, <3>1, <3>4, <3>5, <3>6
    <2>3. CASE code' = Emitted(VTables) /\ block' = block /\ Head(todo).do = "start"
        <3>1. \A j \in T : InstrStands(j, DOMAIN code)
            BY <1>5, <2>0
        <3>2. CodeStands(Emitted(is), DOMAIN code) /\ DOMAIN Emitted(is) = DOMAIN code
            BY <3>1, CodeGrows
        <3> QED BY <1>6, <2>1, <2>3, <3>2
    <2> QED BY <1>1, <2>2, <2>3
<1>8. Prepared(es, more) /\ stack' \in Seq(Standing)
    BY <1>1, <1>4, NoneAreEnds DEF EmissionStands
<1>9. more # {} => block' \in more
    BY <1>7 DEF EmissionStands
<1> QED BY <1>1, <1>2, <1>4, <1>6, <1>7, <1>8, <1>9, StandingGoesOn

LEMMA BranchStands ==
    ASSUME EmissionInv, EmissionStands, EmitBranch
    PROVE  EmissionStands'
<1> DEFINE i == Instr("br", Value, Top(1))
<1>1. /\ Emitting({"branch"})
      /\ IF stack = <<>> THEN Break("crashed")
         ELSE /\ code' = With(With(Emitted(<<i>>), IfEnd(Value), <<>>), IfStart(Value), <<>>)
              /\ stack' = Append(Without(stack, 1), Value)
              /\ block' = IfStart(Value)
              /\ todo' = Tail(todo)
              /\ UNCHANGED <<backendVars, emission>>
    BY DEF EmitBranch
<1>2. /\ Value \in DOMAIN mir /\ Value \in Seq(Nat) /\ Head(todo).do = "branch"
      /\ Head(todo).at = Value /\ MirTyped /\ stack \in Seq(Standing) /\ Value \in Standing
    BY <1>1, AtValue, ValuesStand DEF EmissionStands
<1>3. CASE stack = <<>>
    BY <1>1, <1>3, StandingBreaks
<1>4. CASE stack # <<>>
    <2>1. PICK p, start, end, b, c, blocks :
              /\ p = Value /\ start = IfStart(p) /\ end = IfEnd(p) /\ b = block /\ c = code
              /\ blocks = DOMAIN code
        OBVIOUS
    <2> DEFINE T == {i}
               is == <<i>>
               c1 == [c EXCEPT ![b] = @ \o is]
               c2 == With(c1, end, <<>>)
               c3 == With(c2, start, <<>>)
    <2>2. PICK all : all = (blocks \union {end}) \union {start}
        OBVIOUS
    <2>3. is \in Seq(T)
        OBVIOUS
    <2>4. \A j \in T : InstrStands(j, all)
        BY <1>2, <2>1, <2>2 DEF Instr, InstrStands
    <2>5. CodeStands(c, blocks) /\ DOMAIN c = blocks /\ blocks \subseteq all
        BY <2>1, <2>2 DEF EmissionStands
    <2>6. code' = c3
        BY <1>1, <1>4, <2>1 DEF Emitted
    <2> HIDE DEF is, T, i
    <2>7. CodeStands(c1, all) /\ DOMAIN c1 = blocks
        BY <2>3, <2>4, <2>5, CodeMore
    <2> HIDE DEF c1
    <2>8. CodeStands(c2, all) /\ DOMAIN c2 = blocks \union {end}
        BY <2>7, EmptyMore
    <2> HIDE DEF c2
    <2>9. CodeStands(c3, all) /\ DOMAIN c3 = all
        BY <2>2, <2>8, EmptyMore
    <2> HIDE DEF c3
    <2>10. PICK more : more = DOMAIN code'
        OBVIOUS
    <2>11. /\ CodeStands(code', more) /\ DOMAIN code \subseteq more /\ IfEnd(Value) \in more
           /\ block' \in more
        BY <1>1, <1>4, <2>1, <2>2, <2>5, <2>6, <2>9, <2>10
    <2>12. stack' \in Seq(Standing)
        <3>1. Len(stack) \in Nat /\ Len(stack) # 0 /\ 1 \in 0..Len(stack)
            BY <1>2, <1>4
        <3>2. Without(stack, 1) \in Seq(Standing)
            BY <1>2, <3>1, Popping
        <3> QED BY <1>1, <1>2, <1>4, <3>2, ConcatOne
    <2> QED BY <1>1, <1>2, <1>4, <2>10, <2>11, <2>12, StandingPasses
<1> QED BY <1>3, <1>4

LEMMA IfEndStands ==
    ASSUME EmissionInv, EmissionStands, EmitIfEnd
    PROVE  EmissionStands'
<1>1. /\ Emitting({"end"}) /\ todo' = Tail(todo) /\ block' = IfEnd(Value)
      /\ UNCHANGED <<backendVars, emission, stack, code>>
    BY DEF EmitIfEnd
<1>2. Head(todo).do = "end" /\ Head(todo).at = Value
    BY <1>1, AtValue
<1>3. IfEnd(Value) \in DOMAIN code
    <2>1. todo \in Seq(TodoEntry) /\ todo # <<>> /\ emission = "emitting"
        BY <1>1, AtTodo DEF Emitting
    <2>2. 1 \in 1..Len(todo) /\ todo[1] = Head(todo) /\ 1..(1 - 1) = {}
        BY <2>1
    <2> QED BY <1>2, <2>1, <2>2 DEF EmissionStands, Prepared
<1>4. PICK more : more = DOMAIN code'
    OBVIOUS
<1>5. CodeStands(code', more) /\ block' \in more /\ DOMAIN code \subseteq more
      /\ stack' \in Seq(Standing)
    BY <1>1, <1>3, <1>4 DEF EmissionStands
<1> QED BY <1>1, <1>2, <1>4, <1>5, StandingPasses

LEMMA FinishStands ==
    ASSUME EmissionStands, FinishEmission
    PROVE  EmissionStands'
<1>1. /\ emission = "emitting" /\ emission' = "emitted" /\ todo = <<>>
      /\ UNCHANGED <<backendVars, todo, stack, block, code>>
    BY DEF FinishEmission
<1>2. PICK c, blocks : c = code /\ blocks = DOMAIN code
    OBVIOUS
<1>3. CodeStands(c, blocks)'
    BY <1>1, <1>2, CodeStays DEF EmissionStands
<1>4. CodeStands(code, DOMAIN code)'
    BY <1>1, <1>2, <1>3 DEF CodeStands
<1> QED BY <1>1, <1>4, SameStanding DEF EmissionStands, Prepared, Declared

-----------------------------------------------------------------------------
LEMMA NothingStands ==
    ASSUME stack = <<>>, code = <<>>, emission \notin {"emitting", "emitted"}
    PROVE  EmissionStands
<1>1. DOMAIN code = {} /\ code = [b \in {} |-> code[b]] /\ stack \in Seq(Standing)
    OBVIOUS
<1> DEFINE S == {}
<1>2. (\A b \in DOMAIN code : code[b] \in Seq(S)) /\ \A i \in S : InstrStands(i, DOMAIN code)
    BY <1>1
<1> HIDE DEF S
<1> QED BY <1>1, <1>2 DEF EmissionStands, CodeStands

LEMMA StandingBegins ==
    ASSUME EmissionInv, StartEmission
    PROVE  EmissionStands'
<1> DEFINE es == [k \in DOMAIN functions |-> Entry("function", <<k>>)]
<1>1. /\ stack' = <<>> /\ code' = <<>> /\ emission' \in {"uncaught", "emitting"}
      /\ emission' = "emitting" => todo' = es
      /\ UNCHANGED backendVars
    BY DEF StartEmission, EmissionInv, Emission
<1>2. DOMAIN code' = {} /\ code' = [b \in {} |-> code'[b]] /\ stack' \in Seq(Standing')
    BY <1>1
<1>3. CodeStands(code, DOMAIN code)'
    <2> DEFINE S == {}
    <2>1. /\ \A b \in DOMAIN code' : code'[b] \in Seq(S)
          /\ \A i \in S : InstrStands(i, DOMAIN code)'
        BY <1>2
    <2> HIDE DEF S
    <2> QED BY <1>2, <2>1 DEF CodeStands
<1>4. \A k \in DOMAIN functions : Entry("function", <<k>>) \in Range(es)
    BY DEF Range
<1>5. \A k \in DOMAIN es : es[k].do # "end"
    BY DEF Entry
<1>6. 1..Len(es) = DOMAIN es
    <2> DEFINE S == [of : Seq(Nat), body : Seq(DOMAIN mir)]
               n == Len(functions)
               a(k) == Entry("function", <<k>>)
    <2>1. functions \in Seq(S)
        BY DEF EmissionInv, LoweringInv, Built, MirTyped
    <2> HIDE DEF S
    <2>2. n \in Nat /\ DOMAIN functions = 1..n
        BY <2>1
    <2>3. es = [k \in 1..n |-> a(k)]
        BY <2>2
    <2> HIDE DEF es, n, a
    <2> QED BY <2>2, <2>3
<1> HIDE DEF es
<1>7. Prepared(es, DOMAIN code') /\ \A k \in DOMAIN functions : Entry("function", <<k>>) \in Range(es)
    BY <1>4, <1>5, <1>6 DEF Prepared
<1>8. functions' = functions
    BY <1>1 DEF backendVars, loweringVars
<1>9. emission' = "emitting" => Prepared(todo, DOMAIN code)' /\ Declared(todo, DOMAIN code)'
    BY <1>1, <1>7, <1>8 DEF Prepared, Declared
<1> QED BY <1>1, <1>2, <1>3, <1>9 DEF EmissionStands

LEMMA StandingWaits ==
    ASSUME EmissionInv, EmissionInv', Lower
    PROVE  EmissionStands'
<1>1. LoweringNext /\ UNCHANGED <<emission, todo>>
    BY DEF Lower, emissionVars
<1>2. LoweringNext => Resolve \/ StartLowering \/ LoweringWork
    BY DEF LoweringNext, LoweringWork
<1>3. stage # "lowered"
    <2>1. CASE Resolve
        <3>1. status = "running"
            BY <2>1, ResolverStep DEF Resolve, EmissionInv, LoweringInv
        <3> QED BY <3>1 DEF EmissionInv, LoweringInv, Staged
    <2>2. CASE StartLowering
        BY <2>2 DEF StartLowering
    <2>3. CASE LoweringWork
        BY <2>3, LoweringStep DEF EmissionInv
    <2> QED BY <1>1, <1>2, <2>1, <2>2, <2>3
<1>4. emission' = "waiting"
    BY <1>1, <1>3 DEF EmissionInv, Emission
<1>5. stack' = <<>> /\ code' = <<>>
    BY <1>4 DEF EmissionInv, Emission
<1>6. DOMAIN code' = {} /\ code' = [b \in {} |-> code'[b]] /\ stack' \in Seq(Standing')
    BY <1>5
<1>7. CodeStands(code, DOMAIN code)'
    <2> DEFINE S == {}
    <2>1. /\ \A b \in DOMAIN code' : code'[b] \in Seq(S)
          /\ \A i \in S : InstrStands(i, DOMAIN code)'
        BY <1>6
    <2> HIDE DEF S
    <2> QED BY <1>6, <2>1 DEF CodeStands
<1> QED BY <1>4, <1>6, <1>7 DEF EmissionStands

LEMMA StandingStutters ==
    ASSUME EmissionStands, UNCHANGED compilerVars
    PROVE  EmissionStands'
<1>1. UNCHANGED backendVars /\ UNCHANGED <<emission, todo, stack, block, code>>
    BY DEF compilerVars, emissionVars
<1>2. PICK c, blocks : c = code /\ blocks = DOMAIN code
    OBVIOUS
<1>3. CodeStands(c, blocks)'
    BY <1>1, <1>2, CodeStays DEF EmissionStands
<1>4. CodeStands(code, DOMAIN code)'
    BY <1>1, <1>2, <1>3 DEF CodeStands
<1> QED BY <1>1, <1>4, SameStanding DEF EmissionStands, Prepared, Declared

LEMMA StandingInductive ==
    ASSUME EmissionInv, EmissionStands, [EmissionNext]_compilerVars
    PROVE  EmissionStands'
<1>1. EmissionInv'
    BY EmissionInductive
<1>2. EmissionNext => Lower \/ StartEmission \/ EmissionWork
    BY DEF EmissionNext, EmissionWork
<1>3. CASE EmissionWork
    <2>1. CASE EmitLeaf \/ EmitMod \/ EmitOperands \/ EmitArguments
        BY <2>1, LeafStands, UnfoldStands
    <2>2. CASE EmitBinary \/ EmitReturn \/ EmitCall \/ EmitMethod \/ EmitCoercion
        BY <2>2, ValueStands, MethodStands, CoercionStands
    <2>3. CASE EmitBlock \/ EmitIfBlock \/ EmitIf \/ EmitBranch \/ EmitIfEnd \/ FinishEmission
        BY <2>3, BlockStands, IfStands, BranchStands, IfEndStands, FinishStands
    <2> QED BY <1>3, <2>1, <2>2, <2>3 DEF EmissionWork
<1> QED BY <1>1, <1>2, <1>3, StandingWaits, StandingBegins, StandingStutters

\* What stands for a value is in a function of the module.
LEMMA StandingIsWithin ==
    ASSUME EmissionInv, AllValued, stage = "lowered", NEW v \in Standing
    PROVE  FunctionOf(v)[1] \in DOMAIN functions
<1>1. MirTyped /\ Len(functions) = Len(program.kids)
    BY DEF EmissionInv, LoweringInv, Staged, Built
<1>2. DOMAIN functions = 1..Len(program.kids)
    <2> DEFINE S == [of : Seq(Nat), body : Seq(DOMAIN mir)]
    <2>1. functions \in Seq(S)
        BY <1>1 DEF MirTyped
    <2> HIDE DEF S
    <2> QED BY <1>1, <2>1
<1>3. \A p \in DOMAIN mir : p # <<>> /\ p[1] \in DOMAIN functions /\ p \in Seq(Nat)
    BY <1>1, <1>2 DEF AllValued, Valued, MirTyped
<1>4. ASSUME NEW o, IsOperand(o), v = WrapperOf(o) \/ v = BitcastOf(o)
      PROVE  v[1] \in DOMAIN functions
    <2>1. PICK c \in DOMAIN mir : \E k \in DOMAIN mir[c].kids : o = Operand(c, k)
        BY <1>4 DEF IsOperand
    <2>2. PICK k \in DOMAIN mir[c].kids : o = Operand(c, k)
        BY <2>1
    <2>3. c \in Seq(Nat) /\ c # <<>> /\ k \in Nat
        <3>1. mir[c].kids \in Seq(Seq(Nat))
            BY <1>1, KidsTyped
        <3> QED BY <1>3, <3>1
    <2>4. o \in Seq(Nat)
        BY <2>2, <2>3, OperandPath
    <2>5. o # <<>> /\ o[1] = c[1]
        <3> DEFINE t == <<0, k>>
        <3>1. t \in Seq(Nat) /\ Len(t) = 2
            BY <2>3
        <3> HIDE DEF t
        <3>2. 1 \in 1..Len(c) /\ Len(c) \in Nat
            BY <2>3
        <3> DEFINE n == Len(c)
        <3>5. /\ Len(c \o t) = n + Len(t)
              /\ \A i \in 1..(n + Len(t)) : (c \o t)[i] = IF i <= n THEN c[i] ELSE t[i - n]
            BY <2>3, <3>1, ConcatProperties
        <3> HIDE DEF n
        <3>6. 1 \in 1..(n + Len(t)) /\ 1 <= n
            BY <3>1, <3>2 DEF n
        <3>3. Len(c \o t) = Len(c) + 2 /\ (c \o t)[1] = c[1]
            BY <3>1, <3>5, <3>6 DEF n
        <3>4. c \o t # <<>>
            BY <3>2, <3>3
        <3> QED BY <2>2, <3>3, <3>4 DEF Operand, t
    <2>6. v[1] = o[1]
        BY <1>4, <2>4, <2>5, AppendBegins DEF WrapperOf, BitcastOf
    <2> QED BY <1>3, <2>5, <2>6
<1>5. v[1] \in DOMAIN functions
    BY <1>3, <1>4 DEF Standing, Stands
<1> QED BY <1>5 DEF FunctionOf

LEMMA InvEmissionTypeOK ==
    ASSUME EmissionInv, LoweringTypes, EmissionStands
    PROVE  EmissionTypeOK
<1>1. AllValued /\ MirTyped
    BY DEF EmissionInv, LoweringInv, Built, LoweringTypes
<1>2. emission \in Emissions /\ (stage # "lowered" => emission = "waiting")
    BY DEF EmissionInv, Emission
<1>3. code # <<>> => block \in DOMAIN code
    <2>1. code = [b \in DOMAIN code |-> code[b]]
        BY DEF EmissionStands, CodeStands
    <2>2. DOMAIN code = {} => code = <<>>
        BY <2>1
    <2> QED BY <2>2 DEF EmissionStands
<1>4. ASSUME NEW i \in Instructions, i.value # <<>>
      PROVE  FunctionOf(i.value)[1] \in DOMAIN functions
    <2>1. PICK S : (\A b \in DOMAIN code : code[b] \in Seq(S))
                   /\ \A j \in S : InstrStands(j, DOMAIN code)
        BY DEF EmissionStands, CodeStands
    <2>2. PICK b \in DOMAIN code : i \in Range(code[b])
        BY DEF Instructions
    <2>3. i \in S
        <3>1. code[b] \in Seq(S)
            BY <2>1
        <3> QED BY <2>2, <3>1 DEF Range
    <2>4. PICK v \in Standing : v = i.value
        BY <1>4, <2>1, <2>3 DEF InstrStands
    <2>5. code # <<>>
        <3>1. DOMAIN <<>> = {}
            OBVIOUS
        <3> QED BY <2>2, <3>1
    <2>6. stage = "lowered"
        BY <2>5 DEF EmissionInv, Emission
    <2> QED BY <1>1, <2>4, <2>6, StandingIsWithin
<1>5. ASSUME NEW v \in Range(stack)
      PROVE  v \in DOMAIN mir \/ CallWith(Front(v)) \in DOMAIN casts
    <2>1. v \in Standing
        <3>1. stack \in Seq(Standing)
            BY DEF EmissionStands
        <3> QED BY <3>1 DEF Range
    <2>2. ASSUME NEW o, IsOperand(o), v = WrapperOf(o) \/ v = BitcastOf(o)
          PROVE  Front(v) = o
        <3>1. PICK c \in DOMAIN mir : \E k \in DOMAIN mir[c].kids : o = Operand(c, k)
            BY <2>2 DEF IsOperand
        <3>2. PICK k \in DOMAIN mir[c].kids : o = Operand(c, k)
            BY <3>1
        <3>3. c \in Seq(Nat) /\ k \in Nat
            <4>1. mir[c].kids \in Seq(Seq(Nat)) /\ c \in Seq(Nat)
                BY <1>1, KidsTyped
            <4> QED BY <4>1
        <3> QED BY <2>2, <3>2, <3>3, OperandPath
    <2> QED BY <2>1, <2>2 DEF Standing, Stands
<1> QED BY <1>2, <1>3, <1>4, <1>5 DEF EmissionTypeOK

LEMMA StandingStarts ==
    ASSUME EmissionInit
    PROVE  LoweringTypes /\ EmissionStands
BY NothingStands, LoweringTypesStart DEF EmissionInit

LEMMA CompilerTypesStep ==
    ASSUME EmissionInv, LoweringTypes, EmissionStands, [EmissionNext]_compilerVars
    PROVE  LoweringTypes' /\ EmissionStands'
<1>1. EmissionNext => Lower \/ StartEmission \/ EmissionWork
    BY DEF EmissionNext, EmissionWork
<1>2. [LoweringNext]_backendVars
    BY <1>1, EmissionStep DEF Lower, StartEmission, compilerVars
<1>3. LoweringInv /\ LoweringInv'
    BY EmissionInductive DEF EmissionInv
<1>4. LoweringTypes'
    BY <1>2, <1>3, LoweringTypesStep
<1> QED BY <1>4, StandingInductive

(***************************************************************************)
(* What the emission builds hangs together: the block instructions go to   *)
(* is there, each of them is in a function of the module, and valueStack   *)
(* holds values of the module and what was put around the operands of      *)
(* calls the caster visited (LLVMBackend.cpp 49-590, MIR.cpp 487-525).     *)
(***************************************************************************)
THEOREM EmissionTyped == EmissionSpec => []EmissionTypeOK
<1>1. EmissionInit => EmissionInv /\ LoweringTypes /\ EmissionStands
    BY EmissionBegins, StandingStarts
<1>2. EmissionInv /\ LoweringTypes /\ EmissionStands /\ [EmissionNext]_compilerVars
          => (EmissionInv /\ LoweringTypes /\ EmissionStands)'
    BY EmissionInductive, CompilerTypesStep
<1>3. EmissionInv /\ LoweringTypes /\ EmissionStands => EmissionTypeOK
    BY InvEmissionTypeOK
<1> QED BY <1>1, <1>2, <1>3, PTL DEF EmissionSpec
=============================================================================
