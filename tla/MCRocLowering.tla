--------------------------- MODULE MCRocLowering ---------------------------
(***************************************************************************)
(* The lowering of the modules of MCRocResolvers, from the syntax tree on. *)
(***************************************************************************)
EXTENDS RocLowering, MCRocResolvers

\* Calls of functions with several parameters, as statements, as conditions
\* and within an if.
G3 == Fun("g", <<Param("a", "Int32"), Param("b", "Any"), Param("c", "Bool")>>,
          Returns("Bool"), <<RetStmt(True)>>)
CallPrograms ==
    {Module(<<Fun("f", AB("Int32", "Bool"), Returns("Any"),
                  <<Stmt(CallOf("g", <<x, y, z>>)),
                    IfThen(CallOf("g", <<y, z, x>>), <<Stmt(CallOf("println", <<x>>)), s>>),
                    RetStmt(Chain(<<A, CallOf("g", <<z, x, y>>)>>, <<"==">>))>>), G3>>,
            Static) :
        x \in {A, B, Str}, y \in {One, B}, z \in {B, CallOf("g", <<A, B, B>>)},
        s \in {Stmt(B), IfThen(EqualAB, <<Stmt(A), IfThen(EqualAB, <<Stmt(B)>>)>>)}}

\* Builtins, with and without what the lowering needs of them.
BuiltinCalls ==
    {CallOf("println", <<x, y>>) : x \in {A, Str, CallOf("h", <<>>)}, y \in {A, B}}
    \union {CallOf("ccall", <<Str, x>>) : x \in {A, B}}
    \union {TypedCall("ccall", type, <<Str, A, CallOf("println", <<A>>)>>) : type \in {"Int", "T"}}
BuiltinPrograms ==
    {Module(<<H, Fun("f", AB("Int32", "Bool"), NoType, <<Stmt(x), IfThen(EqualAB, <<Stmt(A)>>)>>)>>,
            Static) : x \in BuiltinCalls}

MCLowered == MCPrograms \union {m.n : m \in CallPrograms \union BuiltinPrograms}

-----------------------------------------------------------------------------

(***************************************************************************)
(* What Types.h 519 says RocWrapperType is for, "Type to wrap primitive    *)
(* types and pass to" an Any: a primitive passed for an Any is wrapped.    *)
(***************************************************************************)
PrimitivesAreWrapped ==
    stage = "lowered" =>
        \A p \in DOMAIN casts :
            mir[p].op = "call" =>
                \A k \in DOMAIN Given(p) :
                    IsPrimitive(Given(p)[k]) /\ targets[p].params[k] = "Any" =>
                        casts[p][k].wrapped
=============================================================================
