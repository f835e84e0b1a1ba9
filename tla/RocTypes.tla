------------------------------ MODULE RocTypes ------------------------------
(***************************************************************************)
(* The types of compiler/Types.h, as far as the passes tell them apart: a  *)
(* raw string's length, the element of an array and what a pointer points  *)
(* to are left out.  A value never has type Array: RocArrayType::clone     *)
(* makes a pointer.                                                        *)
(***************************************************************************)
EXTENDS Naturals, Sequences

Types == {"Unit", "Any", "Raw", "String", "Bool", "Int32", "Int64", "Float64",
          "Ptr", "Array"}

\* Mutant: a name that is a type, but for no alias.
NamedTypesNoAlias == [name \in {"Int64", "Int32", "Int", "Float64", "Bool", "Any", "String"} |->
                         name]

\* SingleTypeNode: the names a program may write.
NamedTypes == [name \in {"Int64", "Int32", "Int", "Float64", "Bool", "Any", "String"} |->
                  IF name = "Int" THEN "Int32" ELSE name]

\* A node's entry in a table is set, or replaced.
With(f, x, v) == [y \in DOMAIN f \union {x} |-> IF y = x THEN v ELSE f[y]]

\* RocBoolType extends RocAnyType and does not override isAny.
IsAny(t) == t \in {"Any", "Bool"}
IsString(t) == t \in {"Raw", "String"}
IsPrimitive(t) == t \in {"Raw", "Int32", "Int64", "Float64"}

Clone(t) == IF t = "Array" THEN "Ptr" ELSE t

\* RocType::size; a raw string's size is its length.
Size(t) == CASE t \in {"Unit", "Any"} -> 0
             [] t = "Bool"  -> 1
             [] t = "Int32" -> 4
             [] OTHER       -> 8

\* The type of x - y, x * y, x % y and of x + y on numbers: the larger one,
\* the right one on a tie.
LargerTypes(left, right) ==
    IF "Raw" \in {left, right} THEN {left, right}
    ELSE {IF Size(left) > Size(right) THEN left ELSE right}

\* RocType::matches assigns the other's typeEnum; unitType is its zero.
Matches(expected, given) == IsAny(given) \/ given # "Unit"

-----------------------------------------------------------------------------
(* Call targets (TargetFunctionCall): the builtins of                       *)
(* BuiltinFunctionResolver, the functions of the module, and toString.      *)

Target(kind, name, params, returns) ==
    [kind |-> kind, name |-> name, params |-> params, returns |-> returns]

Builtins == {Target("builtin", "println", <<"Any">>, "Unit"),
             Target("builtin", "ccall", <<"Raw", "Any">>, "Any")}

\* getMethods: Any has toString, Bool inherits it, Int32 has Any as a trait.
Methods(t) ==
    IF t \in {"Any", "Bool", "Int32"}
    THEN {Target("method", "toString", <<>>, "Ptr")} ELSE {}
=============================================================================
