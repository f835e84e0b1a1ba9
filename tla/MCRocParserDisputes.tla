------------------------ MODULE MCRocParserDisputes ------------------------
(***************************************************************************)
(* Where the parser disagrees with a comment or an error message of its    *)
(* own.  One configuration for each property, with the sources it is about.*)
(***************************************************************************)
EXTENDS RocParser, RocGrammar

MCNames == {"a", "b", "f", "g", "m", "T", "U"}
MCNumbers == {"1"}

\* Two operators whose grouping the precedence map decides.
Chains == {Module(<<RetFun(PairChain(p))>>, <<>>) : p \in {q \in InfixPairs : q[1] # "!="}}
ChainSources == {m.t : m \in Chains}

\* Two expressions, one to a line.
Lists == {Module(<<Fun("f", <<>>, NoType, <<x, y>>)>>, <<>>) :
            x \in {A, CallOf("g", <<A>>)}, y \in {B, CallOf("g", <<B>>)}}
ListSources == {m.t : m \in Lists}

\* A "ret" on the line after an expression.
RetSources ==
    {Module(<<Fun("f", <<>>, NoType, <<x, RetStmt(One)>>)>>, <<>>).t :
       x \in {A, CallOf("g", <<A>>), Dotted(A, B)}}

\* A parameter list over several lines.
ParamSources ==
    {<<"package", "space", "m", "newline", "fun", "space", "f", "(", "newline", "a", "space", "T">>
       \o s \o <<")", "space", "{", "newline", "}">> :
       s \in {<<>>, <<"newline">>, <<",", "newline", "b", "space", "U">>}}

TreeIn(modules) == (CHOOSE m \in modules : m.t = source).n

(***************************************************************************)
(* "operator precedence map" (Token.h 19-22): the map alone decides how    *)
(* two operators group.                                                    *)
(***************************************************************************)
GroupedByMap == status = "parsed" => module = TreeIn(Chains)

(***************************************************************************)
(* "Body of function { expr expr }" (AST.h 945-952): expressions on lines  *)
(* of their own are all in the body.                                       *)
(***************************************************************************)
BodyHasEach == status = "parsed" => module = TreeIn(Lists)

(***************************************************************************)
(* "Expected new line before given token" (AST.cpp 62): the parse stops at *)
(* a "ret" only if no newline precedes it.                                 *)
(***************************************************************************)
RetOnNewLine ==
    status = "aborted" /\ Kind(lex.peekedToken) = "ret" =>
        \E i \in 1..(lex.peekedToken - 1) :
            /\ source[i] \notin {"newline", "space"}
            /\ \A j \in (i + 1)..(lex.peekedToken - 1) : source[j] = "space"

(***************************************************************************)
(* "Expected ')' after parameters declaration" (AST.cpp 1206-1209): a      *)
(* parameter list is refused only if it did not end with a ")".            *)
(***************************************************************************)
RefusedUnclosed ==
    status \notin {"running", "parsed"} /\ Top.proc = "params" =>
        Kind(LastTaken) # ")"
=============================================================================
