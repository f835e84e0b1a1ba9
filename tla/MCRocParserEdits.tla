------------------------- MODULE MCRocParserEdits -------------------------
(***************************************************************************)
(* The parser on modules with a mistake: every source that one edit (a     *)
(* token dropped, inserted or replaced, or the text cut short) makes of a  *)
(* well-formed module.                                                     *)
(***************************************************************************)
EXTENDS RocParser, RocGrammar

MCNames == {"a", "b", "f", "g", "m", "T", "U"}
MCNumbers == {"1"}

Bases ==
    {Module(<<Fun("f", <<Param("a", "T"), Param("b", "U")>>, ReturnsArray("T"),
                  <<RetStmt(Chain(<<A, One>>, <<"+">>))>>)>>,
            <<CallOf("f", <<A, String(<<"b">>)>>)>>).t,
     Module(<<Fun("f", <<>>, NoType,
                  <<IfThenElse(A, <<Stmt(B)>>, <<RetStmt(One)>>)>>)>>, <<>>).t,
     Module(<<RetFun(Chain(<<Dotted(A, B), CallOf("g", <<Prefix("!", A)>>)>>, <<"==">>))>>,
            <<Assign(A, One)>>).t}

\* "a < T > ;", a tuple and a for loop, which no well-formed module above has, and
\* two whose last token stays peeked.
Others ==
    {<<"package", "m", "newline", "a", "<", "T", ">", "(", "b", ")", ";", "(", "a", ",", "1", ")">>,
     <<"package", "m", "newline", "a", "(", "b", ")", "(", "a", ",", "1", ")", "newline", "b">>,
     <<"package", "m", "newline", "for", "a", "newline", "b", "{", "newline", "a", "newline", "}">>,
     <<"package", "m", "newline", "import", "a", ";", "newline", "b">>,
     <<"package", "m", "newline", "a", ".", "b", ";", "a">>,
     <<"package", "m", "newline", "if", "a", "{", "b", "}", "a">>}

Inserted ==
    MCNumbers \union {"a", "newline", "quote", "(", ")", "{", "}", "[", ",", ";", ".", "->",
                      "+", "*", "<", ">", "==", "!=", "<=", "=", "!", "ret", "if", "else",
                      "fun", "true", "false", "import", "for"}

Edits(s) ==
    {RemoveAt(s, k) : k \in 1..Len(s)}
    \union {SubSeq(s, 1, k) : k \in 1..Len(s)}
    \union {InsertAt(s, k, x) : k \in 1..(Len(s) + 1), x \in Inserted}
    \union {ReplaceAt(s, k, x) : k \in 1..Len(s), x \in Inserted}

MCSources == UNION {Edits(s) : s \in Bases \union Others}
=============================================================================
