----------------------------- MODULE RocParser -----------------------------
(***************************************************************************)
(* The parser: ModuleParser and ParserVisitor (parser/Parser.cpp) and the  *)
(* visitors of parser/AST.cpp that it starts, as one stack machine over    *)
(* the lexer.  Each activation of a visitor is a frame; a step of the      *)
(* parser calls the lexer at most once, or deletes tokens: the one token a *)
(* visitor deletes, or those of a node that is destroyed.                  *)
(*                                                                         *)
(* The nodes of the tree own tokens, which their destructors delete (the   *)
(* unique_ptr fields and the destructors of AST.h).  A frame carries the   *)
(* tokens owned by the nodes its visitor holds, once for each owner: two   *)
(* owners are a token that will be deleted twice.                          *)
(*                                                                         *)
(* A parse ends parsed, with a recorded SyntaxException (syntaxError),     *)
(* with an exception nothing catches (aborted), or by following a null,    *)
(* dangling or uninitialised pointer or exhausting the C++ stack (crashed).*)
(***************************************************************************)
EXTENDS RocLexer, RocSyntax

\* No name or number is of the kind of eofT or of a newline.
ASSUME KindsAssumption == {"eof", "newline"} \intersect (Names \union Numbers) = {}

VARIABLES
    stack,      \* the active visitors, ModuleParser::parse at the bottom
    ret,        \* the node the last visitor left in its result
    owned,      \* the tokens that node owns, until its visitor takes it over
    status,     \* "running", or how the parse ended
    module      \* the ModuleDeclaration: its functions and static block

parserVars == <<stack, ret, owned, status, module>>
vars == <<lexVars, parserVars>>

Statuses == {"running", "parsed", "syntaxError", "aborted", "crashed"}

(***************************************************************************)
(* A frame: the visitor, its place in the code, currentExpression or the   *)
(* left operand, the children gathered so far, the token being visited,    *)
(* whether the last whitespace of currentExpression is a newline, whether  *)
(* this is a RightHandExpressionVisitor, and the tokens its nodes own.     *)
(***************************************************************************)
Frame(proc, pc) == [proc |-> proc, pc |-> pc, cur |-> NoExpr, acc |-> <<>>,
                    tok |-> Null, nl |-> FALSE, rhs |-> FALSE, own |-> <<>>]
Visitor(t, rhs) == [Frame("expr", "visit") EXCEPT !.tok = t, !.rhs = rhs]
OpVisitor(left, own, t) ==
    [Frame("op", "start") EXCEPT !.cur = left, !.own = own, !.tok = t]

Kind(i) == IF i \in Tokens THEN source[i] ELSE "eof"

\* The token a visitor finds at currentToken.  If it was deleted, its memory
\* may still hold it or hold a token taken after it.  (It may also hold one
\* peeked since: a "}", "fun" or "ret", which no reader tells from a newline.)
CurrentTokens ==
    {lex.currentToken} \union
    IF lex.currentToken \in freed
    THEN {i \in Handed : i > lex.currentToken /\ ~IsWhitespace(i)} ELSE {}
Currents == {Kind(i) : i \in CurrentTokens}

Top == stack[Len(stack)]
At(proc, pc) == status = "running" /\ Top.proc = proc /\ Top.pc = pc

Below(f) == [stack EXCEPT ![Len(stack)] = f]
Goto(f) == stack' = Below(f) /\ owned' = <<>> /\ UNCHANGED <<ret, status, module>>
Call(f, g) ==
    /\ stack' = Append(Below(f), g)
    /\ owned' = <<>>
    /\ UNCHANGED <<ret, status, module>>
ReturnOwning(n, own) ==
    /\ stack' = SubSeq(stack, 1, Len(stack) - 1)
    /\ ret' = n
    /\ owned' = own
    /\ UNCHANGED <<status, module>>
Return(n) == ReturnOwning(n, Top.own)
Stop(s) == status' = s /\ UNCHANGED <<stack, ret, owned, module>>

At_(f, pc) == [f EXCEPT !.pc = pc]
Plus(f, n) == [f EXCEPT !.acc = Append(@, n)]
Owning(f, own) == [f EXCEPT !.own = @ \o own]
NoLexer == UNCHANGED lexVars
Delete(i) == freed' = freed \union {i} /\ UNCHANGED <<source, lex, delivered, ended>>

\* The object behind a token: all spaces are the one spaceT.
SpaceT == Eof + 1
Pointer(i) == IF IsWhitespace(i) THEN SpaceT ELSE i

\* The destructors of nodes that own these tokens.
TokensOf(own) == {own[k] : k \in 1..Len(own)}
Destroy(own) ==
    /\ freed' = freed \union (TokensOf(own) \intersect Tokens)
    /\ UNCHANGED <<source, lex, delivered, ended>>

\* The tokens owned by the nodes each visitor holds, and by ret.
OwnedBy(k) == IF k = 0 THEN owned ELSE stack[k].own
Held == UNION {TokensOf(OwnedBy(k)) : k \in 0..Len(stack)}

ParserInit ==
    /\ LexInit
    /\ stack = <<Frame("module", "package")>>
    /\ ret = NoExpr
    /\ owned = <<>>
    /\ status = "running"
    /\ module = [functions |-> <<>>, statics |-> <<>>]

-----------------------------------------------------------------------------
(* ExpressionVisitor: what it does with the token it visits.                *)

Visits(kinds) == At("expr", "visit") /\ Kind(Top.tok) \in kinds

\* currentExpression is replaced by a node without whitespace.
Got(n, own, pc) == [Top EXCEPT !.cur = n, !.own = own, !.nl = FALSE, !.pc = pc]

\* Mutant: the newline after an expression is deleted too.
VisitNewLineDeletes ==
    /\ Visits({"newline"})
    /\ Delete(Top.tok)
    /\ Goto([Top EXCEPT !.nl = TRUE, !.pc = "further"])

VisitNewLine ==
    /\ Visits({"newline"})
    /\ IF Top.cur = NoExpr
       THEN Delete(Top.tok) /\ Goto(At_(Top, "further"))
       ELSE NoLexer /\ Goto([Top EXCEPT !.nl = TRUE, !.pc = "further",
                                         !.own = Append(@, Top.tok)])

\* goFurther: stop before "fun", "}" and a "ret" on a new line, else visit
\* the next token ("further") or the current one again ("again"; if the node
\* was destroyed that owned it, nothing was allocated since).
GoFurther ==
    /\ At("expr", "further") \/ At("expr", "again")
    /\ PeekNext
    /\ LET k == Kind(lex'.peekedToken)
       IN \/ k \in {"fun", "}"} /\ Return(Top.cur)
          \/ k = "ret" /\ Top.nl /\ Return(Top.cur)
          \/ k = "ret" /\ ~Top.nl /\ Stop("aborted")
          \/ /\ k \notin {"fun", "}", "ret"}
             /\ Goto(IF Top.pc = "again"
                     THEN [Top EXCEPT !.pc = "visit", !.tok = lex.currentToken]
                     ELSE At_(Top, "take"))

TakeFurther ==
    /\ At("expr", "take")
    /\ NextToken
    /\ Goto([Top EXCEPT !.pc = "visit", !.tok = lex'.currentToken])

VisitLiteral ==
    /\ Visits(Names)
    /\ Destroy(Top.own)
    /\ Goto(Got(Leaf(Kind(Top.tok)), <<Top.tok>>, "further"))

\* Whatever follows a number is visited, without goFurther.
VisitNumber ==
    /\ Visits(Numbers)
    /\ Destroy(Top.own)
    /\ Goto(Got(Leaf(Kind(Top.tok)), <<Top.tok>>, "take"))

VisitTrue ==
    /\ Visits({"true"})
    /\ NoLexer
    /\ IF Top.cur = NoExpr THEN ReturnOwning(Leaf("true"), <<Top.tok>>)
                           ELSE Stop("syntaxError")

\* The token may be one that the replaced expression owns too.
VisitFalse ==
    /\ Visits({"false"})
    /\ Destroy(Top.own)
    /\ ReturnOwning(Leaf("false"), <<Top.tok>>)

VisitQuotionMark ==
    /\ Visits({"quote"})
    /\ NoLexer
    /\ Call(At_(Top, "string"), Frame("string", "next"))

\* Mutant: the left operand is not released.
VisitOperatorKeeps ==
    /\ Visits(Operators)
    /\ ~(Top.rhs /\ Kind(Top.tok) \in RightHandStops)
    /\ NoLexer
    /\ Call(At_(Top, IF Kind(Top.tok) = "<" THEN "lesser" ELSE "op"),
            OpVisitor(Top.cur, Top.own, Top.tok))

VisitOperator ==
    /\ Visits(Operators)
    /\ ~(Top.rhs /\ Kind(Top.tok) \in RightHandStops)
    /\ NoLexer
    /\ Call([Top EXCEPT !.pc = IF Kind(Top.tok) = "<" THEN "lesser" ELSE "op",
                        !.own = <<>>],
            OpVisitor(Top.cur, Top.own, Top.tok))

\* Mutant: every "(" opens an argument list.
VisitLeftParenthesisArgs ==
    /\ Visits({"("})
    /\ NoLexer
    /\ IF Top.cur = NoExpr THEN Stop("crashed")
       ELSE Call(At_(Top, IF IsLiteralExpr(Top.cur) THEN "call" ELSE "tuple"),
                 Frame("args", "next"))

VisitLeftParenthesis ==
    /\ Visits({"("})
    /\ NoLexer
    /\ IF Top.cur = NoExpr THEN Stop("crashed")
       ELSE IF IsLiteralExpr(Top.cur)
            THEN Call(At_(Top, "call"), Frame("args", "next"))
            ELSE Call(At_(Top, "tuple"), Frame("tuple", "next"))

VisitDot ==
    /\ Visits({"."})
    /\ NextToken
    /\ Call(At_(Top, "dot"), Visitor(lex'.currentToken, TRUE))

\* Mutant: the keyword is its own operand.
VisitRetOrImportAgain ==
    /\ Visits({"ret", "import"})
    /\ NoLexer
    /\ Call(At_(Top, Kind(Top.tok)), Visitor(Top.tok, FALSE))

VisitRetOrImport ==
    /\ Visits({"ret", "import"})
    /\ NextToken
    /\ Call(At_(Top, Kind(Top.tok)), Visitor(lex'.currentToken, FALSE))

VisitIf == Visits({"if"}) /\ NoLexer /\ Call(At_(Top, "done"), Frame("if", "start"))

\* visit(ForKeyword) calls itself.
VisitFor == Visits({"for"}) /\ NoLexer /\ Stop("crashed")

\* Every other token ends the expression and stays the current token.
VisitOther ==
    /\ At("expr", "visit")
    /\ LET k == Kind(Top.tok)
       IN \/ Top.rhs /\ k \in RightHandStops
          \/ k \notin {"newline", "true", "false", "quote", "(", ".", "ret",
                       "import", "if", "for"} \union Names \union Numbers
                      \union Operators
    /\ NoLexer
    /\ Return(Top.cur)

-----------------------------------------------------------------------------
(* ExpressionVisitor: when the visitor it started has returned.             *)

\* A StringNode owns none of its tokens.
StringDone ==
    At("expr", "string") /\ Destroy(Top.own) /\ Goto(Got(ret, <<>>, "further"))
OpDone == At("expr", "op") /\ NoLexer /\ ReturnOwning(ret, owned)
IfDone == At("expr", "done") /\ Destroy(Top.own) /\ ReturnOwning(ret, owned)

\* a<T> goes on as an expression.
LesserDone ==
    /\ At("expr", "lesser")
    /\ NoLexer
    /\ IF IsLiteralExpr(ret)
       THEN Goto([Top EXCEPT !.cur = ret, !.own = owned, !.pc = "further"])
       ELSE ReturnOwning(ret, owned)

\* The argument list owns whatever token it ended at as its ")".
CallDone ==
    /\ At("expr", "call")
    /\ NoLexer
    /\ Goto(Got(Node("call", <<Top.cur>> \o ret.kids),
                Top.own \o owned \o <<Top.tok, Pointer(lex.currentToken)>>, "further"))

\* A TupleCreate owns no token itself.
TupleDone ==
    /\ At("expr", "tuple")
    /\ IF HasNull(ret.kids) THEN NoLexer /\ Stop("crashed")
       ELSE /\ Destroy(Top.own)
            /\ Goto(IF Len(ret.kids) = 1
                    THEN Got(Node("paren", ret.kids),
                             owned \o <<Top.tok, Pointer(lex.currentToken)>>, "take")
                    ELSE Got(Node("tuple", ret.kids), owned, "take"))

DotDone ==
    /\ At("expr", "dot")
    /\ NoLexer
    /\ IF NoExpr \in {Top.cur, ret} THEN Stop("crashed")
       ELSE Goto(Got(Node(".", <<Top.cur, ret>>), Top.own \o owned \o <<Top.tok>>, "again"))

RetDone ==
    /\ At("expr", "ret")
    /\ IF ret = NoExpr THEN NoLexer /\ Stop("crashed")
       ELSE Destroy(Top.own) /\ ReturnOwning(Node("ret", <<ret>>), owned \o <<Top.tok>>)

ImportDone ==
    /\ At("expr", "import")
    /\ \E k \in Currents :
         IF k # ";" THEN NoLexer /\ Stop("syntaxError")
         ELSE /\ Destroy(Top.own)
              /\ ReturnOwning(Node("import", <<ret>>),
                              owned \o <<Top.tok, Pointer(lex.currentToken)>>)

-----------------------------------------------------------------------------
(* OpExpressionVisitor: a binary operator and what follows it.              *)

OpStart ==
    /\ At("op", "start")
    /\ NextToken
    /\ Call(At_(Top, "right"), Visitor(lex'.currentToken, TRUE))

\* A BinExpr owns its operands and its operator.  A NotExpr drops the left one,
\* which is deleted (where another operator follows, after that one's operands
\* were parsed: none of its tokens is looked at in between).
Dropped == IF Kind(Top.tok) = "!" THEN Top.own ELSE <<>>
BinOwns == (IF Kind(Top.tok) = "!" THEN <<>> ELSE Top.own) \o owned \o <<Top.tok>>

Build(right) ==
    IF CanBuild(Top.cur, Kind(Top.tok), right)
    THEN Destroy(Dropped) /\ ReturnOwning(BinExpr(Top.cur, Kind(Top.tok), right), BinOwns)
    ELSE NoLexer /\ Stop("crashed")

FirstOf(own) == IF own = <<>> THEN <<>> ELSE <<own[1]>>

\* After the right operand, at token t.  The type variable of a<T> takes over
\* the literal of the right operand, whose whitespaces are deleted with it.
OpEnd(t) ==
    IF Kind(Top.tok) = "<" /\ Kind(t) = ">"
    THEN IF Top.cur # NoExpr /\ IsLiteralExpr(ret)
         THEN /\ Destroy(SubSeq(owned, 2, Len(owned)))
              /\ ReturnOwning(WithTypeVariable(Top.cur, ret), Top.own \o FirstOf(owned))
         ELSE NoLexer /\ Stop("crashed")
    ELSE Build(ret)

\* Another operator follows: bind the tighter one first.
OpNext(t) ==
    LET op == Kind(Top.tok)
    IN IF ~({op, Kind(t)} \subseteq DOMAIN Precedence) THEN NoLexer /\ Stop("aborted")
       ELSE IF ~HasHigherPrecedence(op, Kind(t))
            THEN NoLexer /\ Call(At_(Top, "tail"), OpVisitor(ret, owned, t))
            ELSE IF CanBuild(Top.cur, op, ret)
                 THEN Destroy(Dropped) /\ Goto(OpVisitor(BinExpr(Top.cur, op, ret), BinOwns, t))
                 ELSE NoLexer /\ Stop("crashed")

OpRight ==
    /\ At("op", "right")
    /\ \E t \in CurrentTokens :
         IF Kind(t) \in BinOps /\ ~(Kind(Top.tok) = "<" /\ Kind(t) = ">")
         THEN OpNext(t) ELSE OpEnd(t)

OpTail == At("op", "tail") /\ Build(ret)

-----------------------------------------------------------------------------
(* ArgumentsVisitor and TupleParser: expressions up to a ")".               *)

AtList(pc) == At("args", pc) \/ At("tuple", pc)

\* Mutant: the list waits for its ")" at the end of the text.
ListEndWaits == AtList("next") /\ ~HasNext /\ NoLexer /\ Goto(Top)

ListEnd == AtList("next") /\ ~HasNext /\ NoLexer /\ Return(Node("list", Top.acc))

ListNext ==
    /\ AtList("next")
    /\ HasNext
    /\ NextToken
    /\ LET t == lex'.currentToken
       IN IF Top.proc = "args" /\ Kind(t) = ")" THEN Return(Node("list", Top.acc))
          ELSE Call(At_(Top, "got"), Visitor(t, FALSE))

ListGot ==
    /\ AtList("got")
    /\ NoLexer
    /\ IF Top.proc = "args" /\ ret = NoExpr THEN Stop("crashed")
       ELSE \E k \in Currents :
              IF k = ")" THEN ReturnOwning(Node("list", Append(Top.acc, ret)),
                                           Top.own \o owned)
                         ELSE Goto(At_(Owning(Plus(Top, ret), owned), "next"))

\* StringVisitor: the tokens of the string, its spaces included.
StringNext ==
    /\ At("string", "next")
    /\ HasNext
    /\ NextTokenWithWS
    /\ LET k == Kind(lex'.currentToken)
       IN IF k = "quote" THEN Return(Node("string", Top.acc))
                         ELSE Goto(Plus(Top, Leaf(k)))

StringEnd ==
    At("string", "next") /\ ~HasNext /\ NoLexer /\ Return(Node("string", Top.acc))

-----------------------------------------------------------------------------
(* IfVisitor and ConditionBlockVisitor.  An IfExpression owns the nodes     *)
(* below it, but no token; an ElseExpression owns its three tokens.         *)

IfStart ==
    /\ At("if", "start")
    /\ NextToken
    /\ Call(At_(Top, "cond"), Visitor(lex'.currentToken, FALSE))

IfCond ==
    /\ At("if", "cond")
    /\ NoLexer
    /\ Call([Top EXCEPT !.pc = "block", !.cur = ret, !.own = owned],
            Frame("cond", "next"))

IfBlock ==
    /\ At("if", "block")
    /\ NoLexer
    /\ IF HasNull(ret.kids) THEN Stop("crashed")
       ELSE IF Kind(lex.currentToken) # "}" THEN Stop("syntaxError")
       ELSE IF Top.cur = NoExpr THEN Stop("crashed")
       ELSE Goto([Owning(Top, owned) EXCEPT !.pc = "else", !.acc = <<Top.cur, ret>>])

IfElse ==
    /\ At("if", "else")
    /\ PeekNext
    /\ IF Kind(lex'.peekedToken) = "else" THEN Goto(At_(Top, "elseKeyword"))
                                          ELSE Return(Node("if", Top.acc))

IfElseKeyword ==
    /\ At("if", "elseKeyword")
    /\ NextToken
    /\ Goto(At_(Owning(Top, <<lex'.currentToken>>), "elseCurl"))

IfElseCurl ==
    /\ At("if", "elseCurl")
    /\ NextToken
    /\ Call(At_(Owning(Top, <<lex'.currentToken>>), "elseBlock"), Frame("cond", "next"))

IfElseBlock ==
    /\ At("if", "elseBlock")
    /\ NoLexer
    /\ IF HasNull(ret.kids) THEN Stop("crashed")
       ELSE ReturnOwning(Node("if", Append(Top.acc, ret)),
                         Top.own \o owned \o <<Pointer(lex.currentToken)>>)

\* Mutant: a semicolon is deleted like a newline.
CondNextDeletes ==
    /\ At("cond", "next")
    /\ IF ~HasNext THEN NoLexer /\ Goto(At_(Top, "last"))
       ELSE /\ PeekNext
            /\ LET k == Kind(lex'.peekedToken)
               IN Goto(At_(Top, IF k \in {"newline", ";"} THEN "delete"
                                ELSE IF k \in {"}", "else"} THEN "last"
                                ELSE "take"))

CondNext ==
    /\ At("cond", "next")
    /\ IF ~HasNext THEN NoLexer /\ Goto(At_(Top, "last"))
       ELSE /\ PeekNext
            /\ LET k == Kind(lex'.peekedToken)
               IN Goto(At_(Top, IF k = "newline" THEN "delete"
                                ELSE IF k \in {"}", "else"} THEN "last"
                                ELSE "take"))

\* Mutant: the newline stays peeked after it is deleted.
CondDeleteStays ==
    At("cond", "delete") /\ Delete(lex.peekedToken) /\ Goto(At_(Top, "next"))

\* The newline is deleted while it is still the peeked token.
CondDelete == At("cond", "delete") /\ Delete(lex.peekedToken) /\ Goto(At_(Top, "skip"))
CondSkip == At("cond", "skip") /\ NextToken /\ Goto(At_(Top, "next"))

CondTake ==
    /\ At("cond", "take")
    /\ NextToken
    /\ Call(At_(Top, "got"), Visitor(lex'.currentToken, FALSE))

CondGot ==
    /\ At("cond", "got")
    /\ NoLexer
    /\ Goto(At_(Owning(Plus(Top, ret), owned), "next"))
CondLast == At("cond", "last") /\ NextToken /\ Return(Node("block", Top.acc))

-----------------------------------------------------------------------------
(* FunctionVisitor, ParameterListVisitor, TypeNodeVisitor,                  *)
(* FunctionBodyVisitor.                                                     *)

FunName ==
    /\ At("fun", "name")
    /\ NextTokenSkipNL
    /\ LET t == ReturnedSkipNL(lex)
       IN IF IsLiteralKind(Kind(t))
          THEN Goto(At_(Owning(Plus(Top, Leaf(Kind(t))), <<t>>), "lparen"))
          ELSE Stop("syntaxError")

FunLeftParenthesis ==
    /\ At("fun", "lparen")
    /\ NextTokenSkipNL
    /\ LET t == ReturnedSkipNL(lex)
       IN IF Kind(t) = "("
          THEN Call(At_(Top, "params"), Owning(Frame("params", "next"), <<t>>))
          ELSE Stop("syntaxError")

\* After the parameters: a return type or the body.  Nothing owns the "->".
FunArrow ==
    /\ At("fun", "params")
    /\ NextTokenSkipNL
    /\ LET t == ReturnedSkipNL(lex)
           k == Kind(t)
           f == Owning(Plus(Top, ret), owned)
       IN \/ k = "->" /\ Goto(At_(f, "type"))
          \/ k = "{" /\ Call(At_(Owning(Plus(f, Leaf("Unit")), <<t>>), "body"),
                             Frame("body", "next"))
          \/ k \notin {"->", "{"} /\ Stop("syntaxError")

FunType ==
    /\ At("fun", "type")
    /\ NextTokenSkipNL
    /\ Call(At_(Top, "curl"), [Frame("type", "visit") EXCEPT !.tok = ReturnedSkipNL(lex)])

\* After a return type the "{" is not checked, nor the "}" after the body.
FunCurl ==
    /\ At("fun", "curl")
    /\ NextTokenSkipNL
    /\ Call(At_(Owning(Plus(Top, ret), owned \o <<Pointer(ReturnedSkipNL(lex))>>), "body"),
            Frame("body", "next"))

FunEnd ==
    /\ At("fun", "body")
    /\ NextToken
    /\ ReturnOwning(Node("fun", Append(Top.acc, ret)),
                    Top.own \o owned \o <<lex'.currentToken>>)

TypeVisit ==
    /\ At("type", "visit")
    /\ LET k == Kind(Top.tok)
       IN \/ k \in Names /\ NoLexer /\ ReturnOwning(Leaf(k), <<Top.tok>>)
          \/ /\ k = "["
             /\ NextToken
             /\ Goto(At_(Owning(Top, <<Top.tok, lex'.currentToken>>), "bracket"))
          \/ k \in {"+", "/", "\\"} /\ NoLexer /\ Stop("syntaxError")
          \/ /\ k \notin {"[", "+", "/", "\\"} \union Names
             /\ NoLexer
             /\ Return(WildType)

TypeElement ==
    /\ At("type", "bracket")
    /\ NextToken
    /\ Call(At_(Top, "array"), [Frame("type", "visit") EXCEPT !.tok = lex'.currentToken])

TypeArray ==
    /\ At("type", "array")
    /\ NoLexer
    /\ IF ret = WildType THEN Stop("crashed")
                         ELSE ReturnOwning(Node("array", <<ret>>), Top.own \o owned)

ParamName ==
    /\ At("params", "next")
    /\ HasNext
    /\ NextTokenSkipNL
    /\ LET t == ReturnedSkipNL(lex)
           k == Kind(t)
       IN \/ k = ")" /\ Goto(At_(Owning(Top, <<t>>), "check"))
          \/ k = "," /\ Goto([Top EXCEPT !.pc = "delete", !.tok = t])
          \/ IsLiteralKind(k) /\ Goto([Top EXCEPT !.pc = "type", !.tok = t])
          \/ k \notin {")", ","} /\ ~IsLiteralKind(k) /\ Stop("syntaxError")

ParamDelete == At("params", "delete") /\ Delete(Top.tok) /\ Goto(At_(Top, "next"))

\* A name without a type is no parameter; any other token is a type.
ParamType ==
    /\ At("params", "type")
    /\ NextTokenSkipNL
    /\ LET t == ReturnedSkipNL(lex)
           k == Kind(t)
       IN \/ k = ")" /\ Goto(At_(Owning(Top, <<t>>), "check"))
          \/ k = "," /\ Goto([Top EXCEPT !.pc = "delete", !.tok = t])
          \/ /\ k \notin {")", ","}
             /\ Goto(At_(Owning(Plus(Top, Node("param", <<Leaf(Kind(Top.tok)), Leaf(k)>>)),
                                <<Top.tok, Pointer(t)>>), "next"))

ParamEnd == At("params", "next") /\ ~HasNext /\ NoLexer /\ Goto(At_(Top, "check"))

\* currentToken may be a newline or a comma that was deleted.
ParamCheck ==
    /\ At("params", "check")
    /\ NoLexer
    /\ \E k \in Currents :
         IF k = ")" THEN Return(Node("params", Top.acc)) ELSE Stop("syntaxError")

BodyNext ==
    /\ At("body", "next")
    /\ HasNext
    /\ NextToken
    /\ LET t == lex'.currentToken
       IN \/ Kind(t) = "}" /\ Return(Node("body", Top.acc))
          \/ Kind(t) = "newline" /\ Goto([Top EXCEPT !.pc = "delete", !.tok = t])
          \/ /\ Kind(t) \notin {"}", "newline"}
             /\ Call(At_(Top, "got"), Visitor(t, FALSE))

BodyDelete == At("body", "delete") /\ Delete(Top.tok) /\ Goto(At_(Top, "next"))

\* Mutant: an empty statement is kept.
BodyGotNull ==
    At("body", "got") /\ NoLexer /\ Goto(At_(Owning(Plus(Top, ret), owned), "next"))

BodyGot ==
    /\ At("body", "got")
    /\ NoLexer
    /\ Goto(At_(IF ret = NoExpr THEN Top ELSE Owning(Plus(Top, ret), owned), "next"))

BodyEnd == At("body", "next") /\ ~HasNext /\ NoLexer /\ Return(Node("body", Top.acc))

-----------------------------------------------------------------------------
(* WhileLoopVisitor and ForLoopVisitor.                                     *)

WhileStart ==
    /\ At("while", "start")
    /\ NextToken
    /\ Call(At_(Top, "cond"), Visitor(lex'.currentToken, FALSE))

WhileCond ==
    /\ At("while", "cond")
    /\ NextToken
    /\ Goto([Owning(Top, owned) EXCEPT !.pc = "loop", !.cur = ret])

\* The loop visits the current token; only a newline makes it take another.
WhileLoop ==
    /\ At("while", "loop")
    /\ HasNext /\ Kind(lex.currentToken) # "}"
    /\ IF Kind(lex.currentToken) = "newline" THEN NextToken /\ Goto(Top)
       ELSE NoLexer /\ Call(At_(Top, "got"), Visitor(lex.currentToken, FALSE))

\* A loop that spins on one token would push a node each time around; the
\* repeated node is kept once.
WhileGot ==
    /\ At("while", "got")
    /\ NoLexer
    /\ LET n == Len(Top.acc)
       IN Goto(At_(IF /\ n > 0
                      /\ Top.acc[n] = ret
                      /\ TokensOf(owned) \subseteq TokensOf(Top.own)
                   THEN Top ELSE Owning(Plus(Top, ret), owned), "loop"))

WhileEnd ==
    /\ At("while", "loop")
    /\ ~HasNext \/ Kind(lex.currentToken) = "}"
    /\ NoLexer
    /\ IF HasNull(Top.acc) \/ Top.cur = NoExpr THEN Stop("crashed")
       ELSE Return(Node("while", <<Top.cur, Node("block", Top.acc)>>))

\* The head of a for loop is parsed and dropped (and its semicolons with the
\* visitor, which never ends normally: they are left out).
ForHead ==
    /\ At("for", "head")
    /\ IF ~HasNext THEN NoLexer /\ Goto(At_(Top, "clear"))
       ELSE /\ NextToken
            /\ LET t == lex'.currentToken
               IN \/ Kind(t) = "newline" /\ Goto(Top)
                  \/ Kind(t) = "{" /\ Goto(At_(Top, "clear"))
                  \/ /\ Kind(t) \notin {"newline", "{"}
                     /\ Call(At_(Top, "part"), Visitor(t, FALSE))

ForPart ==
    /\ At("for", "part")
    /\ NoLexer
    /\ Goto(At_(Owning(Top, owned),
                IF Kind(lex.currentToken) = "{" THEN "clear" ELSE "head"))

ForClear ==
    /\ At("for", "clear")
    /\ Destroy(Top.own)
    /\ Goto([Top EXCEPT !.pc = "body", !.own = <<>>])

\* The loop has no subject: ForLoopExpression follows a null pointer (after two
\* deletes, of the last token and of the one before the body).
ForBody ==
    /\ At("for", "body")
    /\ IF ~HasNext THEN NoLexer /\ Stop("crashed")
       ELSE /\ NextToken
            /\ LET t == lex'.currentToken
               IN \/ Kind(t) = "newline" /\ Goto(Top)
                  \/ Kind(t) = "}" /\ Stop("crashed")
                  \/ /\ Kind(t) \notin {"newline", "}"}
                     /\ Call(At_(Top, "stmt"), Visitor(t, FALSE))

ForStmt ==
    /\ At("for", "stmt")
    /\ NoLexer
    /\ IF Kind(lex.currentToken) = "}" THEN Stop("crashed")
                                       ELSE Goto(At_(Owning(Top, owned), "body"))

-----------------------------------------------------------------------------
(* ModuleParser::parse and ParserVisitor.                                   *)

ModulePackage ==
    /\ At("module", "package")
    /\ PeekNext
    /\ IF Kind(lex'.peekedToken) = "package" THEN Goto(At_(Top, "keyword"))
                                             ELSE Stop("syntaxError")

ModuleKeyword ==
    /\ At("module", "keyword")
    /\ NextToken
    /\ Goto(At_(Owning(Top, <<lex'.currentToken>>), "line"))

\* The package declaration is everything up to the end of its line.
ModuleLine ==
    /\ At("module", "line")
    /\ IF ~HasNext THEN NoLexer /\ Goto(At_(Top, "top"))
       ELSE /\ NextToken
            /\ Goto(At_(Owning(Top, <<lex'.currentToken>>),
                        IF Kind(lex'.currentToken) = "newline" THEN "top" ELSE "line"))

ModuleTop ==
    /\ At("module", "top")
    /\ HasNext
    /\ NextToken
    /\ Goto([Top EXCEPT !.pc = "visit", !.tok = lex'.currentToken])

StaticStarts == {"[", "{", "quote", "true", "false", "!", "-"} \union Names \union Numbers

ModuleVisit ==
    /\ At("module", "visit")
    /\ LET k == Kind(Top.tok)
       IN \/ /\ k = "newline"
             /\ Delete(Top.tok)
             /\ Goto(At_(Top, "top"))
          \/ /\ NoLexer
             /\ \/ k \in StaticStarts /\ Call(At_(Top, "static"), Visitor(Top.tok, FALSE))
                \/ k = "if" /\ Call(At_(Top, "static"), Frame("if", "start"))
                \/ k = "while" /\ Call(At_(Top, "static"),
                                      Owning(Frame("while", "start"), <<Top.tok>>))
                \/ k = "for" /\ Call(At_(Top, "static"), Frame("for", "head"))
                \/ k = "import" /\ Call(At_(Top, "import"), Visitor(Top.tok, FALSE))
                \/ k = "fun" /\ Call(At_(Top, "fun"), Owning(Frame("fun", "name"), <<Top.tok>>))
                \/ k \in {"+", "/", "\\"} /\ Stop("syntaxError")
                \/ /\ k \notin {"newline", "if", "while", "for", "import", "fun",
                                "+", "/", "\\"} \union StaticStarts
                   /\ Goto(At_(Top, "top"))

ModuleStatic ==
    /\ At("module", "static")
    /\ NoLexer
    /\ Goto(At_(Owning(Plus(Top, ret), owned), "top"))
ModuleImport ==
    At("module", "import") /\ NoLexer /\ Goto(At_(Owning(Top, owned), "top"))

ModuleFun ==
    /\ At("module", "fun")
    /\ NoLexer
    /\ stack' = Below(At_(Owning(Top, owned), "top"))
    /\ owned' = <<>>
    /\ module' = [module EXCEPT !.functions = Append(@, ret)]
    /\ UNCHANGED <<ret, status>>

\* StaticBlock follows each of its pointers; the imports are not passed on.
ModuleEnd ==
    /\ At("module", "top")
    /\ ~HasNext
    /\ NoLexer
    /\ IF HasNull(Top.acc) THEN Stop("crashed")
       ELSE /\ status' = "parsed"
            /\ module' = [module EXCEPT !.statics = Top.acc]
            /\ UNCHANGED <<stack, ret, owned>>

\* A read of a deleted currentToken may also fault.
CurrentReaders ==
    {<<"expr", "again">>, <<"expr", "import">>, <<"op", "right">>,
     <<"args", "got">>, <<"tuple", "got">>, <<"if", "block">>,
     <<"params", "check">>, <<"while", "loop">>, <<"for", "part">>,
     <<"for", "stmt">>}
ReadsCurrent == status = "running" /\ <<Top.proc, Top.pc>> \in CurrentReaders

DeadToken ==
    /\ ReadsCurrent
    /\ lex.currentToken \in freed
    /\ NoLexer
    /\ Stop("crashed")

-----------------------------------------------------------------------------
ExprStep ==
    \/ VisitNewLine \/ GoFurther \/ TakeFurther \/ VisitLiteral \/ VisitNumber
    \/ VisitTrue \/ VisitFalse \/ VisitQuotionMark \/ VisitOperator
    \/ VisitLeftParenthesis \/ VisitDot \/ VisitRetOrImport \/ VisitIf
    \/ VisitFor \/ VisitOther
    \/ StringDone \/ OpDone \/ IfDone \/ LesserDone \/ CallDone \/ TupleDone
    \/ DotDone \/ RetDone \/ ImportDone

OpStep == OpStart \/ OpRight \/ OpTail

ListStep == ListEnd \/ ListNext \/ ListGot \/ StringNext \/ StringEnd

IfStep ==
    \/ IfStart \/ IfCond \/ IfBlock \/ IfElse \/ IfElseKeyword \/ IfElseCurl
    \/ IfElseBlock
    \/ CondNext \/ CondDelete \/ CondSkip \/ CondTake \/ CondGot \/ CondLast

FunStep ==
    \/ FunName \/ FunLeftParenthesis \/ FunArrow \/ FunType \/ FunCurl \/ FunEnd
    \/ TypeVisit \/ TypeElement \/ TypeArray
    \/ ParamName \/ ParamDelete \/ ParamType \/ ParamEnd \/ ParamCheck
    \/ BodyNext \/ BodyDelete \/ BodyGot \/ BodyEnd

LoopStep ==
    \/ WhileStart \/ WhileCond \/ WhileLoop \/ WhileGot \/ WhileEnd
    \/ ForHead \/ ForPart \/ ForClear \/ ForBody \/ ForStmt

ModuleStep ==
    \/ ModulePackage \/ ModuleKeyword \/ ModuleLine \/ ModuleTop \/ ModuleVisit
    \/ ModuleStatic \/ ModuleImport \/ ModuleFun \/ ModuleEnd

ParserNext ==
    \/ ExprStep \/ OpStep \/ ListStep \/ IfStep \/ FunStep \/ LoopStep
    \/ ModuleStep \/ DeadToken

\* The parser is a sequential program: while it can step it does.
ParserSpec == ParserInit /\ [][ParserNext]_vars /\ WF_vars(ParserNext)

-----------------------------------------------------------------------------
(* The control points of the visitors, and for a suspended visitor the      *)
(* visitors it may be waiting for.                                          *)

Runs ==
    [expr   |-> {"visit", "further", "again", "take"},
     op     |-> {"start"},
     args   |-> {"next"},
     tuple  |-> {"next"},
     string |-> {"next"},
     if     |-> {"start", "else", "elseKeyword", "elseCurl"},
     cond   |-> {"next", "delete", "skip", "take", "last"},
     fun    |-> {"name", "lparen", "type"},
     type   |-> {"visit", "bracket"},
     params |-> {"next", "delete", "type", "check"},
     body   |-> {"next", "delete"},
     while  |-> {"start", "loop"},
     for    |-> {"head", "clear", "body"},
     module |-> {"package", "keyword", "line", "top", "visit"}]

Waits ==
    [expr   |-> [string |-> "string", op |-> "op", lesser |-> "op", call |-> "args",
                 tuple |-> "tuple", dot |-> "expr", ret |-> "expr", import |-> "expr",
                 done |-> "if"],
     op     |-> [right |-> "expr", tail |-> "op"],
     args   |-> [got |-> "expr"],
     tuple  |-> [got |-> "expr"],
     string |-> <<>>,
     if     |-> [cond |-> "expr", block |-> "cond", elseBlock |-> "cond"],
     cond   |-> [got |-> "expr"],
     fun    |-> [params |-> "params", curl |-> "type", body |-> "body"],
     type   |-> [array |-> "type"],
     params |-> <<>>,
     body   |-> [got |-> "expr"],
     while  |-> [cond |-> "expr", got |-> "expr"],
     for    |-> [part |-> "expr", stmt |-> "expr"],
     module |-> [import |-> "expr", fun |-> "fun"]]

(***************************************************************************)
(* The types of the variables: each suspended visitor waits for one it     *)
(* started itself, each token is one of the source's.                      *)
(***************************************************************************)
ParserTypeOK ==
    /\ status \in Statuses
    /\ owned \in Seq(Null..SpaceT)
    /\ Len(stack) > 0
    /\ stack[1].proc = "module"
    /\ \A k \in 1..Len(stack) :
         LET f == stack[k]
         IN /\ f.proc \in DOMAIN Runs
            /\ f.tok \in Null..Eof
            /\ f.own \in Seq(Null..SpaceT)
            /\ {f.nl, f.rhs} \subseteq BOOLEAN
            /\ k < Len(stack) =>
                 LET callee == stack[k + 1].proc
                 IN IF f.proc = "module" /\ f.pc = "static"
                    THEN callee \in {"expr", "if", "while", "for"}
                    ELSE f.pc \in DOMAIN Waits[f.proc] /\ callee = Waits[f.proc][f.pc]
            /\ k = Len(stack) => f.pc \in Runs[f.proc] \union DOMAIN Waits[f.proc]
                                           \union {"static"}

\* The token the next step of the parser deletes, 0 if it deletes none.
ToDelete ==
    IF status # "running" THEN Null
    ELSE IF At("cond", "delete") THEN lex.peekedToken
    ELSE IF \/ Top.pc = "delete"
            \/ /\ Top.pc = "visit" /\ Kind(Top.tok) = "newline"
               /\ \/ Top.proc = "module"
                  \/ Top.proc = "expr" /\ Top.cur = NoExpr
         THEN Top.tok ELSE Null

(***************************************************************************)
(* A visitor deletes no token that was deleted before, by a visitor or     *)
(* with a node, nor one a node owns and will delete again, whatever the    *)
(* source: goFurther, the bodies and the parameter list each delete        *)
(* newlines and commas that other visitors have seen before (AST.cpp       *)
(* 822-829, 1091-1132, 1178-1203).  The two deletes of a for loop, just    *)
(* before its certain crash, are left out.                                 *)
(***************************************************************************)
DeletedOnce ==
    ToDelete # Null =>
        ToDelete \in (Handed \union {lex.peekedToken}) \ (freed \union Held)

\* A token of the text that some node owns is alive and has no other owner.
OneOwner(i) ==
    /\ i \notin freed
    /\ \E k \in 0..Len(stack) : \E x \in 1..Len(OwnedBy(k)) :
         \A j \in 0..Len(stack) : \A y \in 1..Len(OwnedBy(j)) :
             OwnedBy(j)[y] = i <=> <<j, y>> = <<k, x>>

(***************************************************************************)
(* No deleted token is visited, nor read through currentToken, and each    *)
(* token the nodes own will be deleted once.  It holds for well-formed     *)
(* sources; a "," or newline before the ")" of a parameter list, or an     *)
(* operator before a newline and "}", break it (AST.cpp 93-110,            *)
(* 1206-1209), and so does what OwnedOnce excepts.                         *)
(***************************************************************************)
LiveTokens ==
    /\ status = "running" /\ Top.pc = "visit" => Top.tok \notin freed
    /\ ReadsCurrent => lex.currentToken \notin freed
    /\ \A i \in Held \intersect Tokens : OneOwner(i)

HasDot == \E i \in Tokens : source[i] = "."
Several(kind) == \E i, j \in Tokens : i # j /\ source[i] = kind /\ source[j] = kind

\* Each "(" has a ")" after it of its own.
Balanced ==
    \E close \in [{i \in Tokens : source[i] = "("} -> {i \in Tokens : source[i] = ")"}] :
        \A i, j \in DOMAIN close : i < close[i] /\ (close[i] = close[j] => i = j)

(***************************************************************************)
(* Also in sources with a mistake the nodes own each token once, so that   *)
(* destroying them deletes it once, with three exceptions.  After a dotted *)
(* expression goFurther visits currentToken again: a "false" that the      *)
(* expression owns already gets a second owner, and is deleted with the    *)
(* first.  An import takes currentToken for its ";", which an import in    *)
(* its expression took before.  An argument list or parenthesis that is    *)
(* not closed owns the token it ended at as its ")" (AST.cpp 75, 781-795,  *)
(* 890-893, 988-1042, 1048-1060).                                          *)
(***************************************************************************)
OwnedOnce ==
    \A i \in Held \intersect Tokens :
        \/ OneOwner(i)
        \/ source[i] = "false" /\ HasDot
        \/ source[i] = ";" /\ Several("import")
        \/ ~Balanced

(***************************************************************************)
(* The recursion of the visitors is bounded by the tokens they have taken: *)
(* no source makes one visitor start another without consuming its token,  *)
(* except visit(ForKeyword) (AST.cpp 69-76, 880-1132).                     *)
(***************************************************************************)
DepthBound == Len(stack) <= 2 * Len(delivered) + 1

(***************************************************************************)
(* The parser uses the lexer as RocLexer lets a client use it, so what the *)
(* lexer promises holds while parsing.                                     *)
(***************************************************************************)
ClientOfLexer == [][LexNext]_lexVars

(***************************************************************************)
(* A module that parsed was parsed to its end.  What can stay behind is    *)
(* one token at the very end that was peeked, for hasNext does not count   *)
(* it: a "}", "fun" or "ret" the last expression stops before, what        *)
(* follows the "}" of an if, or what follows the token a dotted expression *)
(* ends at (Lexer.cpp 488-496, AST.cpp 52-77, 1006-1012, Parser.cpp        *)
(* 157-160).                                                               *)
(***************************************************************************)
ParsedToTheEnd ==
    status = "parsed" =>
        /\ lex.scanned = Size
        /\ lex.peeked => \/ Kind(lex.peekedToken) \in {"}", "fun", "ret", "eof"}
                         \/ Kind(lex.currentToken) = "}"
                         \/ HasDot

\* The children of a node that the later passes follow: not an import's.
Followed(n) ==
    IF n = NoExpr \/ n.op = "import" THEN {} ELSE {n.kids[k] : k \in 1..Len(n.kids)}

\* What is reached from the roots in at most h steps.
Within(roots, h) ==
    LET below[k \in 0..h] ==
          IF k = 0 THEN roots
          ELSE LET above == below[k - 1] IN above \union UNION {Followed(n) : n \in above}
    IN below[h]

Roots == {module.functions[k] : k \in 1..Len(module.functions)}
         \union {module.statics[k] : k \in 1..Len(module.statics)}
NoNullWithin(h) == status = "parsed" => NoExpr \notin Within(Roots, h)

(***************************************************************************)
(* A module that parsed has no null pointer in its tree, whatever the      *)
(* mistake: TypeResolver, ToMIRConverter and the printer follow every      *)
(* child but an import's.  The left operand that a prefix operator lacks   *)
(* is no child here: RocResolvers says what becomes of it.  No tree is     *)
(* higher than its source is long (AST.cpp 99-124, 660-672, 733-736,       *)
(* 988-1042, 1091-1132).                                                   *)
(***************************************************************************)
NoNullNode == NoNullWithin(Size)

(***************************************************************************)
(* The parse of every source without a while loop ends.                    *)
(***************************************************************************)
Termination == <>(status # "running")
=============================================================================
