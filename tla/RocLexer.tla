------------------------------ MODULE RocLexer ------------------------------
(***************************************************************************)
(* The token interface of Lexer (parser/Lexer.cpp, parser/Lexer.h): one    *)
(* token of lookahead over the tokens of a source text, and the four ways  *)
(* the parser takes a token (peekNext, nextToken, nextTokenWithWS,         *)
(* nextTokenSkipNL).                                                       *)
(*                                                                         *)
(* A source is the sequence of the kinds of its tokens.  A token is its    *)
(* index in that sequence, so that "the same token" means the same C++     *)
(* object; the shared object eofT is the index Eof.  spaceT, which all     *)
(* spaces share, gets no identity of its own here.                         *)
(***************************************************************************)
EXTENDS Naturals, Sequences

CONSTANT Sources            \* the sources to read, sequences of token kinds

ASSUME SourcesAssumption == Sources \subseteq Seq(STRING)

VARIABLES
    source,                 \* Lexer::content, chosen at the start
    lex,                    \* the cursor and the lookahead of the Lexer
    delivered,              \* history: the tokens handed to the client
    ended,                  \* history: the client was handed eofT
    freed                   \* the tokens that were deleted

lexVars == <<source, lex, delivered, ended, freed>>

Null == 0                                          \* a null Token*
Size == Len(source)
Eof  == Size + 1
Tokens == 1..Size

IsWhitespace(i) == i \in Tokens /\ source[i] = "space"
IsNewLine(i)    == i \in Tokens /\ source[i] = "newline"

\* Mutant: the last token is not counted.
HasNextButOne == lex.scanned + 1 < Size

\* Lexer::current is -1 exactly when every token has been scanned.
HasNext == lex.scanned < Size

(***************************************************************************)
(* getNextToken: the token that follows the cursor n, Eof at the end.  The *)
(* loops of the callers that skip spaces or newlines stop at the first     *)
(* token that is neither.                                                  *)
(***************************************************************************)
Upto(n) == IF n < Size THEN n + 1 ELSE Eof

IsFirst(i, n, Skips(_)) ==
    /\ i \in (n + 1)..Eof
    /\ ~Skips(i)
    /\ \A j \in (n + 1)..(i - 1) : Skips(j)

NextSolid(n) == CHOOSE i \in (n + 1)..Eof : IsFirst(i, n, IsWhitespace)
NextNotNL(n) == CHOOSE i \in (n + 1)..Eof : IsFirst(i, n, IsNewLine)

\* Mutant: the end of the text is scanned as a token.
CursorPastEnd(i) == i

\* The cursor never moves past the last token.
Cursor(i) == IF i = Eof THEN Size ELSE i

-----------------------------------------------------------------------------
(* The lexer after each of the calls, and the token the call returns.      *)

\* checkPeeked: hand over the token that was peeked.
CheckPeeked(l) == [l EXCEPT !.peeked = FALSE, !.peekedToken = Null,
                            !.currentToken = l.peekedToken]

Scan(l, i) == [l EXCEPT !.scanned = Cursor(i), !.currentToken = i]

\* Mutants: a second peek scans on; a peek moves currentToken.
AfterPeekNextAgain(l) ==
    LET t == NextSolid(l.scanned)
    IN [l EXCEPT !.scanned = Cursor(t), !.peeked = TRUE, !.peekedToken = t]

AfterPeekNextMoves(l) ==
    IF l.peeked THEN l
    ELSE LET t == NextSolid(l.scanned)
         IN [l EXCEPT !.scanned = Cursor(t), !.peeked = TRUE,
                      !.peekedToken = t, !.currentToken = t]

AfterPeekNext(l) ==
    IF l.peeked THEN l
    ELSE LET t == NextSolid(l.scanned)
         IN [l EXCEPT !.scanned = Cursor(t), !.peeked = TRUE,
                      !.peekedToken = t]

\* Mutant: a take that forgets the peeked token.
AfterNextTokenUnpeeked(l) == Scan(l, NextSolid(l.scanned))

AfterNextToken(l) ==
    IF l.peeked THEN CheckPeeked(l) ELSE Scan(l, NextSolid(l.scanned))

AfterNextTokenWithWS(l) ==
    IF l.peeked THEN CheckPeeked(l) ELSE Scan(l, Upto(l.scanned))

\* nextTokenSkipNL: after a first newline the tokens come from getNextToken,
\* which skips no space and does not move currentToken.
SkippedNL(l) ==
    LET n == AfterNextToken(l)
        t == n.currentToken
    IN IF IsNewLine(t)
       THEN {t} \union ((n.scanned + 1)..(NextNotNL(n.scanned) - 1))
       ELSE {}

ReturnedSkipNL(l) ==
    LET n == AfterNextToken(l)
    IN IF IsNewLine(n.currentToken) THEN NextNotNL(n.scanned)
                                    ELSE n.currentToken

AfterNextTokenSkipNL(l) ==
    LET n == AfterNextToken(l)
    IN IF IsNewLine(n.currentToken)
       THEN [n EXCEPT !.scanned = Cursor(NextNotNL(n.scanned))]
       ELSE n

-----------------------------------------------------------------------------
LastTaken == IF delivered = <<>> THEN 0 ELSE delivered[Len(delivered)]
Handed == {delivered[k] : k \in 1..Len(delivered)}

LexInit ==
    /\ source \in Sources
    /\ lex = [scanned |-> 0, peeked |-> FALSE, peekedToken |-> Null,
              currentToken |-> Null]
    /\ delivered = <<>>
    /\ ended = FALSE
    /\ freed = {}

\* The client gets token t.
HandOver(t) ==
    /\ delivered' = IF t = Eof THEN delivered ELSE Append(delivered, t)
    /\ ended' = (ended \/ t = Eof)

PeekNext ==
    /\ lex' = AfterPeekNext(lex)
    /\ UNCHANGED <<source, delivered, ended, freed>>

\* Mutant: no eofT at the end of the text.
NextTokenNoEof ==
    /\ HasNext
    /\ lex' = AfterNextToken(lex)
    /\ HandOver(lex'.currentToken)
    /\ UNCHANGED <<source, freed>>

NextToken ==
    /\ lex' = AfterNextToken(lex)
    /\ HandOver(lex'.currentToken)
    /\ UNCHANGED <<source, freed>>

NextTokenWithWS ==
    /\ lex' = AfterNextTokenWithWS(lex)
    /\ HandOver(lex'.currentToken)
    /\ UNCHANGED <<source, freed>>

NextTokenSkipNL ==
    /\ lex' = AfterNextTokenSkipNL(lex)
    /\ HandOver(ReturnedSkipNL(lex))
    /\ freed' = freed \union SkippedNL(lex)
    /\ UNCHANGED source

\* A client owns the tokens it was handed and may delete them; it also
\* deletes a newline it only peeked (ConditionBlockVisitor).
DeleteToken ==
    \E i \in Handed \union {lex.peekedToken} :
        /\ i \in Handed \/ IsNewLine(i)
        /\ i \notin freed
        /\ freed' = freed \union {i}
        /\ UNCHANGED <<source, lex, delivered, ended>>

\* A node of the syntax tree deletes the tokens it owns.
DeleteTokens ==
    \E D \in SUBSET (Handed \ freed) :
        /\ freed' = freed \union D
        /\ UNCHANGED <<source, lex, delivered, ended>>

LexNext ==
    \/ PeekNext
    \/ NextToken
    \/ NextTokenWithWS
    \/ NextTokenSkipNL
    \/ DeleteToken
    \/ DeleteTokens

LexSpec == LexInit /\ [][LexNext]_lexVars

\* A client that never stops asking for tokens, as ModuleParser::parse does
\* until the lexer has no more.
LexFairSpec == LexSpec /\ WF_lexVars(NextToken)

-----------------------------------------------------------------------------
LexType == [scanned : 0..Size, peeked : BOOLEAN,
            peekedToken : 0..Eof, currentToken : 0..Eof]

\* The types of the variables; the source is one of the sources to read.
LexTypeOK ==
    /\ source \in Sources
    /\ lex \in LexType
    /\ delivered \in Seq(Tokens)
    /\ ended \in BOOLEAN
    /\ freed \subseteq Tokens

(***************************************************************************)
(* Tokens come in the order of the text and none comes twice, whatever mix *)
(* of peeks and takes the client uses (Lexer.cpp 138-149, 450-486).        *)
(***************************************************************************)
InOrder ==
    \A j, k \in 1..Len(delivered) : j < k => delivered[j] < delivered[k]

(***************************************************************************)
(* No token is lost: each scanned token that is not a space was handed     *)
(* over, waits as the peeked token, or is a newline nextTokenSkipNL        *)
(* deleted.  A nextTokenWithWS after a peek, or a peek after               *)
(* nextTokenSkipNL, is where a token could slip through.                   *)
(***************************************************************************)
NoTokenLost ==
    \A i \in 1..lex.scanned :
        \/ IsWhitespace(i)
        \/ i \in Handed
        \/ lex.peeked /\ i = lex.peekedToken
        \/ IsNewLine(i) /\ i \in freed

(***************************************************************************)
(* The pending token is new to the client and is the newest: peekedToken   *)
(* is set exactly while peeked, is no space, was not handed over, nothing  *)
(* after it has been scanned, and it is alive unless it is a newline (the  *)
(* one kind of token a client deletes before taking it).                   *)
(***************************************************************************)
PendingToken ==
    /\ lex.peeked <=> lex.peekedToken # Null
    /\ lex.peeked => /\ ~IsWhitespace(lex.peekedToken)
                     /\ Cursor(lex.peekedToken) = lex.scanned
                     /\ lex.peekedToken \notin Handed
                     /\ lex.peekedToken \in freed => IsNewLine(lex.peekedToken)

(***************************************************************************)
(* currentToken, which the visitors read instead of the token they got, is *)
(* the last token handed over, with one exception: after nextTokenSkipNL   *)
(* skipped a newline it is that newline, already deleted.                  *)
(***************************************************************************)
CurrentToken ==
    \/ lex.currentToken = IF ended THEN Eof ELSE LastTaken
    \/ IsNewLine(lex.currentToken) /\ lex.currentToken \in freed

(***************************************************************************)
(* A peek is a promise: the next token handed over is the peeked one,      *)
(* unless the call skips it as a newline (goFurther and IfVisitor decide   *)
(* on the peeked token and then take it).                                  *)
(***************************************************************************)
PeekPromise ==
    [][lex.peeked /\ <<delivered, ended>>' # <<delivered, ended>>
       => \/ IF lex.peekedToken = Eof THEN ended' ELSE LastTaken' = lex.peekedToken
          \/ IsNewLine(lex.peekedToken) /\ lex.peekedToken \in freed']_lexVars

\* A client that keeps asking reaches the end of every source.
ReachesEnd == <>ended

(***************************************************************************)
(* What the lexer promises, without lookahead and cursor.                  *)
(***************************************************************************)
Stream == INSTANCE TokenStream WITH out <- delivered
StreamSpec == Stream!Spec
=============================================================================
