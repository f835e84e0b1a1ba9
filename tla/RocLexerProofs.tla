--------------------------- MODULE RocLexerProofs ---------------------------
(***************************************************************************)
(* Proofs about RocLexer, for every set of sources: its invariants, the    *)
(* promise a peek makes, and that it implements TokenStream.               *)
(***************************************************************************)
EXTENDS RocLexer, SetInduction, SequenceTheorems

(***************************************************************************)
(* The loops of peekNext, nextToken and nextTokenSkipNL end: whatever is   *)
(* skipped, as long as eofT is not, there is a first token that is not.    *)
(* The lemma is stated for each of the two loops, the skipped kind being   *)
(* a parameter of IsFirst.                                                 *)
(***************************************************************************)
LEMMA NextSolidIsFirst ==
    ASSUME source \in Seq(STRING), NEW n \in 0..Size
    PROVE  IsFirst(NextSolid(n), n, IsWhitespace)
<1> DEFINE T == {i \in (n + 1)..Eof : ~IsWhitespace(i)}
<1>1. Size \in Nat
    BY DEF Size
<1>2. Eof \in T
    BY <1>1 DEF Eof, IsWhitespace, Tokens, Size
<1>3. T \in SUBSET Nat /\ T # {}
    BY <1>1, <1>2 DEF Eof
<1>4. PICK i \in T : \A y \in T : i <= y
    BY <1>3, LeastElement
<1>5. IsFirst(i, n, IsWhitespace)
    BY <1>1, <1>4 DEF IsFirst, Eof
<1>6. \E j \in (n + 1)..Eof : IsFirst(j, n, IsWhitespace)
    BY <1>4, <1>5
<1> QED BY <1>6 DEF NextSolid

LEMMA NextNotNLIsFirst ==
    ASSUME source \in Seq(STRING), NEW n \in 0..Size
    PROVE  IsFirst(NextNotNL(n), n, IsNewLine)
<1> DEFINE T == {i \in (n + 1)..Eof : ~IsNewLine(i)}
<1>1. Size \in Nat
    BY DEF Size
<1>2. Eof \in T
    BY <1>1 DEF Eof, IsNewLine, Tokens, Size
<1>3. T \in SUBSET Nat /\ T # {}
    BY <1>1, <1>2 DEF Eof
<1>4. PICK i \in T : \A y \in T : i <= y
    BY <1>3, LeastElement
<1>5. IsFirst(i, n, IsNewLine)
    BY <1>1, <1>4 DEF IsFirst, Eof
<1>6. \E j \in (n + 1)..Eof : IsFirst(j, n, IsNewLine)
    BY <1>4, <1>5
<1> QED BY <1>6 DEF NextNotNL

-----------------------------------------------------------------------------
(***************************************************************************)
(* The inductive invariant.  What was handed over lies behind the cursor,  *)
(* strictly behind the pending token; the end is handed over only when     *)
(* everything was scanned; what is deleted is a newline or was handed over.*)
(***************************************************************************)
BehindCursor ==
    /\ LastTaken <= lex.scanned
    /\ lex.peeked => LastTaken < lex.peekedToken
    /\ \A i \in Handed : i <= LastTaken
    /\ ended => lex.scanned = Size /\ (lex.peeked => lex.peekedToken = Eof)
    /\ \A i \in freed : IsNewLine(i) \/ i \in Handed

IInv ==
    /\ LexTypeOK
    /\ InOrder
    /\ NoTokenLost
    /\ PendingToken
    /\ CurrentToken
    /\ BehindCursor

(***************************************************************************)
(* What the three calls that take a token have in common: token t is       *)
(* handed over, the lookahead is empty, the cursor is on t, and what was   *)
(* skipped is a space or a deleted newline.                                *)
(***************************************************************************)
Take(t) ==
    /\ t \in (LastTaken + 1)..Eof
    /\ HandOver(t)
    /\ source' = source
    /\ lex' \in LexType
    /\ ~lex'.peeked
    /\ lex'.peekedToken = Null
    /\ lex.scanned <= Cursor(t)
    /\ lex'.scanned = Cursor(t)
    /\ \/ lex'.currentToken = t
       \/ IsNewLine(lex'.currentToken) /\ lex'.currentToken \in freed'
    /\ \A j \in (lex.scanned + 1)..Cursor(t) :
          j = t \/ IsWhitespace(j) \/ (IsNewLine(j) /\ j \in freed')
    /\ lex.peeked => \/ t = lex.peekedToken
                     \/ IsNewLine(lex.peekedToken) /\ lex.peekedToken \in freed'
    /\ ended => t = Eof
    /\ freed \subseteq freed'
    /\ freed' \subseteq Tokens
    /\ \A i \in freed' : IsNewLine(i) \/ i \in Handed

LEMMA SizeType == ASSUME source \in Seq(STRING) PROVE Size \in Nat
BY DEF Size

LEMMA LastTakenType ==
    ASSUME source \in Seq(STRING), delivered \in Seq(Tokens)
    PROVE  LastTaken \in 0..Size
BY SizeType DEF LastTaken, Tokens

\* The record operations keep the type of the lexer.
LEMMA CheckPeekedType ==
    ASSUME Size \in Nat, NEW l \in LexType
    PROVE  CheckPeeked(l) \in LexType
<1>1. 0 \in 0..Eof
    BY DEF Eof
<1> QED BY <1>1 DEF CheckPeeked, LexType, Null

LEMMA ScanType ==
    ASSUME Size \in Nat, NEW l \in LexType, NEW i \in 1..Eof
    PROVE  Scan(l, i) \in LexType
<1>1. Cursor(i) \in 0..Size /\ i \in 0..Eof
    BY DEF Cursor, Eof
<1> QED BY <1>1 DEF Scan, LexType

(***************************************************************************)
(* What nextToken does to the lexer, whatever the client then keeps.       *)
(***************************************************************************)
LEMMA AfterNextTokenFacts ==
    ASSUME IInv
    PROVE  LET m == AfterNextToken(lex)
               c == m.currentToken
           IN /\ c \in (LastTaken + 1)..Eof
              /\ m \in LexType
              /\ ~m.peeked
              /\ m.peekedToken = Null
              /\ lex.scanned <= Cursor(c)
              /\ m.scanned = Cursor(c)
              /\ \A j \in (lex.scanned + 1)..Cursor(c) :
                    j = c \/ IsWhitespace(j)
              /\ lex.peeked => c = lex.peekedToken
              /\ ended => c = Eof
<1> DEFINE m == AfterNextToken(lex)
           t == m.currentToken
<1>0. source \in Seq(STRING) /\ Size \in Nat /\ LastTaken \in 0..Size
    BY SourcesAssumption, SizeType, LastTakenType DEF IInv, LexTypeOK
<1>1. lex \in LexType
    BY DEF IInv, LexTypeOK
<1>2. CASE lex.peeked
  <2>1. m = CheckPeeked(lex) /\ t = lex.peekedToken
    BY <1>1, <1>2 DEF AfterNextToken, CheckPeeked, LexType
  <2>2. Cursor(t) = lex.scanned /\ LastTaken < t
    BY <1>2, <2>1 DEF IInv, PendingToken, BehindCursor
  <2>3. ~m.peeked /\ m.peekedToken = Null /\ m.scanned = lex.scanned
    BY <1>1, <2>1 DEF CheckPeeked, LexType
  <2>4. m \in LexType
    BY <1>0, <1>1, <2>1, CheckPeekedType
  <2>5. t \in (LastTaken + 1)..Eof
    BY <1>0, <1>1, <2>1, <2>2 DEF LexType, Eof
  <2>6. ended => t = Eof
    BY <1>2, <2>1 DEF IInv, BehindCursor
  <2>7. lex.scanned \in 0..Size /\ lex.scanned <= Cursor(t)
    BY <1>0, <1>1, <2>2 DEF LexType
  <2>8. (lex.scanned + 1)..Cursor(t) = {}
    BY <2>2, <2>7
  <2> QED BY <2>1, <2>2, <2>3, <2>4, <2>5, <2>6, <2>7, <2>8
<1>3. CASE ~lex.peeked
  <2> DEFINE n == lex.scanned
  <2>1. n \in 0..Size
    BY <1>1 DEF LexType
  <2>2. IsFirst(NextSolid(n), n, IsWhitespace)
    BY <1>0, <2>1, NextSolidIsFirst
  <2>3. m = Scan(lex, NextSolid(n))
    BY <1>3 DEF AfterNextToken
  <2>4. t = NextSolid(n) /\ m.scanned = Cursor(t) /\ m.peeked = lex.peeked
        /\ m.peekedToken = lex.peekedToken
    BY <1>1, <2>3 DEF Scan, LexType
  <2>5. t \in (n + 1)..Eof
        /\ \A j \in (n + 1)..(t - 1) : IsWhitespace(j)
    BY <2>2, <2>4 DEF IsFirst
  <2>6. Cursor(t) \in 0..Size /\ n <= Cursor(t) /\ Cursor(t) <= t
    BY <1>0, <2>1, <2>5 DEF Cursor, Eof
  <2>7. lex.peekedToken = Null
    BY <1>3 DEF IInv, PendingToken
  <2>8. m \in LexType
    BY <1>0, <1>1, <2>1, <2>3, <2>4, <2>5, ScanType
  <2>9. LastTaken <= n
    BY DEF IInv, BehindCursor
  <2>10. t \in (LastTaken + 1)..Eof
    BY <1>0, <2>1, <2>5, <2>9 DEF Eof
  <2>11. \A j \in (n + 1)..Cursor(t) : j = t \/ IsWhitespace(j)
    BY <1>0, <2>1, <2>5, <2>6 DEF Eof
  <2>12. ended => t = Eof
    BY <1>0, <2>5 DEF IInv, BehindCursor, Eof
  <2> QED BY <1>3, <2>4, <2>6, <2>7, <2>8, <2>10, <2>11, <2>12
<1> QED BY <1>2, <1>3

\* The three calls that take a token are Takes.
LEMMA NextTokenTakes ==
    ASSUME IInv, NextToken
    PROVE  Take(lex'.currentToken)
<1>1. lex' = AfterNextToken(lex) /\ HandOver(lex'.currentToken)
      /\ source' = source /\ freed' = freed
    BY DEF NextToken
<1>2. freed \subseteq Tokens /\ \A i \in freed : IsNewLine(i) \/ i \in Handed
    BY DEF IInv, LexTypeOK, BehindCursor
<1> QED BY <1>1, <1>2, AfterNextTokenFacts DEF Take

LEMMA NextTokenWithWSTakes ==
    ASSUME IInv, NextTokenWithWS
    PROVE  Take(lex'.currentToken)
<1> DEFINE t == lex'.currentToken
<1>0. source \in Seq(STRING) /\ Size \in Nat /\ LastTaken \in 0..Size
    BY SourcesAssumption, SizeType, LastTakenType DEF IInv, LexTypeOK
<1>1. lex \in LexType /\ delivered \in Seq(Tokens) /\ freed \subseteq Tokens
    BY DEF IInv, LexTypeOK
<1>2. CASE lex.peeked
  <2>1. NextToken
    BY <1>2 DEF NextToken, NextTokenWithWS, AfterNextToken, AfterNextTokenWithWS
  <2> QED BY <2>1, NextTokenTakes
<1>3. CASE ~lex.peeked
  <2> DEFINE n == lex.scanned
  <2>1. n \in 0..Size
    BY <1>1 DEF LexType
  <2>2. lex' = Scan(lex, Upto(n))
    BY <1>3 DEF NextTokenWithWS, AfterNextTokenWithWS
  <2>3. t = Upto(n) /\ lex'.scanned = Cursor(t) /\ lex'.peeked = lex.peeked
        /\ lex'.peekedToken = lex.peekedToken
    BY <1>1, <2>2 DEF Scan, LexType
  <2>4. t = n + 1 /\ t \in 1..Eof
    BY <1>0, <2>1, <2>3 DEF Upto, Eof
  <2>5. lex' \in LexType
    BY <1>0, <1>1, <2>2, <2>3, <2>4, ScanType
  <2>6. n <= Cursor(t) /\ \A j \in (n + 1)..Cursor(t) : j = t
    BY <1>0, <2>1, <2>4 DEF Cursor, Eof
  <2>7. lex.peekedToken = Null
    BY <1>3 DEF IInv, PendingToken
  <2>8. LastTaken <= n
    BY DEF IInv, BehindCursor
  <2>9. t \in (LastTaken + 1)..Eof
    BY <1>0, <2>1, <2>4, <2>8 DEF Eof
  <2>10. HandOver(t) /\ source' = source /\ freed' = freed
    BY DEF NextTokenWithWS
  <2>11. ended => t = Eof
    BY <1>0, <2>4 DEF IInv, BehindCursor, Eof
  <2>12. \A i \in freed' : IsNewLine(i) \/ i \in Handed
    BY <2>10 DEF IInv, BehindCursor
  <2> QED BY <1>1, <1>3, <2>3, <2>5, <2>6, <2>7, <2>9, <2>10, <2>11, <2>12
          DEF Take
<1> QED BY <1>2, <1>3

LEMMA NextTokenSkipNLTakes ==
    ASSUME IInv, NextTokenSkipNL
    PROVE  Take(ReturnedSkipNL(lex))
<1> DEFINE m == AfterNextToken(lex)
           c == m.currentToken
           t == ReturnedSkipNL(lex)
<1>0. source \in Seq(STRING) /\ Size \in Nat /\ LastTaken \in 0..Size
    BY SourcesAssumption, SizeType, LastTakenType DEF IInv, LexTypeOK
<1>1. lex \in LexType /\ delivered \in Seq(Tokens) /\ freed \subseteq Tokens
    BY DEF IInv, LexTypeOK
<1>2. /\ c \in (LastTaken + 1)..Eof /\ m \in LexType
      /\ ~m.peeked /\ m.peekedToken = Null
      /\ lex.scanned <= Cursor(c) /\ m.scanned = Cursor(c)
      /\ \A j \in (lex.scanned + 1)..Cursor(c) : j = c \/ IsWhitespace(j)
      /\ lex.peeked => c = lex.peekedToken
      /\ ended => c = Eof
    BY <1>0, <1>1, AfterNextTokenFacts
<1>3. CASE ~IsNewLine(c)
  <2>1. NextToken
    BY <1>3 DEF NextToken, NextTokenSkipNL, AfterNextTokenSkipNL,
                ReturnedSkipNL, SkippedNL
  <2>2. t = lex'.currentToken
    BY <1>3, <2>1 DEF ReturnedSkipNL, NextToken
  <2> QED BY <2>1, <2>2, NextTokenTakes
<1>4. CASE IsNewLine(c)
  <2> DEFINE n == m.scanned
  <2>1. c \in 1..Size /\ n = c
    BY <1>0, <1>2, <1>4 DEF IsNewLine, Tokens, Cursor, Eof
  <2>2. IsFirst(NextNotNL(n), n, IsNewLine)
    BY <1>0, <2>1, NextNotNLIsFirst
  <2>3. t = NextNotNL(n)
    BY <1>4 DEF ReturnedSkipNL
  <2>4. t \in (c + 1)..Eof /\ \A j \in (c + 1)..(t - 1) : IsNewLine(j)
    BY <2>1, <2>2, <2>3 DEF IsFirst
  <2>5. lex' = [m EXCEPT !.scanned = Cursor(t)]
    BY <1>4, <2>3 DEF NextTokenSkipNL, AfterNextTokenSkipNL
  <2>6. Cursor(t) \in 0..Size /\ c <= Cursor(t)
    BY <1>0, <2>1, <2>4 DEF Cursor, Eof
  <2>7. /\ lex' \in LexType
        /\ ~lex'.peeked /\ lex'.peekedToken = Null
        /\ lex'.scanned = Cursor(t) /\ lex'.currentToken = c
    BY <1>2, <2>5, <2>6 DEF LexType
  <2>8. SkippedNL(lex) = {c} \union ((c + 1)..(t - 1))
    BY <1>4, <2>1, <2>3 DEF SkippedNL
  <2>9. freed' = freed \union {c} \union ((c + 1)..(t - 1))
    BY <2>8 DEF NextTokenSkipNL
  <2>10. \A i \in freed' : IsNewLine(i) \/ i \in Handed
    BY <1>4, <2>4, <2>9 DEF IInv, BehindCursor
  <2>11. freed' \subseteq Tokens
    BY <1>1, <1>4, <2>4, <2>9 DEF IsNewLine
  <2>12. \A j \in (lex.scanned + 1)..Cursor(t) :
            j = t \/ IsWhitespace(j) \/ (IsNewLine(j) /\ j \in freed')
    <3> SUFFICES ASSUME NEW j \in (lex.scanned + 1)..Cursor(t), j # t
                 PROVE  IsWhitespace(j) \/ (IsNewLine(j) /\ j \in freed')
        OBVIOUS
    <3>1. lex.scanned \in Nat /\ j \in Nat /\ t \in Nat /\ j <= t
        BY <1>0, <1>1, <2>1, <2>4 DEF LexType, Cursor, Eof
    <3>2. CASE j <= c
        BY <1>2, <1>4, <2>1, <2>9, <3>1, <3>2
    <3>3. CASE j > c
        BY <2>1, <2>4, <2>9, <3>1, <3>3
    <3> QED BY <2>1, <3>1, <3>2, <3>3
  <2>13. HandOver(t) /\ source' = source
    BY DEF NextTokenSkipNL
  <2>14. ~ended
    BY <1>0, <1>2, <2>1 DEF Eof
  <2>15. t \in (LastTaken + 1)..Eof
    BY <1>0, <1>2, <2>1, <2>4 DEF Eof
  <2>16. lex.scanned <= Cursor(t)
    BY <1>0, <1>1, <1>2, <2>1, <2>6 DEF LexType
  <2>17. c \in freed' /\ freed \subseteq freed'
    BY <2>9
  <2> QED BY <1>2, <1>4, <2>7, <2>10, <2>11, <2>12, <2>13, <2>14, <2>15,
             <2>16, <2>17 DEF Take
<1> QED BY <1>3, <1>4

-----------------------------------------------------------------------------
\* Appending to an ordered sequence something larger than its last element.
LEMMA AppendInOrder ==
    ASSUME NEW S \in SUBSET Nat, NEW s \in Seq(S), NEW t \in S,
           \A j, k \in 1..Len(s) : j < k => s[j] < s[k],
           s # <<>> => s[Len(s)] < t
    PROVE  /\ Append(s, t) \in Seq(S)
           /\ Append(s, t) # <<>>
           /\ Append(s, t)[Len(Append(s, t))] = t
           /\ Len(Append(s, t)) = Len(s) + 1
           /\ \A k \in 1..Len(s) : Append(s, t)[k] = s[k]
           /\ \A j, k \in 1..Len(Append(s, t)) :
                 j < k => Append(s, t)[j] < Append(s, t)[k]
<1>1. Append(s, t) \in Seq(S) /\ Len(Append(s, t)) = Len(s) + 1
      /\ Append(s, t)[Len(s) + 1] = t
      /\ \A k \in 1..Len(s) : Append(s, t)[k] = s[k]
    OBVIOUS
<1>2. Len(s) \in Nat /\ Append(s, t) # <<>>
  <2>1. Len(s) \in Nat
      OBVIOUS
  <2>2. Len(<<>>) = 0
      OBVIOUS
  <2> QED BY <1>1, <2>1, <2>2
<1>3. \A k \in 1..Len(s) : s[k] < t
  <2> SUFFICES ASSUME NEW k \in 1..Len(s) PROVE s[k] < t
      OBVIOUS
  <2>0. Len(s) \in 1..Len(s) /\ Len(<<>>) = 0
      BY <1>2
  <2>1. s # <<>> /\ Len(s) \in 1..Len(s) /\ s[k] \in Nat /\ s[Len(s)] \in Nat
        /\ t \in Nat
    <3>1. s # <<>>
        BY <2>0
    <3>2. s[k] \in S /\ s[Len(s)] \in S
        BY <2>0, ElementOfSeq
    <3> QED BY <2>0, <3>1, <3>2
  <2>2. CASE k = Len(s)
      BY <2>1, <2>2
  <2>3. CASE k < Len(s)
      BY <2>1, <2>3
  <2> QED BY <1>2, <2>2, <2>3
<1>4. ASSUME NEW j \in 1..(Len(s) + 1), NEW k \in 1..(Len(s) + 1), j < k
      PROVE  Append(s, t)[j] < Append(s, t)[k]
  <2>1. j \in 1..Len(s)
      BY <1>2, <1>4
  <2>2. CASE k = Len(s) + 1
      BY <1>1, <1>3, <2>1, <2>2
  <2>3. CASE k \in 1..Len(s)
      BY <1>1, <1>4, <2>1, <2>3
  <2> QED BY <1>2, <2>2, <2>3
<1> QED BY <1>1, <1>2, <1>4

\* What handing over a token does to the history.
LEMMA HandOverFacts ==
    ASSUME source \in Seq(STRING), delivered \in Seq(Tokens), InOrder,
           ended \in BOOLEAN, NEW t \in (LastTaken + 1)..Eof, HandOver(t)
    PROVE  /\ delivered' \in Seq(Tokens)
           /\ InOrder'
           /\ t = Eof => /\ ended' /\ delivered' = delivered
                         /\ LastTaken' = LastTaken /\ Handed' = Handed
           /\ t # Eof => /\ ended' = ended /\ t \in Tokens
                         /\ delivered' = Append(delivered, t)
                         /\ LastTaken' = t /\ Handed' = Handed \union {t}
<1>1. Size \in Nat /\ LastTaken \in 0..Size /\ Tokens \in SUBSET Nat
    BY SizeType, LastTakenType DEF Tokens
<1>2. CASE t = Eof
  <2>1. delivered' = delivered /\ ended'
      BY <1>2 DEF HandOver
  <2> QED BY <1>2, <2>1 DEF InOrder, LastTaken, Handed
<1>3. CASE t # Eof
  <2>1. t \in Tokens /\ LastTaken < t
      BY <1>1, <1>3 DEF Eof, Tokens
  <2>2. delivered' = Append(delivered, t) /\ ended' = ended
      BY <1>3 DEF HandOver
  <2> DEFINE s == delivered
             u == Append(s, t)
  <2>3. /\ u \in Seq(Tokens) /\ u # <<>> /\ u[Len(u)] = t /\ Len(u) = Len(s) + 1
        /\ \A k \in 1..Len(s) : u[k] = s[k]
        /\ \A j, k \in 1..Len(u) : j < k => u[j] < u[k]
      BY <1>1, <2>1, AppendInOrder DEF InOrder, LastTaken
  <2>4. InOrder' /\ LastTaken' = t
      BY <2>2, <2>3 DEF InOrder, LastTaken
  <2>5. Handed' = Handed \union {t}
    <3>1. Len(s) \in Nat
        OBVIOUS
    <3>2. {u[k] : k \in 1..Len(u)} = {s[k] : k \in 1..Len(s)} \union {t}
        BY <2>3, <3>1
    <3> QED BY <2>2, <3>2 DEF Handed
  <2> QED BY <1>3, <2>1, <2>2, <2>3, <2>4, <2>5
<1> QED BY <1>2, <1>3

(***************************************************************************)
(* Taking a token keeps the invariant.                                     *)
(***************************************************************************)
LEMMA TakeKeepsIInv ==
    ASSUME IInv, NEW t, Take(t)
    PROVE  IInv'
<1>1. source \in Seq(STRING) /\ Size \in Nat /\ LastTaken \in 0..Size
    BY SourcesAssumption, SizeType, LastTakenType DEF IInv, LexTypeOK
<1>2. lex \in LexType /\ delivered \in Seq(Tokens) /\ freed \subseteq Tokens /\ InOrder
      /\ ended \in BOOLEAN
    BY DEF IInv, LexTypeOK
<1>3. t \in (LastTaken + 1)..Eof /\ HandOver(t) /\ source' = source
    BY DEF Take
<1>4. /\ delivered' \in Seq(Tokens)
      /\ InOrder'
      /\ t = Eof => /\ ended' /\ delivered' = delivered
                    /\ LastTaken' = LastTaken /\ Handed' = Handed
      /\ t # Eof => /\ ended' = ended /\ t \in Tokens
                    /\ delivered' = Append(delivered, t)
                    /\ LastTaken' = t /\ Handed' = Handed \union {t}
    BY <1>1, <1>2, <1>3, HandOverFacts
<1>5. Size' = Size /\ Eof' = Eof /\ Tokens' = Tokens /\ LexType' = LexType
    BY <1>3 DEF Size, Eof, Tokens, LexType
<1>6. \A i : IsNewLine(i)' <=> IsNewLine(i)
    BY <1>3, <1>5 DEF IsNewLine
<1>7. \A i : IsWhitespace(i)' <=> IsWhitespace(i)
    BY <1>3, <1>5 DEF IsWhitespace
<1>8. LexTypeOK'
  <2>1. ended' \in BOOLEAN
      BY DEF IInv, LexTypeOK, Take, HandOver
  <2>2. source' \in Sources /\ freed' \subseteq Tokens' /\ lex' \in LexType'
      BY <1>3, <1>5 DEF IInv, LexTypeOK, Take
  <2> QED BY <1>4, <1>5, <2>1, <2>2 DEF LexTypeOK
<1>9. lex.scanned \in 0..Size /\ lex.scanned <= Cursor(t) /\ lex'.scanned = Cursor(t)
      /\ Cursor(t) \in 0..Size
    BY <1>1, <1>2, <1>3 DEF LexType, Take, Cursor, Eof
<1>10. NoTokenLost'
  <2> SUFFICES ASSUME NEW i \in 1..Cursor(t)
               PROVE  IsWhitespace(i) \/ i \in Handed' \/ (IsNewLine(i) /\ i \in freed')
      BY <1>6, <1>7, <1>9 DEF NoTokenLost
  <2>1. CASE i <= lex.scanned
    <3>1. i \in 1..lex.scanned
        BY <1>9, <2>1
    <3>2. \/ IsWhitespace(i) \/ i \in Handed
          \/ lex.peeked /\ i = lex.peekedToken
          \/ IsNewLine(i) /\ i \in freed
        BY <3>1 DEF IInv, NoTokenLost
    <3>3. Handed \subseteq Handed' /\ freed \subseteq freed'
        BY <1>4 DEF Take
    <3>4. i # Eof
        BY <1>1, <1>9 DEF Eof
    <3>5. lex.peeked /\ i = lex.peekedToken => i \in Handed' \/ (IsNewLine(i) /\ i \in freed')
        BY <1>4, <3>4 DEF Take
    <3> QED BY <3>2, <3>3, <3>5
  <2>2. CASE i > lex.scanned
    <3>1. i \in (lex.scanned + 1)..Cursor(t)
        BY <1>9, <2>2
    <3>2. i = t \/ IsWhitespace(i) \/ (IsNewLine(i) /\ i \in freed')
        BY <3>1 DEF Take
    <3>3. i # Eof
        BY <1>1, <1>9 DEF Eof
    <3> QED BY <1>4, <3>2, <3>3
  <2> QED BY <1>9, <2>1, <2>2
<1>11. PendingToken'
    BY DEF Take, PendingToken, Null
<1>12. CurrentToken'
  <2>1. CASE lex'.currentToken = t
    <3>1. CASE t = Eof
        BY <1>4, <1>5, <2>1, <3>1 DEF CurrentToken
    <3>2. CASE t # Eof
      <4>1. ~ended'
          BY <1>4, <3>2 DEF Take
      <4> QED BY <1>4, <2>1, <3>2, <4>1 DEF CurrentToken
    <3> QED BY <3>1, <3>2
  <2>2. CASE IsNewLine(lex'.currentToken) /\ lex'.currentToken \in freed'
      BY <1>3, <1>5, <2>2 DEF CurrentToken, IsNewLine
  <2> QED BY <2>1, <2>2 DEF Take
<1>13. BehindCursor'
  <2>1. LastTaken' <= lex'.scanned
    <3>1. LastTaken <= lex.scanned
        BY DEF IInv, BehindCursor
    <3>2. CASE t = Eof
        BY <1>1, <1>4, <1>9, <3>1, <3>2
    <3>3. CASE t # Eof
        BY <1>1, <1>3, <1>4, <1>9, <3>3 DEF Cursor, Tokens
    <3> QED BY <3>2, <3>3
  <2>2. ~lex'.peeked
      BY DEF Take
  <2>3. \A i \in Handed' : i <= LastTaken'
    <3>0. \A k \in 1..Len(delivered) : delivered[k] \in Tokens
        BY <1>2, ElementOfSeq
    <3>1. \A i \in Handed : i <= LastTaken /\ i \in Nat
        BY <3>0 DEF IInv, BehindCursor, Handed, Tokens
    <3>2. CASE t = Eof
        BY <1>4, <3>1, <3>2
    <3>3. CASE t # Eof
      <4>1. t \in Nat /\ LastTaken < t
          BY <1>1, <1>3 DEF Eof
      <4> QED BY <1>1, <1>4, <3>1, <3>3, <4>1
    <3> QED BY <3>2, <3>3
  <2>4. ended' => lex'.scanned = Size'
    <3>1. ended' => t = Eof
        BY <1>4 DEF Take
    <3> QED BY <1>5, <1>9, <3>1 DEF Cursor
  <2>5. (\A i \in freed : IsNewLine(i) \/ i \in Handed)'
      BY <1>4, <1>6 DEF Take
  <2> QED BY <2>1, <2>2, <2>3, <2>4, <2>5 DEF BehindCursor
<1> QED BY <1>4, <1>8, <1>10, <1>11, <1>12, <1>13 DEF IInv

LEMMA UnchangedKeepsIInv ==
    ASSUME IInv, UNCHANGED lexVars
    PROVE  IInv'
<1>1. /\ source' = source /\ lex' = lex /\ delivered' = delivered
      /\ ended' = ended /\ freed' = freed
    BY DEF lexVars
<1>2. Size' = Size /\ Eof' = Eof /\ Tokens' = Tokens /\ LexType' = LexType
      /\ Handed' = Handed /\ LastTaken' = LastTaken
    BY <1>1 DEF Size, Eof, Tokens, LexType, Handed, LastTaken
<1>3. \A i : /\ IsNewLine(i)' <=> IsNewLine(i)
             /\ IsWhitespace(i)' <=> IsWhitespace(i)
    BY <1>1, <1>2 DEF IsNewLine, IsWhitespace
<1>4. (Cursor(lex.peekedToken))' = Cursor(lex.peekedToken)
    BY <1>1, <1>2 DEF Cursor
<1>5. LexTypeOK' /\ InOrder' /\ NoTokenLost'
    BY <1>1, <1>2, <1>3 DEF IInv, LexTypeOK, InOrder, NoTokenLost
<1>6. PendingToken' /\ CurrentToken' /\ BehindCursor'
    BY <1>1, <1>2, <1>3, <1>4 DEF IInv, PendingToken, CurrentToken, BehindCursor, Null
<1> QED BY <1>5, <1>6 DEF IInv

LEMMA PeekKeepsIInv ==
    ASSUME IInv, PeekNext
    PROVE  IInv'
<1>1. source \in Seq(STRING) /\ Size \in Nat /\ lex \in LexType
    BY SourcesAssumption, SizeType DEF IInv, LexTypeOK
<1>2. CASE lex.peeked
  <2>1. UNCHANGED lexVars
      BY <1>2 DEF PeekNext, AfterPeekNext, lexVars
  <2> QED BY <2>1, UnchangedKeepsIInv
<1>3. CASE ~lex.peeked
  <2> DEFINE n == lex.scanned
             t == NextSolid(n)
  <2>1. n \in 0..Size
      BY <1>1 DEF LexType
  <2>2. t \in (n + 1)..Eof /\ ~IsWhitespace(t)
        /\ \A j \in (n + 1)..(t - 1) : IsWhitespace(j)
      BY <1>1, <2>1, NextSolidIsFirst DEF IsFirst
  <2>3. lex' = [lex EXCEPT !.scanned = Cursor(t), !.peeked = TRUE, !.peekedToken = t]
      BY <1>3 DEF PeekNext, AfterPeekNext
  <2>4. Cursor(t) \in 0..Size /\ n <= Cursor(t) /\ t \in 0..Eof /\ t # Null
      BY <1>1, <2>1, <2>2 DEF Cursor, Eof, Null
  <2>5. /\ lex' \in LexType
        /\ lex'.scanned = Cursor(t) /\ lex'.peeked /\ lex'.peekedToken = t
        /\ lex'.currentToken = lex.currentToken
      BY <1>1, <2>3, <2>4 DEF LexType
  <2>6. source' = source /\ delivered' = delivered /\ ended' = ended /\ freed' = freed
      BY DEF PeekNext
  <2>7. Size' = Size /\ Eof' = Eof /\ Tokens' = Tokens /\ LexType' = LexType
        /\ Handed' = Handed /\ LastTaken' = LastTaken
      BY <2>6 DEF Size, Eof, Tokens, LexType, Handed, LastTaken
  <2>8. \A i : (IsNewLine(i)' <=> IsNewLine(i)) /\ (IsWhitespace(i)' <=> IsWhitespace(i))
      BY <2>6, <2>7 DEF IsNewLine, IsWhitespace
  <2>9. LexTypeOK' /\ InOrder'
      BY <2>5, <2>6, <2>7 DEF IInv, LexTypeOK, InOrder
  <2>10. LastTaken \in 0..Size /\ LastTaken <= n
      BY <1>1, LastTakenType DEF IInv, LexTypeOK, BehindCursor
  <2>11. \A i \in Handed : i <= LastTaken /\ i \in Nat
    <3>1. \A k \in 1..Len(delivered) : delivered[k] \in Tokens
        BY ElementOfSeq DEF IInv, LexTypeOK
    <3> QED BY <1>1, <3>1 DEF IInv, BehindCursor, Handed, Tokens
  <2>12. NoTokenLost'
    <3> SUFFICES ASSUME NEW i \in 1..Cursor(t)
                 PROVE  IsWhitespace(i) \/ i \in Handed \/ i = t
                        \/ (IsNewLine(i) /\ i \in freed)
        BY <2>5, <2>6, <2>7, <2>8 DEF NoTokenLost
    <3>1. CASE i <= n
        BY <1>3, <2>1, <2>4, <3>1 DEF IInv, NoTokenLost
    <3>2. CASE i > n
        BY <1>1, <2>1, <2>2, <2>4, <3>2 DEF Cursor, Eof
    <3> QED BY <2>1, <2>4, <3>1, <3>2
  <2>13. t > n /\ t \in Nat
      BY <1>1, <2>1, <2>2 DEF Eof
  <2>14. t \notin freed \/ IsNewLine(t)
      BY <2>1, <2>10, <2>11, <2>13 DEF IInv, BehindCursor
  <2>15. PendingToken'
    <3>1. t \notin Handed
        BY <2>1, <2>10, <2>11, <2>13
    <3>2. (Cursor(lex.peekedToken))' = lex'.scanned
        BY <2>5, <2>7 DEF Cursor
    <3> QED BY <2>2, <2>4, <2>5, <2>6, <2>7, <2>8, <2>14, <3>1, <3>2
            DEF PendingToken, Null
  <2>16. CurrentToken'
      BY <2>5, <2>6, <2>7, <2>8 DEF IInv, CurrentToken
  <2>17. BehindCursor'
    <3>1. LastTaken' <= lex'.scanned
        BY <1>1, <2>1, <2>4, <2>5, <2>7, <2>10
    <3>2. LastTaken' < lex'.peekedToken
        BY <2>1, <2>5, <2>7, <2>10, <2>13
    <3>3. ended => n = Size
        BY DEF IInv, BehindCursor
    <3>4. ended => t = Eof
        BY <1>1, <2>2, <3>3 DEF Eof
    <3>5. ended' => lex'.scanned = Size' /\ lex'.peekedToken = Eof'
        BY <2>5, <2>6, <2>7, <3>4 DEF Cursor
    <3> QED BY <2>6, <2>7, <2>8, <3>1, <3>2, <3>5 DEF IInv, BehindCursor
  <2> QED BY <2>9, <2>12, <2>15, <2>16, <2>17 DEF IInv
<1> QED BY <1>2, <1>3

\* Deleting tokens that were handed over, or a newline that was peeked.
LEMMA DeletionKeepsIInv ==
    ASSUME IInv, NEW D,
           \A i \in D : i \in Handed \/ (i = lex.peekedToken /\ IsNewLine(i)),
           freed' = freed \union D, UNCHANGED <<source, lex, delivered, ended>>
    PROVE  IInv'
<1>2. Size' = Size /\ Eof' = Eof /\ Tokens' = Tokens /\ LexType' = LexType
      /\ Handed' = Handed /\ LastTaken' = LastTaken
    BY DEF Size, Eof, Tokens, LexType, Handed, LastTaken
<1>3. \A j : (IsNewLine(j)' <=> IsNewLine(j)) /\ (IsWhitespace(j)' <=> IsWhitespace(j))
    BY <1>2 DEF IsNewLine, IsWhitespace
<1>4. D \subseteq Tokens
  <2>1. \A k \in 1..Len(delivered) : delivered[k] \in Tokens
      BY ElementOfSeq DEF IInv, LexTypeOK
  <2> QED BY <2>1 DEF IsNewLine, Handed
<1>5. LexTypeOK' /\ InOrder'
    BY <1>2, <1>4 DEF IInv, LexTypeOK, InOrder
<1>6. NoTokenLost'
    BY <1>2, <1>3 DEF IInv, NoTokenLost
<1>7. PendingToken'
  <2>1. (Cursor(lex.peekedToken))' = Cursor(lex.peekedToken)
      BY <1>2 DEF Cursor
  <2> QED BY <1>2, <1>3, <2>1 DEF IInv, PendingToken, Null
<1>8. CurrentToken' /\ BehindCursor'
    BY <1>2, <1>3 DEF IInv, CurrentToken, BehindCursor
<1> QED BY <1>5, <1>6, <1>7, <1>8 DEF IInv

LEMMA DeleteKeepsIInv ==
    ASSUME IInv, DeleteToken \/ DeleteTokens
    PROVE  IInv'
<1>1. CASE DeleteToken
  <2>1. PICK i \in Handed \union {lex.peekedToken} :
                 /\ i \in Handed \/ IsNewLine(i)
                 /\ freed' = freed \union {i}
                 /\ UNCHANGED <<source, lex, delivered, ended>>
      BY <1>1 DEF DeleteToken
  <2>2. \A j \in {i} : j \in Handed \/ (j = lex.peekedToken /\ IsNewLine(j))
      BY <2>1
  <2> QED BY <2>1, <2>2, DeletionKeepsIInv
<1>2. CASE DeleteTokens
  <2>1. PICK D \in SUBSET (Handed \ freed) :
                 /\ freed' = freed \union D
                 /\ UNCHANGED <<source, lex, delivered, ended>>
      BY <1>2 DEF DeleteTokens
  <2>2. \A j \in D : j \in Handed \/ (j = lex.peekedToken /\ IsNewLine(j))
      BY <2>1
  <2> QED BY <2>1, <2>2, DeletionKeepsIInv
<1> QED BY <1>1, <1>2

-----------------------------------------------------------------------------
LEMMA InitIInv == LexInit => IInv
<1> SUFFICES ASSUME LexInit PROVE IInv
    OBVIOUS
<1>1. source \in Seq(STRING) /\ Size \in Nat
    BY SourcesAssumption, SizeType DEF LexInit
<1>2. LastTaken = 0 /\ Handed = {}
    BY DEF LexInit, LastTaken, Handed
<1>3. LexTypeOK
  <2>1. lex \in LexType
      BY <1>1 DEF LexInit, LexType, Null, Eof
  <2>2. delivered \in Seq(Tokens)
      BY DEF LexInit
  <2> QED BY <2>1, <2>2 DEF LexInit, LexTypeOK
<1>4. InOrder /\ NoTokenLost
    BY DEF LexInit, InOrder, NoTokenLost
<1>5. PendingToken /\ CurrentToken /\ BehindCursor
    BY <1>2 DEF LexInit, PendingToken, CurrentToken, BehindCursor, Null
<1> QED BY <1>3, <1>4, <1>5 DEF IInv

LEMMA StepIInv == IInv /\ [LexNext]_lexVars => IInv'
<1> SUFFICES ASSUME IInv, [LexNext]_lexVars PROVE IInv'
    OBVIOUS
<1>1. CASE PeekNext         BY <1>1, PeekKeepsIInv
<1>2. CASE NextToken        BY <1>2, NextTokenTakes, TakeKeepsIInv
<1>3. CASE NextTokenWithWS  BY <1>3, NextTokenWithWSTakes, TakeKeepsIInv
<1>4. CASE NextTokenSkipNL  BY <1>4, NextTokenSkipNLTakes, TakeKeepsIInv
<1>5. CASE DeleteToken \/ DeleteTokens BY <1>5, DeleteKeepsIInv
<1>6. CASE UNCHANGED lexVars BY <1>6, UnchangedKeepsIInv
<1> QED BY <1>1, <1>2, <1>3, <1>4, <1>5, <1>6 DEF LexNext

(***************************************************************************)
(* The inductive invariant holds in every state of the lexer.              *)
(***************************************************************************)
THEOREM Inductive == LexSpec => []IInv
<1>1. LexInit => IInv
    BY InitIInv
<1>2. IInv /\ [LexNext]_lexVars => IInv'
    BY StepIInv
<1> QED BY <1>1, <1>2, PTL DEF LexSpec

(***************************************************************************)
(* The lexer's state keeps its type, for every set of sources.             *)
(***************************************************************************)
THEOREM TypeCorrect == LexSpec => []LexTypeOK
<1>1. IInv => LexTypeOK
    BY DEF IInv
<1> QED BY <1>1, Inductive, PTL

(***************************************************************************)
(* Whatever mix of peekNext, nextToken, nextTokenWithWS and                *)
(* nextTokenSkipNL a client uses, tokens arrive in order and at most once, *)
(* none is lost, and the pending token is the one the visitors peeked.     *)
(***************************************************************************)
THEOREM TokensSafe == LexSpec => [](InOrder /\ NoTokenLost /\ PendingToken)
<1>1. IInv => InOrder /\ NoTokenLost /\ PendingToken
    BY DEF IInv
<1> QED BY <1>1, Inductive, PTL

(***************************************************************************)
(* currentToken, which the visitors read for what they were just handed,   *)
(* is that token, or a newline nextTokenSkipNL or a visitor deleted.       *)
(***************************************************************************)
THEOREM CurrentTokenRight == LexSpec => []CurrentToken
<1>1. IInv => CurrentToken
    BY DEF IInv
<1> QED BY <1>1, Inductive, PTL

-----------------------------------------------------------------------------
\* After a peek, a take hands over the peeked token, or skips it as a newline.
LEMMA TakeKeepsPromise ==
    ASSUME IInv, lex.peeked, NEW t, Take(t)
    PROVE  \/ IF lex.peekedToken = Eof THEN ended'
              ELSE LastTaken' = lex.peekedToken
           \/ IsNewLine(lex.peekedToken) /\ lex.peekedToken \in freed'
<1>1. source \in Seq(STRING) /\ delivered \in Seq(Tokens) /\ InOrder
      /\ ended \in BOOLEAN
    BY SourcesAssumption DEF IInv, LexTypeOK
<1>2. t \in (LastTaken + 1)..Eof /\ HandOver(t)
    BY DEF Take
<1>3. (t = Eof => ended') /\ (t # Eof => LastTaken' = t)
    BY <1>1, <1>2, HandOverFacts
<1> QED BY <1>3 DEF Take

(***************************************************************************)
(* A peek is a promise, for every source: what the visitors decide on the  *)
(* peeked token is decided on the token they take next.                    *)
(***************************************************************************)
THEOREM PeekIsKept == LexSpec => PeekPromise
<1>1. IInv /\ [LexNext]_lexVars =>
        [lex.peeked /\ <<delivered, ended>>' # <<delivered, ended>>
         => \/ IF lex.peekedToken = Eof THEN ended'
               ELSE LastTaken' = lex.peekedToken
            \/ IsNewLine(lex.peekedToken) /\ lex.peekedToken \in freed']_lexVars
  <2> SUFFICES ASSUME IInv, [LexNext]_lexVars, lex.peeked,
                      <<delivered, ended>>' # <<delivered, ended>>
               PROVE  \/ IF lex.peekedToken = Eof THEN ended'
                         ELSE LastTaken' = lex.peekedToken
                      \/ IsNewLine(lex.peekedToken) /\ lex.peekedToken \in freed'
      OBVIOUS
  <2>1. CASE NextToken
      BY <2>1, NextTokenTakes, TakeKeepsPromise
  <2>2. CASE NextTokenWithWS
      BY <2>2, NextTokenWithWSTakes, TakeKeepsPromise
  <2>3. CASE NextTokenSkipNL
      BY <2>3, NextTokenSkipNLTakes, TakeKeepsPromise
  <2>4. ~PeekNext /\ ~DeleteToken /\ ~DeleteTokens /\ ~UNCHANGED lexVars
      BY DEF PeekNext, DeleteToken, DeleteTokens, lexVars
  <2> QED BY <2>1, <2>2, <2>3, <2>4 DEF LexNext
<1> QED BY <1>1, Inductive, PTL DEF LexSpec, PeekPromise

-----------------------------------------------------------------------------
\* A take is a delivery, the end, or a stutter of TokenStream.
LEMMA BlankAfterLast ==
    ASSUME IInv, NEW j \in (LastTaken + 1)..lex.scanned
    PROVE  source[j] \in Stream!Blanks \/ (lex.peeked /\ j = lex.peekedToken)
<1>1. source \in Seq(STRING) /\ lex \in LexType /\ delivered \in Seq(Tokens)
      /\ Size \in Nat
    BY SourcesAssumption, SizeType DEF IInv, LexTypeOK
<1>2. LastTaken \in 0..Size
    BY <1>1, LastTakenType
<1>3. j \notin Handed
    BY <1>1, <1>2 DEF IInv, BehindCursor, LexType
<1>4. j \in 1..lex.scanned
    BY <1>1, <1>2 DEF LexType
<1> QED BY <1>3, <1>4 DEF IInv, NoTokenLost, IsWhitespace, IsNewLine, Stream!Blanks

LEMMA TakeIsDelivery ==
    ASSUME IInv, NEW t, Take(t)
    PROVE  [Stream!Next]_(Stream!streamVars)
<1>1. source \in Seq(STRING) /\ lex \in LexType /\ delivered \in Seq(Tokens)
      /\ Size \in Nat /\ InOrder /\ ended \in BOOLEAN
    BY SourcesAssumption, SizeType DEF IInv, LexTypeOK
<1>2. LastTaken \in 0..Size
    BY <1>1, LastTakenType
<1>3. t \in (LastTaken + 1)..Eof /\ HandOver(t) /\ source' = source
    BY DEF Take
<1>4. /\ t = Eof => ended' /\ delivered' = delivered
      /\ t # Eof => /\ ended' = ended /\ t \in Tokens
                    /\ delivered' = Append(delivered, t)
    BY <1>1, <1>3, HandOverFacts
<1>5. Stream!LastOut = LastTaken
    BY DEF Stream!LastOut, LastTaken
<1>6. \A j \in (LastTaken + 1)..Cursor(t) : j = t \/ source[j] \in Stream!Blanks
  <2> SUFFICES ASSUME NEW j \in (LastTaken + 1)..Cursor(t), j # t
               PROVE  source[j] \in Stream!Blanks
      OBVIOUS
  <2>1. Cursor(t) \in 0..Size
      BY <1>1, <1>2, <1>3 DEF Cursor, Eof
  <2>2. CASE j \in (lex.scanned + 1)..Cursor(t)
      BY <2>2 DEF Take, IsWhitespace, IsNewLine, Stream!Blanks
  <2>3. CASE j \in (LastTaken + 1)..lex.scanned
    <3>1. source[j] \in Stream!Blanks \/ (lex.peeked /\ j = lex.peekedToken)
        BY <2>3, BlankAfterLast
    <3>2. lex.peeked /\ j = lex.peekedToken => IsNewLine(j)
        BY DEF Take
    <3> QED BY <3>1, <3>2 DEF IsNewLine, Stream!Blanks
  <2> QED BY <1>1, <1>2, <2>1, <2>2, <2>3 DEF LexType
<1>7. CASE t = Eof
  <2>1. Cursor(t) = Size /\ t \notin (LastTaken + 1)..Size
      BY <1>1, <1>2, <1>7 DEF Cursor, Eof
  <2>2. \A j \in (LastTaken + 1)..Size : source[j] \in Stream!Blanks
      BY <1>6, <2>1
  <2>3. CASE ended
      BY <1>3, <1>4, <1>7, <2>3, <1>1 DEF Stream!streamVars, HandOver
  <2>4. CASE ~ended
    <3>1. Stream!OnlyBlanks(Stream!LastOut + 1, Len(source))
        BY <1>5, <2>2 DEF Stream!OnlyBlanks, Size
    <3>2. ended' = TRUE
        BY <1>7 DEF HandOver, Take
    <3>3. Stream!Finish
        BY <1>3, <1>4, <1>7, <2>4, <3>1, <3>2 DEF Stream!Finish
    <3> QED BY <3>3 DEF Stream!Next
  <2> QED BY <2>3, <2>4
<1>8. CASE t # Eof
  <2>1. ~ended
      BY <1>8 DEF Take
  <2>2. Cursor(t) = t /\ t \in 1..Len(source) /\ t > LastTaken /\ t \in Nat
      BY <1>1, <1>2, <1>3, <1>4, <1>8 DEF Cursor, Tokens, Size, Eof
  <2>3. Stream!OnlyBlanks(Stream!LastOut + 1, t - 1)
    <3>1. \A j \in (LastTaken + 1)..(t - 1) :
             j \in (LastTaken + 1)..Cursor(t) /\ j # t
        BY <1>2, <2>2
    <3> QED BY <1>5, <1>6, <3>1 DEF Stream!OnlyBlanks
  <2>4. Stream!Deliver(t)
      BY <1>3, <1>4, <1>5, <1>8, <2>1, <2>2, <2>3 DEF Stream!Deliver
  <2> QED BY <2>2, <2>4 DEF Stream!Next
<1> QED BY <1>7, <1>8

(***************************************************************************)
(* The lexer implements TokenStream: a call that takes a token delivers    *)
(* it, or is the end; a peek, a deletion and a second end are stutters.    *)
(***************************************************************************)
THEOREM Refinement == LexSpec => StreamSpec
<1>1. LexInit => Stream!Init
    BY DEF LexInit, Stream!Init
<1>2. IInv /\ [LexNext]_lexVars => [Stream!Next]_(Stream!streamVars)
  <2> SUFFICES ASSUME IInv, [LexNext]_lexVars
               PROVE  [Stream!Next]_(Stream!streamVars)
      OBVIOUS
  <2>1. CASE NextToken
      BY <2>1, NextTokenTakes, TakeIsDelivery
  <2>2. CASE NextTokenWithWS
      BY <2>2, NextTokenWithWSTakes, TakeIsDelivery
  <2>3. CASE NextTokenSkipNL
      BY <2>3, NextTokenSkipNLTakes, TakeIsDelivery
  <2>4. CASE PeekNext \/ DeleteToken \/ DeleteTokens \/ UNCHANGED lexVars
      BY <2>4 DEF PeekNext, DeleteToken, DeleteTokens, lexVars, Stream!streamVars
  <2> QED BY <2>1, <2>2, <2>3, <2>4 DEF LexNext
<1> QED BY <1>1, <1>2, Inductive, PTL DEF LexSpec, StreamSpec, Stream!Spec
=============================================================================
