-------------------------- MODULE RocParserProofs --------------------------
(***************************************************************************)
(* Theorems about RocParser, for every set of sources and every choice of  *)
(* names and numbers: the parser is one of the clients RocLexerProofs is   *)
(* about, and deletes no token twice; its visitors call each other as they *)
(* should and no deeper than the tokens taken; and what parsed was parsed  *)
(* to its end, and has no null node.                                       *)
(***************************************************************************)
EXTENDS RocParser, RocLexerProofs

-----------------------------------------------------------------------------
(* The stack of visitors.                                                   *)

IsFrame(f) == DOMAIN f = {"proc", "pc", "cur", "acc", "tok", "nl", "rhs", "own"}

\* A visitor that waits for another is at none of these places.
Busy == {"visit", "again", "delete", "skip"}

StackOK ==
    /\ \E S : stack \in Seq(S)
    /\ stack # <<>>
    /\ stack[1].proc = "module"
    /\ \A k \in 1..Len(stack) : IsFrame(stack[k])
    /\ \A k \in 1..(Len(stack) - 1) : stack[k].pc \notin Busy

Frames == {stack[k] : k \in 1..Len(stack)}

LEMMA NotLast ==
    ASSUME NEW n \in Nat, NEW k \in 1..n
    PROVE  k = n \/ k \in 1..(n - 1)
  OBVIOUS

LEMMA BeforeLast ==
    ASSUME NEW n \in Nat, NEW k \in 1..(n - 1)
    PROVE  k \in 1..n /\ k # n
  OBVIOUS

LEMMA MoreThanOne ==
    ASSUME NEW n \in Nat, n # 0, n # 1
    PROVE  n - 1 \in Nat /\ n - 1 # 0 /\ 1 \in 1..(n - 1)
  OBVIOUS

LEMMA TopFrame ==
    ASSUME StackOK
    PROVE  /\ Len(stack) \in Nat \ {0} /\ DOMAIN stack = 1..Len(stack)
           /\ IsFrame(Top) /\ Top \in Frames
<1>1. PICK S : stack \in Seq(S)
  BY DEF StackOK
<1>2. Len(stack) \in Nat \ {0} /\ DOMAIN stack = 1..Len(stack)
  BY <1>1 DEF StackOK
<1> QED
  BY <1>2 DEF StackOK, Top, Frames

LEMMA BelowSeq ==
    ASSUME StackOK, NEW f
    PROVE  /\ \E S : Below(f) \in Seq(S)
           /\ Len(Below(f)) = Len(stack)
           /\ Below(f)[Len(stack)] = f
           /\ \A k \in 1..(Len(stack) - 1) : Below(f)[k] = stack[k]
<1>1. PICK S : stack \in Seq(S)
  BY DEF StackOK
<1>2. stack \in Seq(S \union {f}) /\ f \in S \union {f}
  BY <1>1
<1>3. Len(stack) \in Nat \ {0} /\ DOMAIN stack = 1..Len(stack)
  BY TopFrame
<1>4. Below(f) \in Seq(S \union {f})
  BY <1>2, <1>3 DEF Below
<1>5. Len(Below(f)) = Len(stack)
  BY <1>2, <1>3 DEF Below
<1>6. Below(f)[Len(stack)] = f
  BY <1>3 DEF Below
<1>7. ASSUME NEW k \in 1..(Len(stack) - 1) PROVE Below(f)[k] = stack[k]
  <2>1. k \in 1..Len(stack) /\ k # Len(stack)
    BY <1>3, BeforeLast
  <2> QED BY <1>3, <2>1 DEF Below
<1> QED
  BY <1>4, <1>5, <1>6, <1>7

LEMMA GotoStack ==
    ASSUME StackOK, NEW f, IsFrame(f), f.proc = Top.proc, stack' = Below(f)
    PROVE  StackOK' /\ Top' = f /\ Frames' \subseteq Frames \union {f}
<1>1. /\ \E S : stack' \in Seq(S)
      /\ Len(stack') = Len(stack) /\ stack'[Len(stack)] = f
      /\ \A k \in 1..(Len(stack) - 1) : stack'[k] = stack[k]
  BY BelowSeq
<1>2. Len(stack) \in Nat \ {0}
  BY TopFrame
<1>3. stack' # <<>>
  BY <1>1, <1>2
<1>4. stack'[1].proc = "module"
  <2>1. CASE Len(stack) = 1
    BY <1>1, <2>1 DEF StackOK, Top
  <2>2. CASE Len(stack) # 1
    BY <1>1, <1>2, <2>2 DEF StackOK
  <2> QED BY <2>1, <2>2
<1>5. \A k \in 1..Len(stack') : IsFrame(stack'[k])
  <2> SUFFICES ASSUME NEW k \in 1..Len(stack) PROVE IsFrame(stack'[k])
    BY <1>1
  <2>1. CASE k = Len(stack)
    BY <1>1, <2>1
  <2>2. CASE k # Len(stack)
    BY <1>1, <1>2, <2>2 DEF StackOK
  <2> QED BY <2>1, <2>2
<1>6. \A k \in 1..(Len(stack') - 1) : stack'[k].pc \notin Busy
  BY <1>1 DEF StackOK
<1>7. Frames' \subseteq Frames \union {f}
  <2> SUFFICES ASSUME NEW k \in 1..Len(stack)
               PROVE  stack'[k] = f \/ stack'[k] \in Frames
    BY <1>1 DEF Frames
  <2> QED BY <1>1, <1>2, NotLast DEF Frames
<1> QED
  BY <1>1, <1>3, <1>4, <1>5, <1>6, <1>7 DEF StackOK, Top, IsFrame, Busy

LEMMA CallStack ==
    ASSUME StackOK, NEW f, NEW g, IsFrame(f), IsFrame(g), f.proc = Top.proc, f.pc \notin Busy,
           stack' = Append(Below(f), g)
    PROVE  StackOK' /\ Top' = g /\ Frames' \subseteq Frames \union {f, g}
<1> DEFINE b == Below(f)
<1>1. PICK S : b \in Seq(S)
  BY BelowSeq
<1>2. /\ Len(b) = Len(stack) /\ b[Len(stack)] = f
      /\ \A k \in 1..(Len(stack) - 1) : b[k] = stack[k]
  BY BelowSeq
<1>3. Len(stack) \in Nat \ {0}
  BY TopFrame
<1> HIDE DEF b
<1>4. b \in Seq(S \union {g}) /\ g \in S \union {g}
  BY <1>1
<1>5. stack' \in Seq(S \union {g})
  BY <1>4 DEF b
<1>6. /\ Len(stack') = Len(stack) + 1 /\ stack'[Len(stack) + 1] = g
      /\ \A k \in 1..Len(stack) : stack'[k] = b[k]
  BY <1>2, <1>3, <1>4 DEF b
<1>7. stack' # <<>>
  BY <1>3, <1>6
<1>8. \A k \in 1..Len(stack) : stack'[k] = IF k = Len(stack) THEN f ELSE stack[k]
  BY <1>2, <1>3, <1>6
<1>a. stack[1].proc = "module" /\ Top = stack[Len(stack)]
  BY DEF StackOK, Top
<1>9. stack'[1].proc = "module"
  <2>1. CASE Len(stack) = 1
    BY <1>8, <1>a, <2>1
  <2>2. CASE Len(stack) # 1
    <3>1. 1 \in 1..Len(stack)
      BY <1>3
    <3>2. stack'[1] = stack[1]
      BY <1>8, <2>2, <3>1
    <3> QED BY <1>a, <3>2
  <2> QED BY <2>1, <2>2
<1>10. \A k \in 1..Len(stack') : IsFrame(stack'[k])
  <2> SUFFICES ASSUME NEW k \in 1..(Len(stack) + 1) PROVE IsFrame(stack'[k])
    BY <1>6
  <2>1. CASE k = Len(stack) + 1
    BY <1>6, <2>1
  <2>2. CASE k \in 1..Len(stack)
    <3>1. stack'[k] = f \/ stack'[k] = stack[k]
      BY <1>8, <2>2
    <3>2. IsFrame(stack[k])
      BY <2>2 DEF StackOK
    <3> QED BY <3>1, <3>2
  <2>3. k = Len(stack) + 1 \/ k \in 1..Len(stack)
    BY <1>3
  <2> QED BY <2>1, <2>2, <2>3
<1>11. \A k \in 1..(Len(stack') - 1) : stack'[k].pc \notin Busy
  <2> SUFFICES ASSUME NEW k \in 1..Len(stack) PROVE stack'[k].pc \notin Busy
    BY <1>3, <1>6
  <2>1. CASE k = Len(stack)
    BY <1>8, <2>1
  <2>2. CASE k # Len(stack)
    <3>1. stack'[k] = stack[k]
      BY <1>8, <2>2
    <3>2. k \in 1..(Len(stack) - 1)
      BY <1>3, <2>2, NotLast
    <3> QED BY <3>1, <3>2 DEF StackOK
  <2> QED BY <2>1, <2>2
<1>12. Top' = g
  BY <1>6 DEF Top
<1>13. Frames' \subseteq Frames \union {f, g}
  <2> SUFFICES ASSUME NEW k \in 1..(Len(stack) + 1)
               PROVE  stack'[k] \in Frames \union {f, g}
    BY <1>6 DEF Frames
  <2>1. k = Len(stack) + 1 \/ k \in 1..Len(stack)
    BY <1>3
  <2> QED BY <1>6, <1>8, <2>1 DEF Frames
<1> QED
  BY <1>5, <1>7, <1>9, <1>10, <1>11, <1>12, <1>13 DEF StackOK, IsFrame, Busy

\* Only ModuleParser::parse is at the bottom, and it does not return.
LEMMA ReturnStack ==
    ASSUME StackOK, Top.proc # "module", stack' = SubSeq(stack, 1, Len(stack) - 1)
    PROVE  StackOK' /\ Top'.pc \notin Busy /\ Frames' \subseteq Frames
<1>1. PICK S : stack \in Seq(S)
  BY DEF StackOK
<1>2. Len(stack) \in Nat /\ Len(stack) # 0 /\ Len(stack) # 1
  BY TopFrame DEF StackOK, Top
<1> DEFINE n == Len(stack) - 1
<1>3. n \in Nat /\ n # 0 /\ 1 \in 1..n
  BY <1>2, MoreThanOne
<1>4. \A k \in 1..n : k \in 1..Len(stack)
  BY <1>2, BeforeLast
<1>5. stack' = SubSeq(stack, 1, n)
  OBVIOUS
<1> HIDE DEF n
<1>6. /\ stack' \in Seq(S) /\ Len(stack') = n
      /\ \A k \in 1..n : stack'[k] = stack[k]
  BY <1>1, <1>3, <1>4, <1>5
<1>7. \A k \in 1..n : IsFrame(stack'[k]) /\ stack'[k].pc \notin Busy
  BY <1>4, <1>6 DEF StackOK, n
<1>8. stack' # <<>> /\ n \in 1..n
  BY <1>3, <1>6
<1>9. \A k \in 1..(Len(stack') - 1) : stack'[k].pc \notin Busy
  BY <1>3, <1>6, <1>7, BeforeLast
<1>10. stack'[1].proc = "module"
  BY <1>3, <1>6 DEF StackOK
<1>11. Frames' \subseteq Frames
  BY <1>4, <1>6 DEF Frames
<1> QED
  BY <1>6, <1>7, <1>8, <1>9, <1>10, <1>11 DEF StackOK, Top, IsFrame, Busy

-----------------------------------------------------------------------------
(* The lexer as the parser uses it.                                         *)

NewLines == {i \in Tokens : source[i] = "newline"}

\* The tokens that were handed over and that nothing deleted or will delete.
Spare == Handed \ (freed \union Held)

\* What a token of a frame may be, and what a step makes of that.
Known == Handed \union freed \union {Null, Eof, SpaceT}
Seen == Known \union Known'

\* The tokens a step hands over.
Fresh == Handed' \ (freed' \union Known)

\* Deleted tokens lie behind the cursor.
FreedBehind == \A i \in freed : i \in Nat /\ i <= lex.scanned

\* The peeked token is alive.
Quiet == lex.peekedToken \notin freed

LEMMA KindOfNewLine ==
    ASSUME NEW i
    PROVE  /\ Kind(i) = "newline" <=> i \in NewLines
           /\ IsNewLine(i) <=> i \in NewLines
           /\ Kind(i) # "eof" => i \in Tokens
  BY DEF Kind, NewLines, IsNewLine

\* The lexer's integers.
LEMMA LexNumbers ==
    ASSUME IInv
    PROVE  /\ source \in Seq(STRING) /\ Size \in Nat /\ Eof = Size + 1
           /\ lex.scanned \in 0..Size /\ lex.peekedToken \in 0..Eof
           /\ LastTaken \in 0..Size /\ LastTaken <= lex.scanned
           /\ \A i \in Handed : i \in 1..LastTaken
           /\ \A i \in Tokens : i \in Nat /\ i # 0
<1>1. source \in Seq(STRING) /\ Size \in Nat /\ LastTaken \in 0..Size
  BY SourcesAssumption, SizeType, LastTakenType DEF IInv, LexTypeOK
<1>2. lex.scanned \in 0..Size /\ lex.peekedToken \in 0..Eof
  BY DEF IInv, LexTypeOK, LexType
<1>3. \A k \in 1..Len(delivered) : delivered[k] \in Tokens
  BY ElementOfSeq DEF IInv, LexTypeOK
<1>4. \A i \in Handed : i \in Tokens /\ i <= LastTaken
  BY <1>3 DEF Handed, IInv, BehindCursor
<1> QED
  BY <1>1, <1>2, <1>4 DEF Tokens, Eof, IInv, BehindCursor

\* A peek finds a token no one deleted.
LEMMA PeekStep ==
    ASSUME IInv, FreedBehind, Quiet, PeekNext
    PROVE  FreedBehind' /\ Quiet'
<1>1. CASE lex.peeked
  <2>1. lex' = lex /\ freed' = freed
    BY <1>1 DEF PeekNext, AfterPeekNext
  <2> QED BY <2>1 DEF FreedBehind, Quiet
<1>2. CASE ~lex.peeked
  <2> DEFINE n == lex.scanned
             t == NextSolid(n)
  <2>1. t \in (n + 1)..Eof
    BY LexNumbers, NextSolidIsFirst DEF IsFirst
  <2>2. lex' = [lex EXCEPT !.scanned = Cursor(t), !.peeked = TRUE, !.peekedToken = t]
    BY <1>2 DEF PeekNext, AfterPeekNext
  <2>3. lex'.scanned = Cursor(t) /\ lex'.peekedToken = t /\ freed' = freed
    BY <2>2 DEF IInv, LexTypeOK, LexType, PeekNext
  <2>4. n <= Cursor(t)
    BY <2>1, LexNumbers DEF Cursor
  <2> HIDE DEF t
  <2>5. t \notin freed
    BY <2>1, LexNumbers DEF FreedBehind
  <2>6. Cursor(t) \in Nat
    BY <2>1, LexNumbers DEF Cursor
  <2>7. FreedBehind'
    BY <2>3, <2>4, <2>6, LexNumbers DEF FreedBehind
  <2> QED BY <2>3, <2>5, <2>7 DEF Quiet
<1> QED BY <1>1, <1>2

\* A token that was just taken: new, unless it is eofT.
Given(t) ==
    /\ t \in Seen /\ Pointer(t) \in Seen
    /\ t \in NewLines => t \in Fresh
    /\ Kind(t) # "eof" => t \in Fresh

\* What taking a token that was not deleted leaves.
LEMMA TakeStep ==
    ASSUME IInv, NEW t, Take(t), t \notin freed', freed \subseteq freed',
           \A i \in freed' : i \in Nat /\ i <= lex'.scanned
    PROVE  FreedBehind' /\ Quiet' /\ Given(t)
<1>1. source' = source /\ lex'.peekedToken = Null /\ t \in (LastTaken + 1)..Eof
      /\ HandOver(t) /\ freed' \subseteq Tokens
  BY DEF Take
<1>2. Size' = Size /\ Tokens' = Tokens
  BY <1>1 DEF Size, Tokens
<1>3. Null \notin freed'
  BY <1>1, LexNumbers DEF Null
<1>4. t \in Tokens => t # Eof /\ t \in Handed'
  <2>1. t \in Tokens => t # Eof
    BY LexNumbers DEF Tokens
  <2>2. /\ source \in Seq(STRING) /\ delivered \in Seq(Tokens) /\ InOrder
        /\ ended \in BOOLEAN
    BY LexNumbers DEF IInv, LexTypeOK
  <2> QED BY <1>1, <2>1, <2>2, HandOverFacts
<1>5. FreedBehind' /\ Quiet'
  BY <1>1, <1>3 DEF FreedBehind, Quiet
<1>6. t \in NewLines => t \in Tokens
  BY <1>1, <1>2 DEF NewLines
<1>7. Kind(t) # "eof" => t \in Tokens
  BY <1>1, <1>2 DEF Kind
<1>8. t \in Tokens => t \in Fresh
  <2>1. t \notin Handed /\ t \notin freed
    BY <1>1, LexNumbers
  <2>2. t \in Tokens => t # Null /\ t # Eof /\ t # SpaceT
    BY LexNumbers DEF Tokens, Null, SpaceT
  <2> QED BY <1>4, <2>1, <2>2 DEF Fresh, Known
<1>9. t \in Seen /\ Pointer(t) \in Seen
  <2>1. t \in Tokens \/ t = Eof
    BY <1>1, LexNumbers DEF Tokens
  <2>2. t \in Seen
    BY <1>4, <2>1 DEF Seen, Known
  <2> QED BY <2>2 DEF Pointer, Seen, Known
<1> QED BY <1>5, <1>6, <1>7, <1>8, <1>9 DEF Given

\* nextToken, where what is peeked is alive.
LEMMA NextTokenFresh ==
    ASSUME IInv, FreedBehind, Quiet
    PROVE  LET m == AfterNextToken(lex)
               t == m.currentToken
           IN /\ t \notin freed /\ t \in Nat /\ t \in (LastTaken + 1)..Eof
              /\ m.scanned = Cursor(t) /\ lex.scanned <= m.scanned
              /\ m.scanned \in 0..Size
<1> DEFINE m == AfterNextToken(lex)
           t == m.currentToken
<1>1. t \in (LastTaken + 1)..Eof /\ m.scanned = Cursor(t) /\ lex.scanned <= Cursor(t)
  BY AfterNextTokenFacts
<1>2. t \notin freed
  <2>1. CASE lex.peeked
    <3>1. t = lex.peekedToken
      BY <2>1 DEF AfterNextToken, CheckPeeked, IInv, LexTypeOK, LexType
    <3> QED BY <3>1 DEF Quiet
  <2>2. CASE ~lex.peeked
    <3>1. t = NextSolid(lex.scanned)
      BY <2>2 DEF AfterNextToken, Scan, IInv, LexTypeOK, LexType
    <3>2. t \in (lex.scanned + 1)..Eof
      BY <3>1, LexNumbers, NextSolidIsFirst DEF IsFirst
    <3> QED BY <3>2, LexNumbers DEF FreedBehind
  <2> QED BY <2>1, <2>2
<1>3. t \in Nat /\ Cursor(t) \in 0..Size
  BY <1>1, LexNumbers DEF Cursor
<1> QED BY <1>1, <1>2, <1>3

LEMMA NextTokenStep ==
    ASSUME IInv, FreedBehind, Quiet, NextToken
    PROVE  LET t == lex'.currentToken
           IN FreedBehind' /\ Quiet' /\ Given(t)
<1> DEFINE t == lex'.currentToken
<1>1. Take(t)
  BY NextTokenTakes
<1>2. lex' = AfterNextToken(lex) /\ freed' = freed
  BY DEF NextToken
<1>3. t \notin freed' /\ lex.scanned <= lex'.scanned /\ lex'.scanned \in Nat
  BY <1>2, NextTokenFresh, LexNumbers
<1>4. \A i \in freed' : i \in Nat /\ i <= lex'.scanned
  BY <1>2, <1>3, LexNumbers DEF FreedBehind
<1> HIDE DEF t
<1>5. FreedBehind' /\ Quiet' /\ Given(t)
  BY <1>1, <1>2, <1>3, <1>4, TakeStep
<1> QED BY <1>5 DEF t

LEMMA NextTokenWithWSStep ==
    ASSUME IInv, FreedBehind, Quiet, NextTokenWithWS
    PROVE  FreedBehind' /\ Quiet' /\ Given(lex'.currentToken)
<1> DEFINE t == lex'.currentToken
<1>1. CASE lex.peeked
  <2>1. NextToken
    BY <1>1 DEF NextToken, NextTokenWithWS, AfterNextToken, AfterNextTokenWithWS
  <2> QED BY <2>1, NextTokenStep
<1>2. CASE ~lex.peeked
  <2>1. Take(t) /\ freed' = freed
    BY NextTokenWithWSTakes DEF NextTokenWithWS
  <2>2. t = Upto(lex.scanned) /\ lex'.scanned = Cursor(t)
    BY <1>2 DEF NextTokenWithWS, AfterNextTokenWithWS, Scan, IInv, LexTypeOK, LexType
  <2>3. t = lex.scanned + 1
    BY <2>2, LexNumbers DEF Upto
  <2>4. t \notin freed' /\ lex.scanned <= Cursor(t) /\ Cursor(t) \in Nat
    BY <2>1, <2>3, LexNumbers DEF FreedBehind, Cursor
  <2>5. \A i \in freed' : i \in Nat /\ i <= lex'.scanned
    BY <2>1, <2>2, <2>4, LexNumbers DEF FreedBehind
  <2> QED BY <2>1, <2>4, <2>5, TakeStep
<1> QED BY <1>1, <1>2

\* What is returned behind the newlines is none of the deleted ones.
LEMMA NextTokenSkipNLStep ==
    ASSUME IInv, FreedBehind, Quiet, NextTokenSkipNL
    PROVE  LET t == ReturnedSkipNL(lex)
           IN FreedBehind' /\ Quiet' /\ Given(t)
<1> DEFINE t == ReturnedSkipNL(lex)
           m == AfterNextToken(lex)
           c == m.currentToken
<1>1. Take(t)
  BY NextTokenSkipNLTakes
<1>2. lex' = AfterNextTokenSkipNL(lex) /\ freed' = freed \union SkippedNL(lex)
  BY DEF NextTokenSkipNL
<1>3. /\ c \notin freed /\ c \in Nat /\ m.scanned = Cursor(c) /\ lex.scanned <= m.scanned
      /\ m.scanned \in 0..Size /\ m \in LexType
  BY NextTokenFresh, AfterNextTokenFacts
<1>4. t \notin freed' /\ \A i \in freed' : i \in Nat /\ i <= lex'.scanned
  <2>1. CASE ~IsNewLine(c)
    <3>1. t = c /\ lex' = m /\ freed' = freed
      BY <1>2, <2>1 DEF ReturnedSkipNL, AfterNextTokenSkipNL, SkippedNL
    <3> QED BY <1>3, <3>1, LexNumbers DEF FreedBehind
  <2>2. CASE IsNewLine(c)
    <3> DEFINE n == m.scanned
               u == NextNotNL(n)
    <3>1. /\ t = u /\ lex' = [m EXCEPT !.scanned = Cursor(u)]
          /\ freed' = freed \union {c} \union ((n + 1)..(u - 1))
      BY <1>2, <2>2 DEF ReturnedSkipNL, AfterNextTokenSkipNL, SkippedNL
    <3>2. u \in (n + 1)..Eof
      BY <1>3, LexNumbers, NextNotNLIsFirst DEF IsFirst
    <3>3. lex'.scanned = Cursor(u)
      BY <1>3, <3>1 DEF LexType
    <3>4. c = n
      BY <1>3, <2>2, LexNumbers DEF IsNewLine, Tokens, Cursor
    <3> HIDE DEF n, u, c, m, t
    <3>5. n \in 0..Size /\ lex.scanned <= n
      BY <1>3 DEF n
    <3>6. n <= Cursor(u) /\ u - 1 <= Cursor(u) /\ Cursor(u) \in Nat /\ u \in Nat
      BY <3>2, <3>5, LexNumbers DEF Cursor
    <3>7. \A i \in freed : i \in Nat /\ i <= n
      BY <3>5, LexNumbers DEF FreedBehind
    <3>8. u \notin freed'
      BY <3>1, <3>2, <3>4, <3>5, <3>7, LexNumbers
    <3>9. \A i \in freed' : i \in Nat /\ i <= Cursor(u)
      BY <3>1, <3>2, <3>4, <3>5, <3>6, <3>7, LexNumbers
    <3> QED BY <3>1, <3>3, <3>8, <3>9
  <2> QED BY <2>1, <2>2
<1> HIDE DEF t
<1>5. FreedBehind' /\ Quiet' /\ Given(t)
  BY <1>1, <1>2, <1>4, TakeStep
<1> QED BY <1>5 DEF t

\* Deleting a token that was handed over, or the peeked newline.
LEMMA DeleteStep ==
    ASSUME IInv, FreedBehind, NEW i,
           i \in Handed \ freed \/ (IsNewLine(i) /\ i = lex.peekedToken /\ Quiet),
           Delete(i)
    PROVE  /\ DeleteToken /\ FreedBehind'
           /\ i \in Handed /\ Quiet => Quiet'
<1>1. freed' = freed \union {i} /\ lex' = lex
  BY DEF Delete
<1>2. DeleteToken
  BY DEF Delete, DeleteToken, Quiet
<1>3. i \in Nat /\ i <= lex.scanned
  <2>1. CASE i \in Handed
    BY <2>1, LexNumbers
  <2>2. CASE IsNewLine(i) /\ i = lex.peekedToken
    <3>1. i \in Tokens /\ Cursor(i) = lex.scanned
      BY <2>2, LexNumbers DEF IsNewLine, IInv, PendingToken, Null
    <3> QED BY <3>1, LexNumbers DEF Tokens, Cursor
  <2> QED BY <2>1, <2>2
<1>4. i \in Handed /\ Quiet => lex.peekedToken # i
  BY LexNumbers DEF IInv, PendingToken, Null
<1> QED BY <1>1, <1>2, <1>3, <1>4 DEF FreedBehind, Quiet

LEMMA TokensOfSeq ==
    ASSUME NEW S, NEW own \in Seq(S)
    PROVE  TokensOf(own) \subseteq S
  BY DEF TokensOf

\* Destroying nodes, which own tokens that were handed over.
LEMMA DestroyStep ==
    ASSUME IInv, FreedBehind, Quiet, NEW own \in Seq(Known), Destroy(own)
    PROVE  [LexNext]_lexVars /\ FreedBehind' /\ Quiet'
<1> DEFINE D == (TokensOf(own) \intersect Tokens) \ freed
<1>1. freed' = freed \union D /\ UNCHANGED <<source, lex, delivered, ended>>
  BY DEF Destroy
<1>2. D \subseteq Handed \ freed
  <2>1. TokensOf(own) \subseteq Known
    BY TokensOfSeq
  <2>2. Null \notin Tokens /\ Eof \notin Tokens /\ SpaceT \notin Tokens
    BY LexNumbers DEF Tokens, Null, SpaceT
  <2> QED BY <2>1, <2>2 DEF Known
<1> HIDE DEF D
<1>3. DeleteTokens
  BY <1>1, <1>2 DEF DeleteTokens
<1>4. FreedBehind'
  BY <1>1, <1>2, LexNumbers DEF FreedBehind
<1>5. lex.peekedToken \notin Handed
  BY LexNumbers DEF IInv, PendingToken, Null
<1>6. Quiet'
  BY <1>1, <1>2, <1>5 DEF Quiet
<1> QED BY <1>3, <1>4, <1>6 DEF LexNext

-----------------------------------------------------------------------------
(* The inductive invariant.                                                 *)

(***************************************************************************)
(* What the visitor at work may rely on: the token it is about to delete   *)
(* was handed to it, is alive and is owned by no node, or is the peeked    *)
(* newline.                                                                *)
(***************************************************************************)
OkFrame(f, spare, newLines, peeked) ==
    /\ f.pc = "delete" => IF f.proc = "cond" THEN peeked \in newLines ELSE f.tok \in spare
    /\ f.pc = "visit" /\ f.tok \in newLines
          /\ (f.proc = "module" \/ (f.proc = "expr" /\ f.cur = NoExpr)) => f.tok \in spare
    /\ f.pc = "again" => f.cur # NoExpr

\* Only between the deletion of a peeked newline and the take that skips it
\* is a deleted token peeked.
WorkOK ==
    /\ OkFrame(Top, Spare, NewLines, lex.peekedToken)
    /\ Quiet \/ Top.pc = "skip"

\* The visitors hold and own tokens that were handed over; so a token that is
\* handed over now is owned by none of them.
HeldKnown ==
    /\ owned \in Seq(Known)
    /\ \A f \in Frames : f.tok \in Known /\ f.own \in Seq(Known)

ParserInv ==
    IInv /\ FreedBehind /\ StackOK /\ HeldKnown /\ (status = "running" => WorkOK)

\* The uses of the lexer, but for the two steps of the one exception.
Serves ==
    \/ NoLexer \/ PeekNext \/ NextToken \/ NextTokenWithWS \/ NextTokenSkipNL
    \/ \E i \in Spare : Delete(i)
    \/ \E own \in Seq(Known) : Destroy(own)

\* What was known stays known.
LEMMA KnownGrows ==
    ASSUME IInv, [LexNext]_lexVars
    PROVE  Known \subseteq Known' /\ Seen = Known' /\ NewLines' = NewLines
<1>1. source' = source /\ freed \subseteq freed' /\ Handed \subseteq Handed'
  <2>1. CASE UNCHANGED lexVars
    BY <2>1 DEF lexVars, Handed
  <2>2. CASE DeleteToken \/ DeleteTokens \/ PeekNext
    BY <2>2 DEF DeleteToken, DeleteTokens, PeekNext, Handed
  <2>3. ASSUME NEW t, HandOver(t) PROVE Handed \subseteq Handed'
    <3>1. delivered \in Seq(Tokens)
      BY DEF IInv, LexTypeOK
    <3>2. CASE delivered' = delivered
      BY <3>2 DEF Handed
    <3>3. CASE delivered' = Append(delivered, t)
      <4>1. delivered \in Seq(Tokens \union {t}) /\ t \in Tokens \union {t}
        BY <3>1
      <4>2. /\ Len(delivered') = Len(delivered) + 1 /\ Len(delivered) \in Nat
            /\ \A k \in 1..Len(delivered) : delivered'[k] = delivered[k]
        BY <3>3, <4>1
      <4> QED BY <4>2 DEF Handed
    <3> QED BY <2>3, <3>2, <3>3 DEF HandOver
  <2>4. CASE NextToken \/ NextTokenWithWS \/ NextTokenSkipNL
    BY <2>3, <2>4 DEF NextToken, NextTokenWithWS, NextTokenSkipNL
  <2> QED BY <2>1, <2>2, <2>4 DEF LexNext
<1>2. Tokens' = Tokens /\ Eof' = Eof /\ SpaceT' = SpaceT
  BY <1>1 DEF Tokens, Size, Eof, SpaceT
<1>3. Known \subseteq Known'
  BY <1>1, <1>2 DEF Known
<1> QED BY <1>1, <1>2, <1>3 DEF Seen, NewLines

LEMMA ServeStep ==
    ASSUME IInv, FreedBehind, Quiet, Serves
    PROVE  /\ [LexNext]_lexVars /\ IInv' /\ FreedBehind' /\ Quiet'
           /\ NewLines' = NewLines /\ Known \subseteq Known' /\ Seen = Known'
<1>1. [LexNext]_lexVars /\ FreedBehind' /\ Quiet'
  <2>1. CASE NoLexer
    BY <2>1 DEF NoLexer, lexVars, FreedBehind, Quiet
  <2>2. CASE PeekNext
    BY <2>2, PeekStep DEF LexNext
  <2>3. CASE NextToken
    BY <2>3, NextTokenStep DEF LexNext
  <2>4. CASE NextTokenWithWS
    BY <2>4, NextTokenWithWSStep DEF LexNext
  <2>5. CASE NextTokenSkipNL
    BY <2>5, NextTokenSkipNLStep DEF LexNext
  <2>6. CASE \E i \in Spare : Delete(i)
    BY <2>6, DeleteStep DEF LexNext, Spare
  <2>7. CASE \E own \in Seq(Known) : Destroy(own)
    BY <2>7, DestroyStep
  <2> QED BY <2>1, <2>2, <2>3, <2>4, <2>5, <2>6, <2>7 DEF Serves
<1> QED BY <1>1, KnownGrows, StepIInv

\* A frame that a step leaves: its tokens are known, and where it is about to
\* look at a token it took, it owns none of the new ones.
Keeps(f) ==
    /\ f.tok \in Seen /\ f.own \in Seq(Seen)
    /\ f.pc \in {"visit", "delete"} => f.own \in Seq(Known)

\* A token that was just taken belongs to no frame that stays.
LEMMA SpareFrame ==
    ASSUME StackOK', HeldKnown, Known \subseteq Known', Seen = Known',
           NEW g, Keeps(g), OkFrame(g, Fresh, NewLines, lex'.peekedToken),
           NewLines' = NewLines, owned' = <<>>,
           NEW F, Frames' \subseteq Frames \union F, g \in F,
           \A f \in F : Keeps(f) /\ (g.pc \in {"visit", "delete"} => f.own \in Seq(Known))
    PROVE  HeldKnown' /\ OkFrame(g, Spare', NewLines', lex'.peekedToken)
<1>0. owned' \in Seq(Known) /\ owned' \in Seq(Known')
  OBVIOUS
<1>1. \A f \in Frames' : f.tok \in Known' /\ f.own \in Seq(Known')
  <2> SUFFICES ASSUME NEW f \in Frames' PROVE f.tok \in Known' /\ f.own \in Seq(Known')
    OBVIOUS
  <2>1. CASE f \in F
    BY <2>1 DEF Keeps
  <2>2. CASE f \in Frames
    <3>1. f.tok \in Known /\ f.own \in Seq(Known)
      BY <2>2 DEF HeldKnown
    <3> QED BY <3>1
  <2> QED BY <2>1, <2>2
<1>2. ASSUME g.pc \notin {"visit", "delete"}
      PROVE  OkFrame(g, Spare', NewLines', lex'.peekedToken)
  BY <1>2 DEF OkFrame
<1>3. ASSUME g.pc \in {"visit", "delete"}
      PROVE  OkFrame(g, Spare', NewLines', lex'.peekedToken)
  <2>1. \A f \in Frames' : f.own \in Seq(Known)
    BY <1>3 DEF HeldKnown
  <2>2. Len(stack') \in Nat
    BY DEF StackOK
  <2>3. ASSUME NEW k \in 0..Len(stack') PROVE TokensOf(OwnedBy(k)') \subseteq Known
    <3>1. CASE k = 0
      BY <1>0, <3>1, TokensOfSeq DEF OwnedBy
    <3>2. CASE k # 0
      <4>1. stack'[k] \in Frames'
        BY <2>2, <3>2 DEF Frames
      <4> QED BY <2>1, <3>2, <4>1, TokensOfSeq DEF OwnedBy
    <3> QED BY <3>1, <3>2
  <2>4. Fresh \subseteq Spare'
    BY <2>3 DEF Fresh, Spare, Held
  <2> QED BY <2>4 DEF OkFrame
<1> QED BY <1>0, <1>1, <1>2, <1>3 DEF HeldKnown

\* The four ways a step leaves the stack.
LEMMA GotoStep ==
    ASSUME ParserInv, Quiet, Serves, NEW f, Goto(f), IsFrame(f), f.proc = Top.proc,
           Keeps(f), OkFrame(f, Fresh, NewLines, lex'.peekedToken)
    PROVE  [LexNext]_lexVars /\ ParserInv'
<1>1. /\ [LexNext]_lexVars /\ IInv' /\ FreedBehind' /\ Quiet'
      /\ NewLines' = NewLines /\ Known \subseteq Known' /\ Seen = Known'
  BY ServeStep DEF ParserInv
<1>2. StackOK' /\ Top' = f /\ Frames' \subseteq Frames \union {f} /\ owned' = <<>>
  BY GotoStack DEF ParserInv, Goto
<1>3. HeldKnown' /\ OkFrame(f, Spare', NewLines', lex'.peekedToken)
  <2> DEFINE F == {f}
  <2>1. f \in F /\ \A h \in F : Keeps(h) /\ (f.pc \in {"visit", "delete"} => h.own \in Seq(Known))
    BY DEF Keeps
  <2>2. Frames' \subseteq Frames \union F
    BY <1>2
  <2> HIDE DEF F
  <2> QED BY <1>1, <1>2, <2>1, <2>2, SpareFrame DEF ParserInv
<1>4. WorkOK'
  BY <1>1, <1>2, <1>3 DEF WorkOK
<1> QED BY <1>1, <1>2, <1>3, <1>4 DEF ParserInv

LEMMA CallStep ==
    ASSUME ParserInv, Quiet, Serves, NEW f, NEW g, Call(f, g), IsFrame(f), IsFrame(g),
           f.proc = Top.proc, f.pc \notin Busy, Keeps(f), Keeps(g),
           g.pc = "visit" => f.own \in Seq(Known), g.pc # "delete",
           OkFrame(g, Fresh, NewLines, lex'.peekedToken)
    PROVE  [LexNext]_lexVars /\ ParserInv'
<1>1. /\ [LexNext]_lexVars /\ IInv' /\ FreedBehind' /\ Quiet'
      /\ NewLines' = NewLines /\ Known \subseteq Known' /\ Seen = Known'
  BY ServeStep DEF ParserInv
<1>2. StackOK' /\ Top' = g /\ Frames' \subseteq Frames \union {f, g} /\ owned' = <<>>
  BY CallStack DEF ParserInv, Call
<1>3. HeldKnown' /\ OkFrame(g, Spare', NewLines', lex'.peekedToken)
  <2> DEFINE F == {f, g}
  <2>1. g \in F /\ \A h \in F : Keeps(h) /\ (g.pc \in {"visit", "delete"} => h.own \in Seq(Known))
    BY DEF Keeps
  <2>2. Frames' \subseteq Frames \union F
    BY <1>2
  <2> HIDE DEF F
  <2> QED BY <1>1, <1>2, <2>1, <2>2, SpareFrame DEF ParserInv
<1>4. WorkOK'
  BY <1>1, <1>2, <1>3 DEF WorkOK
<1> QED BY <1>1, <1>2, <1>3, <1>4 DEF ParserInv

LEMMA ReturnStep ==
    ASSUME ParserInv, Quiet, Serves, NEW n, NEW own \in Seq(Seen), ReturnOwning(n, own),
           Top.proc # "module"
    PROVE  [LexNext]_lexVars /\ ParserInv'
<1>1. /\ [LexNext]_lexVars /\ IInv' /\ FreedBehind' /\ Quiet'
      /\ NewLines' = NewLines /\ Known \subseteq Known' /\ Seen = Known'
  BY ServeStep DEF ParserInv
<1>2. StackOK' /\ Top'.pc \notin Busy /\ Frames' \subseteq Frames /\ owned' = own
  BY ReturnStack DEF ParserInv, ReturnOwning
<1>3. HeldKnown'
  <2> SUFFICES ASSUME NEW f \in Frames' PROVE f.tok \in Known' /\ f.own \in Seq(Known')
    BY <1>1, <1>2 DEF HeldKnown
  <2>1. f.tok \in Known /\ f.own \in Seq(Known)
    BY <1>2 DEF ParserInv, HeldKnown
  <2> QED BY <1>1, <2>1
<1>4. WorkOK'
  BY <1>1, <1>2 DEF WorkOK, OkFrame, Busy
<1> QED BY <1>1, <1>2, <1>3, <1>4 DEF ParserInv

LEMMA HeldStays ==
    ASSUME HeldKnown, Known \subseteq Known', UNCHANGED <<stack, owned>>
    PROVE  HeldKnown'
<1>1. Frames' = Frames
  BY DEF Frames
<1>2. owned' \in Seq(Known')
  BY DEF HeldKnown
<1>3. ASSUME NEW f \in Frames PROVE f.tok \in Known' /\ f.own \in Seq(Known')
  <2>1. f.tok \in Known /\ f.own \in Seq(Known)
    BY <1>3 DEF HeldKnown
  <2> QED BY <2>1
<1> QED BY <1>1, <1>2, <1>3 DEF HeldKnown

LEMMA StopStep ==
    ASSUME ParserInv, Quiet, Serves, NEW s, Stop(s), s # "running"
    PROVE  [LexNext]_lexVars /\ ParserInv'
<1>1. /\ [LexNext]_lexVars /\ IInv' /\ FreedBehind' /\ Quiet'
      /\ NewLines' = NewLines /\ Known \subseteq Known'
  BY ServeStep DEF ParserInv
<1>2. StackOK' /\ HeldKnown'
  BY <1>1, HeldStays DEF ParserInv, Stop, StackOK, IsFrame, Busy
<1>3. status' # "running"
  BY DEF Stop
<1> QED BY <1>1, <1>2, <1>3 DEF ParserInv

-----------------------------------------------------------------------------
(* The steps of the visitors.                                               *)

\* The current token is one that was handed over, or a newline that was deleted.
LEMMA CurrentKnown ==
    ASSUME IInv
    PROVE  lex.currentToken \in Known /\ Pointer(lex.currentToken) \in Known
<1>1. LastTaken \in Known
  <2>1. delivered \in Seq(Tokens)
    BY DEF IInv, LexTypeOK
  <2>2. CASE delivered = <<>>
    BY <2>2 DEF LastTaken, Known, Null
  <2>3. CASE delivered # <<>>
    <3>1. Len(delivered) \in 1..Len(delivered)
      BY <2>1, <2>3
    <3> QED BY <2>3, <3>1 DEF LastTaken, Known, Handed
  <2> QED BY <2>2, <2>3
<1>2. lex.currentToken \in Known
  BY <1>1 DEF IInv, CurrentToken, Known
<1> QED BY <1>2 DEF Pointer, Known

\* A visitor at work that skips nothing has its tokens alive.
LEMMA Working ==
    ASSUME ParserInv, status = "running", Top.pc # "skip"
    PROVE  /\ Quiet /\ OkFrame(Top, Spare, NewLines, lex.peekedToken)
           /\ IsFrame(Top)
  BY TopFrame DEF ParserInv, WorkOK

\* What a visitor may take over.
LEMMA Holding ==
    ASSUME ParserInv
    PROVE  /\ Top.own \in Seq(Known) /\ owned \in Seq(Known) /\ Top.tok \in Known
           /\ Top.own \in Seq(Seen) /\ owned \in Seq(Seen) /\ Top.tok \in Seen
           /\ lex.currentToken \in Seen /\ Pointer(lex.currentToken) \in Seen
           /\ <<>> \in Seq(Seen) /\ <<>> \in Seq(Known) /\ Null \in Seen
<1>1. Top.own \in Seq(Known) /\ owned \in Seq(Known) /\ Top.tok \in Known
  BY TopFrame DEF ParserInv, HeldKnown
<1>2. Known \subseteq Seen
  BY DEF Seen
<1>3. lex.currentToken \in Known /\ Pointer(lex.currentToken) \in Known
  BY CurrentKnown DEF ParserInv
<1>4. Null \in Known
  BY DEF Known
<1> QED BY <1>1, <1>2, <1>3, <1>4

LEMMA SeqsOver ==
    ASSUME NEW S
    PROVE  /\ <<>> \in Seq(S)
           /\ \A a \in S : <<a>> \in Seq(S)
           /\ \A a, b \in S : <<a, b>> \in Seq(S)
           /\ \A s, t \in Seq(S) : s \o t \in Seq(S)
  OBVIOUS

\* A visitor may rely on a token it was just given.
LEMMA TakenFrame ==
    ASSUME ParserInv, Quiet, NextToken
    PROVE  Given(lex'.currentToken)
  BY NextTokenStep DEF ParserInv

\* The frames of the visitors that are started.
LEMMA NewFrames ==
    /\ \A proc, pc : /\ IsFrame(Frame(proc, pc)) /\ Frame(proc, pc).pc = pc
                     /\ Frame(proc, pc).proc = proc /\ Frame(proc, pc).own = <<>>
                     /\ Frame(proc, pc).tok = Null
    /\ \A t : /\ IsFrame(Visitor(t, TRUE)) /\ Visitor(t, TRUE).pc = "visit"
              /\ Visitor(t, TRUE).tok = t /\ Visitor(t, TRUE).own = <<>>
              /\ IsFrame(Visitor(t, FALSE)) /\ Visitor(t, FALSE).pc = "visit"
              /\ Visitor(t, FALSE).tok = t /\ Visitor(t, FALSE).own = <<>>
    /\ \A n, o, t : /\ IsFrame(OpVisitor(n, o, t)) /\ OpVisitor(n, o, t).pc = "start"
                    /\ OpVisitor(n, o, t).proc = "op" /\ OpVisitor(n, o, t).own = o
                    /\ OpVisitor(n, o, t).tok = t
    /\ \A proc, pc, o : /\ IsFrame(Owning(Frame(proc, pc), o))
                        /\ Owning(Frame(proc, pc), o).pc = pc
                        /\ Owning(Frame(proc, pc), o).proc = proc
                        /\ Owning(Frame(proc, pc), o).own = <<>> \o o
                        /\ Owning(Frame(proc, pc), o).tok = Null
  BY DEF IsFrame, Frame, Visitor, OpVisitor, Owning

\* Starting a visitor that looks at no token yet.
LEMMA StartVisitor ==
    ASSUME ParserInv, Quiet, Serves, NEW f, NEW g, Call(f, g), IsFrame(f), IsFrame(g),
           f.proc = Top.proc, f.pc \notin Busy, g.pc \notin Busy,
           f.tok \in Seen, f.own \in Seq(Seen), g.tok \in Seen, g.own \in Seq(Seen)
    PROVE  [LexNext]_lexVars /\ ParserInv'
<1>1. Keeps(f) /\ Keeps(g) /\ g.pc # "delete" /\ g.pc # "visit"
  BY DEF Keeps, Busy
<1>2. OkFrame(g, Fresh, NewLines, lex'.peekedToken)
  BY DEF OkFrame, Busy
<1> QED BY <1>1, <1>2, CallStep

LEMMA StartFrame ==
    ASSUME ParserInv, Quiet, Serves, IsFrame(Top), NEW pc, pc \notin Busy,
           NEW proc, NEW at, at \notin Busy, Call(At_(Top, pc), Frame(proc, at))
    PROVE  [LexNext]_lexVars /\ ParserInv'
<1> DEFINE f == At_(Top, pc)
           g == Frame(proc, at)
<1>1. IsFrame(f) /\ f.proc = Top.proc /\ f.pc = pc /\ f.tok = Top.tok /\ f.own = Top.own
  BY DEF At_, IsFrame
<1>2. IsFrame(g) /\ g.pc = at /\ g.tok = Null /\ g.own = <<>>
  BY NewFrames
<1>3. Call(f, g)
  OBVIOUS
<1> HIDE DEF f, g
<1> QED BY <1>1, <1>2, <1>3, Holding, StartVisitor

\* Going on without a token to look at.
LEMMA GoOn ==
    ASSUME ParserInv, Quiet, Serves, NEW f, Goto(f), IsFrame(f), f.proc = Top.proc,
           f.pc \notin Busy, f.tok \in Seen, f.own \in Seq(Seen)
    PROVE  [LexNext]_lexVars /\ ParserInv'
<1>1. Keeps(f) /\ OkFrame(f, Fresh, NewLines, lex'.peekedToken)
  BY DEF Keeps, OkFrame, Busy
<1> QED BY <1>1, GotoStep

\* An expression visitor is started on the token that was just taken.
LEMMA VisitTaken ==
    ASSUME ParserInv, Quiet, NextToken, NEW pc, pc \notin Busy, IsFrame(Top),
           NEW g, g \in {Visitor(lex'.currentToken, TRUE), Visitor(lex'.currentToken, FALSE)},
           Call(At_(Top, pc), g)
    PROVE  [LexNext]_lexVars /\ ParserInv'
<1> DEFINE t == lex'.currentToken
           f == At_(Top, pc)
<1>5. IsFrame(f) /\ f.proc = Top.proc /\ f.pc = pc /\ f.tok = Top.tok /\ f.own = Top.own
  BY DEF At_, IsFrame
<1>1. Given(t)
  BY TakenFrame
<1> HIDE DEF t, f
<1>2. IsFrame(g) /\ g.pc = "visit" /\ g.tok = t /\ g.own = <<>>
  <2>1. CASE g = Visitor(t, TRUE)
    BY <2>1, NewFrames
  <2>2. CASE g = Visitor(t, FALSE)
    BY <2>2, NewFrames
  <2> QED BY <2>1, <2>2 DEF t
<1>4. OkFrame(g, Fresh, NewLines, lex'.peekedToken)
  BY <1>1, <1>2 DEF OkFrame, Given
<1>3. Serves
  BY DEF Serves
<1>6. Call(f, g)
  BY DEF f
<1>7. Keeps(f) /\ Keeps(g) /\ f.own \in Seq(Known)
  BY <1>1, <1>2, <1>5, Holding DEF Keeps, Given, Busy
<1> QED BY <1>2, <1>3, <1>4, <1>5, <1>6, <1>7, CallStep

LEMMA ExprSteps ==
    ASSUME ParserInv, ExprStep
    PROVE  [LexNext]_lexVars /\ ParserInv'
<1>1. CASE VisitNewLine
  <2>1. CASE Top.cur = NoExpr
    BY <1>1, <2>1, Working, Holding, GoOn, KindOfNewLine
       DEF VisitNewLine, At, Visits, At_, Serves, IsFrame, Busy, OkFrame
  <2>2. CASE Top.cur # NoExpr
    <3>1. Append(Top.own, Top.tok) \in Seq(Seen)
      BY Holding
    <3> QED BY <1>1, <2>2, <3>1, Working, Holding, GoOn
            DEF VisitNewLine, At, Visits, Serves, IsFrame, Busy
  <2> QED BY <2>1, <2>2
<1>2. CASE GoFurther
  BY <1>2, Working, Holding, SeqsOver, GoOn, GotoStep, ReturnStep, StopStep
     DEF GoFurther, At, At_, Return, Serves, IsFrame, Busy, Keeps, OkFrame
<1>3. CASE TakeFurther
  BY <1>3, Working, Holding, SeqsOver, GotoStep, TakenFrame
     DEF TakeFurther, At, At_, Serves, IsFrame, Keeps, OkFrame, Given
<1>4. CASE VisitLiteral
  BY <1>4, Working, Holding, SeqsOver, GoOn
     DEF VisitLiteral, At, Visits, Got, Serves, IsFrame, Busy
<1>5. CASE VisitNumber
  BY <1>5, Working, Holding, SeqsOver, GoOn
     DEF VisitNumber, At, Visits, Got, Serves, IsFrame, Busy
<1>6. CASE VisitTrue
  BY <1>6, Working, Holding, SeqsOver, ReturnStep, StopStep
     DEF VisitTrue, At, Visits, Return, Serves
<1>7. CASE VisitFalse
  BY <1>7, Working, Holding, SeqsOver, ReturnStep
     DEF VisitFalse, At, Visits, Return, Serves
<1>8. CASE VisitQuotionMark
  BY <1>8, Working, StartFrame DEF VisitQuotionMark, At, Visits, Serves, Busy
<1>9. CASE VisitOperator
  <2> DEFINE f == [Top EXCEPT !.pc = IF Kind(Top.tok) = "<" THEN "lesser" ELSE "op",
                              !.own = <<>>]
             g == OpVisitor(Top.cur, Top.own, Top.tok)
  <2>1. Serves /\ Quiet /\ IsFrame(Top) /\ Call(f, g)
    BY <1>9, Working DEF VisitOperator, At, Visits, Serves
  <2>2. IsFrame(f) /\ f.proc = Top.proc /\ f.pc \notin Busy /\ f.tok = Top.tok /\ f.own = <<>>
    BY <2>1 DEF IsFrame, Busy
  <2>3. IsFrame(g) /\ g.pc \notin Busy /\ g.tok = Top.tok /\ g.own = Top.own
    BY NewFrames DEF Busy
  <2> HIDE DEF f, g
  <2> QED BY <2>1, <2>2, <2>3, Holding, StartVisitor
<1>10. CASE VisitLeftParenthesis
  BY <1>10, Working, StartFrame, StopStep
     DEF VisitLeftParenthesis, At, Visits, Serves, Busy
<1>11. CASE VisitDot
  BY <1>11, Working, VisitTaken
     DEF VisitDot, At, Visits, Busy
<1>12. CASE VisitRetOrImport
  BY <1>12, Working, VisitTaken
     DEF VisitRetOrImport, At, Visits, Busy
<1>13. CASE VisitIf
  BY <1>13, Working, StartFrame DEF VisitIf, At, Visits, Serves, Busy
<1>14. CASE VisitFor
  BY <1>14, Working, StopStep
     DEF VisitFor, At, Visits, Serves
<1>15. CASE VisitOther
  BY <1>15, Working, Holding, SeqsOver, ReturnStep
     DEF VisitOther, At, Return, Serves
<1>16. CASE StringDone
  BY <1>16, Working, Holding, SeqsOver, GoOn
     DEF StringDone, At, Got, Serves, IsFrame, Busy
<1>17. CASE OpDone
  BY <1>17, Working, Holding, SeqsOver, ReturnStep
     DEF OpDone, At, Return, Serves
<1>18. CASE IfDone
  BY <1>18, Working, Holding, SeqsOver, ReturnStep
     DEF IfDone, At, Return, Serves
<1>19. CASE LesserDone
  BY <1>19, Working, Holding, SeqsOver, GoOn, ReturnStep
     DEF LesserDone, At, Return, Serves, IsFrame, Busy
<1>20. CASE CallDone
  BY <1>20, Working, Holding, SeqsOver, GoOn
     DEF CallDone, At, Got, Serves, IsFrame, Busy
<1>21. CASE TupleDone
  BY <1>21, Working, Holding, SeqsOver, GoOn, StopStep
     DEF TupleDone, At, Got, Serves, IsFrame, Busy
<1>22. CASE DotDone
  BY <1>22, Working, Holding, SeqsOver, GotoStep, StopStep
     DEF DotDone, At, Got, Node, NoExpr, Leaf, Serves, IsFrame, Keeps, OkFrame
<1>23. CASE RetDone
  BY <1>23, Working, Holding, SeqsOver, ReturnStep, StopStep
     DEF RetDone, At, Return, Serves
<1>24. CASE ImportDone
  BY <1>24, Working, Holding, SeqsOver, ReturnStep, StopStep
     DEF ImportDone, At, Return, Serves
<1> QED
  BY <1>1, <1>2, <1>3, <1>4, <1>5, <1>6, <1>7, <1>8, <1>9, <1>10, <1>11, <1>12,
     <1>13, <1>14, <1>15, <1>16, <1>17, <1>18, <1>19, <1>20, <1>21, <1>22, <1>23,
     <1>24 DEF ExprStep

\* A visitor may rely on what nextTokenSkipNL returned.
LEMMA Returned ==
    ASSUME ParserInv, Quiet, NextTokenSkipNL
    PROVE  Given(ReturnedSkipNL(lex))
  BY NextTokenSkipNLStep DEF ParserInv

\* What a binary expression owns and what it drops.
LEMMA OpOwns ==
    ASSUME ParserInv
    PROVE  Dropped \in Seq(Known) /\ BinOwns \in Seq(Seen)
<1>1. <<Top.tok>> \in Seq(Seen)
  BY Holding
<1> QED BY <1>1, Holding, SeqsOver DEF Dropped, BinOwns

LEMMA OwnedParts ==
    ASSUME ParserInv
    PROVE  /\ SubSeq(owned, 2, Len(owned)) \in Seq(Known)
           /\ Top.own \o FirstOf(owned) \in Seq(Seen)
<1>1. owned \in Seq(Known) /\ Top.own \in Seq(Known) /\ Known \subseteq Seen
  BY Holding DEF Seen
<1>2. SubSeq(owned, 2, Len(owned)) \in Seq(Known)
  BY <1>1
<1>3. FirstOf(owned) \in Seq(Seen)
  <2>1. owned # <<>> => owned[1] \in Known
    BY <1>1
  <2> QED BY <1>1, <2>1 DEF FirstOf
<1> QED BY <1>2, <1>3, Holding, SeqsOver

LEMMA BuildStep ==
    ASSUME ParserInv, Quiet, Top.proc # "module", NEW n, Build(n)
    PROVE  [LexNext]_lexVars /\ ParserInv'
  BY OpOwns, ReturnStep, StopStep DEF Build, Serves

LEMMA OpSteps ==
    ASSUME ParserInv, OpStep
    PROVE  [LexNext]_lexVars /\ ParserInv'
<1>1. CASE OpStart
  BY <1>1, Working, VisitTaken
     DEF OpStart, At, Busy
<1>2. CASE OpRight
  <2>1. PICK t \in CurrentTokens : OpNext(t) \/ OpEnd(t)
    BY <1>2 DEF OpRight
  <2>2. t \in Seen
    BY Holding DEF CurrentTokens, Seen, Known
  <2>3. Quiet /\ IsFrame(Top) /\ Top.proc = "op" /\ Top.pc = "right"
    BY <1>2, Working DEF OpRight, At
  <2> DEFINE left == BinExpr(Top.cur, Kind(Top.tok), ret)
  <2>4. CASE OpNext(t)
    <3>1. CASE NoLexer /\ Stop("aborted")
      BY <2>3, <3>1, StopStep DEF Serves
    <3>2. CASE NoLexer /\ Stop("crashed")
      BY <2>3, <3>2, StopStep DEF Serves
    <3>3. CASE NoLexer /\ Call(At_(Top, "tail"), OpVisitor(ret, owned, t))
      <4> DEFINE f == At_(Top, "tail")
                 g == OpVisitor(ret, owned, t)
      <4>1. IsFrame(f) /\ f.proc = Top.proc /\ f.pc \notin Busy
            /\ f.tok = Top.tok /\ f.own = Top.own
        BY <2>3 DEF At_, IsFrame, Busy
      <4>2. IsFrame(g) /\ g.pc \notin Busy /\ g.tok = t /\ g.own = owned
        BY NewFrames DEF Busy
      <4>3. Serves /\ Call(f, g)
        BY <3>3 DEF Serves
      <4> HIDE DEF f, g
      <4> QED BY <2>2, <2>3, <4>1, <4>2, <4>3, Holding, StartVisitor
    <3>4. CASE Destroy(Dropped) /\ Goto(OpVisitor(left, BinOwns, t))
      <4> DEFINE f == OpVisitor(left, BinOwns, t)
      <4>1. IsFrame(f) /\ f.proc = "op" /\ f.pc \notin Busy /\ f.tok = t /\ f.own = BinOwns
        BY NewFrames DEF Busy
      <4>2. Serves /\ Goto(f)
        BY <3>4, OpOwns DEF Serves
      <4> HIDE DEF f
      <4> QED BY <2>2, <2>3, <4>1, <4>2, OpOwns, GoOn
    <3> QED BY <2>4, <3>1, <3>2, <3>3, <3>4 DEF OpNext
  <2>5. CASE OpEnd(t)
    <3>1. CASE NoLexer /\ Stop("crashed")
      BY <2>3, <3>1, StopStep DEF Serves
    <3>2. CASE \E n : /\ Destroy(SubSeq(owned, 2, Len(owned)))
                      /\ ReturnOwning(n, Top.own \o FirstOf(owned))
                      /\ IsLiteralExpr(ret)
      <4>1. SubSeq(owned, 2, Len(owned)) \in Seq(Known) /\ Top.own \o FirstOf(owned) \in Seq(Seen)
        BY Holding, OwnedParts
      <4> QED BY <2>3, <3>2, <4>1, ReturnStep DEF Serves
    <3>3. CASE Build(ret)
      BY <2>3, <3>3, BuildStep
    <3> QED BY <2>5, <3>1, <3>2, <3>3 DEF OpEnd
  <2> QED BY <2>1, <2>4, <2>5
<1>3. CASE OpTail
  BY <1>3, Working, BuildStep DEF OpTail, At
<1> QED
  BY <1>1, <1>2, <1>3 DEF OpStep

LEMMA ListSteps ==
    ASSUME ParserInv, ListStep
    PROVE  [LexNext]_lexVars /\ ParserInv'
<1>1. CASE ListEnd
  BY <1>1, Working, Holding, SeqsOver, ReturnStep
     DEF ListEnd, At, AtList, Return, Serves
<1>2. CASE ListNext
  BY <1>2, Working, Holding, SeqsOver, ReturnStep, VisitTaken
     DEF ListNext, At, AtList, Return, Serves, Busy
<1>3. CASE ListGot
  BY <1>3, Working, Holding, SeqsOver, GoOn, ReturnStep, StopStep
     DEF ListGot, At, AtList, Plus, Owning, At_, Return, Serves, IsFrame, Busy
<1>4. CASE StringNext
  BY <1>4, Working, Holding, SeqsOver, GoOn, ReturnStep
     DEF StringNext, At, Plus, Return, Serves, IsFrame, Busy
<1>5. CASE StringEnd
  BY <1>5, Working, Holding, SeqsOver, ReturnStep
     DEF StringEnd, At, Return, Serves
<1> QED
  BY <1>1, <1>2, <1>3, <1>4, <1>5 DEF ListStep

\* Going on with the same tokens.
LEMMA SkipHeld ==
    ASSUME ParserInv, [LexNext]_lexVars, NEW f, f.tok = Top.tok, f.own = Top.own,
           Frames' \subseteq Frames \union {f}, owned' = <<>>
    PROVE  HeldKnown'
<1>1. Known \subseteq Known' /\ Seen = Known'
  BY KnownGrows DEF ParserInv
<1>2. owned' \in Seq(Known')
  OBVIOUS
<1>3. ASSUME NEW g \in Frames' PROVE g.tok \in Known' /\ g.own \in Seq(Known')
  <2>1. g.tok \in Known /\ g.own \in Seq(Known)
    BY Holding DEF ParserInv, HeldKnown
  <2> QED BY <1>1, <2>1
<1> QED BY <1>2, <1>3 DEF HeldKnown

LEMMA IfSteps ==
    ASSUME ParserInv, IfStep
    PROVE  [LexNext]_lexVars /\ ParserInv'
<1>1. CASE IfStart
  BY <1>1, Working, VisitTaken
     DEF IfStart, At, Busy
<1>2. CASE IfCond
  <2> DEFINE f == [Top EXCEPT !.pc = "block", !.cur = ret, !.own = owned]
             g == Frame("cond", "next")
  <2>1. Serves /\ Quiet /\ Call(f, g) /\ IsFrame(Top)
    BY <1>2, Working DEF IfCond, At, Serves
  <2>2. IsFrame(f) /\ f.proc = Top.proc /\ f.pc \notin Busy /\ f.tok = Top.tok /\ f.own = owned
    BY <2>1 DEF IsFrame, Busy
  <2>3. IsFrame(g) /\ g.pc \notin Busy /\ g.tok = Null /\ g.own = <<>>
    BY NewFrames DEF Busy
  <2> HIDE DEF f, g
  <2> QED BY <2>1, <2>2, <2>3, Holding, StartVisitor
<1>3. CASE IfBlock
  BY <1>3, Working, Holding, SeqsOver, GoOn, StopStep
     DEF IfBlock, At, Owning, Serves, IsFrame, Busy
<1>4. CASE IfElse
  BY <1>4, Working, Holding, SeqsOver, GoOn, ReturnStep
     DEF IfElse, At, At_, Return, Serves, IsFrame, Busy
<1>5. CASE IfElseKeyword
  BY <1>5, Working, Holding, SeqsOver, GoOn, TakenFrame
     DEF IfElseKeyword, At, At_, Owning, Serves, IsFrame, Busy, Given
<1>6. CASE IfElseCurl
  <2> DEFINE f == At_(Owning(Top, <<lex'.currentToken>>), "elseBlock")
             g == Frame("cond", "next")
  <2>1. Serves /\ Quiet /\ Call(f, g) /\ IsFrame(Top) /\ Given(lex'.currentToken)
    BY <1>6, Working, TakenFrame DEF IfElseCurl, At, Serves
  <2>2. /\ IsFrame(f) /\ f.proc = Top.proc /\ f.pc \notin Busy /\ f.tok = Top.tok
        /\ f.own = Top.own \o <<lex'.currentToken>>
    BY <2>1 DEF IsFrame, At_, Owning, Busy
  <2>3. f.own \in Seq(Seen)
    BY <2>1, <2>2, Holding, SeqsOver DEF Given
  <2>4. IsFrame(g) /\ g.pc \notin Busy /\ g.tok = Null /\ g.own = <<>>
    BY NewFrames DEF Busy
  <2> HIDE DEF f, g
  <2> QED BY <2>1, <2>2, <2>3, <2>4, Holding, StartVisitor
<1>7. CASE IfElseBlock
  BY <1>7, Working, Holding, SeqsOver, ReturnStep, StopStep
     DEF IfElseBlock, At, Return, Serves
<1>8. CASE CondNext
  BY <1>8, Working, Holding, GotoStep, KindOfNewLine
     DEF CondNext, At, Serves, At_, OkFrame, IsFrame, Keeps
<1>9. CASE CondDelete
  <2> DEFINE f == At_(Top, "skip")
  <2>1. Delete(lex.peekedToken) /\ Goto(f) /\ Quiet /\ IsNewLine(lex.peekedToken)
    BY <1>9, Working, KindOfNewLine DEF CondDelete, At, OkFrame
  <2>2. IsFrame(f) /\ f.proc = Top.proc /\ f.pc = "skip" /\ f.tok = Top.tok /\ f.own = Top.own
    BY <1>9, Working DEF CondDelete, At, At_, IsFrame
  <2>3. DeleteToken /\ FreedBehind'
    BY <2>1, DeleteStep DEF ParserInv
  <2>4. StackOK' /\ Top' = f /\ Frames' \subseteq Frames \union {f} /\ owned' = <<>>
    BY <2>1, <2>2, GotoStack DEF ParserInv, Goto
  <2>5. WorkOK'
    BY <2>2, <2>4 DEF WorkOK, OkFrame
  <2>6. [LexNext]_lexVars /\ IInv'
    BY <2>3, StepIInv DEF LexNext, ParserInv
  <2>7. HeldKnown'
    BY <2>2, <2>4, <2>6, SkipHeld
  <2> QED BY <2>3, <2>4, <2>5, <2>6, <2>7 DEF ParserInv
<1>10. CASE CondSkip
  <2> DEFINE f == At_(Top, "next")
  <2>1. NextToken /\ Goto(f)
    BY <1>10 DEF CondSkip
  <2>2. IsFrame(f) /\ f.proc = Top.proc /\ f.pc = "next" /\ f.tok = Top.tok /\ f.own = Top.own
    BY <1>10, TopFrame DEF CondSkip, At, At_, IsFrame, ParserInv
  <2>3. [LexNext]_lexVars /\ IInv'
    BY <2>1, StepIInv DEF LexNext, ParserInv
  <2>4. FreedBehind' /\ Quiet'
    <3>1. Take(lex'.currentToken) /\ lex' = AfterNextToken(lex) /\ freed' = freed
      BY <2>1, NextTokenTakes DEF ParserInv, NextToken
    <3>2. lex'.peekedToken = Null /\ lex.scanned <= lex'.scanned /\ lex' \in LexType
          /\ freed' \subseteq Tokens
      BY <3>1 DEF Take
    <3>3. lex'.scanned \in Nat /\ Null \notin freed'
      BY <3>2, LexNumbers DEF LexType, Null, ParserInv
    <3> QED BY <3>1, <3>2, <3>3, LexNumbers DEF FreedBehind, Quiet, ParserInv
  <2>5. StackOK' /\ Top' = f /\ Frames' \subseteq Frames \union {f} /\ owned' = <<>>
    BY <2>1, <2>2, GotoStack DEF ParserInv, Goto
  <2>6. WorkOK'
    BY <2>2, <2>4, <2>5 DEF WorkOK, OkFrame
  <2>7. HeldKnown'
    BY <2>2, <2>3, <2>5, SkipHeld
  <2> QED BY <2>3, <2>4, <2>5, <2>6, <2>7 DEF ParserInv
<1>11. CASE CondTake
  BY <1>11, Working, VisitTaken
     DEF CondTake, At, Busy
<1>12. CASE CondGot
  BY <1>12, Working, Holding, SeqsOver, GoOn
     DEF CondGot, At, Plus, Owning, At_, Serves, IsFrame, Busy
<1>13. CASE CondLast
  BY <1>13, Working, Holding, SeqsOver, ReturnStep
     DEF CondLast, At, Return, Serves
<1> QED
  BY <1>1, <1>2, <1>3, <1>4, <1>5, <1>6, <1>7, <1>8, <1>9, <1>10, <1>11, <1>12,
     <1>13 DEF IfStep

\* A type visitor is started on any token.
LEMMA StartType ==
    ASSUME ParserInv, Quiet, Serves, IsFrame(Top), NEW pc, pc \notin Busy, NEW t \in Seen,
           Call(At_(Top, pc), [Frame("type", "visit") EXCEPT !.tok = t])
    PROVE  [LexNext]_lexVars /\ ParserInv'
<1> DEFINE f == At_(Top, pc)
           g == [Frame("type", "visit") EXCEPT !.tok = t]
<1>1. IsFrame(f) /\ f.proc = Top.proc /\ f.pc = pc /\ f.tok = Top.tok /\ f.own = Top.own
  BY DEF At_, IsFrame
<1>2. /\ IsFrame(g) /\ g.proc = "type" /\ g.pc = "visit" /\ g.tok = t /\ g.own = <<>>
  BY DEF Frame, IsFrame
<1>3. Call(f, g)
  OBVIOUS
<1> HIDE DEF f, g
<1>4. Keeps(f) /\ Keeps(g) /\ OkFrame(g, Fresh, NewLines, lex'.peekedToken)
  BY <1>1, <1>2, Holding DEF Keeps, OkFrame, Busy
<1> QED BY <1>1, <1>2, <1>3, <1>4, Holding, CallStep

LEMMA FunSteps ==
    ASSUME ParserInv, FunStep
    PROVE  [LexNext]_lexVars /\ ParserInv'
<1>1. CASE FunName
  BY <1>1, Working, Holding, SeqsOver, GoOn, StopStep, Returned
     DEF FunName, At, Plus, Owning, At_, Serves, IsFrame, Busy, Given
<1>2. CASE FunLeftParenthesis
  <2> DEFINE t == ReturnedSkipNL(lex)
             f == At_(Top, "params")
             g == Owning(Frame("params", "next"), <<t>>)
  <2>1. Serves /\ Quiet /\ (Call(f, g) \/ Stop("syntaxError")) /\ IsFrame(Top) /\ Given(t)
    BY <1>2, Working, Returned DEF FunLeftParenthesis, At, Serves
  <2>2. IsFrame(f) /\ f.proc = Top.proc /\ f.pc \notin Busy /\ f.tok = Top.tok /\ f.own = Top.own
    BY <2>1 DEF IsFrame, At_, Busy
  <2>a. <<t>> \in Seq(Seen)
    BY <2>1 DEF Given
  <2>b. IsFrame(g) /\ g.pc = "next" /\ g.tok = Null /\ g.own = <<>> \o <<t>>
    BY NewFrames
  <2>3. IsFrame(g) /\ g.pc \notin Busy /\ g.tok = Null /\ g.own \in Seq(Seen)
    BY <2>a, <2>b, SeqsOver DEF Busy
  <2> HIDE DEF f, g, t
  <2> QED BY <2>1, <2>2, <2>3, Holding, StartVisitor, StopStep
<1>3. CASE FunArrow
  <2> DEFINE t == ReturnedSkipNL(lex)
             h == Owning(Plus(Top, ret), owned)
             f == At_(h, "type")
             u == At_(Owning(Plus(h, Leaf("Unit")), <<t>>), "body")
             g == Frame("body", "next")
  <2>1. Serves /\ Quiet /\ (Goto(f) \/ Call(u, g) \/ Stop("syntaxError"))
        /\ IsFrame(Top) /\ Given(t)
    BY <1>3, Working, Returned DEF FunArrow, At, Serves
  <2>2. IsFrame(f) /\ f.proc = Top.proc /\ f.pc = "type" /\ f.tok = Top.tok
        /\ f.own = Top.own \o owned
    BY <2>1 DEF At_, Plus, Owning, IsFrame
  <2>3. IsFrame(u) /\ u.proc = Top.proc /\ u.pc \notin Busy /\ u.tok = Top.tok
        /\ u.own = (Top.own \o owned) \o <<t>>
    BY <2>1 DEF At_, Plus, Owning, IsFrame, Busy
  <2>a. <<t>> \in Seq(Seen) /\ Top.own \o owned \in Seq(Seen)
    BY <2>1, Holding, SeqsOver DEF Given
  <2>4. f.own \in Seq(Seen) /\ u.own \in Seq(Seen)
    BY <2>2, <2>3, <2>a, SeqsOver
  <2>5. IsFrame(g) /\ g.pc \notin Busy /\ g.tok = Null /\ g.own = <<>>
    BY NewFrames DEF Busy
  <2>6. f.pc \notin Busy
    BY <2>2 DEF Busy
  <2> HIDE DEF f, u, g, t
  <2> QED BY <2>1, <2>2, <2>3, <2>4, <2>5, <2>6, Holding, GoOn, StartVisitor, StopStep
<1>4. CASE FunType
  <2> DEFINE t == ReturnedSkipNL(lex)
             f == At_(Top, "curl")
             g == [Frame("type", "visit") EXCEPT !.tok = t]
  <2>1. Serves /\ Quiet /\ Call(f, g) /\ IsFrame(Top) /\ Given(t)
    BY <1>4, Working, Returned DEF FunType, At, Serves
  <2> QED BY <2>1, StartType DEF Busy, Given
<1>5. CASE FunCurl
  <2> DEFINE t == Pointer(ReturnedSkipNL(lex))
             f == At_(Owning(Plus(Top, ret), owned \o <<t>>), "body")
             g == Frame("body", "next")
  <2>1. Serves /\ Quiet /\ Call(f, g) /\ IsFrame(Top) /\ t \in Seen
    BY <1>5, Working, Returned DEF FunCurl, At, Serves, Given
  <2>2. IsFrame(f) /\ f.proc = Top.proc /\ f.pc \notin Busy /\ f.tok = Top.tok
        /\ f.own = Top.own \o (owned \o <<t>>)
    BY <2>1 DEF At_, Plus, Owning, IsFrame, Busy
  <2>3. f.own \in Seq(Seen)
    BY <2>1, <2>2, Holding, SeqsOver
  <2>4. IsFrame(g) /\ g.pc \notin Busy /\ g.tok = Null /\ g.own = <<>>
    BY NewFrames DEF Busy
  <2> HIDE DEF f, g, t
  <2> QED BY <2>1, <2>2, <2>3, <2>4, Holding, StartVisitor
<1>6. CASE FunEnd
  BY <1>6, Working, Holding, SeqsOver, ReturnStep, TakenFrame
     DEF FunEnd, At, Return, Serves, Given
<1>7. CASE TypeVisit
  BY <1>7, Working, Holding, SeqsOver, GoOn, TakenFrame, ReturnStep, StopStep
     DEF TypeVisit, At, Owning, At_, Return, Serves, IsFrame, Busy, Given
<1>8. CASE TypeElement
  <2> DEFINE t == lex'.currentToken
             f == At_(Top, "array")
             g == [Frame("type", "visit") EXCEPT !.tok = t]
  <2>1. Serves /\ Quiet /\ Call(f, g) /\ IsFrame(Top) /\ Given(t)
    BY <1>8, Working, TakenFrame DEF TypeElement, At, Serves
  <2> QED BY <2>1, StartType DEF Busy, Given
<1>9. CASE TypeArray
  BY <1>9, Working, Holding, SeqsOver, ReturnStep, StopStep
     DEF TypeArray, At, Return, Serves
<1>10. CASE ParamName
  BY <1>10, Working, Holding, SeqsOver, GotoStep, StopStep, Returned
     DEF ParamName, At, Owning, At_, Serves, IsFrame, Keeps, OkFrame, Given
<1>11. CASE ParamDelete
  BY <1>11, Working, Holding, GoOn
     DEF ParamDelete, At, Serves, At_, OkFrame, IsFrame, Busy
<1>12. CASE ParamType
  BY <1>12, Working, Holding, SeqsOver, GotoStep, Returned
     DEF ParamType, At, Plus, Owning, At_, Serves, IsFrame, Keeps, OkFrame, Given
<1>13. CASE ParamEnd
  BY <1>13, Working, Holding, SeqsOver, GoOn
     DEF ParamEnd, At, At_, Serves, IsFrame, Busy
<1>14. CASE ParamCheck
  BY <1>14, Working, Holding, SeqsOver, ReturnStep, StopStep
     DEF ParamCheck, At, Return, Serves
<1>15. CASE BodyNext
  BY <1>15, Working, Holding, SeqsOver, GotoStep, ReturnStep, VisitTaken, TakenFrame
     DEF BodyNext, At, Return, Serves, IsFrame, Busy, Keeps, OkFrame, Given
<1>16. CASE BodyDelete
  BY <1>16, Working, Holding, GoOn
     DEF BodyDelete, At, Serves, At_, OkFrame, IsFrame, Busy
<1>17. CASE BodyGot
  BY <1>17, Working, Holding, SeqsOver, GoOn
     DEF BodyGot, At, Plus, Owning, At_, Serves, IsFrame, Busy
<1>18. CASE BodyEnd
  BY <1>18, Working, Holding, SeqsOver, ReturnStep
     DEF BodyEnd, At, Return, Serves
<1> QED
  BY <1>1, <1>2, <1>3, <1>4, <1>5, <1>6, <1>7, <1>8, <1>9, <1>10, <1>11, <1>12,
     <1>13, <1>14, <1>15, <1>16, <1>17, <1>18 DEF FunStep

\* An expression visitor is started on a token seen before, no newline.
LEMMA VisitOld ==
    ASSUME ParserInv, Quiet, NoLexer, IsFrame(Top), NEW pc, pc \notin Busy, NEW t \in Seen,
           t \notin NewLines, Call(At_(Top, pc), Visitor(t, FALSE))
    PROVE  [LexNext]_lexVars /\ ParserInv'
<1> DEFINE f == At_(Top, pc)
           g == Visitor(t, FALSE)
<1>1. IsFrame(f) /\ f.proc = Top.proc /\ f.pc = pc /\ f.tok = Top.tok /\ f.own = Top.own
  BY DEF At_, IsFrame
<1>2. IsFrame(g) /\ g.pc = "visit" /\ g.tok = t /\ g.own = <<>>
  BY NewFrames
<1>3. Serves /\ Call(f, g)
  BY DEF Serves
<1> HIDE DEF f, g
<1>4. Keeps(f) /\ Keeps(g) /\ OkFrame(g, Fresh, NewLines, lex'.peekedToken)
  BY <1>1, <1>2, Holding DEF Keeps, OkFrame, Busy
<1> QED BY <1>1, <1>2, <1>3, <1>4, Holding, CallStep

LEMMA LoopSteps ==
    ASSUME ParserInv, LoopStep
    PROVE  [LexNext]_lexVars /\ ParserInv'
<1>1. CASE WhileStart
  BY <1>1, Working, VisitTaken
     DEF WhileStart, At, Busy
<1>2. CASE WhileCond
  BY <1>2, Working, Holding, SeqsOver, GoOn
     DEF WhileCond, At, Owning, Serves, IsFrame, Busy
<1>3. CASE WhileLoop
  <2>1. Quiet /\ IsFrame(Top) /\ Top.pc = "loop"
    BY <1>3, Working DEF WhileLoop, At
  <2>2. CASE NextToken /\ Goto(Top)
    BY <2>1, <2>2, Holding, GoOn DEF Serves, Busy
  <2>3. CASE /\ NoLexer /\ lex.currentToken \notin NewLines
             /\ Call(At_(Top, "got"), Visitor(lex.currentToken, FALSE))
    BY <2>1, <2>3, Holding, VisitOld DEF Busy
  <2> QED BY <1>3, <2>2, <2>3, KindOfNewLine DEF WhileLoop
<1>4. CASE WhileGot
  BY <1>4, Working, Holding, SeqsOver, GoOn
     DEF WhileGot, At, Plus, Owning, At_, Serves, IsFrame, Busy
<1>5. CASE WhileEnd
  BY <1>5, Working, Holding, SeqsOver, ReturnStep, StopStep
     DEF WhileEnd, At, Return, Serves
<1>6. CASE ForHead
  BY <1>6, Working, Holding, SeqsOver, GoOn, VisitTaken
     DEF ForHead, At, At_, Serves, IsFrame, Busy
<1>7. CASE ForPart
  BY <1>7, Working, Holding, SeqsOver, GoOn
     DEF ForPart, At, Owning, At_, Serves, IsFrame, Busy
<1>8. CASE ForClear
  BY <1>8, Working, Holding, SeqsOver, GoOn
     DEF ForClear, At, Serves, IsFrame, Busy
<1>9. CASE ForBody
  BY <1>9, Working, Holding, SeqsOver, GoOn, StopStep, VisitTaken
     DEF ForBody, At, Serves, IsFrame, Busy
<1>10. CASE ForStmt
  BY <1>10, Working, Holding, SeqsOver, GoOn, StopStep
     DEF ForStmt, At, Owning, At_, Serves, IsFrame, Busy
<1> QED
  BY <1>1, <1>2, <1>3, <1>4, <1>5, <1>6, <1>7, <1>8, <1>9, <1>10 DEF LoopStep

LEMMA ModuleSteps ==
    ASSUME ParserInv, ModuleStep
    PROVE  [LexNext]_lexVars /\ ParserInv'
<1>1. CASE ModulePackage
  BY <1>1, Working, Holding, SeqsOver, GoOn, StopStep
     DEF ModulePackage, At, At_, Serves, IsFrame, Busy
<1>2. CASE ModuleKeyword
  BY <1>2, Working, Holding, SeqsOver, GoOn, TakenFrame
     DEF ModuleKeyword, At, Owning, At_, Serves, IsFrame, Busy, Given
<1>3. CASE ModuleLine
  BY <1>3, Working, Holding, SeqsOver, GoOn, TakenFrame
     DEF ModuleLine, At, Owning, At_, Serves, IsFrame, Busy, Given
<1>4. CASE ModuleTop
  BY <1>4, Working, Holding, SeqsOver, GotoStep, TakenFrame
     DEF ModuleTop, At, At_, Serves, IsFrame, Keeps, OkFrame, Given
<1>5. CASE ModuleVisit
  <2>1. Quiet /\ IsFrame(Top) /\ Top.proc = "module" /\ Top.pc = "visit"
        /\ (Top.tok \in NewLines => Top.tok \in Spare)
    BY <1>5, Working DEF ModuleVisit, At, OkFrame
  <2>2. CASE Delete(Top.tok) /\ Kind(Top.tok) = "newline" /\ Goto(At_(Top, "top"))
    BY <2>1, <2>2, Holding, GoOn, KindOfNewLine DEF Serves, At_, IsFrame, Busy
  <2>3. CASE /\ NoLexer /\ Top.tok \notin NewLines
             /\ \E pc \in {"static", "import"} : Call(At_(Top, pc), Visitor(Top.tok, FALSE))
    BY <2>1, <2>3, Holding, VisitOld DEF Busy
  <2>4. CASE NoLexer /\ \E proc \in {"if", "for"} : \E at \in {"start", "head"} :
                Call(At_(Top, "static"), Frame(proc, at))
    BY <2>1, <2>4, StartFrame DEF Serves, Busy
  <2>5. CASE NoLexer /\ \E pc \in {"static", "fun"}, proc \in {"while", "fun"},
                           at \in {"start", "name"} :
                Call(At_(Top, pc), Owning(Frame(proc, at), <<Top.tok>>))
    <3>1. PICK pc \in {"static", "fun"}, proc \in {"while", "fun"}, at \in {"start", "name"} :
                Call(At_(Top, pc), Owning(Frame(proc, at), <<Top.tok>>))
      BY <2>5
    <3> DEFINE f == At_(Top, pc)
               g == Owning(Frame(proc, at), <<Top.tok>>)
    <3>2. IsFrame(f) /\ f.proc = Top.proc /\ f.pc \notin Busy /\ f.tok = Top.tok /\ f.own = Top.own
      BY <2>1 DEF IsFrame, At_, Busy
    <3>3. IsFrame(g) /\ g.pc = at /\ g.tok = Null /\ g.own = <<>> \o <<Top.tok>>
      BY NewFrames
    <3>4. <<Top.tok>> \in Seq(Seen) /\ at \notin Busy
      BY Holding DEF Busy
    <3>5. Serves /\ Call(f, g) /\ g.own \in Seq(Seen)
      BY <2>5, <3>1, <3>3, <3>4, SeqsOver DEF Serves
    <3> HIDE DEF f, g
    <3> QED BY <2>1, <3>2, <3>3, <3>4, <3>5, Holding, StartVisitor
  <2>6. CASE NoLexer /\ Stop("syntaxError")
    BY <2>1, <2>6, StopStep DEF Serves
  <2>7. CASE NoLexer /\ Goto(At_(Top, "top"))
    BY <2>1, <2>7, Holding, GoOn DEF Serves, At_, IsFrame, Busy
  <2>8. Kind(Top.tok) # "newline" => Top.tok \notin NewLines
    BY KindOfNewLine


  <2>9. "newline" \notin StaticStarts
    BY KindsAssumption DEF StaticStarts
  <2> QED BY <1>5, <2>2, <2>3, <2>4, <2>5, <2>6, <2>7, <2>8, <2>9 DEF ModuleVisit
<1>6. CASE ModuleStatic
  BY <1>6, Working, Holding, SeqsOver, GoOn
     DEF ModuleStatic, At, Plus, Owning, At_, Serves, IsFrame, Busy
<1>7. CASE ModuleImport
  BY <1>7, Working, Holding, SeqsOver, GoOn
     DEF ModuleImport, At, Owning, At_, Serves, IsFrame, Busy
<1>8. CASE ModuleFun
  <2> DEFINE f == At_(Owning(Top, owned), "top")
  <2>1. NoLexer /\ stack' = Below(f) /\ owned' = <<>> /\ Quiet /\ IsFrame(Top)
    BY <1>8, Working DEF ModuleFun, At
  <2>2. /\ IsFrame(f) /\ f.proc = Top.proc /\ f.pc = "top" /\ f.tok = Top.tok
        /\ f.own = Top.own \o owned
    BY <2>1 DEF At_, Owning, IsFrame
  <2>3. /\ [LexNext]_lexVars /\ IInv' /\ FreedBehind' /\ Quiet'
        /\ NewLines' = NewLines /\ Known \subseteq Known' /\ Seen = Known'
    BY <2>1, ServeStep DEF ParserInv, Serves
  <2>4. StackOK' /\ Top' = f /\ Frames' \subseteq Frames \union {f}
    BY <2>1, <2>2, GotoStack DEF ParserInv
  <2>5. WorkOK'
    BY <2>2, <2>3, <2>4 DEF WorkOK, OkFrame
  <2>6. f.tok \in Known' /\ f.own \in Seq(Known')
    BY <2>2, <2>3, Holding, SeqsOver
  <2> HIDE DEF f
  <2>7. owned' \in Seq(Known')
    BY <2>1
  <2>8. ASSUME NEW g \in Frames' PROVE g.tok \in Known' /\ g.own \in Seq(Known')
    <3>1. CASE g = f
      BY <2>6, <3>1
    <3>2. CASE g \in Frames
      <4>1. g.tok \in Known /\ g.own \in Seq(Known)
        BY <3>2 DEF ParserInv, HeldKnown
      <4> QED BY <2>3, <4>1
    <3> QED BY <2>4, <3>1, <3>2
  <2> QED BY <2>3, <2>4, <2>5, <2>7, <2>8 DEF ParserInv, HeldKnown
<1>9. CASE ModuleEnd
  <2>1. NoLexer /\ Quiet
    BY <1>9, Working DEF ModuleEnd, At
  <2>2. [LexNext]_lexVars /\ IInv' /\ FreedBehind' /\ Known \subseteq Known'
    BY <2>1, ServeStep DEF ParserInv, Serves
  <2>3. stack' = stack /\ owned' = owned /\ status' # "running"
    BY <1>9 DEF ModuleEnd, Stop
  <2>4. StackOK'
    BY <2>3 DEF ParserInv, StackOK, IsFrame, Busy
  <2>5. HeldKnown'
    BY <2>2, <2>3, HeldStays DEF ParserInv
  <2> QED BY <2>2, <2>3, <2>4, <2>5 DEF ParserInv
<1> QED
  BY <1>1, <1>2, <1>3, <1>4, <1>5, <1>6, <1>7, <1>8, <1>9 DEF ModuleStep

LEMMA DeadStep ==
    ASSUME ParserInv, DeadToken
    PROVE  [LexNext]_lexVars /\ ParserInv'
<1>1. Quiet
  BY Working DEF DeadToken, ReadsCurrent, CurrentReaders
<1>2. Serves /\ Stop("crashed")
  BY DEF DeadToken, Serves
<1> QED BY <1>1, <1>2, StopStep

-----------------------------------------------------------------------------
(* Theorems.                                                                *)

LEMMA ParserInitInv == ParserInit => ParserInv
<1> SUFFICES ASSUME ParserInit PROVE ParserInv
  OBVIOUS
<1>1. IInv /\ FreedBehind
  BY InitIInv DEF ParserInit, LexInit, FreedBehind
<1> DEFINE f == Frame("module", "package")
<1>2. IsFrame(f) /\ f.proc = "module" /\ f.pc = "package"
  BY DEF Frame, IsFrame
<1>3. stack = <<f>>
  BY DEF ParserInit
<1> HIDE DEF f
<1>4. stack \in Seq({f}) /\ Len(stack) = 1 /\ stack[1] = f
  BY <1>3
<1>5. StackOK
  <2>1. \E S : stack \in Seq(S)
    BY <1>4
  <2>2. stack # <<>>
    BY <1>4
  <2>3. \A k \in 1..Len(stack) : k = 1
    BY <1>4
  <2>4. \A k \in 1..(Len(stack) - 1) : FALSE
    BY <1>4
  <2> QED BY <1>2, <1>4, <2>1, <2>2, <2>3, <2>4 DEF StackOK
<1>6. WorkOK
  BY <1>2, <1>4 DEF WorkOK, OkFrame, Quiet, Top, ParserInit, LexInit
<1>7. HeldKnown
  <2>0. f.tok = Null /\ f.own = <<>>
    BY DEF f, Frame
  <2>1. Frames = {f} /\ f.tok = Null /\ f.own = <<>>
    BY <1>4, <2>0 DEF Frames
  <2>2. Null \in Known /\ <<>> \in Seq(Known) /\ owned = <<>>
    BY DEF Known, ParserInit
  <2> QED BY <2>1, <2>2 DEF HeldKnown
<1> QED BY <1>1, <1>5, <1>6, <1>7 DEF ParserInv

LEMMA ParserStep == ParserInv /\ [ParserNext]_vars => [LexNext]_lexVars /\ ParserInv'
<1> SUFFICES ASSUME ParserInv, [ParserNext]_vars PROVE [LexNext]_lexVars /\ ParserInv'
  OBVIOUS
<1>1. CASE ExprStep
  BY <1>1, ExprSteps
<1>2. CASE OpStep
  BY <1>2, OpSteps
<1>3. CASE ListStep
  BY <1>3, ListSteps
<1>4. CASE IfStep
  BY <1>4, IfSteps
<1>5. CASE FunStep
  BY <1>5, FunSteps
<1>6. CASE LoopStep
  BY <1>6, LoopSteps
<1>7. CASE ModuleStep
  BY <1>7, ModuleSteps
<1>8. CASE DeadToken
  BY <1>8, DeadStep
<1>9. CASE UNCHANGED vars
  <2>1. UNCHANGED lexVars /\ UNCHANGED parserVars
    BY <1>9 DEF vars
  <2>2. /\ source' = source /\ lex' = lex /\ delivered' = delivered /\ freed' = freed
        /\ stack' = stack /\ status' = status /\ owned' = owned
    BY <2>1 DEF lexVars, parserVars
  <2>3. IInv'
    BY <2>1, StepIInv DEF ParserInv
  <2>4. FreedBehind' /\ StackOK'
    BY <2>2 DEF ParserInv, FreedBehind, StackOK, IsFrame, Busy
  <2>5. Spare' = Spare /\ NewLines' = NewLines /\ Top' = Top /\ (Quiet' <=> Quiet)
    BY <2>2 DEF Spare, Handed, Held, OwnedBy, NewLines, Tokens, Size, Top, Quiet
  <2>6. WorkOK => WorkOK'
    BY <2>2, <2>5 DEF WorkOK
  <2>7. HeldKnown'
    BY <2>1, <2>2, KnownGrows, HeldStays DEF ParserInv
  <2> QED BY <2>1, <2>2, <2>3, <2>4, <2>6, <2>7 DEF ParserInv
<1> QED BY <1>1, <1>2, <1>3, <1>4, <1>5, <1>6, <1>7, <1>8, <1>9 DEF ParserNext

\* The nodes own tokens that were handed over.
LEMMA HeldSeen ==
    ASSUME StackOK, HeldKnown
    PROVE  Held \subseteq Known
<1> SUFFICES ASSUME NEW k \in 0..Len(stack) PROVE TokensOf(OwnedBy(k)) \subseteq Known
  BY DEF Held
<1>1. CASE k = 0
  BY <1>1, TokensOfSeq DEF OwnedBy, HeldKnown
<1>2. CASE k # 0
  <2>1. stack[k] \in Frames
    BY <1>2, TopFrame DEF Frames
  <2> QED BY <1>2, <2>1, TokensOfSeq DEF OwnedBy, HeldKnown
<1> QED BY <1>1, <1>2

LEMMA InvDeletes == ParserInv => DeletedOnce
<1> SUFFICES ASSUME ParserInv PROVE DeletedOnce
  OBVIOUS
<1>2. CASE status # "running"
  BY <1>2 DEF DeletedOnce, ToDelete
<1>3. CASE status = "running" /\ Top.pc \in {"delete", "visit"}
  <2>1. Quiet /\ OkFrame(Top, Spare, NewLines, lex.peekedToken)
    BY <1>3, Working
  <2>2. CASE At("cond", "delete")
    <3>1. lex.peekedToken \in NewLines /\ lex.peekedToken \notin freed
      BY <1>3, <2>1, <2>2 DEF OkFrame, Quiet, At
    <3>2. lex.peekedToken \notin Known
      BY <3>1, LexNumbers DEF ParserInv, IInv, PendingToken, Known, NewLines, Tokens,
                              Null, SpaceT
    <3>3. lex.peekedToken \notin Held
      BY <3>2, HeldSeen DEF ParserInv
    <3> QED BY <1>3, <2>2, <3>1, <3>3 DEF DeletedOnce, ToDelete
  <2>3. CASE ~At("cond", "delete")
    BY <1>3, <2>1, <2>3, KindOfNewLine DEF DeletedOnce, ToDelete, OkFrame, Spare, At
  <2> QED BY <2>2, <2>3
<1>4. CASE status = "running" /\ Top.pc \notin {"delete", "visit"}
  BY <1>4 DEF DeletedOnce, ToDelete, At
<1> QED BY <1>2, <1>3, <1>4

(***************************************************************************)
(* Whatever the source, the parser takes, peeks and deletes tokens only as *)
(* RocLexer lets a client do (AST.cpp 820-872, 1091-1208; Parser.cpp), so  *)
(* what RocLexerProofs says of every client holds while parsing.           *)
(***************************************************************************)
THEOREM ParserIsClient == ParserSpec => ClientOfLexer
<1>1. ParserInit => ParserInv
  BY ParserInitInv
<1>2. ParserInv /\ [ParserNext]_vars => ParserInv' /\ [LexNext]_lexVars
  BY ParserStep
<1> QED BY <1>1, <1>2, PTL DEF ParserSpec, ClientOfLexer

(***************************************************************************)
(* No visitor deletes a token that another one or a node deleted before,   *)
(* nor one that a node will delete again, nor one it was not given (AST.cpp *)
(* 822-829, 1091-1132, 1178-1203).                                         *)
(***************************************************************************)
THEOREM NoDoubleDelete == ParserSpec => []DeletedOnce
<1>1. ParserInit => ParserInv
  BY ParserInitInv
<1>2. ParserInv /\ [ParserNext]_vars => ParserInv'
  BY ParserStep
<1> QED BY <1>1, <1>2, InvDeletes, PTL DEF ParserSpec

(***************************************************************************)
(* The lexer's promises while parsing: no token is lost or handed over     *)
(* twice, and currentToken is the last one given or a deleted newline      *)
(* (Lexer.cpp 138-149, 450-486).                                           *)
(***************************************************************************)
THEOREM TokensSafeParsing ==
    ParserSpec => [](InOrder /\ NoTokenLost /\ PendingToken /\ CurrentToken)
<1>1. ParserInit => ParserInv
  BY ParserInitInv
<1>2. ParserInv /\ [ParserNext]_vars => ParserInv'
  BY ParserStep
<1>3. ParserInv => InOrder /\ NoTokenLost /\ PendingToken /\ CurrentToken
  BY DEF ParserInv, IInv
<1> QED BY <1>1, <1>2, <1>3, PTL DEF ParserSpec

-----------------------------------------------------------------------------
(* The types and the depth of the stack.                                    *)

\* The places of a visitor, and for whom it waits there.
Place(proc, pc) ==
    /\ proc \in DOMAIN Runs
    /\ pc \in Runs[proc] \union DOMAIN Waits[proc] \union {"static"}

Awaits(proc, pc, callee) ==
    IF proc = "module" /\ pc = "static"
    THEN callee \in {"expr", "if", "while", "for"}
    ELSE pc \in DOMAIN Waits[proc] /\ callee = Waits[proc][pc]

(***************************************************************************)
(* The room a visitor at depth k needs below the bound.  Who is about to   *)
(* start another one without taking a token needs more; who was given the  *)
(* end of the text starts none.                                            *)
(***************************************************************************)
Roomy(f, k, room, over, at, eof) ==
    /\ k <= room
    /\ f.proc = "expr" => (f.pc = "visit" /\ f.tok = eof) \/ k + 2 <= room
    /\ f.proc = "op" => k + 1 <= room /\ (f.pc # "right" \/ at = eof \/ k + 3 <= room)
    /\ f.proc \in {"args", "tuple", "fun", "if", "while", "for"} => k + 1 <= room
    /\ f.proc = "if" /\ f.pc = "cond" => over \/ k + 2 <= room
    /\ f.proc = "cond" => (over /\ f.pc # "take") \/ k + 1 <= room
    /\ f.proc = "type" => (f.pc = "visit" /\ f.tok = eof) \/ k + 1 <= room
    /\ f.proc = "body" => over \/ k + 1 <= room
    /\ f.proc = "while" /\ f.pc # "start" => over \/ k + 3 <= room
    /\ f.proc = "module" /\ f.pc \notin {"package", "keyword"} =>
          k + 2 <= room /\ (f.pc = "visit" /\ f.tok # eof => k + 4 <= room)

Room == 2 * Len(delivered) + 1

\* A frame of a visitor at depth k.
FrameOK(f, k, room, over, at, eof, dot) ==
    /\ Roomy(f, k, room, over, at, eof)
    /\ Place(f.proc, f.pc)
    /\ f.tok \in Null..eof
    /\ f.nl \in BOOLEAN /\ f.rhs \in BOOLEAN
    /\ f.proc = "expr" /\ f.pc \in {"dot", "again"} => dot

FramesOK ==
    \A k \in 1..Len(stack) :
        FrameOK(stack[k], k, Room, ended, lex.currentToken, Eof, HasDot)
AwaitsOK ==
    \A k \in 1..(Len(stack) - 1) : Awaits(stack[k].proc, stack[k].pc, stack[k + 1].proc)

\* The visitors that take the token they peeked.
Takers ==
    {<<"expr", "take">>, <<"cond", "take">>, <<"cond", "last">>, <<"cond", "delete">>,
     <<"cond", "skip">>, <<"module", "keyword">>, <<"if", "elseKeyword">>}

\* Who may leave a token peeked.
Leaves(l, proc, pc) ==
    l.peeked => \/ Kind(l.peekedToken) \in {"}", "fun", "ret", "eof"}
                \/ Kind(l.currentToken) = "}"
                \/ HasDot
                \/ <<proc, pc>> \in Takers

\* What the visitor at work knows of the lexer.
Knows(l, proc, pc) ==
    /\ proc = "module" /\ pc = "keyword" => l.peeked /\ l.peekedToken # Eof
    /\ proc = "if" /\ pc = "else" => Kind(l.currentToken) = "}"

VisitorsInv ==
    /\ status \in Statuses
    /\ FramesOK
    /\ AwaitsOK
    /\ status = "running" => Leaves(lex, Top.proc, Top.pc) /\ Knows(lex, Top.proc, Top.pc)
    /\ ParsedToTheEnd

-----------------------------------------------------------------------------

LEMMA PlacesOfExpr ==
    \A pc \in {"visit", "further", "again", "take", "string", "op", "lesser", "call",
               "tuple", "dot", "ret", "import", "done"} : Place("expr", pc)
  BY DEF Place, Runs, Waits

LEMMA PlacesOfOthers ==
    /\ \A pc \in {"start", "right", "tail"} : Place("op", pc)
    /\ \A pc \in {"next", "got"} : Place("args", pc) /\ Place("tuple", pc)
    /\ Place("string", "next")
    /\ \A pc \in {"start", "else", "elseKeyword", "elseCurl", "cond", "block", "elseBlock"} :
          Place("if", pc)
    /\ \A pc \in {"next", "delete", "skip", "take", "last", "got"} : Place("cond", pc)
    /\ \A pc \in {"name", "lparen", "type", "params", "curl", "body"} : Place("fun", pc)
    /\ \A pc \in {"visit", "bracket", "array"} : Place("type", pc)
    /\ \A pc \in {"next", "delete", "type", "check"} : Place("params", pc)
    /\ \A pc \in {"next", "delete", "got"} : Place("body", pc)
    /\ \A pc \in {"start", "loop", "cond", "got"} : Place("while", pc)
    /\ \A pc \in {"head", "clear", "body", "part", "stmt"} : Place("for", pc)
    /\ \A pc \in {"package", "keyword", "line", "top", "visit", "import", "fun", "static"} :
          Place("module", pc)
  BY DEF Place, Runs, Waits

LEMMA CallsOfExpr ==
    /\ Awaits("expr", "string", "string") /\ Awaits("expr", "op", "op")
    /\ Awaits("expr", "lesser", "op") /\ Awaits("expr", "call", "args")
    /\ Awaits("expr", "tuple", "tuple") /\ Awaits("expr", "dot", "expr")
    /\ Awaits("expr", "ret", "expr") /\ Awaits("expr", "import", "expr")
    /\ Awaits("expr", "done", "if")
  BY DEF Awaits, Waits

LEMMA CallsOfOthers ==
    /\ Awaits("op", "right", "expr") /\ Awaits("op", "tail", "op")
    /\ Awaits("args", "got", "expr") /\ Awaits("tuple", "got", "expr")
    /\ Awaits("if", "cond", "expr") /\ Awaits("if", "block", "cond")
    /\ Awaits("if", "elseBlock", "cond") /\ Awaits("cond", "got", "expr")
    /\ Awaits("fun", "params", "params") /\ Awaits("fun", "curl", "type")
    /\ Awaits("fun", "body", "body") /\ Awaits("type", "array", "type")
    /\ Awaits("body", "got", "expr")
    /\ Awaits("while", "cond", "expr") /\ Awaits("while", "got", "expr")
    /\ Awaits("for", "part", "expr") /\ Awaits("for", "stmt", "expr")
    /\ Awaits("module", "import", "expr") /\ Awaits("module", "fun", "fun")
    /\ \A callee \in {"expr", "if", "while", "for"} : Awaits("module", "static", callee)
  BY DEF Awaits, Waits

\* Nobody waits where something is known of the lexer.
LEMMA WaitersKnowNothing ==
    ASSUME NEW proc, NEW pc, NEW callee, Awaits(proc, pc, callee)
    PROVE  /\ ~(proc = "module" /\ pc = "keyword")
           /\ ~(proc = "if" /\ pc = "else")
  BY DEF Awaits, Waits

-----------------------------------------------------------------------------
(* What every step of the lexer leaves.                                     *)

Grown ==
    /\ source' = source /\ Eof' = Eof /\ HasDot' = HasDot
    /\ Room \in Nat /\ Room' \in Nat /\ Room <= Room'
    /\ ended => ended'
    /\ lex.currentToken = Eof => lex'.currentToken = Eof

LEMMA TakeGrows ==
    ASSUME IInv, NEW t, Take(t)
    PROVE  /\ t \in Null..Eof /\ source' = source /\ Room \in Nat /\ Room' \in Nat
           /\ t = Eof => ended' /\ Room' = Room
           /\ t # Eof => ended' = ended /\ Room' = Room + 2
           /\ ~lex'.peeked
           /\ lex.currentToken = Eof => ended
<1>1. /\ source \in Seq(STRING) /\ delivered \in Seq(Tokens) /\ InOrder /\ ended \in BOOLEAN
      /\ Size \in Nat /\ LastTaken \in 0..Size /\ freed \subseteq Tokens
  BY LexNumbers, SourcesAssumption DEF IInv, LexTypeOK
<1>2. t \in (LastTaken + 1)..Eof /\ HandOver(t) /\ source' = source /\ ~lex'.peeked
      /\ lex.scanned <= Cursor(t)
  BY DEF Take
<1>3. t = Eof => ended' /\ delivered' = delivered
  BY <1>1, <1>2, HandOverFacts
<1>4. t # Eof => ended' = ended /\ Len(delivered') = Len(delivered) + 1
  BY <1>1, <1>2 DEF HandOver
<1>5. Len(delivered) \in Nat
  BY <1>1
<1>6. t \in Null..Eof
  BY <1>1, <1>2 DEF Null, Eof
<1>7. lex.currentToken = Eof => ended
  BY <1>1, LexNumbers DEF IInv, CurrentToken, IsNewLine, Tokens, Eof
<1> QED BY <1>2, <1>3, <1>4, <1>5, <1>6, <1>7 DEF Room

\* After the end the lexer returns nothing but the end.
LEMMA EndStays ==
    ASSUME IInv, ended
    PROVE  /\ AfterNextToken(lex).currentToken = Eof
           /\ AfterNextTokenWithWS(lex).currentToken = Eof
           /\ AfterNextTokenSkipNL(lex).currentToken = Eof
<1>1. /\ source \in Seq(STRING) /\ Size \in Nat /\ Eof = Size + 1 /\ lex \in LexType
      /\ lex.scanned = Size /\ (lex.peeked => lex.peekedToken = Eof)
  BY LexNumbers DEF IInv, LexTypeOK, BehindCursor
<1>2. NextSolid(Size) = Eof
  BY <1>1, NextSolidIsFirst DEF IsFirst
<1>3. Upto(Size) = Eof
  BY <1>1 DEF Upto
<1>4. AfterNextToken(lex).currentToken = Eof
  BY <1>1, <1>2 DEF AfterNextToken, CheckPeeked, Scan, LexType
<1>5. AfterNextTokenWithWS(lex).currentToken = Eof
  BY <1>1, <1>3 DEF AfterNextTokenWithWS, CheckPeeked, Scan, LexType
<1>6. AfterNextTokenSkipNL(lex) = AfterNextToken(lex)
  BY <1>1, <1>4 DEF AfterNextTokenSkipNL, IsNewLine, Tokens
<1> QED BY <1>4, <1>5, <1>6

\* What the calls hand over.
Taken(t) ==
    /\ t \in Null..Eof
    /\ t = Eof => ended' /\ Room' = Room
    /\ t # Eof => Room' = Room + 2
    /\ ~lex'.peeked

LEMMA NextTokenTook ==
    ASSUME IInv, NextToken
    PROVE  Grown /\ Taken(lex'.currentToken) /\ (lex.peeked => lex'.currentToken = lex.peekedToken)
<1> DEFINE t == lex'.currentToken
<1>1. Take(t)
  BY NextTokenTakes
<1>2. lex.peeked => t = lex.peekedToken
  BY DEF NextToken, AfterNextToken, CheckPeeked, IInv, LexTypeOK, LexType
<1>3. lex.currentToken = Eof => t = Eof
  BY <1>1, TakeGrows, EndStays DEF NextToken
<1> HIDE DEF t
<1>4. /\ t \in Null..Eof /\ source' = source /\ Room \in Nat /\ Room' \in Nat
      /\ t = Eof => ended' /\ Room' = Room
      /\ t # Eof => ended' = ended /\ Room' = Room + 2
      /\ ~lex'.peeked
  BY <1>1, TakeGrows
<1>5. HasDot' = HasDot /\ Eof' = Eof
  BY <1>4 DEF HasDot, Eof, Tokens, Size
<1> QED BY <1>2, <1>3, <1>4, <1>5 DEF Grown, Taken, t

LEMMA NextTokenWithWSTook ==
    ASSUME IInv, NextTokenWithWS
    PROVE  Grown /\ Taken(lex'.currentToken)
<1> DEFINE t == lex'.currentToken
<1>1. Take(t)
  BY NextTokenWithWSTakes
<1>3. lex.currentToken = Eof => t = Eof
  BY <1>1, TakeGrows, EndStays DEF NextTokenWithWS
<1> HIDE DEF t
<1>4. /\ t \in Null..Eof /\ source' = source /\ Room \in Nat /\ Room' \in Nat
      /\ t = Eof => ended' /\ Room' = Room
      /\ t # Eof => ended' = ended /\ Room' = Room + 2
      /\ ~lex'.peeked
  BY <1>1, TakeGrows
<1>5. HasDot' = HasDot /\ Eof' = Eof
  BY <1>4 DEF HasDot, Eof, Tokens, Size
<1> QED BY <1>3, <1>4, <1>5 DEF Grown, Taken, t

LEMMA NextTokenSkipNLTook ==
    ASSUME IInv, NextTokenSkipNL
    PROVE  Grown /\ Taken(ReturnedSkipNL(lex))
<1> DEFINE t == ReturnedSkipNL(lex)
<1>1. Take(t)
  BY NextTokenSkipNLTakes
<1>3. lex.currentToken = Eof => lex'.currentToken = Eof
  BY <1>1, TakeGrows, EndStays DEF NextTokenSkipNL
<1> HIDE DEF t
<1>4. /\ t \in Null..Eof /\ source' = source /\ Room \in Nat /\ Room' \in Nat
      /\ t = Eof => ended' /\ Room' = Room
      /\ t # Eof => ended' = ended /\ Room' = Room + 2
      /\ ~lex'.peeked
  BY <1>1, TakeGrows
<1>5. HasDot' = HasDot /\ Eof' = Eof
  BY <1>4 DEF HasDot, Eof, Tokens, Size
<1> QED BY <1>3, <1>4, <1>5 DEF Grown, Taken, t

\* Without a call, and after a deletion.
Quietly == NoLexer \/ (\E i : Delete(i)) \/ (\E own : Destroy(own))

LEMMA NothingTook ==
    ASSUME IInv, Quietly
    PROVE  Grown /\ lex' = lex /\ source' = source
<1>1. source' = source /\ lex' = lex /\ delivered' = delivered /\ ended' = ended
  BY DEF Quietly, NoLexer, lexVars, Delete, Destroy
<1>2. Room \in Nat
  BY DEF Room, IInv, LexTypeOK
<1>3. HasDot' = HasDot /\ Eof' = Eof /\ Room' = Room
  BY <1>1 DEF HasDot, Eof, Tokens, Size, Room
<1> QED BY <1>1, <1>2, <1>3 DEF Grown

LEMMA PeekTook ==
    ASSUME IInv, PeekNext
    PROVE  /\ Grown /\ source' = source /\ lex'.peeked
           /\ ended' = ended /\ Room' = Room /\ lex'.currentToken = lex.currentToken
<1>1. source' = source /\ delivered' = delivered /\ ended' = ended
  BY DEF PeekNext
<1>2. lex'.currentToken = lex.currentToken /\ lex'.peeked
  BY DEF PeekNext, AfterPeekNext, IInv, LexTypeOK, LexType
<1>3. Room \in Nat
  BY DEF Room, IInv, LexTypeOK
<1>4. HasDot' = HasDot /\ Eof' = Eof /\ Room' = Room
  BY <1>1 DEF HasDot, Eof, Tokens, Size, Room
<1> QED BY <1>1, <1>2, <1>3, <1>4 DEF Grown

-----------------------------------------------------------------------------
(* The four ways a step leaves the stack.                                   *)

LEMMA MoreRoom ==
    ASSUME NEW f, NEW k \in Nat, NEW room \in Nat, NEW room2 \in Nat, room <= room2,
           NEW over \in BOOLEAN, NEW over2 \in BOOLEAN, over => over2,
           NEW at, NEW at2, NEW eof, at = eof => at2 = eof, NEW dot,
           FrameOK(f, k, room, over, at, eof, dot)
    PROVE  FrameOK(f, k, room2, over2, at2, eof, dot)
<1>1. Roomy(f, k, room, over, at, eof)
  BY DEF FrameOK
<1>2. Roomy(f, k, room2, over2, at2, eof)
  BY <1>1 DEF Roomy
<1> QED BY <1>2 DEF FrameOK

\* A frame as it was, in the state after the step.
Still(f, k) == FrameOK(f, k, Room', ended', lex'.currentToken, Eof, HasDot)

LEMMA FramesStay ==
    ASSUME ParserInv, IInv', FramesOK, Grown, NEW k \in 1..Len(stack)
    PROVE  Still(stack[k], k)
<1>1. FrameOK(stack[k], k, Room, ended, lex.currentToken, Eof, HasDot)
  BY DEF FramesOK
<1>2. ended \in BOOLEAN /\ ended' \in BOOLEAN
  BY DEF ParserInv, IInv, LexTypeOK
<1>3. k \in Nat
  BY TopFrame DEF ParserInv
<1> QED BY <1>1, <1>2, <1>3, MoreRoom DEF Grown, Still

LEMMA FramesAre ==
    ASSUME Grown, \A k \in 1..Len(stack)' : Still(stack'[k], k)
    PROVE  FramesOK'
  BY DEF Grown, Still, FramesOK

LEMMA GotoFrames ==
    ASSUME ParserInv, IInv', FramesOK, AwaitsOK, Grown, NEW f, f.proc = Top.proc,
           stack' = Below(f), Still(f, Len(stack))
    PROVE  FramesOK' /\ AwaitsOK' /\ Top' = f
<1>1. /\ Len(stack') = Len(stack) /\ stack'[Len(stack)] = f
      /\ \A k \in 1..(Len(stack) - 1) : stack'[k] = stack[k]
  BY BelowSeq DEF ParserInv
<1>2. Len(stack) \in Nat \ {0}
  BY TopFrame DEF ParserInv
<1>3. ASSUME NEW k \in 1..Len(stack) PROVE Still(stack'[k], k)
  <2>1. CASE k = Len(stack)
    BY <1>1, <2>1
  <2>2. CASE k \in 1..(Len(stack) - 1)
    BY <1>1, <2>2, FramesStay
  <2> QED BY <1>2, <2>1, <2>2, NotLast
<1>4. FramesOK'
  BY <1>1, <1>3, FramesAre
<1>5. ASSUME NEW k \in 1..(Len(stack) - 1)
      PROVE  Awaits(stack'[k].proc, stack'[k].pc, stack'[k + 1].proc)
  <2>1. stack'[k] = stack[k] /\ Awaits(stack[k].proc, stack[k].pc, stack[k + 1].proc)
    BY <1>1 DEF AwaitsOK
  <2>2. stack'[k + 1].proc = stack[k + 1].proc
    <3>1. CASE k + 1 = Len(stack)
      BY <1>1, <3>1 DEF Top
    <3>2. CASE k + 1 # Len(stack)
      <4>1. k + 1 \in 1..(Len(stack) - 1)
        BY <1>2, <3>2
      <4> QED BY <1>1, <4>1
    <3> QED BY <3>1, <3>2
  <2> QED BY <2>1, <2>2
<1>6. AwaitsOK'
  BY <1>1, <1>5 DEF AwaitsOK
<1>7. Top' = f
  BY <1>1 DEF Top
<1> QED BY <1>4, <1>6, <1>7

LEMMA CallFrames ==
    ASSUME ParserInv, IInv', FramesOK, AwaitsOK, Grown, NEW f, NEW g, f.proc = Top.proc,
           stack' = Append(Below(f), g), Still(f, Len(stack)), Still(g, Len(stack) + 1),
           Awaits(f.proc, f.pc, g.proc)
    PROVE  FramesOK' /\ AwaitsOK' /\ Top' = g
<1> DEFINE b == Below(f)
           n == Len(stack)
<1>1. PICK S : b \in Seq(S)
  BY BelowSeq DEF ParserInv
<1>2. Len(b) = n /\ b[n] = f /\ \A k \in 1..(n - 1) : b[k] = stack[k]
  BY BelowSeq DEF ParserInv
<1>3. n \in Nat \ {0}
  BY TopFrame DEF ParserInv
<1>4. stack' = Append(b, g)
  OBVIOUS
<1>a. Still(f, n) /\ Still(g, n + 1) /\ f.proc = stack[n].proc
  BY DEF Top
<1>b. \A k \in 1..n : Still(stack[k], k)
  BY FramesStay
<1>c. \A k \in 1..(n - 1) : Awaits(stack[k].proc, stack[k].pc, stack[k + 1].proc)
  BY DEF AwaitsOK
<1> HIDE DEF b, n
<1>5. b \in Seq(S \union {g}) /\ g \in S \union {g}
  BY <1>1
<1>6. /\ Len(stack') = n + 1 /\ stack'[n + 1] = g
      /\ \A k \in 1..n : stack'[k] = b[k]
  BY <1>2, <1>3, <1>4, <1>5
<1>7. stack'[n] = f
  BY <1>2, <1>3, <1>6
<1>8. \A k \in 1..(n - 1) : stack'[k] = stack[k]
  BY <1>2, <1>3, <1>6
<1>9. ASSUME NEW k \in 1..(n + 1) PROVE Still(stack'[k], k)
  <2>1. CASE k = n + 1
    BY <1>6, <1>a, <2>1
  <2>2. CASE k = n
    BY <1>7, <1>a, <2>2
  <2>3. CASE k \in 1..(n - 1)
    <3>1. k \in 1..n
      BY <1>3, <2>3
    <3> QED BY <1>8, <1>b, <2>3, <3>1
  <2>4. k = n + 1 \/ k = n \/ k \in 1..(n - 1)
    BY <1>3
  <2> QED BY <2>1, <2>2, <2>3, <2>4
<1>10. FramesOK'
  BY <1>6, <1>9, FramesAre
<1>11. ASSUME NEW k \in 1..n
       PROVE  Awaits(stack'[k].proc, stack'[k].pc, stack'[k + 1].proc)
  <2>1. CASE k = n
    BY <1>6, <1>7, <2>1
  <2>2. CASE k \in 1..(n - 1)
    <3>1. stack'[k] = stack[k] /\ stack'[k + 1].proc = stack[k + 1].proc
      <4>1. CASE k + 1 = n
        BY <1>7, <1>8, <1>a, <2>2, <4>1
      <4>2. CASE k + 1 # n
        <5>1. k + 1 \in 1..(n - 1)
          BY <1>3, <2>2, <4>2
        <5> QED BY <1>8, <2>2, <5>1
      <4> QED BY <4>1, <4>2
    <3> QED BY <1>c, <2>2, <3>1
  <2> QED BY <1>3, <2>1, <2>2, NotLast
<1>12. Len(stack') - 1 = n
  BY <1>3, <1>6
<1>13. AwaitsOK'
  BY <1>11, <1>12 DEF AwaitsOK
<1>14. Top' = g
  BY <1>6 DEF Top
<1> QED BY <1>10, <1>13, <1>14

LEMMA ReturnFrames ==
    ASSUME ParserInv, IInv', FramesOK, AwaitsOK, Grown, Top.proc # "module",
           stack' = SubSeq(stack, 1, Len(stack) - 1)
    PROVE  FramesOK' /\ AwaitsOK' /\ Awaits(Top'.proc, Top'.pc, Top.proc)
<1>1. PICK S : stack \in Seq(S)
  BY DEF ParserInv, StackOK
<1>2. Len(stack) \in Nat /\ Len(stack) # 0 /\ Len(stack) # 1
  BY TopFrame DEF StackOK, Top, ParserInv
<1> DEFINE n == Len(stack) - 1
<1>3. n \in Nat /\ n # 0 /\ n + 1 = Len(stack)
  BY <1>2
<1>4. stack' = SubSeq(stack, 1, n)
  OBVIOUS
<1>a. \A k \in 1..(n + 1) : Still(stack[k], k)
  BY <1>3, FramesStay
<1>b. \A k \in 1..n : Awaits(stack[k].proc, stack[k].pc, stack[k + 1].proc)
  BY DEF AwaitsOK
<1>c. Top = stack[n + 1]
  BY <1>3 DEF Top
<1> HIDE DEF n
<1>5. Len(stack') = n /\ \A k \in 1..n : stack'[k] = stack[k]
  BY <1>1, <1>3, <1>4
<1>6. ASSUME NEW k \in 1..n PROVE Still(stack'[k], k)
  <2>1. k \in 1..(n + 1)
    BY <1>3
  <2> QED BY <1>5, <1>a, <2>1
<1>7. FramesOK'
  BY <1>5, <1>6, FramesAre
<1>8. ASSUME NEW k \in 1..(n - 1)
      PROVE  Awaits(stack'[k].proc, stack'[k].pc, stack'[k + 1].proc)
  <2>1. k \in 1..n /\ k + 1 \in 1..n
    BY <1>3
  <2> QED BY <1>5, <1>b, <2>1
<1>9. AwaitsOK'
  BY <1>5, <1>8 DEF AwaitsOK
<1>10. Top' = stack[n] /\ n \in 1..n
  BY <1>3, <1>5 DEF Top
<1> QED BY <1>7, <1>9, <1>10, <1>b, <1>c

LEMMA LexerKept ==
    ASSUME Grown, NEW f, Top' = f, Leaves(lex', f.proc, f.pc), Knows(lex', f.proc, f.pc)
    PROVE  (Leaves(lex, Top.proc, Top.pc) /\ Knows(lex, Top.proc, Top.pc))'
<1>1. source' = source /\ Eof' = Eof /\ HasDot' = HasDot
  BY DEF Grown
<1>2. Tokens' = Tokens
  BY <1>1 DEF Tokens, Size
<1>3. /\ Kind(lex'.peekedToken) = Kind(lex.peekedToken)'
      /\ Kind(lex'.currentToken) = Kind(lex.currentToken)'
  BY <1>1, <1>2 DEF Kind
<1>4. Top'.proc = f.proc /\ Top'.pc = f.pc
  OBVIOUS
<1> HIDE DEF Top, Kind, HasDot, Eof
<1>5. Leaves(lex, Top.proc, Top.pc)'
  BY <1>1, <1>3, <1>4 DEF Leaves, Takers
<1>6. Knows(lex, Top.proc, Top.pc)'
  BY <1>1, <1>3, <1>4 DEF Knows
<1> QED BY <1>5, <1>6

-----------------------------------------------------------------------------
(* What a step has to show of the frames it leaves.                         *)

Stepping == ParserInv /\ ParserInv' /\ VisitorsInv /\ status = "running"

\* A frame that was as good before the step.
Stood(f, k) == FrameOK(f, k, Room, ended, lex.currentToken, Eof, HasDot)

LEMMA StoodStill ==
    ASSUME Stepping, Grown, NEW f, NEW k \in Nat, Stood(f, k)
    PROVE  Still(f, k)
<1>1. ended \in BOOLEAN /\ ended' \in BOOLEAN
  BY DEF Stepping, ParserInv, IInv, LexTypeOK
<1> QED BY <1>1, MoreRoom DEF Grown, Still, Stood

LEMMA TopStood ==
    ASSUME Stepping
    PROVE  /\ Stood(Top, Len(stack)) /\ IsFrame(Top) /\ Len(stack) \in Nat
           /\ IInv /\ Room \in Nat
<1>1. Len(stack) \in Nat \ {0} /\ IsFrame(Top)
  BY TopFrame DEF Stepping, ParserInv
<1>2. Len(stack) \in 1..Len(stack)
  BY <1>1
<1>3. IInv /\ Room \in Nat
  BY DEF Stepping, ParserInv, IInv, LexTypeOK, Room
<1> QED BY <1>1, <1>2, <1>3 DEF Stepping, VisitorsInv, FramesOK, Stood, Top

LEMMA GotoVisits ==
    ASSUME Stepping, Grown, NEW f, f.proc = Top.proc, Goto(f), Still(f, Len(stack)),
           Leaves(lex', f.proc, f.pc), Knows(lex', f.proc, f.pc)
    PROVE  VisitorsInv'
<1>1. stack' = Below(f) /\ status' = "running"
  BY DEF Goto, Stepping
<1>2. IInv' /\ ParserInv /\ FramesOK /\ AwaitsOK
  BY DEF Stepping, ParserInv, VisitorsInv
<1>3. FramesOK' /\ AwaitsOK' /\ Top' = f
  BY <1>1, <1>2, GotoFrames
<1>4. (Leaves(lex, Top.proc, Top.pc) /\ Knows(lex, Top.proc, Top.pc))'
  BY <1>3, LexerKept
<1>5. status' \in Statuses /\ ParsedToTheEnd'
  BY <1>1 DEF Statuses, ParsedToTheEnd
<1> QED BY <1>3, <1>4, <1>5 DEF VisitorsInv

LEMMA CallVisits ==
    ASSUME Stepping, Grown, NEW f, NEW g, f.proc = Top.proc, Call(f, g),
           Still(f, Len(stack)), Still(g, Len(stack) + 1), Awaits(f.proc, f.pc, g.proc),
           Leaves(lex', g.proc, g.pc), Knows(lex', g.proc, g.pc)
    PROVE  VisitorsInv'
<1>1. stack' = Append(Below(f), g) /\ status' = "running"
  BY DEF Call, Stepping
<1>2. IInv' /\ ParserInv /\ FramesOK /\ AwaitsOK
  BY DEF Stepping, ParserInv, VisitorsInv
<1>3. FramesOK' /\ AwaitsOK' /\ Top' = g
  BY <1>1, <1>2, CallFrames
<1>4. (Leaves(lex, Top.proc, Top.pc) /\ Knows(lex, Top.proc, Top.pc))'
  BY <1>3, LexerKept
<1>5. status' \in Statuses /\ ParsedToTheEnd'
  BY <1>1 DEF Statuses, ParsedToTheEnd
<1> QED BY <1>3, <1>4, <1>5 DEF VisitorsInv

\* A return leaves no token peeked but one that anybody may.
LEMMA ReturnVisits ==
    ASSUME Stepping, Grown, NEW n, NEW own, Top.proc # "module", ReturnOwning(n, own),
           Leaves(lex', "", "")
    PROVE  VisitorsInv'
<1>1. stack' = SubSeq(stack, 1, Len(stack) - 1) /\ status' = "running"
  BY DEF ReturnOwning, Stepping
<1>2. IInv' /\ ParserInv /\ FramesOK /\ AwaitsOK
  BY DEF Stepping, ParserInv, VisitorsInv
<1>3. FramesOK' /\ AwaitsOK' /\ Awaits(Top'.proc, Top'.pc, Top.proc)
  BY <1>1, <1>2, ReturnFrames
<1> DEFINE proc == Top'.proc
           pc == Top'.pc
<1>4. Leaves(lex', proc, pc)
  BY DEF Leaves, Takers
<1>5. Knows(lex', proc, pc)
  BY <1>3, WaitersKnowNothing DEF Knows
<1>6. (Leaves(lex, Top.proc, Top.pc) /\ Knows(lex, Top.proc, Top.pc))'
  BY <1>4, <1>5, LexerKept
<1>7. status' \in Statuses /\ ParsedToTheEnd'
  BY <1>1 DEF Statuses, ParsedToTheEnd
<1> QED BY <1>3, <1>6, <1>7 DEF VisitorsInv

LEMMA StackStays ==
    ASSUME Stepping, Grown, stack' = stack
    PROVE  FramesOK' /\ AwaitsOK'
<1>1. IInv' /\ ParserInv /\ FramesOK /\ AwaitsOK
  BY DEF Stepping, ParserInv, VisitorsInv
<1>2. FramesOK'
  BY <1>1, FramesStay, FramesAre
<1>3. AwaitsOK'
  BY <1>1 DEF AwaitsOK
<1> QED BY <1>2, <1>3

LEMMA StopVisits ==
    ASSUME Stepping, Grown, NEW s, s \in {"syntaxError", "aborted", "crashed"}, Stop(s)
    PROVE  VisitorsInv'
<1>1. stack' = stack /\ status' = s
  BY DEF Stop
<1>2. FramesOK' /\ AwaitsOK'
  BY <1>1, StackStays
<1>3. status' \in Statuses /\ ParsedToTheEnd' /\ status' # "running"
  BY <1>1 DEF Statuses, ParsedToTheEnd
<1> QED BY <1>2, <1>3 DEF VisitorsInv

\* Who is not about to take the token it peeked.
NoTaker ==
    /\ Top.pc \notin {"take", "last", "skip", "keyword", "elseKeyword"}
    /\ ~(Top.proc = "cond" /\ Top.pc = "delete")

\* A frame at a place where nothing is known of the lexer.
Plain(f) == f.pc # "keyword" /\ ~(f.proc = "if" /\ f.pc = "else")

LEMMA QuietLexer ==
    ASSUME Stepping, Quietly, NoTaker
    PROVE  Grown /\ \A proc, pc : Leaves(lex', proc, pc)
<1>1. Grown /\ lex' = lex
  BY NothingTook, TopStood
<1>2. Leaves(lex, Top.proc, Top.pc)
  BY DEF Stepping, VisitorsInv
<1>3. <<Top.proc, Top.pc>> \notin Takers
  BY DEF Takers, NoTaker
<1>4. \A proc, pc : Leaves(lex, proc, pc)
  BY <1>2, <1>3 DEF Leaves
<1> QED BY <1>1, <1>4

LEMMA PlainKnows ==
    ASSUME NEW f, Plain(f)
    PROVE  \A l : Knows(l, f.proc, f.pc)
  BY DEF Plain, Knows

LEMMA QuietGoto ==
    ASSUME Stepping, Quietly, NoTaker, NEW f, f.proc = Top.proc, Goto(f),
           Stood(f, Len(stack)), Plain(f)
    PROVE  VisitorsInv'
<1>1. Grown /\ Leaves(lex', f.proc, f.pc)
  BY QuietLexer
<1>2. Still(f, Len(stack))
  BY <1>1, StoodStill, TopStood
<1>3. Knows(lex', f.proc, f.pc)
  BY PlainKnows
<1> QED BY <1>1, <1>2, <1>3, GotoVisits

LEMMA QuietCall ==
    ASSUME Stepping, NoLexer, NoTaker, NEW f, NEW g, f.proc = Top.proc, Call(f, g),
           Stood(f, Len(stack)), Stood(g, Len(stack) + 1), Awaits(f.proc, f.pc, g.proc), Plain(g)
    PROVE  VisitorsInv'
<1>1. Grown /\ Leaves(lex', g.proc, g.pc)
  BY QuietLexer DEF Quietly
<1>a. Len(stack) \in Nat /\ Len(stack) + 1 \in Nat
  BY TopStood
<1>2. Still(f, Len(stack)) /\ Still(g, Len(stack) + 1)
  BY <1>1, <1>a, StoodStill
<1>3. Knows(lex', g.proc, g.pc)
  BY PlainKnows
<1> QED BY <1>1, <1>2, <1>3, CallVisits

LEMMA QuietReturn ==
    ASSUME Stepping, Quietly, NoTaker, NEW n, NEW own, Top.proc # "module",
           ReturnOwning(n, own)
    PROVE  VisitorsInv'
<1>1. Grown /\ Leaves(lex', "", "")
  BY QuietLexer
<1> QED BY <1>1, ReturnVisits

Takes == NextToken \/ NextTokenWithWS \/ NextTokenSkipNL

LEMMA TakesGrow ==
    ASSUME Stepping, Takes
    PROVE  Grown /\ \A proc, pc : Leaves(lex', proc, pc)
<1>1. Grown /\ ~lex'.peeked
  BY TopStood, NextTokenTook, NextTokenWithWSTook, NextTokenSkipNLTook DEF Takes, Taken
<1> QED BY <1>1 DEF Leaves

LEMMA StopsAnyhow ==
    ASSUME Stepping, NoLexer \/ PeekNext \/ Takes,
           NEW s, s \in {"syntaxError", "aborted", "crashed"}, Stop(s)
    PROVE  VisitorsInv'
<1>1. Grown
  BY TopStood, TakesGrow, NothingTook, PeekTook DEF Quietly
<1> QED BY <1>1, StopVisits

LEMMA TakingGoto ==
    ASSUME Stepping, Takes, NEW f, f.proc = Top.proc, Goto(f), Still(f, Len(stack)), Plain(f)
    PROVE  VisitorsInv'
  BY TakesGrow, PlainKnows, GotoVisits

LEMMA TakingCall ==
    ASSUME Stepping, Takes, NEW f, NEW g, f.proc = Top.proc, Call(f, g),
           Still(f, Len(stack)), Still(g, Len(stack) + 1), Awaits(f.proc, f.pc, g.proc), Plain(g)
    PROVE  VisitorsInv'
  BY TakesGrow, PlainKnows, CallVisits

LEMMA TakingReturn ==
    ASSUME Stepping, Takes, NEW n, NEW own, Top.proc # "module", ReturnOwning(n, own)
    PROVE  VisitorsInv'
  BY TakesGrow, ReturnVisits

\* A visitor that is started on the token just taken.
LEMMA StartedVisitor ==
    ASSUME Stepping, NextToken, Len(stack) + 1 <= Room,
           NEW g, g \in {Visitor(lex'.currentToken, TRUE), Visitor(lex'.currentToken, FALSE)}
    PROVE  Still(g, Len(stack) + 1) /\ Plain(g) /\ g.proc = "expr"
<1> DEFINE t == lex'.currentToken
           n == Len(stack)
<1>1. /\ t \in Null..Eof /\ (t = Eof => Room' = Room) /\ (t # Eof => Room' = Room + 2)
      /\ Room \in Nat /\ n \in Nat /\ n + 1 <= Room
  BY TopStood, NextTokenTook DEF Taken
<1> HIDE DEF t, n
<1>2. /\ g.proc = "expr" /\ g.pc = "visit" /\ g.tok = t
      /\ g.nl = FALSE /\ (g.rhs = FALSE \/ g.rhs = TRUE)
  BY DEF Visitor, Frame, t
<1>3. Roomy(g, n + 1, Room', ended', lex'.currentToken, Eof)
  BY <1>1, <1>2 DEF Roomy
<1>4. Still(g, n + 1)
  BY <1>1, <1>2, <1>3, PlacesOfExpr DEF Still, FrameOK
<1> QED BY <1>2, <1>4 DEF Plain, n

\* An expression visitor that was given a token is good at any place.
LEMMA ExprFrame ==
    ASSUME Stepping, Top.proc = "expr", Top.pc # "visit" \/ Top.tok # Eof,
           NEW f, f.proc = "expr", Place("expr", f.pc), f.tok \in Null..Eof,
           f.nl \in BOOLEAN, f.rhs = Top.rhs, f.pc \in {"dot", "again"} => HasDot
    PROVE  Stood(f, Len(stack)) /\ Plain(f)
<1>1. Stood(Top, Len(stack)) /\ Len(stack) \in Nat /\ Room \in Nat
  BY TopStood
<1>2. Len(stack) + 2 <= Room /\ Top.rhs \in BOOLEAN /\ Len(stack) <= Room
  BY <1>1 DEF Stood, FrameOK, Roomy
<1>3. Roomy(f, Len(stack), Room, ended, lex.currentToken, Eof)
  BY <1>2 DEF Roomy
<1>4. Stood(f, Len(stack))
  BY <1>2, <1>3 DEF Stood, FrameOK
<1>5. Plain(f)
  BY DEF Plain, Place, Runs, Waits
<1> QED BY <1>4, <1>5

LEMMA ExprStarts ==
    ASSUME Stepping, Top.proc = "expr", Top.pc # "visit" \/ Top.tok # Eof,
           NEW g, g.tok \in Null..Eof, g.nl \in BOOLEAN, g.rhs \in BOOLEAN,
           \/ g.proc = "op" /\ g.pc = "start"
           \/ g.proc \in {"args", "tuple", "string"} /\ g.pc = "next"
           \/ g.proc = "if" /\ g.pc = "start"
    PROVE  Stood(g, Len(stack) + 1) /\ Plain(g)
<1>1. Stood(Top, Len(stack)) /\ Len(stack) \in Nat /\ Room \in Nat
  BY TopStood
<1>2. Len(stack) + 2 <= Room
  BY <1>1 DEF Stood, FrameOK, Roomy
<1>3. Roomy(g, Len(stack) + 1, Room, ended, lex.currentToken, Eof)
  BY <1>1, <1>2 DEF Roomy
<1>4. Place(g.proc, g.pc)
  BY PlacesOfOthers
<1>5. Stood(g, Len(stack) + 1)
  BY <1>3, <1>4 DEF Stood, FrameOK
<1> QED BY <1>5 DEF Plain

\* What is visited is a token, unless it is the end of the text.
LEMMA EofKind ==
    ASSUME Stepping
    PROVE  /\ Eof \notin Tokens /\ Kind(Eof) = "eof" /\ Null \in Null..Eof
           /\ Top.tok \in Null..Eof /\ Top.nl \in BOOLEAN /\ Top.rhs \in BOOLEAN
           /\ lex.currentToken \in Null..Eof
           /\ \A t \in CurrentTokens : t \in Null..Eof
<1>1. Size \in Nat /\ Eof = Size + 1
  BY LexNumbers, TopStood
<1>2. Eof \notin Tokens /\ Kind(Eof) = "eof" /\ Null \in Null..Eof
  BY <1>1 DEF Tokens, Kind, Null
<1>3. Top.tok \in Null..Eof /\ Top.nl \in BOOLEAN /\ Top.rhs \in BOOLEAN
  BY TopStood DEF Stood, FrameOK
<1>4. lex.currentToken \in Null..Eof /\ lex.scanned \in 0..Size
  BY TopStood DEF IInv, LexTypeOK, LexType, Null
<1>5. \A t \in CurrentTokens : t \in Null..Eof
  BY <1>1, <1>4, LexNumbers, TopStood DEF CurrentTokens, Null
<1> QED BY <1>2, <1>3, <1>4, <1>5

\* The calls of an expression visitor, and what it starts after a take.
LEMMA ExprCalls ==
    ASSUME Stepping, NoLexer, Top.proc = "expr", Top.pc = "visit", Top.tok # Eof,
           NEW pc, Place("expr", pc), pc \notin {"dot", "again"}, NEW g,
           Awaits("expr", pc, g.proc),
           NEW f, Call(f, g), f.proc = "expr", f.pc = pc, f.tok = Top.tok, f.nl = Top.nl,
           f.rhs = Top.rhs,
           \/ \E proc \in {"args", "tuple", "string"} : g = Frame(proc, "next")
           \/ g = Frame("if", "start")
           \/ \E n, o : g = OpVisitor(n, o, Top.tok)
    PROVE  VisitorsInv'
<1>2. /\ g.tok \in Null..Eof /\ g.nl \in BOOLEAN /\ g.rhs \in BOOLEAN
      /\ \/ g.proc = "op" /\ g.pc = "start"
         \/ g.proc \in {"args", "tuple", "string"} /\ g.pc = "next"
         \/ g.proc = "if" /\ g.pc = "start"
  <2>1. Null \in Null..Eof /\ Top.tok \in Null..Eof
    BY EofKind
  <2>2. CASE \E proc \in {"args", "tuple", "string"} : g = Frame(proc, "next")
    <3>1. PICK proc \in {"args", "tuple", "string"} : g = Frame(proc, "next")
      BY <2>2
    <3> QED BY <2>1, <3>1 DEF Frame
  <2>3. CASE g = Frame("if", "start")
    BY <2>1, <2>3 DEF Frame
  <2>4. CASE \E n, o : g = OpVisitor(n, o, Top.tok)
    <3>1. PICK n, o : g = OpVisitor(n, o, Top.tok)
      BY <2>4
    <3> QED BY <2>1, <3>1 DEF Frame, OpVisitor
  <2> QED BY <2>2, <2>3, <2>4
<1>4. Stood(f, Len(stack))
  BY EofKind, ExprFrame
<1>5. Stood(g, Len(stack) + 1) /\ Plain(g)
  BY <1>2, ExprStarts
<1>6. NoTaker
  BY DEF NoTaker
<1> QED BY <1>4, <1>5, <1>6, QuietCall

\* A visitor is started and nothing else changes.
LEMMA ExprStartsAt ==
    ASSUME Stepping, NoLexer, Top.proc = "expr", Top.pc = "visit", Top.tok # Eof,
           NEW pc, Place("expr", pc), pc \notin {"dot", "again"},
           NEW proc, Awaits("expr", pc, proc), NEW at, Call(At_(Top, pc), Frame(proc, at)),
           (proc \in {"args", "tuple", "string"} /\ at = "next") \/ (proc = "if" /\ at = "start")
    PROVE  VisitorsInv'
<1> DEFINE f == At_(Top, pc)
           g == Frame(proc, at)
<1>1. /\ f.proc = "expr" /\ f.pc = pc /\ f.tok = Top.tok /\ f.nl = Top.nl /\ f.rhs = Top.rhs
  BY TopStood DEF At_, IsFrame
<1>2. g.proc = proc
  BY DEF Frame
<1>3. \/ \E p \in {"args", "tuple", "string"} : g = Frame(p, "next")
      \/ g = Frame("if", "start")
  OBVIOUS
<1>4. Call(f, g)
  OBVIOUS
<1> HIDE DEF f, g
<1> QED BY <1>1, <1>2, <1>3, <1>4, ExprCalls

LEMMA ExprTakes ==
    ASSUME Stepping, NextToken, Top.proc = "expr", Top.pc = "visit", Top.tok # Eof,
           NEW pc, Place("expr", pc), pc = "dot" => HasDot, pc # "again",
           Awaits("expr", pc, "expr"),
           NEW g, g \in {Visitor(lex'.currentToken, TRUE), Visitor(lex'.currentToken, FALSE)},
           Call(At_(Top, pc), g)
    PROVE  VisitorsInv'
<1> DEFINE f == At_(Top, pc)
<1>1. /\ f.proc = "expr" /\ f.pc = pc /\ f.tok = Top.tok /\ f.nl = Top.nl /\ f.rhs = Top.rhs
  BY TopStood DEF At_, IsFrame
<1>2. Takes /\ Grown
  BY TakesGrow DEF Takes
<1>3. Call(f, g)
  OBVIOUS
<1> HIDE DEF f
<1>4. Still(f, Len(stack))
  BY <1>1, <1>2, EofKind, ExprFrame, StoodStill, TopStood
<1>5. Len(stack) + 1 <= Room
  BY TopStood DEF Stood, FrameOK, Roomy
<1>6. Still(g, Len(stack) + 1) /\ Plain(g) /\ g.proc = "expr"
  BY <1>5, StartedVisitor
<1> QED BY <1>1, <1>2, <1>3, <1>4, <1>6, TakingCall

LEMMA VisitSteps ==
    ASSUME Stepping, ExprStep
    PROVE  VisitorsInv'
<1> USE PlacesOfExpr, CallsOfExpr, TopStood, EofKind
<1>1. CASE VisitNewLine
  <2>1. Top.proc = "expr" /\ Top.pc = "visit" /\ Quietly /\ NoTaker /\ Top.tok # Eof
    BY <1>1 DEF VisitNewLine, At, Visits, Quietly, NoTaker
  <2>2. CASE Goto(At_(Top, "further"))
    BY <2>1, <2>2, QuietGoto, ExprFrame DEF At_, IsFrame
  <2>3. CASE Goto([Top EXCEPT !.nl = TRUE, !.pc = "further", !.own = Append(@, Top.tok)])
    BY <2>1, <2>3, QuietGoto, ExprFrame DEF IsFrame
  <2> QED BY <1>1, <2>2, <2>3 DEF VisitNewLine
<1>2. CASE GoFurther
  <2>1. Top.proc = "expr" /\ Top.pc \in {"further", "again"} /\ PeekNext
    BY <1>2 DEF GoFurther, At
  <2> DEFINE k == Kind(lex'.peekedToken)
  <2>2. Grown
    BY <2>1, PeekTook
  <2>3. CASE k \in {"fun", "}", "ret"} /\ Return(Top.cur)
    <3>1. Leaves(lex', "", "")
      BY <2>3 DEF Leaves
    <3> QED BY <2>1, <2>2, <2>3, <3>1, ReturnVisits DEF Return
  <2>4. CASE Stop("aborted")
    BY <2>1, <2>4, StopsAnyhow
  <2>5. CASE Top.pc = "again" /\ Goto([Top EXCEPT !.pc = "visit", !.tok = lex.currentToken])
    <3> DEFINE f == [Top EXCEPT !.pc = "visit", !.tok = lex.currentToken]
    <3>1. f.proc = "expr" /\ f.pc = "visit" /\ f.tok = lex.currentToken
          /\ f.nl = Top.nl /\ f.rhs = Top.rhs
      BY <2>1 DEF IsFrame
    <3>2. HasDot
      BY <2>1, <2>5 DEF Stood, FrameOK
    <3>3. Goto(f)
      BY <2>5
    <3> HIDE DEF f
    <3>4. Still(f, Len(stack)) /\ Plain(f)
      BY <2>1, <2>2, <3>1, ExprFrame, StoodStill
    <3>5. Leaves(lex', f.proc, f.pc)
      BY <3>2 DEF Leaves
    <3> QED BY <2>1, <2>2, <3>1, <3>3, <3>4, <3>5, GotoVisits, PlainKnows
  <2>6. CASE Goto(At_(Top, "take"))
    <3> DEFINE f == At_(Top, "take")
    <3>1. f.proc = "expr" /\ f.pc = "take" /\ f.tok = Top.tok
          /\ f.nl = Top.nl /\ f.rhs = Top.rhs
      BY <2>1 DEF At_, IsFrame
    <3>3. Goto(f)
      BY <2>6
    <3> HIDE DEF f
    <3>4. Still(f, Len(stack)) /\ Plain(f)
      BY <2>1, <2>2, <3>1, ExprFrame, StoodStill
    <3>5. Leaves(lex', f.proc, f.pc)
      BY <3>1 DEF Leaves, Takers
    <3> QED BY <2>1, <2>2, <3>1, <3>3, <3>4, <3>5, GotoVisits, PlainKnows
  <2> QED BY <1>2, <2>3, <2>4, <2>5, <2>6 DEF GoFurther
<1>3. CASE TakeFurther
  <2>1. Top.proc = "expr" /\ Top.pc = "take" /\ NextToken /\ Takes
    BY <1>3 DEF TakeFurther, At, Takes
  <2> DEFINE f == [Top EXCEPT !.pc = "visit", !.tok = lex'.currentToken]
  <2>2. lex'.currentToken \in Null..Eof /\ Grown
    BY <2>1, NextTokenTook DEF Taken
  <2>3. f.proc = "expr" /\ f.pc = "visit" /\ f.tok \in Null..Eof
        /\ f.nl = Top.nl /\ f.rhs = Top.rhs
    BY <2>1, <2>2 DEF IsFrame
  <2>4. Goto(f)
    BY <1>3 DEF TakeFurther
  <2> HIDE DEF f
  <2>5. Still(f, Len(stack)) /\ Plain(f)
    BY <2>1, <2>2, <2>3, ExprFrame, StoodStill
  <2> QED BY <2>1, <2>3, <2>4, <2>5, TakingGoto
<1>4. CASE VisitLiteral
  BY <1>4, QuietGoto, ExprFrame, KindsAssumption
     DEF VisitLiteral, At, Visits, Got, Quietly, NoTaker, IsFrame
<1>5. CASE VisitNumber
  BY <1>5, QuietGoto, ExprFrame, KindsAssumption
     DEF VisitNumber, At, Visits, Got, Quietly, NoTaker, IsFrame
<1>6. CASE VisitTrue
  BY <1>6, QuietReturn, StopsAnyhow DEF VisitTrue, At, Visits, NoTaker, Quietly
<1>7. CASE VisitFalse
  BY <1>7, QuietReturn DEF VisitFalse, At, Visits, NoTaker, Quietly
<1>8. CASE VisitQuotionMark
  BY <1>8, ExprStartsAt DEF VisitQuotionMark, At, Visits
<1>9. CASE VisitOperator
  <2> DEFINE pc == IF Kind(Top.tok) = "<" THEN "lesser" ELSE "op"
             f == [Top EXCEPT !.pc = pc, !.own = <<>>]
             g == OpVisitor(Top.cur, Top.own, Top.tok)
  <2>1. /\ NoLexer /\ Top.proc = "expr" /\ Top.pc = "visit" /\ Top.tok # Eof
        /\ Call(f, g)
    BY <1>9 DEF VisitOperator, At, Visits, Operators, BinOps
  <2>2. g.proc = "op" /\ \E n, o : g = OpVisitor(n, o, Top.tok)
    BY DEF OpVisitor, Frame
  <2>3. /\ f.proc = "expr" /\ f.pc = pc /\ f.tok = Top.tok /\ f.nl = Top.nl
        /\ f.rhs = Top.rhs
    BY <2>1 DEF IsFrame
  <2> HIDE DEF f, g
  <2> QED BY <2>1, <2>2, <2>3, ExprCalls
<1>10. CASE VisitLeftParenthesis
  <2>1. NoLexer /\ Top.proc = "expr" /\ Top.pc = "visit" /\ Top.tok # Eof
    BY <1>10 DEF VisitLeftParenthesis, At, Visits
  <2>2. CASE Stop("crashed")
    BY <2>1, <2>2, StopsAnyhow
  <2>3. CASE Call(At_(Top, "call"), Frame("args", "next"))
    BY <2>1, <2>3, ExprStartsAt
  <2>4. CASE Call(At_(Top, "tuple"), Frame("tuple", "next"))
    BY <2>1, <2>4, ExprStartsAt
  <2> QED BY <1>10, <2>2, <2>3, <2>4 DEF VisitLeftParenthesis
<1>11. CASE VisitDot
  <2>1. /\ NextToken /\ Top.proc = "expr" /\ Top.pc = "visit" /\ Top.tok # Eof
        /\ Kind(Top.tok) = "." /\ Call(At_(Top, "dot"), Visitor(lex'.currentToken, TRUE))
    BY <1>11 DEF VisitDot, At, Visits
  <2>2. HasDot
    BY <2>1 DEF HasDot, Kind
  <2> QED BY <2>1, <2>2, ExprTakes
<1>12. CASE VisitRetOrImport
  <2>1. /\ NextToken /\ Top.proc = "expr" /\ Top.pc = "visit" /\ Top.tok # Eof
        /\ Kind(Top.tok) \in {"ret", "import"}
        /\ Call(At_(Top, Kind(Top.tok)), Visitor(lex'.currentToken, FALSE))
    BY <1>12 DEF VisitRetOrImport, At, Visits
  <2> QED BY <2>1, ExprTakes
<1>13. CASE VisitIf
  BY <1>13, ExprStartsAt DEF VisitIf, At, Visits
<1>14. CASE VisitFor
  BY <1>14, StopsAnyhow DEF VisitFor
<1>15. CASE VisitOther
  BY <1>15, QuietReturn DEF VisitOther, At, NoTaker, Quietly, Return
<1>16. CASE StringDone
  BY <1>16, QuietGoto, ExprFrame DEF StringDone, At, Got, Quietly, NoTaker, IsFrame
<1>17. CASE OpDone
  BY <1>17, QuietReturn DEF OpDone, At, NoTaker, Quietly
<1>18. CASE IfDone
  BY <1>18, QuietReturn DEF IfDone, At, NoTaker, Quietly
<1>19. CASE LesserDone
  BY <1>19, QuietGoto, ExprFrame, QuietReturn DEF LesserDone, At, Quietly, NoTaker, IsFrame
<1>20. CASE CallDone
  BY <1>20, QuietGoto, ExprFrame DEF CallDone, At, Got, Quietly, NoTaker, IsFrame
<1>21. CASE TupleDone
  <2>1. Top.proc = "expr" /\ Top.pc = "tuple" /\ NoTaker
    BY <1>21 DEF TupleDone, At, NoTaker
  <2>2. CASE NoLexer /\ Stop("crashed")
    BY <2>1, <2>2, StopsAnyhow
  <2>3. CASE Quietly /\ \E n, o : Goto(Got(n, o, "take"))
    <3>1. PICK n, o : Goto(Got(n, o, "take"))
      BY <2>3
    <3> QED BY <2>1, <2>3, <3>1, QuietGoto, ExprFrame DEF Got, IsFrame
  <2> QED BY <1>21, <2>2, <2>3 DEF TupleDone, Quietly
<1>22. CASE DotDone
  <2>1. Top.proc = "expr" /\ Top.pc = "dot" /\ NoLexer /\ NoTaker
    BY <1>22 DEF DotDone, At, NoTaker
  <2>2. HasDot
    BY <2>1 DEF Stood, FrameOK
  <2>3. CASE Stop("crashed")
    BY <2>1, <2>3, StopsAnyhow
  <2>4. CASE \E n, o : Goto(Got(n, o, "again"))
    <3>1. PICK n, o : Goto(Got(n, o, "again"))
      BY <2>4
    <3> QED BY <2>1, <2>2, <3>1, QuietGoto, ExprFrame DEF Got, IsFrame, Quietly
  <2> QED BY <1>22, <2>3, <2>4 DEF DotDone
<1>23. CASE RetDone
  BY <1>23, QuietReturn, StopsAnyhow DEF RetDone, At, NoTaker, Quietly
<1>24. CASE ImportDone
  BY <1>24, QuietReturn, StopsAnyhow DEF ImportDone, At, NoTaker, Quietly
<1> QED
  BY <1>1, <1>2, <1>3, <1>4, <1>5, <1>6, <1>7, <1>8, <1>9, <1>10, <1>11, <1>12, <1>13, <1>14,
     <1>15, <1>16, <1>17, <1>18, <1>19, <1>20, <1>21, <1>22, <1>23, <1>24 DEF ExprStep

-----------------------------------------------------------------------------

\* A visitor that takes a token and starts an expression visitor on it.
LEMMA StartsVisitor ==
    ASSUME Stepping, NextToken, Len(stack) + 1 <= Room, NEW pc,
           Awaits(Top.proc, pc, "expr"), Still(At_(Top, pc), Len(stack)),
           NEW g, g \in {Visitor(lex'.currentToken, TRUE), Visitor(lex'.currentToken, FALSE)},
           Call(At_(Top, pc), g)
    PROVE  VisitorsInv'
<1> DEFINE f == At_(Top, pc)
<1>1. f.proc = Top.proc /\ f.pc = pc
  BY TopStood DEF At_, IsFrame
<1>2. Still(g, Len(stack) + 1) /\ Plain(g) /\ g.proc = "expr"
  BY StartedVisitor
<1>3. Call(f, g) /\ Still(f, Len(stack)) /\ Takes
  BY DEF Takes
<1> HIDE DEF f
<1> QED BY <1>1, <1>2, <1>3, TakingCall

LEMMA OperatorSteps ==
    ASSUME Stepping, OpStep
    PROVE  VisitorsInv'
<1> USE PlacesOfOthers, CallsOfOthers, TopStood, EofKind
<1>1. CASE OpStart
  <2>1. Top.proc = "op" /\ Top.pc = "start" /\ NextToken
    BY <1>1 DEF OpStart, At
  <2>2. Len(stack) + 1 <= Room
    BY <2>1 DEF Stood, FrameOK, Roomy
  <2> DEFINE f == At_(Top, "right")
             t == lex'.currentToken
  <2>3. f.proc = "op" /\ f.pc = "right" /\ f.tok = Top.tok /\ f.nl = Top.nl /\ f.rhs = Top.rhs
    BY <2>1 DEF At_, IsFrame
  <2>4. (t = Eof => Room' = Room) /\ (t # Eof => Room' = Room + 2)
    BY <2>1, NextTokenTook DEF Taken
  <2> HIDE DEF f
  <2>5. Roomy(f, Len(stack), Room', ended', t, Eof)
    BY <2>2, <2>3, <2>4 DEF Roomy
  <2>6. Still(f, Len(stack))
    BY <2>3, <2>5 DEF Still, FrameOK
  <2> QED BY <1>1, <2>1, <2>2, <2>6, StartsVisitor DEF OpStart, f
<1>2. CASE OpRight
  <2>1. Top.proc = "op" /\ Top.pc = "right" /\ NoTaker
    BY <1>2 DEF OpRight, At, NoTaker
  <2>2. PICK t \in CurrentTokens :
             IF Kind(t) \in BinOps /\ ~(Kind(Top.tok) = "<" /\ Kind(t) = ">")
             THEN OpNext(t) ELSE OpEnd(t)
    BY <1>2 DEF OpRight
  <2>3. CASE OpEnd(t)
    BY <2>1, <2>3, QuietReturn, StopsAnyhow DEF OpEnd, Build, Quietly
  <2>4. CASE OpNext(t) /\ Kind(t) \in BinOps
    <3>2. lex.currentToken # Eof
      BY <2>4 DEF CurrentTokens, BinOps, IInv, LexTypeOK
    <3>3. Len(stack) + 3 <= Room /\ t \in Null..Eof
      BY <2>1, <3>2 DEF Stood, FrameOK, Roomy
    <3>4. CASE NoLexer /\ (Stop("aborted") \/ Stop("crashed"))
      BY <3>4, StopsAnyhow
    <3>5. CASE NoLexer /\ Call(At_(Top, "tail"), OpVisitor(ret, owned, t))
      <4> DEFINE f == At_(Top, "tail")
                 g == OpVisitor(ret, owned, t)
      <4>2. /\ f.proc = "op" /\ f.pc = "tail" /\ f.tok = Top.tok /\ f.nl = Top.nl
            /\ f.rhs = Top.rhs
        BY <2>1 DEF At_, IsFrame
      <4>3. g.proc = "op" /\ g.pc = "start" /\ g.tok = t /\ g.nl = FALSE /\ g.rhs = FALSE
        BY DEF OpVisitor, Frame
      <4>4. Call(f, g)
        BY <3>5
      <4> HIDE DEF f, g
      <4>5. Roomy(f, Len(stack), Room, ended, lex.currentToken, Eof)
            /\ Roomy(g, Len(stack) + 1, Room, ended, lex.currentToken, Eof)
        BY <3>3, <4>2, <4>3 DEF Roomy
      <4>6. Stood(f, Len(stack)) /\ Stood(g, Len(stack) + 1) /\ Plain(g)
        BY <3>3, <4>2, <4>3, <4>5 DEF Stood, FrameOK, Plain
      <4> QED BY <2>1, <3>5, <4>2, <4>3, <4>4, <4>6, QuietCall
    <3>6. CASE Quietly /\ \E n, o : Goto(OpVisitor(n, o, t))
      <4>1. PICK n, o : Goto(OpVisitor(n, o, t))
        BY <3>6
      <4> DEFINE g == OpVisitor(n, o, t)
      <4>3. g.proc = "op" /\ g.pc = "start" /\ g.tok = t /\ g.nl = FALSE /\ g.rhs = FALSE
        BY DEF OpVisitor, Frame
      <4>4. Goto(g)
        BY <4>1
      <4> HIDE DEF g
      <4>5. Roomy(g, Len(stack), Room, ended, lex.currentToken, Eof)
        BY <3>3, <4>3 DEF Roomy
      <4>6. Stood(g, Len(stack)) /\ Plain(g)
        BY <3>3, <4>3, <4>5 DEF Stood, FrameOK, Plain
      <4> QED BY <2>1, <3>6, <4>3, <4>4, <4>6, QuietGoto
    <3> QED BY <2>4, <3>4, <3>5, <3>6 DEF OpNext, Quietly
  <2> QED BY <2>2, <2>3, <2>4
<1>3. CASE OpTail
  BY <1>3, QuietReturn, StopsAnyhow DEF OpTail, At, Build, NoTaker, Quietly
<1> QED BY <1>1, <1>2, <1>3 DEF OpStep

-----------------------------------------------------------------------------

\* A frame that is the one at work but for its place and what it gathered.
Moved(f, pc) ==
    f.proc = Top.proc /\ f.pc = pc /\ f.tok = Top.tok /\ f.nl = Top.nl /\ f.rhs = Top.rhs

LEMMA MovedFrames ==
    ASSUME Stepping
    PROVE  \A pc, n, x : /\ Moved(Top, Top.pc)
                         /\ Moved(At_(Top, pc), pc)
                         /\ Moved(Plus(Top, n), Top.pc)
                         /\ Moved(At_(Plus(Top, n), pc), pc)
                         /\ Moved(At_(Plus(Plus(Top, n), x), pc), pc)
                         /\ Moved([Top EXCEPT !.pc = pc, !.cur = n], pc)
                         /\ Moved([Top EXCEPT !.pc = pc, !.acc = n], pc)
<1>1. IsFrame(Top)
  BY TopStood
<1> HIDE DEF Top
<1> QED BY <1>1 DEF Moved, At_, Plus, IsFrame

\* The same of a frame that took over the tokens of a node.
LEMMA OwningFrames ==
    ASSUME Stepping
    PROVE  \A pc, n, o :
             /\ Moved(Owning(Top, o), Top.pc)
             /\ Moved(At_(Owning(Top, o), pc), pc)
             /\ Moved(At_(Owning(Plus(Top, n), o), pc), pc)
             /\ Moved([Owning(Top, o) EXCEPT !.pc = pc, !.acc = n], pc)
             /\ Moved([Owning(Top, o) EXCEPT !.pc = pc, !.cur = n], pc)
             /\ Moved([Top EXCEPT !.pc = pc, !.cur = n, !.own = o], pc)
             /\ Moved([Top EXCEPT !.pc = pc, !.own = o], pc)
             /\ \A x, p : Moved(At_(Owning(Plus(Owning(Plus(Top, n), o), x), p), pc), pc)
<1>1. IsFrame(Top)
  BY TopStood
<1> HIDE DEF Top
<1> QED BY <1>1 DEF Moved, At_, Plus, Owning, IsFrame

LEMMA MovedStood ==
    ASSUME Stepping, NEW pc, NEW f, Moved(f, pc), Place(Top.proc, pc), Top.proc # "expr",
           Roomy(f, Len(stack), Room, ended, lex.currentToken, Eof)
    PROVE  Stood(f, Len(stack))
  BY EofKind DEF Moved, Stood, FrameOK

LEMMA MovedStill ==
    ASSUME Stepping, NEW pc, NEW f, Moved(f, pc), Place(Top.proc, pc), Top.proc # "expr",
           Roomy(f, Len(stack), Room', ended', lex'.currentToken, Eof)
    PROVE  Still(f, Len(stack))
  BY EofKind DEF Moved, Still, FrameOK

\* The visitors that need the same room at each of their places.
Easy == {"args", "tuple", "string", "fun", "params", "body", "for"}

LEMMA EasyFrame ==
    ASSUME Stepping, Top.proc \in Easy, NEW f, f.proc = Top.proc, Place(Top.proc, f.pc),
           f.tok \in Null..Eof, f.nl = Top.nl, f.rhs = Top.rhs
    PROVE  /\ Stood(f, Len(stack)) /\ Plain(f)
           /\ Grown => Still(f, Len(stack))
<1>1. Roomy(Top, Len(stack), Room, ended, lex.currentToken, Eof)
  BY TopStood DEF Stood, FrameOK
<1>2. Roomy(f, Len(stack), Room, ended, lex.currentToken, Eof)
  BY <1>1 DEF Roomy, Easy
<1>3. Stood(f, Len(stack))
  BY <1>2, EofKind DEF Stood, FrameOK, Easy
<1>4. Plain(f)
  BY DEF Plain, Place, Runs, Waits, Easy
<1>5. Len(stack) \in Nat
  BY TopStood
<1> QED BY <1>3, <1>4, <1>5, StoodStill

LEMMA EasyMove ==
    ASSUME Stepping, Top.proc \in Easy, NEW pc, NEW f, Moved(f, pc), Place(Top.proc, pc)
    PROVE  /\ Stood(f, Len(stack)) /\ Plain(f)
           /\ Grown => Still(f, Len(stack))
           /\ Top.proc \notin {"string", "params", "body"} => Len(stack) + 1 <= Room
<1>1. Stood(f, Len(stack)) /\ Plain(f) /\ (Grown => Still(f, Len(stack)))
  BY EofKind, EasyFrame DEF Moved
<1>2. Top.proc \notin {"string", "params", "body"} => Len(stack) + 1 <= Room
  BY TopStood DEF Stood, FrameOK, Roomy, Easy
<1> QED BY <1>1, <1>2

\* While there is a next token the end was not handed over.
LEMMA NotOver ==
    ASSUME Stepping, HasNext
    PROVE  ~ended
  BY LexNumbers, TopStood DEF HasNext, IInv, BehindCursor

LEMMA VisitListSteps ==
    ASSUME Stepping, ListStep
    PROVE  VisitorsInv'
<1> USE PlacesOfOthers, CallsOfOthers, MovedFrames
<1>1. CASE ListEnd
  BY <1>1, QuietReturn DEF ListEnd, AtList, At, NoTaker, Return, Quietly
<1>2. CASE ListNext
  <2>1. Top.proc \in {"args", "tuple"} /\ Top.pc = "next" /\ NextToken /\ Takes
    BY <1>2 DEF ListNext, AtList, At, Takes
  <2>2. CASE Return(Node("list", Top.acc))
    BY <2>1, <2>2, TakingReturn DEF Return
  <2>3. CASE Call(At_(Top, "got"), Visitor(lex'.currentToken, FALSE))
    <3>1. Grown
      BY <2>1, TakesGrow
    <3>2. Still(At_(Top, "got"), Len(stack)) /\ Len(stack) + 1 <= Room
      BY <2>1, <3>1, EasyMove DEF Easy
    <3> QED BY <2>1, <2>3, <3>2, StartsVisitor
  <2> QED BY <1>2, <2>2, <2>3 DEF ListNext
<1>3. CASE ListGot
  <2>1. Top.proc \in {"args", "tuple"} /\ NoLexer /\ NoTaker
    BY <1>3 DEF ListGot, AtList, At, NoTaker
  <2>2. CASE Stop("crashed")
    BY <2>1, <2>2, StopsAnyhow
  <2>3. CASE \E n, o : ReturnOwning(n, o)
    BY <2>1, <2>3, QuietReturn DEF Quietly
  <2>4. CASE Goto(At_(Owning(Plus(Top, ret), owned), "next"))
    BY <2>1, <2>4, OwningFrames, QuietGoto, EasyMove DEF Easy, Moved, Quietly
  <2> QED BY <1>3, <2>2, <2>3, <2>4 DEF ListGot
<1>4. CASE StringNext
  <2>1. Top.proc = "string" /\ Top.pc = "next" /\ NextTokenWithWS /\ Takes
    BY <1>4 DEF StringNext, At, Takes
  <2>2. CASE \E n : Return(n)
    BY <2>1, <2>2, TakingReturn DEF Return
  <2>3. CASE \E n : Goto(Plus(Top, n))
    <3>1. PICK n : Goto(Plus(Top, n))
      BY <2>3
    <3>2. Grown
      BY <2>1, TakesGrow
    <3>3. Still(Plus(Top, n), Len(stack)) /\ Plain(Plus(Top, n))
      BY <2>1, <3>2, EasyMove DEF Easy
    <3>4. Plus(Top, n).proc = Top.proc
      BY DEF Moved
    <3> QED BY <2>1, <3>1, <3>3, <3>4, TakingGoto
  <2> QED BY <1>4, <2>2, <2>3 DEF StringNext
<1>5. CASE StringEnd
  BY <1>5, QuietReturn DEF StringEnd, At, NoTaker, Return, Quietly
<1> QED BY <1>1, <1>2, <1>3, <1>4, <1>5 DEF ListStep

LEMMA NewFrame ==
    \A proc, pc : LET g == Frame(proc, pc)
                  IN /\ g.proc = proc /\ g.pc = pc /\ g.tok = Null
                     /\ g.nl = FALSE /\ g.rhs = FALSE
  BY DEF Frame

\* A new frame that owns a token.
LEMMA OwningFrame ==
    \A proc, pc, o : LET g == Owning(Frame(proc, pc), o)
                     IN /\ g.proc = proc /\ g.pc = pc /\ g.tok = Null
                        /\ g.nl = FALSE /\ g.rhs = FALSE
  BY DEF Frame, Owning

LEMMA VisitIfSteps ==
    ASSUME Stepping, Top.proc = "if", IfStep
    PROVE  VisitorsInv'
<1> USE PlacesOfOthers, CallsOfOthers, MovedFrames, TopStood, EofKind, NewFrame
<1>0. Len(stack) + 1 <= Room /\ Roomy(Top, Len(stack), Room, ended, lex.currentToken, Eof)
  BY DEF Stood, FrameOK, Roomy
<1>1. CASE IfStart
  <2> DEFINE f == At_(Top, "cond")
  <2>1. /\ NextToken /\ Taken(lex'.currentToken) /\ Moved(f, "cond")
        /\ Call(f, Visitor(lex'.currentToken, FALSE))
    BY <1>1, NextTokenTook DEF IfStart
  <2>2. Roomy(f, Len(stack), Room', ended', lex'.currentToken, Eof)
    BY <1>0, <2>1 DEF Moved, Roomy, Taken
  <2>3. Still(f, Len(stack))
    BY <2>1, <2>2, MovedStill
  <2> QED BY <1>0, <2>1, <2>3, StartsVisitor
<1>2. CASE IfCond
  <2> DEFINE f == [Top EXCEPT !.pc = "block", !.cur = ret, !.own = owned]
             g == Frame("cond", "next")
  <2>1. NoLexer /\ NoTaker /\ Top.pc = "cond" /\ Call(f, g) /\ Moved(f, "block")
    BY <1>2, OwningFrames DEF IfCond, At, NoTaker
  <2>2. g.proc = "cond" /\ g.pc = "next" /\ g.tok = Null /\ g.nl = FALSE /\ g.rhs = FALSE
    OBVIOUS
  <2> HIDE DEF f, g
  <2>3. /\ Roomy(f, Len(stack), Room, ended, lex.currentToken, Eof)
        /\ Roomy(g, Len(stack) + 1, Room, ended, lex.currentToken, Eof)
    BY <1>0, <2>1, <2>2 DEF Moved, Roomy
  <2>4. Stood(f, Len(stack))
    BY <2>1, <2>3, MovedStood
  <2>5. Stood(g, Len(stack) + 1) /\ Plain(g)
    BY <2>2, <2>3 DEF Stood, FrameOK, Plain
  <2> QED BY <2>1, <2>2, <2>4, <2>5, QuietCall DEF Moved
<1>3. CASE IfBlock
  <2>1. NoLexer /\ NoTaker /\ Top.pc = "block"
    BY <1>3 DEF IfBlock, At, NoTaker
  <2>2. CASE Stop("crashed") \/ Stop("syntaxError")
    BY <2>1, <2>2, StopsAnyhow
  <2>3. CASE /\ Kind(lex.currentToken) = "}"
             /\ Goto([Owning(Top, owned) EXCEPT !.pc = "else", !.acc = <<Top.cur, ret>>])
    <3> DEFINE f == [Owning(Top, owned) EXCEPT !.pc = "else", !.acc = <<Top.cur, ret>>]
    <3>1. Goto(f) /\ Moved(f, "else")
      BY <2>3, OwningFrames
    <3> HIDE DEF f
    <3>2. Roomy(f, Len(stack), Room, ended, lex.currentToken, Eof)
      BY <1>0, <3>1 DEF Moved, Roomy
    <3>3. Stood(f, Len(stack))
      BY <3>1, <3>2, MovedStood
    <3>4. Grown /\ Leaves(lex', f.proc, f.pc)
      BY <2>1, QuietLexer DEF Quietly
    <3>5. Knows(lex', f.proc, f.pc)
      BY <2>1, <2>3, <3>1 DEF Knows, Moved, NoLexer, lexVars
    <3> QED BY <3>1, <3>3, <3>4, <3>5, StoodStill, GotoVisits DEF Moved
  <2> QED BY <1>3, <2>2, <2>3 DEF IfBlock
<1>4. CASE IfElse
  <2>1. /\ PeekNext /\ Top.pc = "else" /\ Grown /\ lex'.currentToken = lex.currentToken
    BY <1>4, PeekTook DEF IfElse, At
  <2>2. CASE Goto(At_(Top, "elseKeyword"))
    <3> DEFINE f == At_(Top, "elseKeyword")
    <3>1. Goto(f) /\ Moved(f, "elseKeyword")
      BY <2>2
    <3> HIDE DEF f
    <3>2. Roomy(f, Len(stack), Room, ended, lex.currentToken, Eof)
      BY <1>0, <3>1 DEF Moved, Roomy
    <3>3. Stood(f, Len(stack))
      BY <3>1, <3>2, MovedStood
    <3>4. Leaves(lex', f.proc, f.pc) /\ Knows(lex', f.proc, f.pc)
      BY <3>1 DEF Moved, Leaves, Takers, Knows
    <3> QED BY <2>1, <3>1, <3>3, <3>4, StoodStill, GotoVisits DEF Moved
  <2>3. CASE Return(Node("if", Top.acc))
    <3>1. Kind(lex.currentToken) = "}"
      BY <2>1 DEF Stepping, VisitorsInv, Knows
    <3>2. Leaves(lex', "", "")
      BY <2>1, <3>1 DEF Leaves
    <3> QED BY <2>1, <2>3, <3>2, ReturnVisits DEF Return
  <2> QED BY <1>4, <2>2, <2>3 DEF IfElse
<1>5. CASE IfElseKeyword
  <2> DEFINE f == At_(Owning(Top, <<lex'.currentToken>>), "elseCurl")
  <2>1. NextToken /\ Takes /\ Goto(f) /\ Moved(f, "elseCurl") /\ Grown
    BY <1>5, TakesGrow, OwningFrames DEF IfElseKeyword, Takes
  <2> HIDE DEF f
  <2>2. Roomy(f, Len(stack), Room, ended, lex.currentToken, Eof)
    BY <1>0, <2>1 DEF Moved, Roomy
  <2>3. Still(f, Len(stack)) /\ Plain(f)
    BY <2>1, <2>2, MovedStood, StoodStill DEF Plain, Moved
  <2> QED BY <2>1, <2>3, TakingGoto DEF Moved
<1>6. CASE IfElseCurl
  <2> DEFINE f == At_(Owning(Top, <<lex'.currentToken>>), "elseBlock")
             g == Frame("cond", "next")
  <2>1. /\ NextToken /\ Takes /\ Grown /\ Taken(lex'.currentToken)
        /\ Call(f, g) /\ Moved(f, "elseBlock")
    BY <1>6, TakesGrow, NextTokenTook, OwningFrames DEF IfElseCurl, Takes
  <2>2. g.proc = "cond" /\ g.pc = "next" /\ g.tok = Null /\ g.nl = FALSE /\ g.rhs = FALSE
    OBVIOUS
  <2> HIDE DEF f, g
  <2>3. /\ Roomy(f, Len(stack), Room, ended, lex.currentToken, Eof)
        /\ Roomy(g, Len(stack) + 1, Room', ended', lex'.currentToken, Eof)
    BY <1>0, <2>1, <2>2 DEF Moved, Roomy, Taken
  <2>4. Still(f, Len(stack))
    BY <2>1, <2>3, MovedStood, StoodStill
  <2>5. Still(g, Len(stack) + 1) /\ Plain(g)
    BY <2>2, <2>3 DEF Still, FrameOK, Plain
  <2> QED BY <2>1, <2>2, <2>4, <2>5, TakingCall DEF Moved
<1>7. CASE IfElseBlock
  BY <1>7, QuietReturn, StopsAnyhow DEF IfElseBlock, At, NoTaker, Quietly
<1>8. Top.proc # "cond"
  OBVIOUS
<1> QED
  BY <1>1, <1>2, <1>3, <1>4, <1>5, <1>6, <1>7, <1>8
     DEF IfStep, At, CondNext, CondDelete, CondSkip, CondTake, CondGot, CondLast

LEMMA VisitBlockSteps ==
    ASSUME Stepping, Top.proc = "cond", IfStep
    PROVE  VisitorsInv'
<1> USE PlacesOfOthers, CallsOfOthers, MovedFrames, TopStood, EofKind
<1>0. Roomy(Top, Len(stack), Room, ended, lex.currentToken, Eof)
  BY DEF Stood, FrameOK
<1>1. HasNext => ~ended
  BY NotOver
\* The moves within the block, but to the place that needs more room.
<1>2. ASSUME Grown, NEW pc, pc \in {"next", "delete", "skip", "last", "got"},
             NEW f, Moved(f, pc)
      PROVE  Still(f, Len(stack)) /\ Stood(f, Len(stack)) /\ Plain(f) /\ f.proc = Top.proc
  <2>1. Roomy(f, Len(stack), Room, ended, lex.currentToken, Eof)
    BY <1>0, <1>2 DEF Moved, Roomy
  <2>2. Place(Top.proc, pc)
    BY <1>2
  <2>3. Stood(f, Len(stack))
    BY <1>2, <2>1, <2>2, MovedStood
  <2> QED BY <1>2, <2>3, StoodStill DEF Moved, Plain
<1>3. CASE CondNext
  <2>1. Top.pc = "next" /\ NoTaker
    BY <1>3 DEF CondNext, At, NoTaker
  <2>2. CASE ~HasNext
    <3>1. NoLexer /\ Goto(At_(Top, "last")) /\ Grown
      BY <1>3, <2>2, NothingTook DEF CondNext, Quietly
    <3> QED BY <1>2, <2>1, <3>1, QuietGoto DEF Quietly
  <2>3. CASE HasNext
    <3>1. PeekNext /\ Grown
      BY <1>3, <2>3, PeekTook DEF CondNext
    <3>2. PICK pc \in {"delete", "last", "take"} : Goto(At_(Top, pc))
      BY <1>3, <2>3 DEF CondNext
    <3> DEFINE f == At_(Top, pc)
    <3>3. Moved(f, pc) /\ Goto(f)
      BY <3>2
    <3> HIDE DEF f
    <3>4. Still(f, Len(stack))
      <4>1. CASE pc = "take"
        <5>1. Roomy(f, Len(stack), Room, ended, lex.currentToken, Eof)
          BY <1>0, <1>1, <2>1, <2>3, <3>3, <4>1 DEF Moved, Roomy
        <5> QED BY <3>1, <3>3, <4>1, <5>1, MovedStood, StoodStill
      <4>2. CASE pc # "take"
        BY <1>2, <3>1, <3>2, <3>3, <4>2
      <4> QED BY <4>1, <4>2
    <3>5. Leaves(lex', f.proc, f.pc) /\ Knows(lex', f.proc, f.pc)
      BY <3>2, <3>3 DEF Leaves, Takers, Knows, Moved
    <3> QED BY <3>1, <3>3, <3>4, <3>5, GotoVisits DEF Moved
  <2> QED BY <2>2, <2>3
<1>4. CASE CondDelete
  <2> DEFINE f == At_(Top, "skip")
  <2>1. Grown /\ Goto(f) /\ Moved(f, "skip")
    BY <1>4, NothingTook DEF CondDelete, Quietly
  <2> HIDE DEF f
  <2>2. Leaves(lex', f.proc, f.pc) /\ Knows(lex', f.proc, f.pc)
    BY <2>1 DEF Leaves, Takers, Knows, Moved
  <2> QED BY <1>2, <2>1, <2>2, GotoVisits
<1>5. CASE CondSkip
  <2>1. Takes /\ Grown /\ Goto(At_(Top, "next"))
    BY <1>5, TakesGrow DEF CondSkip, Takes
  <2> QED BY <1>2, <2>1, TakingGoto
<1>6. CASE CondTake
  <2> DEFINE f == At_(Top, "got")
  <2>1. /\ Top.pc = "take" /\ NextToken /\ Grown /\ Moved(f, "got")
        /\ Call(f, Visitor(lex'.currentToken, FALSE))
    BY <1>6, NextTokenTook DEF CondTake, At
  <2>2. Len(stack) + 1 <= Room
    BY <1>0, <2>1 DEF Roomy
  <2> QED BY <1>2, <2>1, <2>2, StartsVisitor
<1>7. CASE CondGot
  <2>1. NoLexer /\ NoTaker /\ Goto(At_(Owning(Plus(Top, ret), owned), "next")) /\ Grown
    BY <1>7, NothingTook DEF CondGot, At, NoTaker, Quietly
  <2> QED BY <1>2, <2>1, OwningFrames, QuietGoto DEF Quietly
<1>8. CASE CondLast
  BY <1>8, TakingReturn DEF CondLast, Takes, Return
<1> QED
  BY <1>3, <1>4, <1>5, <1>6, <1>7, <1>8
     DEF IfStep, At, IfStart, IfCond, IfBlock, IfElse, IfElseKeyword, IfElseCurl, IfElseBlock

LEMMA EasyGoto ==
    ASSUME Stepping, Top.proc \in Easy, Takes \/ Quietly, NEW f, f.proc = Top.proc,
           Place(Top.proc, f.pc), f.tok \in Null..Eof, f.nl = Top.nl, f.rhs = Top.rhs, Goto(f)
    PROVE  VisitorsInv'
<1>1. Stood(f, Len(stack)) /\ Plain(f) /\ (Grown => Still(f, Len(stack)))
  BY EasyFrame
<1>2. CASE Takes
  BY <1>1, <1>2, TakesGrow, TakingGoto
<1>3. CASE Quietly
  <2>1. Place(Top.proc, Top.pc)
    BY TopStood DEF Stood, FrameOK
  <2>2. NoTaker
    BY <2>1 DEF Place, Runs, Waits, Easy, NoTaker
  <2> QED BY <1>1, <1>3, <2>2, QuietGoto
<1> QED BY <1>2, <1>3

LEMMA EasyMoveOn ==
    ASSUME Stepping, Top.proc \in Easy, Takes \/ Quietly, NEW pc, NEW f, Moved(f, pc),
           Place(Top.proc, pc), Goto(f)
    PROVE  VisitorsInv'
  BY EofKind, EasyGoto DEF Moved

\* A parameter list, a type and a body, each after a token was taken.
LEMMA FunCalls ==
    ASSUME Stepping, NextTokenSkipNL, Top.proc = "fun", NEW pc, NEW f, Moved(f, pc),
           NEW g, Call(f, g),
           \/ pc = "params" /\ \E o : g = Owning(Frame("params", "next"), o)
           \/ pc = "body" /\ g = Frame("body", "next")
           \/ pc = "curl" /\ g = [Frame("type", "visit") EXCEPT !.tok = ReturnedSkipNL(lex)]
    PROVE  VisitorsInv'
<1> USE PlacesOfOthers, CallsOfOthers
<1> DEFINE t == ReturnedSkipNL(lex)
<1>1. Takes /\ Grown /\ Taken(t)
  BY TopStood, NextTokenSkipNLTook DEF Takes
<1>2. /\ g.nl = FALSE /\ g.rhs = FALSE /\ g.tok \in Null..Eof
      /\ g.proc = "params" \/ g.proc = "body" \/ (g.proc = "type" /\ g.tok = t)
      /\ g.proc = "type" => g.pc = "visit"
      /\ g.proc \in {"params", "body"} => g.pc = "next"
      /\ Awaits("fun", pc, g.proc) /\ Place("fun", pc) /\ Place(g.proc, g.pc)
  <2>1. CASE pc = "params" /\ \E o : g = Owning(Frame("params", "next"), o)
    BY <2>1, EofKind DEF Frame, Owning
  <2>2. CASE pc = "body" /\ g = Frame("body", "next")
    BY <2>2, EofKind DEF Frame
  <2>3. CASE pc = "curl" /\ g = [Frame("type", "visit") EXCEPT !.tok = t]
    BY <1>1, <2>3 DEF Frame, Taken
  <2> QED BY <2>1, <2>2, <2>3
<1> HIDE DEF t
<1>3. Still(f, Len(stack)) /\ Len(stack) + 1 <= Room
  BY <1>1, <1>2, EasyMove DEF Easy
<1>4. Len(stack) \in Nat /\ Room \in Nat
  BY TopStood
<1>5. Roomy(g, Len(stack) + 1, Room', ended', lex'.currentToken, Eof)
  BY <1>1, <1>2, <1>3, <1>4 DEF Roomy, Taken
<1>6. Still(g, Len(stack) + 1) /\ Plain(g)
  BY <1>2, <1>5 DEF Still, FrameOK, Plain
<1> QED BY <1>1, <1>2, <1>3, <1>6, TakingCall DEF Moved

LEMMA VisitFunSteps ==
    ASSUME Stepping, Top.proc = "fun", FunStep
    PROVE  VisitorsInv'
<1> USE PlacesOfOthers, MovedFrames, OwningFrames DEF Easy
<1>1. CASE FunName
  <2>1. Takes
    BY <1>1 DEF FunName, Takes
  <2>2. CASE \E n, o : Goto(At_(Owning(Plus(Top, n), o), "lparen"))
    BY <2>1, <2>2, EasyMoveOn
  <2>3. CASE Stop("syntaxError")
    BY <2>1, <2>3, StopsAnyhow
  <2> QED BY <1>1, <2>2, <2>3 DEF FunName
<1>2. CASE FunLeftParenthesis
  BY <1>2, FunCalls, StopsAnyhow DEF FunLeftParenthesis, Takes
<1>3. CASE FunArrow
  <2>1. NextTokenSkipNL /\ Takes
    BY <1>3 DEF FunArrow, Takes
  <2>2. CASE Goto(At_(Owning(Plus(Top, ret), owned), "type"))
    BY <2>1, <2>2, EasyMoveOn
  <2>3. CASE \E n, o : Call(At_(Owning(Plus(Owning(Plus(Top, ret), owned), n), o), "body"),
                            Frame("body", "next"))
    BY <2>1, <2>3, FunCalls
  <2>4. CASE Stop("syntaxError")
    BY <2>1, <2>4, StopsAnyhow
  <2> QED BY <1>3, <2>2, <2>3, <2>4 DEF FunArrow
<1>4. CASE FunType
  BY <1>4, FunCalls DEF FunType
<1>5. CASE FunCurl
  BY <1>5, FunCalls DEF FunCurl
<1>6. CASE FunEnd
  BY <1>6, TakingReturn DEF FunEnd, Takes
<1> QED
  BY <1>1, <1>2, <1>3, <1>4, <1>5, <1>6
     DEF FunStep, At, TypeVisit, TypeElement, TypeArray, ParamName, ParamDelete, ParamType,
         ParamEnd, ParamCheck, BodyNext, BodyDelete, BodyGot, BodyEnd

LEMMA VisitTypeSteps ==
    ASSUME Stepping, Top.proc = "type", FunStep
    PROVE  VisitorsInv'
<1> USE PlacesOfOthers, MovedFrames, OwningFrames, TopStood, EofKind
<1>0. Roomy(Top, Len(stack), Room, ended, lex.currentToken, Eof)
  BY DEF Stood, FrameOK
<1>1. CASE TypeVisit
  <2>1. Top.pc = "visit" /\ NoTaker
    BY <1>1 DEF TypeVisit, At, NoTaker
  <2>2. CASE NoLexer /\ Stop("syntaxError")
    BY <2>2, StopsAnyhow
  <2>3. CASE NoLexer /\ \E n, o : ReturnOwning(n, o)
    BY <2>1, <2>3, QuietReturn DEF Quietly
  <2>4. CASE /\ Kind(Top.tok) = "[" /\ NextToken
             /\ \E o : Goto(At_(Owning(Top, o), "bracket"))
    <3>0. PICK o : Goto(At_(Owning(Top, o), "bracket"))
      BY <2>4
    <3> DEFINE f == At_(Owning(Top, o), "bracket")
    <3>1. Takes /\ Grown /\ Top.tok # Eof /\ Moved(f, "bracket") /\ Goto(f)
      BY <2>4, <3>0, TakesGrow DEF Takes
    <3> HIDE DEF f
    <3>2. Roomy(f, Len(stack), Room, ended, lex.currentToken, Eof)
      BY <1>0, <3>1 DEF Roomy, Moved
    <3>3. Still(f, Len(stack)) /\ Plain(f)
      BY <3>1, <3>2, MovedStood, StoodStill DEF Plain, Moved
    <3> QED BY <3>1, <3>3, TakingGoto DEF Moved
  <2> QED BY <1>1, <2>2, <2>3, <2>4 DEF TypeVisit, Return
<1>2. CASE TypeElement
  <2> DEFINE t == lex'.currentToken
             f == At_(Top, "array")
             g == [Frame("type", "visit") EXCEPT !.tok = t]
  <2>1. /\ Takes /\ Grown /\ Top.pc = "bracket" /\ Moved(f, "array") /\ Call(f, g)
        /\ Taken(t)
    BY <1>2, TakesGrow, NextTokenTook DEF TypeElement, Takes, At
  <2>2. g.proc = "type" /\ g.pc = "visit" /\ g.tok = t /\ g.nl = FALSE /\ g.rhs = FALSE
    BY DEF Frame
  <2> HIDE DEF t, f, g
  <2>3. /\ Roomy(f, Len(stack), Room, ended, lex.currentToken, Eof)
        /\ Roomy(g, Len(stack) + 1, Room', ended', lex'.currentToken, Eof)
    BY <1>0, <2>1, <2>2 DEF Roomy, Moved, Taken
  <2>4. Still(f, Len(stack))
    BY <2>1, <2>3, MovedStood, StoodStill
  <2>5. Still(g, Len(stack) + 1) /\ Plain(g)
    BY <2>1, <2>2, <2>3 DEF Still, FrameOK, Plain, Taken
  <2> QED BY <2>1, <2>2, <2>4, <2>5, CallsOfOthers, TakingCall DEF Moved
<1>3. CASE TypeArray
  BY <1>3, QuietReturn, StopsAnyhow DEF TypeArray, At, NoTaker, Quietly
<1> QED
  BY <1>1, <1>2, <1>3
     DEF FunStep, At, FunName, FunLeftParenthesis, FunArrow, FunType, FunCurl, FunEnd,
         ParamName, ParamDelete, ParamType, ParamEnd, ParamCheck,
         BodyNext, BodyDelete, BodyGot, BodyEnd

LEMMA TokMoved ==
    ASSUME Stepping
    PROVE  \A pc, t : LET f == [Top EXCEPT !.pc = pc, !.tok = t]
                      IN f.proc = Top.proc /\ f.pc = pc /\ f.tok = t /\ f.nl = Top.nl
                         /\ f.rhs = Top.rhs
<1>1. IsFrame(Top)
  BY TopStood
<1> HIDE DEF Top
<1> QED BY <1>1 DEF IsFrame

LEMMA VisitParamSteps ==
    ASSUME Stepping, Top.proc = "params", FunStep
    PROVE  VisitorsInv'
<1> USE PlacesOfOthers, MovedFrames, OwningFrames DEF Easy
<1> DEFINE t == ReturnedSkipNL(lex)
\* Where the list goes on after a token.
<1>1. ASSUME NextTokenSkipNL,
             \/ \E n, o : \E pc \in {"next", "check"} :
                    Goto(At_(Owning(Plus(Top, n), o), pc)) \/ Goto(At_(Owning(Top, o), pc))
             \/ \E pc \in {"delete", "type"} : Goto([Top EXCEPT !.pc = pc, !.tok = t])
             \/ Stop("syntaxError")
      PROVE  VisitorsInv'
  <2>1. Takes /\ t \in Null..Eof
    BY <1>1, TopStood, NextTokenSkipNLTook DEF Takes, Taken
  <2> HIDE DEF t
  <2>2. CASE \E n, o : \E pc \in {"next", "check"} :
                Goto(At_(Owning(Plus(Top, n), o), pc)) \/ Goto(At_(Owning(Top, o), pc))
    BY <2>1, <2>2, EasyMoveOn
  <2>3. CASE \E pc \in {"delete", "type"} : Goto([Top EXCEPT !.pc = pc, !.tok = t])
    <3>1. PICK pc \in {"delete", "type"} : Goto([Top EXCEPT !.pc = pc, !.tok = t])
      BY <2>3
    <3> DEFINE f == [Top EXCEPT !.pc = pc, !.tok = t]
    <3>2. /\ f.proc = Top.proc /\ f.pc = pc /\ f.tok = t /\ f.nl = Top.nl /\ f.rhs = Top.rhs
          /\ Goto(f)
      BY <3>1, TokMoved
    <3> HIDE DEF f
    <3> QED BY <2>1, <3>1, <3>2, EasyGoto
  <2>4. CASE Stop("syntaxError")
    BY <2>1, <2>4, StopsAnyhow
  <2> QED BY <1>1, <2>2, <2>3, <2>4
<1>2. CASE ParamName
  <2>1. NextTokenSkipNL
    BY <1>2 DEF ParamName
  <2>2. \/ Goto(At_(Owning(Top, <<t>>), "check"))
        \/ Goto([Top EXCEPT !.pc = "delete", !.tok = t])
        \/ Goto([Top EXCEPT !.pc = "type", !.tok = t])
        \/ Stop("syntaxError")
    BY <1>2 DEF ParamName
  <2> HIDE DEF t
  <2> QED BY <1>1, <2>1, <2>2
<1>3. CASE ParamDelete
  BY <1>3, EasyMoveOn DEF ParamDelete, Quietly
<1>4. CASE ParamType
  BY <1>1, <1>4 DEF ParamType
<1>5. CASE ParamEnd
  BY <1>5, EasyMoveOn DEF ParamEnd, Quietly
<1>6. CASE ParamCheck
  BY <1>6, QuietReturn, StopsAnyhow DEF ParamCheck, At, NoTaker, Return, Quietly
<1> QED
  BY <1>2, <1>3, <1>4, <1>5, <1>6
     DEF FunStep, At, FunName, FunLeftParenthesis, FunArrow, FunType, FunCurl, FunEnd,
         TypeVisit, TypeElement, TypeArray, BodyNext, BodyDelete, BodyGot, BodyEnd

LEMMA VisitBodySteps ==
    ASSUME Stepping, Top.proc = "body", FunStep
    PROVE  VisitorsInv'
<1> USE PlacesOfOthers, MovedFrames DEF Easy
<1>1. CASE BodyNext
  <2> DEFINE t == lex'.currentToken
  <2>1. NextToken /\ Takes /\ Grown /\ t \in Null..Eof /\ ~ended
    BY <1>1, TopStood, NextTokenTook, TakesGrow, NotOver DEF BodyNext, Takes, Taken
  <2>2. Len(stack) + 1 <= Room
    BY <2>1, TopStood DEF Stood, FrameOK, Roomy
  <2>3. CASE Return(Node("body", Top.acc))
    BY <2>1, <2>3, TakingReturn DEF Return
  <2>4. CASE Goto([Top EXCEPT !.pc = "delete", !.tok = t])
    <3> DEFINE f == [Top EXCEPT !.pc = "delete", !.tok = t]
    <3> HIDE DEF t
    <3>1. f.proc = Top.proc /\ f.pc = "delete" /\ f.tok = t /\ f.nl = Top.nl /\ f.rhs = Top.rhs
      BY TokMoved
    <3>2. Goto(f)
      BY <2>4
    <3> HIDE DEF f
    <3> QED BY <2>1, <3>1, <3>2, EasyGoto
  <2>5. CASE Call(At_(Top, "got"), Visitor(t, FALSE))
    <3>1. Still(At_(Top, "got"), Len(stack))
      BY <2>1, EasyMove
    <3> QED BY <2>1, <2>2, <2>5, <3>1, CallsOfOthers, StartsVisitor
  <2> QED BY <1>1, <2>3, <2>4, <2>5 DEF BodyNext
<1>2. CASE BodyDelete
  BY <1>2, EasyMoveOn DEF BodyDelete, Quietly
<1>3. CASE BodyGot
  <2>1. NoLexer /\ (Goto(At_(Top, "next")) \/ Goto(At_(Owning(Plus(Top, ret), owned), "next")))
    BY <1>3 DEF BodyGot
  <2>2. CASE Goto(At_(Top, "next"))
    BY <2>1, <2>2, EasyMoveOn DEF Quietly
  <2>3. CASE Goto(At_(Owning(Plus(Top, ret), owned), "next"))
    BY <2>1, <2>3, OwningFrames, EasyMoveOn DEF Quietly
  <2> QED BY <2>1, <2>2, <2>3
<1>4. CASE BodyEnd
  BY <1>4, QuietReturn DEF BodyEnd, At, NoTaker, Return, Quietly
<1> QED
  BY <1>1, <1>2, <1>3, <1>4
     DEF FunStep, At, FunName, FunLeftParenthesis, FunArrow, FunType, FunCurl, FunEnd,
         TypeVisit, TypeElement, TypeArray,
         ParamName, ParamDelete, ParamType, ParamEnd, ParamCheck

LEMMA VisitFunctionSteps ==
    ASSUME Stepping, FunStep
    PROVE  VisitorsInv'
<1>1. Top.proc \in {"fun", "type", "params", "body"}
  BY DEF FunStep, At, FunName, FunLeftParenthesis, FunArrow, FunType, FunCurl, FunEnd,
         TypeVisit, TypeElement, TypeArray,
         ParamName, ParamDelete, ParamType, ParamEnd, ParamCheck,
         BodyNext, BodyDelete, BodyGot, BodyEnd
<1> QED BY <1>1, VisitFunSteps, VisitTypeSteps, VisitParamSteps, VisitBodySteps

-----------------------------------------------------------------------------

\* A visitor that is started on a token taken before.
LEMMA LaterVisitor ==
    ASSUME Stepping, Len(stack) + 3 <= Room, NEW t \in Null..Eof
    PROVE  LET g == Visitor(t, FALSE)
           IN Stood(g, Len(stack) + 1) /\ Plain(g) /\ g.proc = "expr"
<1> DEFINE g == Visitor(t, FALSE)
           n == Len(stack)
<1>1. g.proc = "expr" /\ g.pc = "visit" /\ g.tok = t /\ g.nl = FALSE /\ g.rhs = FALSE
  BY DEF Visitor, Frame
<1>2. n \in Nat /\ Room \in Nat /\ n + 3 <= Room
  BY TopStood
<1> HIDE DEF g, n
<1>3. Roomy(g, n + 1, Room, ended, lex.currentToken, Eof)
  BY <1>1, <1>2 DEF Roomy
<1>4. Stood(g, n + 1) /\ Plain(g)
  BY <1>1, <1>3, PlacesOfExpr DEF Stood, FrameOK, Plain
<1> QED BY <1>1, <1>4 DEF g, n

LEMMA VisitWhileSteps ==
    ASSUME Stepping, Top.proc = "while", LoopStep
    PROVE  VisitorsInv'
<1> USE PlacesOfOthers, CallsOfOthers, MovedFrames, TopStood, EofKind
<1>0. Roomy(Top, Len(stack), Room, ended, lex.currentToken, Eof)
  BY DEF Stood, FrameOK
\* The moves within the loop, and those a taken token gives the room for.
<1>1. ASSUME Top.pc # "start", NEW pc \in {"loop", "got"}, NEW f, Moved(f, pc)
      PROVE  Stood(f, Len(stack)) /\ Plain(f) /\ f.proc = Top.proc
  <2>1. Roomy(f, Len(stack), Room, ended, lex.currentToken, Eof)
    BY <1>0, <1>1 DEF Moved, Roomy
  <2>2. Stood(f, Len(stack))
    BY <1>1, <2>1, MovedStood
  <2> QED BY <1>1, <2>2 DEF Moved, Plain
<1>2. CASE WhileStart
  <2> DEFINE f == At_(Top, "cond")
             t == lex'.currentToken
  <2>1. /\ NextToken /\ Taken(t) /\ Moved(f, "cond") /\ Call(f, Visitor(t, FALSE))
    BY <1>2, NextTokenTook DEF WhileStart
  <2>2. Len(stack) + 1 <= Room
    BY <1>0 DEF Roomy
  <2> HIDE DEF f
  <2>3. Roomy(f, Len(stack), Room', ended', t, Eof)
    BY <1>0, <2>1, <2>2 DEF Moved, Roomy, Taken
  <2>4. Still(f, Len(stack))
    BY <2>1, <2>3, MovedStill
  <2> QED BY <2>1, <2>2, <2>4, StartsVisitor DEF f
<1>3. CASE WhileCond
  <2> DEFINE f == [Owning(Top, owned) EXCEPT !.pc = "loop", !.cur = ret]
  <2>1. Takes /\ Grown /\ Top.pc # "start" /\ Goto(f) /\ Moved(f, "loop")
    BY <1>3, TakesGrow, OwningFrames DEF WhileCond, At, Takes
  <2> HIDE DEF f
  <2>2. Stood(f, Len(stack)) /\ Plain(f) /\ f.proc = Top.proc
    BY <1>1, <2>1
  <2> QED BY <2>1, <2>2, StoodStill, TakingGoto
<1>4. CASE WhileLoop
  <2>1. Top.pc = "loop" /\ HasNext /\ NoTaker
    BY <1>4 DEF WhileLoop, At, NoTaker
  <2>2. Len(stack) + 3 <= Room
    BY <1>0, <2>1, NotOver DEF Roomy
  <2>3. CASE NextToken /\ Goto(Top)
    <3>1. Takes /\ Grown
      BY <2>3, TakesGrow DEF Takes
    <3>2. Stood(Top, Len(stack)) /\ Plain(Top)
      BY <1>1, <2>1
    <3> QED BY <2>3, <3>1, <3>2, StoodStill, TakingGoto
  <2>4. CASE NoLexer /\ Call(At_(Top, "got"), Visitor(lex.currentToken, FALSE))
    <3> DEFINE f == At_(Top, "got")
               g == Visitor(lex.currentToken, FALSE)
    <3>1. Moved(f, "got") /\ Call(f, g)
      BY <2>4
    <3>2. Stood(g, Len(stack) + 1) /\ Plain(g) /\ g.proc = "expr"
      BY <2>2, LaterVisitor
    <3> HIDE DEF f, g
    <3>3. Stood(f, Len(stack)) /\ f.proc = Top.proc
      BY <1>1, <2>1, <3>1
    <3> QED BY <2>1, <2>4, <3>1, <3>2, <3>3, QuietCall DEF Moved
  <2> QED BY <1>4, <2>3, <2>4 DEF WhileLoop
<1>5. CASE WhileGot
  <2>1. NoLexer /\ NoTaker /\ Top.pc # "start"
    BY <1>5 DEF WhileGot, At, NoTaker
  <2>2. PICK f \in {At_(Top, "loop"), At_(Owning(Plus(Top, ret), owned), "loop")} : Goto(f)
    BY <1>5 DEF WhileGot
  <2>3. Moved(f, "loop")
    <3>1. Moved(At_(Top, "loop"), "loop") /\ Moved(At_(Owning(Plus(Top, ret), owned), "loop"), "loop")
      BY OwningFrames
    <3> QED BY <2>2, <3>1
  <2>4. Stood(f, Len(stack)) /\ Plain(f) /\ f.proc = Top.proc
    BY <1>1, <2>1, <2>3
  <2> QED BY <2>1, <2>2, <2>4, QuietGoto DEF Quietly
<1>6. CASE WhileEnd
  BY <1>6, QuietReturn, StopsAnyhow DEF WhileEnd, At, NoTaker, Return, Quietly
<1> QED
  BY <1>2, <1>3, <1>4, <1>5, <1>6
     DEF LoopStep, At, ForHead, ForPart, ForClear, ForBody, ForStmt

LEMMA VisitForSteps ==
    ASSUME Stepping, Top.proc = "for", LoopStep
    PROVE  VisitorsInv'
<1> USE PlacesOfOthers, CallsOfOthers, MovedFrames DEF Easy
\* A step of the loop that takes a token.
<1>1. ASSUME NextToken, NEW pc, pc \in {"part", "stmt"},
             \/ Goto(Top) \/ \E p \in {"clear", "head"} : Goto(At_(Top, p))
             \/ Stop("crashed")
             \/ Call(At_(Top, pc), Visitor(lex'.currentToken, FALSE))
      PROVE  VisitorsInv'
  <2>1. Takes /\ Grown
    BY <1>1, TakesGrow DEF Takes
  <2>2. CASE Goto(Top)
    <3>1. Place(Top.proc, Top.pc)
      BY TopStood DEF Stood, FrameOK
    <3> QED BY <2>1, <2>2, <3>1, EasyMoveOn
  <2>3. CASE \E p \in {"clear", "head"} : Goto(At_(Top, p))
    BY <2>1, <2>3, EasyMoveOn
  <2>4. CASE Stop("crashed")
    BY <2>1, <2>4, StopsAnyhow
  <2>5. CASE Call(At_(Top, pc), Visitor(lex'.currentToken, FALSE))
    <3>1. Still(At_(Top, pc), Len(stack)) /\ Len(stack) + 1 <= Room
      BY <1>1, <2>1, EasyMove
    <3>2. Awaits(Top.proc, pc, "expr")
      BY <1>1
    <3> QED BY <1>1, <2>5, <3>1, <3>2, StartsVisitor
  <2> QED BY <1>1, <2>2, <2>3, <2>4, <2>5
<1>2. CASE ForHead
  <2>1. CASE NoLexer /\ Goto(At_(Top, "clear"))
    BY <2>1, EasyMoveOn DEF Quietly
  <2>2. CASE NextToken
    BY <1>1, <1>2, <2>2 DEF ForHead, NextToken
  <2> QED BY <1>2, <2>1, <2>2 DEF ForHead
<1>3. CASE ForPart
  <2>1. NoLexer /\ \E p \in {"clear", "head"} : Goto(At_(Owning(Top, owned), p))
    BY <1>3 DEF ForPart
  <2> QED BY <2>1, OwningFrames, EasyMoveOn DEF Quietly
<1>4. CASE ForBody
  <2>1. CASE NoLexer /\ Stop("crashed")
    BY <2>1, StopsAnyhow
  <2>2. CASE NextToken
    BY <1>1, <1>4, <2>2 DEF ForBody
  <2> QED BY <1>4, <2>1, <2>2 DEF ForBody
<1>5. CASE ForStmt
  <2>1. NoLexer /\ (Stop("crashed") \/ Goto(At_(Owning(Top, owned), "body")))
    BY <1>5 DEF ForStmt
  <2> QED BY <2>1, OwningFrames, EasyMoveOn, StopsAnyhow DEF Quietly
<1>6. CASE ForClear
  BY <1>6, OwningFrames, EasyMoveOn DEF ForClear, Quietly
<1> QED
  BY <1>2, <1>3, <1>4, <1>5, <1>6
     DEF LoopStep, At, WhileStart, WhileCond, WhileLoop, WhileGot, WhileEnd

LEMMA VisitLoopSteps ==
    ASSUME Stepping, LoopStep
    PROVE  VisitorsInv'
<1>1. Top.proc \in {"while", "for"}
  BY DEF LoopStep, At, WhileStart, WhileCond, WhileLoop, WhileGot, WhileEnd,
         ForHead, ForPart, ForClear, ForBody, ForStmt
<1> QED BY <1>1, VisitWhileSteps, VisitForSteps

-----------------------------------------------------------------------------

\* The module's frame, at a place where it needs no more than before.
LEMMA ModuleFrame ==
    ASSUME Stepping, Top.proc = "module", Top.pc \notin {"package", "keyword"},
           NEW pc \in {"line", "top", "static", "import", "fun"}, NEW f, Moved(f, pc)
    PROVE  Stood(f, Len(stack)) /\ Plain(f) /\ f.proc = Top.proc /\ f.pc = pc
<1>1. Moved(f, pc) /\ Place(Top.proc, pc)
  BY PlacesOfOthers
<1>2. Roomy(Top, Len(stack), Room, ended, lex.currentToken, Eof)
  BY TopStood DEF Stood, FrameOK
<1>3. Roomy(f, Len(stack), Room, ended, lex.currentToken, Eof)
  BY <1>1, <1>2 DEF Moved, Roomy
<1>4. Stood(f, Len(stack))
  BY <1>1, <1>3, MovedStood
<1> QED BY <1>1, <1>4 DEF Moved, Plain

LEMMA ModuleCalls ==
    ASSUME Stepping, NoLexer, Top.proc = "module", Top.pc = "visit", Top.tok # Eof,
           NEW pc \in {"static", "import", "fun"}, NEW g, Call(At_(Top, pc), g),
           Awaits("module", pc, g.proc),
           \/ g = Visitor(Top.tok, FALSE)
           \/ g \in {Frame("if", "start"), Frame("for", "head")}
           \/ \E o : g \in {Owning(Frame("while", "start"), o), Owning(Frame("fun", "name"), o)}
    PROVE  VisitorsInv'
<1> DEFINE f == At_(Top, pc)
           n == Len(stack)
<1>1. Stood(f, n) /\ Plain(f) /\ f.proc = Top.proc /\ f.pc = pc
  BY ModuleFrame, MovedFrames
<1>2. n \in Nat /\ Room \in Nat /\ n + 4 <= Room
  BY TopStood DEF Stood, FrameOK, Roomy
<1>3. Stood(g, n + 1) /\ Plain(g)
  <2>1. CASE g = Visitor(Top.tok, FALSE)
    <3>1. Len(stack) + 3 <= Room /\ Top.tok \in Null..Eof
      BY <1>2, EofKind
    <3> QED BY <2>1, <3>1, LaterVisitor
  <2>2. CASE \/ g \in {Frame("if", "start"), Frame("for", "head")}
             \/ \E o : g \in {Owning(Frame("while", "start"), o), Owning(Frame("fun", "name"), o)}
    <3>1. /\ g.tok = Null /\ g.nl = FALSE /\ g.rhs = FALSE
          /\ \/ g.proc \in {"if", "while"} /\ g.pc = "start"
             \/ g.proc = "for" /\ g.pc = "head"
             \/ g.proc = "fun" /\ g.pc = "name"
      BY <2>2, NewFrame, OwningFrame
    <3> HIDE DEF n
    <3>2. Roomy(g, n + 1, Room, ended, lex.currentToken, Eof)
      BY <1>2, <3>1 DEF Roomy
    <3>3. Place(g.proc, g.pc) /\ Null \in Null..Eof
      BY <3>1, PlacesOfOthers, EofKind
    <3> QED BY <3>1, <3>2, <3>3 DEF Stood, FrameOK, Plain
  <2> QED BY <2>1, <2>2
<1>4. Call(f, g) /\ NoTaker
  BY DEF NoTaker
<1> HIDE DEF f
<1> QED BY <1>1, <1>3, <1>4, QuietCall

LEMMA VisitModule ==
    ASSUME Stepping, ModuleVisit
    PROVE  VisitorsInv'
<1> DEFINE k == Kind(Top.tok)
<1>1. Top.proc = "module" /\ Top.pc = "visit" /\ NoTaker
  BY DEF ModuleVisit, At, NoTaker
<1>2. CASE Quietly /\ Goto(At_(Top, "top"))
  BY <1>1, <1>2, ModuleFrame, MovedFrames, QuietGoto
<1>3. CASE NoLexer /\ Stop("syntaxError")
  BY <1>3, StopsAnyhow
<1>4. k # "eof" => Top.tok # Eof
  BY EofKind
<1>5. CASE NoLexer /\ k \in StaticStarts /\ Call(At_(Top, "static"), Visitor(Top.tok, FALSE))
  <2>1. "eof" \notin StaticStarts
    BY KindsAssumption DEF StaticStarts
  <2>2. Visitor(Top.tok, FALSE).proc = "expr"
    BY DEF Visitor, Frame
  <2> QED BY <1>1, <1>4, <1>5, <2>1, <2>2, CallsOfOthers, ModuleCalls
<1>6. CASE NoLexer /\ k = "import" /\ Call(At_(Top, "import"), Visitor(Top.tok, FALSE))
  <2>1. Visitor(Top.tok, FALSE).proc = "expr"
    BY DEF Visitor, Frame
  <2> QED BY <1>1, <1>4, <1>6, <2>1, CallsOfOthers, ModuleCalls
<1>7. CASE NoLexer /\ k = "if" /\ Call(At_(Top, "static"), Frame("if", "start"))
  BY <1>1, <1>4, <1>7, CallsOfOthers, NewFrame, ModuleCalls
<1>10. CASE /\ NoLexer /\ k = "while"
            /\ Call(At_(Top, "static"), Owning(Frame("while", "start"), <<Top.tok>>))
  <2> DEFINE g == Owning(Frame("while", "start"), <<Top.tok>>)
  <2>1. g.proc = "while" /\ \E o : g = Owning(Frame("while", "start"), o)
    BY OwningFrame
  <2>2. Call(At_(Top, "static"), g)
    BY <1>10
  <2> HIDE DEF g
  <2> QED BY <1>1, <1>4, <1>10, <2>1, <2>2, CallsOfOthers, ModuleCalls
<1>8. CASE NoLexer /\ k = "for" /\ Call(At_(Top, "static"), Frame("for", "head"))
  BY <1>1, <1>4, <1>8, CallsOfOthers, NewFrame, ModuleCalls
<1>9. CASE NoLexer /\ k = "fun" /\ Call(At_(Top, "fun"), Owning(Frame("fun", "name"), <<Top.tok>>))
  <2> DEFINE g == Owning(Frame("fun", "name"), <<Top.tok>>)
  <2>1. g.proc = "fun" /\ \E o : g = Owning(Frame("fun", "name"), o)
    BY OwningFrame
  <2>2. Call(At_(Top, "fun"), g)
    BY <1>9
  <2> HIDE DEF g
  <2> QED BY <1>1, <1>4, <1>9, <2>1, <2>2, CallsOfOthers, ModuleCalls
<1> QED
  BY <1>2, <1>3, <1>5, <1>6, <1>7, <1>8, <1>9, <1>10 DEF ModuleVisit, Quietly

\* The end of the module: what is left of the text.
LEMMA ModuleEnds ==
    ASSUME Stepping, ModuleEnd
    PROVE  VisitorsInv'
<1>1. Top.proc = "module" /\ Top.pc = "top" /\ ~HasNext /\ NoLexer
  BY DEF ModuleEnd, At
<1>2. CASE Stop("crashed")
  BY <1>1, <1>2, StopsAnyhow
<1>3. CASE status' = "parsed" /\ stack' = stack
  <2>1. lex' = lex /\ source' = source /\ Grown
    BY <1>1, TopStood, NothingTook DEF Quietly
  <2>2. lex.scanned = Size
    BY <1>1, LexNumbers, TopStood DEF HasNext, IInv, LexTypeOK, LexType
  <2>3. lex.peeked => \/ Kind(lex.peekedToken) \in {"}", "fun", "ret", "eof"}
                      \/ Kind(lex.currentToken) = "}"
                      \/ HasDot
    BY <1>1 DEF Stepping, VisitorsInv, Leaves, Takers
  <2>4. ParsedToTheEnd'
    BY <2>1, <2>2, <2>3 DEF ParsedToTheEnd, Size, HasDot, Tokens, Kind
  <2>5. FramesOK' /\ AwaitsOK'
    BY <1>3, <2>1, StackStays
  <2> QED BY <1>3, <2>4, <2>5 DEF VisitorsInv, Statuses
<1> QED BY <1>2, <1>3 DEF ModuleEnd

LEMMA VisitTop ==
    ASSUME Stepping, ModuleTop
    PROVE  VisitorsInv'
<1> DEFINE t == lex'.currentToken
           n == Len(stack)
<1>1. /\ Top.proc = "module" /\ Top.pc = "top" /\ NextToken /\ Takes /\ Taken(t)
      /\ Top.nl \in BOOLEAN /\ Top.rhs \in BOOLEAN
  BY TopStood, EofKind, NextTokenTook DEF ModuleTop, At, Takes
<1>2. n \in Nat /\ Room \in Nat /\ n + 2 <= Room
  BY <1>1, TopStood DEF Stood, FrameOK, Roomy
<1> HIDE DEF t, n
<1> DEFINE f == [Top EXCEPT !.pc = "visit", !.tok = t]
<1>3. f.proc = "module" /\ f.pc = "visit" /\ f.tok = t /\ f.nl = Top.nl /\ f.rhs = Top.rhs
  BY <1>1, TokMoved
<1>4. Goto(f)
  BY DEF ModuleTop, t
<1> HIDE DEF f
<1>5. Roomy(f, n, Room', ended', lex'.currentToken, Eof)
  BY <1>1, <1>2, <1>3 DEF Roomy, Taken
<1>6. Still(f, Len(stack)) /\ Plain(f)
  BY <1>1, <1>3, <1>5, PlacesOfOthers DEF Still, FrameOK, Plain, Taken, n
<1> QED BY <1>1, <1>3, <1>4, <1>6, TakingGoto

LEMMA VisitModuleSteps ==
    ASSUME Stepping, ModuleStep
    PROVE  VisitorsInv'
<1> USE PlacesOfOthers, MovedFrames, EofKind, TopStood
<1>0. Top.proc = "module" => Roomy(Top, Len(stack), Room, ended, lex.currentToken, Eof)
  BY DEF Stood, FrameOK
<1>1. CASE ModulePackage
  <2>1. Top.proc = "module" /\ PeekNext /\ Grown
    BY <1>1, PeekTook DEF ModulePackage, At
  <2>2. CASE Stop("syntaxError")
    BY <2>1, <2>2, StopsAnyhow
  <2>3. CASE Kind(lex'.peekedToken) = "package" /\ Goto(At_(Top, "keyword"))
    <3> DEFINE f == At_(Top, "keyword")
    <3>1. Goto(f) /\ Moved(f, "keyword") /\ lex'.peeked /\ lex'.peekedToken # Eof
      BY <2>1, <2>3, PeekTook
    <3> HIDE DEF f
    <3>2. Roomy(f, Len(stack), Room, ended, lex.currentToken, Eof)
      BY <1>0, <2>1, <3>1 DEF Moved, Roomy
    <3>3. Stood(f, Len(stack)) /\ f.proc = "module" /\ f.pc = "keyword"
      BY <2>1, <3>1, <3>2, MovedStood DEF Moved
    <3>4. Leaves(lex', f.proc, f.pc) /\ Knows(lex', f.proc, f.pc)
      BY <3>1, <3>3 DEF Leaves, Takers, Knows
    <3> QED BY <2>1, <3>1, <3>3, <3>4, StoodStill, GotoVisits
  <2> QED BY <1>1, <2>2, <2>3 DEF ModulePackage
<1>2. CASE ModuleKeyword
  <2> DEFINE f == At_(Owning(Top, <<lex'.currentToken>>), "line")
  <2>1. /\ Top.proc = "module" /\ Top.pc = "keyword" /\ NextToken /\ Takes /\ Goto(f)
        /\ Moved(f, "line")
    BY <1>2, OwningFrames DEF ModuleKeyword, At, Takes
  <2>2. lex.peeked /\ lex.peekedToken # Eof
    BY <2>1 DEF Stepping, VisitorsInv, Knows
  <2>3. Room' = Room + 2
    BY <2>1, <2>2, NextTokenTook DEF Taken
  <2> HIDE DEF f
  <2>4. Roomy(f, Len(stack), Room', ended', lex'.currentToken, Eof)
    BY <1>0, <2>1, <2>3 DEF Moved, Roomy
  <2>5. Still(f, Len(stack)) /\ f.proc = "module" /\ Plain(f)
    BY <2>1, <2>4, MovedStill DEF Moved, Plain
  <2> QED BY <2>1, <2>5, TakingGoto
<1>3. CASE ModuleLine
  <2>1. Top.proc = "module" /\ Top.pc = "line" /\ NoTaker
    BY <1>3 DEF ModuleLine, At, NoTaker
  <2>2. CASE NoLexer /\ Goto(At_(Top, "top"))
    BY <2>1, <2>2, ModuleFrame, QuietGoto DEF Quietly
  <2>3. CASE NextToken /\ \E o : \E pc \in {"top", "line"} : Goto(At_(Owning(Top, o), pc))
    <3>1. Takes /\ Grown
      BY <2>3, TakesGrow DEF Takes
    <3>2. PICK f : Goto(f) /\ \E pc \in {"top", "line"} : Moved(f, pc)
      BY <2>3, OwningFrames
    <3>6. PICK pc \in {"top", "line"} : Moved(f, pc)
      BY <3>2
    <3>4. pc \in {"line", "top", "static", "import", "fun"}
      BY <3>6
    <3>5. Top.pc \notin {"package", "keyword"}
      BY <2>1
    <3> HIDE MovedFrames, PlacesOfOthers
    <3>3. Stood(f, Len(stack)) /\ Plain(f) /\ f.proc = Top.proc
      BY <2>1, <3>4, <3>5, <3>6, ModuleFrame
    <3> QED BY <2>1, <3>1, <3>2, <3>3, StoodStill, TakingGoto
  <2> QED BY <1>3, <2>2, <2>3 DEF ModuleLine
<1>4. CASE ModuleTop
  BY <1>4, VisitTop
<1>5. CASE ModuleVisit
  BY <1>5, VisitModule
<1>6. CASE ModuleStatic
  <2> DEFINE f == At_(Owning(Plus(Top, ret), owned), "top")
  <2>1. /\ Top.proc = "module" /\ Top.pc = "static" /\ NoTaker /\ NoLexer /\ Goto(f)
        /\ Moved(f, "top")
    BY <1>6, OwningFrames DEF ModuleStatic, At, NoTaker
  <2> HIDE DEF f
  <2>2. Roomy(f, Len(stack), Room, ended, lex.currentToken, Eof)
    BY <1>0, <2>1 DEF Roomy, Moved
  <2>3. Stood(f, Len(stack)) /\ Plain(f)
    BY <2>1, <2>2, MovedStood DEF Moved, Plain
  <2> QED BY <2>1, <2>3, QuietGoto DEF Quietly, Moved
<1>7. CASE ModuleImport
  BY <1>7, ModuleFrame, OwningFrames, QuietGoto DEF ModuleImport, At, NoTaker, Quietly
<1>8. CASE ModuleFun
  <2> DEFINE f == At_(Owning(Top, owned), "top")
  <2>1. /\ Top.proc = "module" /\ Top.pc = "fun" /\ NoTaker /\ NoLexer
        /\ stack' = Below(f) /\ status' = "running"
    BY <1>8 DEF ModuleFun, At, NoTaker
  <2>0. Moved(f, "top")
    BY OwningFrames
  <2>2. Grown /\ Leaves(lex', f.proc, f.pc)
    BY <2>1, QuietLexer DEF Quietly
  <2>3. Stood(f, Len(stack)) /\ Plain(f) /\ f.proc = Top.proc
    BY <2>0, <2>1, ModuleFrame
  <2> HIDE DEF f
  <2>4. Still(f, Len(stack)) /\ Knows(lex', f.proc, f.pc)
    BY <2>2, <2>3, StoodStill, PlainKnows
  <2>5. IInv' /\ ParserInv /\ FramesOK /\ AwaitsOK
    BY DEF Stepping, ParserInv, VisitorsInv
  <2>6. FramesOK' /\ AwaitsOK' /\ Top' = f
    BY <2>1, <2>2, <2>3, <2>4, <2>5, GotoFrames
  <2>7. (Leaves(lex, Top.proc, Top.pc) /\ Knows(lex, Top.proc, Top.pc))'
    BY <2>2, <2>4, <2>6, LexerKept
  <2>8. status' \in Statuses /\ ParsedToTheEnd'
    BY <2>1 DEF Statuses, ParsedToTheEnd
  <2> QED BY <2>6, <2>7, <2>8 DEF VisitorsInv
<1>9. CASE ModuleEnd
  BY <1>9, ModuleEnds
<1> QED BY <1>1, <1>2, <1>3, <1>4, <1>5, <1>6, <1>7, <1>8, <1>9 DEF ModuleStep

-----------------------------------------------------------------------------
(* The invariant.                                                           *)

LEMMA VisitorsStart == ParserInit => VisitorsInv
<1> SUFFICES ASSUME ParserInit PROVE VisitorsInv
  OBVIOUS
<1> DEFINE f == Frame("module", "package")
<1>1. /\ stack = <<f>> /\ status = "running" /\ lex.peeked = FALSE
      /\ ParserInv /\ Room = 1 /\ Len(stack) = 1 /\ Top = f
  BY ParserInitInv DEF ParserInit, LexInit, Room, Top
<1>2. /\ f.proc = "module" /\ f.pc = "package" /\ f.tok = Null /\ f.nl = FALSE
      /\ f.rhs = FALSE
  BY DEF Frame
<1> HIDE DEF f
<1>3. Null \in Null..Eof
  BY <1>1, LexNumbers DEF ParserInv, Null
<1>4. Roomy(f, 1, Room, ended, lex.currentToken, Eof)
  BY <1>1, <1>2 DEF Roomy
<1>5. FrameOK(f, 1, Room, ended, lex.currentToken, Eof, HasDot)
  BY <1>2, <1>3, <1>4, PlacesOfOthers DEF FrameOK
<1>6. FramesOK /\ AwaitsOK
  BY <1>1, <1>5 DEF FramesOK, AwaitsOK
<1>7. Leaves(lex, Top.proc, Top.pc) /\ Knows(lex, Top.proc, Top.pc)
  BY <1>1, <1>2 DEF Leaves, Knows
<1> QED BY <1>1, <1>6, <1>7 DEF VisitorsInv, Statuses, ParsedToTheEnd

LEMMA VisitorsStay ==
    ASSUME VisitorsInv, UNCHANGED vars
    PROVE  VisitorsInv'
<1>1. /\ source' = source /\ lex' = lex /\ delivered' = delivered /\ ended' = ended
      /\ stack' = stack /\ status' = status
  BY DEF vars, lexVars, parserVars
<1> QED BY <1>1 DEF VisitorsInv, FramesOK, AwaitsOK, ParsedToTheEnd, Leaves, Knows, Takers,
                    Top, Room, HasDot, Kind, Tokens, Size, Eof

LEMMA StepsRun == ParserNext => status = "running"
<1>1. ExprStep => status = "running"
  BY DEF ExprStep, At, Visits, VisitNewLine, GoFurther, TakeFurther, VisitLiteral, VisitNumber,
         VisitTrue, VisitFalse, VisitQuotionMark, VisitOperator, VisitLeftParenthesis, VisitDot,
         VisitRetOrImport, VisitIf, VisitFor, VisitOther, StringDone, OpDone, IfDone,
         LesserDone, CallDone, TupleDone, DotDone, RetDone, ImportDone
<1>2. OpStep \/ ListStep \/ IfStep => status = "running"
  BY DEF OpStep, ListStep, IfStep, At, AtList, OpStart, OpRight, OpTail, ListEnd, ListNext,
         ListGot, StringNext, StringEnd, IfStart, IfCond, IfBlock, IfElse, IfElseKeyword,
         IfElseCurl, IfElseBlock, CondNext, CondDelete, CondSkip, CondTake, CondGot, CondLast
<1>3. FunStep => status = "running"
  BY DEF FunStep, At, FunName, FunLeftParenthesis, FunArrow, FunType, FunCurl, FunEnd,
         TypeVisit, TypeElement, TypeArray,
         ParamName, ParamDelete, ParamType, ParamEnd, ParamCheck,
         BodyNext, BodyDelete, BodyGot, BodyEnd
<1>4. LoopStep \/ ModuleStep \/ DeadToken => status = "running"
  BY DEF LoopStep, ModuleStep, DeadToken, ReadsCurrent, At, WhileStart, WhileCond, WhileLoop,
         WhileGot, WhileEnd, ForHead, ForPart, ForClear, ForBody, ForStmt, ModulePackage,
         ModuleKeyword,
         ModuleLine, ModuleTop, ModuleVisit, ModuleStatic, ModuleImport, ModuleFun, ModuleEnd
<1> QED BY <1>1, <1>2, <1>3, <1>4 DEF ParserNext

LEMMA VisitorsStep == ParserInv /\ VisitorsInv /\ [ParserNext]_vars => VisitorsInv'
<1> SUFFICES ASSUME ParserInv, VisitorsInv, [ParserNext]_vars PROVE VisitorsInv'
  OBVIOUS
<1>1. CASE UNCHANGED vars
  BY <1>1, VisitorsStay
<1>2. CASE ParserNext /\ status = "running"
  <2>1. Stepping
    BY <1>2, ParserStep DEF Stepping
  <2>2. CASE DeadToken
    BY <2>1, <2>2, StopsAnyhow DEF DeadToken
  <2>3. IfStep => Top.proc \in {"if", "cond"}
    BY DEF IfStep, At, IfStart, IfCond, IfBlock, IfElse, IfElseKeyword, IfElseCurl,
           IfElseBlock, CondNext, CondDelete, CondSkip, CondTake, CondGot, CondLast
  <2> QED BY <1>2, <2>1, <2>2, <2>3, VisitSteps, OperatorSteps, VisitListSteps, VisitIfSteps,
             VisitBlockSteps, VisitFunctionSteps, VisitLoopSteps, VisitModuleSteps
          DEF ParserNext
<1>3. ParserNext => status = "running"
  BY StepsRun
<1> QED BY <1>1, <1>2, <1>3

LEMMA FewerSeqs ==
    ASSUME NEW S, NEW T, S \subseteq T
    PROVE  Seq(S) \subseteq Seq(T)
  OBVIOUS

LEMMA VisitorsTyped ==
    ASSUME ParserInv, VisitorsInv
    PROVE  ParserTypeOK /\ DepthBound
<1>1. Len(stack) \in Nat \ {0} /\ stack[1].proc = "module" /\ IInv
  BY TopFrame DEF ParserInv, StackOK
<1>2. \A k \in 1..Len(stack) :
         FrameOK(stack[k], k, Room, ended, lex.currentToken, Eof, HasDot)
  BY DEF VisitorsInv, FramesOK
<1>3. ASSUME NEW k \in 1..Len(stack)
      PROVE  LET f == stack[k]
             IN /\ f.proc \in DOMAIN Runs
                /\ f.tok \in Null..Eof
                /\ {f.nl, f.rhs} \subseteq BOOLEAN
                /\ k < Len(stack) => Awaits(f.proc, f.pc, stack[k + 1].proc)
                /\ f.pc \in Runs[f.proc] \union DOMAIN Waits[f.proc] \union {"static"}
  <2>1. FrameOK(stack[k], k, Room, ended, lex.currentToken, Eof, HasDot)
    BY <1>2
  <2>2. k < Len(stack) => k \in 1..(Len(stack) - 1)
    BY <1>1
  <2>3. k < Len(stack) => Awaits(stack[k].proc, stack[k].pc, stack[k + 1].proc)
    BY <2>2 DEF VisitorsInv, AwaitsOK
  <2> QED BY <2>1, <2>3 DEF FrameOK, Place
<1>7. /\ owned \in Seq(Null..SpaceT)
      /\ \A k \in 1..Len(stack) : stack[k].own \in Seq(Null..SpaceT)
  <2>4. \A i \in Handed : i \in 1..Size
    BY <1>1, LexNumbers
  <2>5. freed \subseteq 1..Size
    BY <1>1 DEF IInv, LexTypeOK, Tokens
  <2>1. \A i \in Handed \union freed : i \in 1..Size
    BY <2>4, <2>5
  <2>2. Known \subseteq Null..SpaceT
    BY <1>1, <2>1, LexNumbers DEF Known, SpaceT, Null
  <2>3. Seq(Known) \subseteq Seq(Null..SpaceT)
    BY <2>2, FewerSeqs
  <2> QED BY <2>3 DEF ParserInv, HeldKnown, Frames
<1>4. ParserTypeOK
  BY <1>1, <1>3, <1>7 DEF ParserTypeOK, Awaits, VisitorsInv
<1>5. Len(stack) \in 1..Len(stack)
  BY <1>1
<1>6. DepthBound
  BY <1>2, <1>5 DEF FrameOK, Roomy, Room, DepthBound
<1> QED BY <1>4, <1>6

\* ParserInv and VisitorsInv hold throughout.
LEMMA Visiting == ParserSpec => [](ParserInv /\ VisitorsInv)
<1>1. ParserInit => ParserInv /\ VisitorsInv
  BY ParserInitInv, VisitorsStart
<1>2. ParserInv /\ VisitorsInv /\ [ParserNext]_vars => (ParserInv /\ VisitorsInv)'
  BY ParserStep, VisitorsStep
<1> QED BY <1>1, <1>2, PTL DEF ParserSpec

(***************************************************************************)
(* The stack is one of visitors that each wait for the one they started,   *)
(* over ModuleParser::parse; each visits a token of the source (AST.cpp    *)
(* 52-1292, Parser.cpp).                                                   *)
(***************************************************************************)
THEOREM ParserTyped == ParserSpec => []ParserTypeOK
<1>1. ParserInv /\ VisitorsInv => ParserTypeOK
  BY VisitorsTyped
<1> QED BY <1>1, Visiting, PTL

(***************************************************************************)
(* No source makes the visitors recurse deeper than twice the tokens they  *)
(* have taken: a visitor that starts another one on the token it was given *)
(* itself was started by one that took it (AST.cpp 69-76, 880-1132).       *)
(***************************************************************************)
THEOREM DepthBounded == ParserSpec => []DepthBound
<1>1. ParserInv /\ VisitorsInv => DepthBound
  BY VisitorsTyped
<1> QED BY <1>1, Visiting, PTL

(***************************************************************************)
(* A module that parsed was parsed to the end of its text, up to the one   *)
(* token ParsedToTheEnd allows to stay peeked (Lexer.cpp 488-496, AST.cpp  *)
(* 52-77, 1006-1012, Parser.cpp 157-160).                                  *)
(***************************************************************************)
THEOREM ParsedWhole == ParserSpec => []ParsedToTheEnd
<1>1. VisitorsInv => ParsedToTheEnd
  BY DEF VisitorsInv
<1> QED BY <1>1, Visiting, PTL

-----------------------------------------------------------------------------
(* No node of an accepted tree lacks a child.                               *)

(***************************************************************************)
(* A set of nodes that holds the children of its nodes has no null pointer *)
(* in it; a node is whole if it is in such a set.                          *)
(***************************************************************************)
Closed(S) ==
    \A n \in S : /\ n = Node(n.op, n.kids)
                 /\ \E T : n.kids \in Seq(T)
                 /\ n.op # "import" => n.kids \in Seq(S)
Whole(n) == \E S : Closed(S) /\ n \in S
OrNull(n) == n = NoExpr \/ Whole(n)
AllWhole(s) == \E S : Closed(S) /\ s \in Seq(S)
WholeOrNull(s) == \E S : Closed(S) /\ s \in Seq(S \union {NoExpr})

LEMMA NodeIsNotNull == \A op, kids : Node(op, kids) # NoExpr
<1> SUFFICES ASSUME NEW op, NEW kids, Node(op, kids) = NoExpr PROVE FALSE
  OBVIOUS
<1>1. DOMAIN Node(op, kids) = {"op", "kids"}
  BY DEF Node
<1>2. DOMAIN NoExpr = {"op"}
  BY DEF NoExpr
<1> QED BY <1>1, <1>2

LEMMA NodeFields == \A op, kids : Node(op, kids).op = op /\ Node(op, kids).kids = kids
  BY DEF Node

LEMMA WholeIsNode ==
    ASSUME NEW n, Whole(n)
    PROVE  n # NoExpr /\ n = Node(n.op, n.kids) /\ \E T : n.kids \in Seq(T)
  BY NodeIsNotNull DEF Whole, Closed

LEMMA BothClosed ==
    ASSUME NEW S, NEW T, Closed(S), Closed(T)
    PROVE  Closed(S \union T)
<1> SUFFICES ASSUME NEW n \in S \union T, n.op # "import" PROVE n.kids \in Seq(S \union T)
  BY DEF Closed
<1>1. n.kids \in Seq(S) \/ n.kids \in Seq(T)
  BY DEF Closed
<1>2. S \subseteq S \union T /\ T \subseteq S \union T
  OBVIOUS
<1> QED BY <1>1, <1>2

LEMMA NoneAtAll == AllWhole(<<>>) /\ WholeOrNull(<<>>)
<1>1. Closed({}) /\ <<>> \in Seq({}) /\ <<>> \in Seq({} \union {NoExpr})
  BY DEF Closed
<1> QED BY <1>1 DEF AllWhole, WholeOrNull

LEMMA OneMore ==
    ASSUME NEW s, NEW n, AllWhole(s), Whole(n)
    PROVE  AllWhole(Append(s, n))
<1>1. PICK S : Closed(S) /\ s \in Seq(S)
  BY DEF AllWhole
<1>2. PICK T : Closed(T) /\ n \in T
  BY DEF Whole
<1>3. Closed(S \union T)
  BY <1>1, <1>2, BothClosed
<1>4. s \in Seq(S \union T) /\ n \in S \union T
  BY <1>1, <1>2
<1>5. Append(s, n) \in Seq(S \union T)
  BY <1>4
<1> QED BY <1>3, <1>5 DEF AllWhole

LEMMA OneMoreOrNull ==
    ASSUME NEW s, NEW n, WholeOrNull(s), OrNull(n)
    PROVE  WholeOrNull(Append(s, n))
<1>1. PICK S : Closed(S) /\ s \in Seq(S \union {NoExpr})
  BY DEF WholeOrNull
<1>2. PICK T : Closed(T) /\ n \in T \union {NoExpr}
  <2>1. CASE n = NoExpr
    BY <1>1, <2>1
  <2>2. CASE Whole(n)
    BY <2>2 DEF Whole
  <2> QED BY <2>1, <2>2 DEF OrNull
<1>3. Closed(S \union T)
  BY <1>1, <1>2, BothClosed
<1> DEFINE U == (S \union T) \union {NoExpr}
<1>4. S \union {NoExpr} \subseteq U /\ n \in U
  BY <1>2
<1>5. s \in Seq(U)
  BY <1>1, <1>4
<1>6. Append(s, n) \in Seq(U)
  BY <1>4, <1>5
<1> QED BY <1>3, <1>6 DEF WholeOrNull

LEMMA NoneLacks ==
    ASSUME NEW s, WholeOrNull(s), ~HasNull(s)
    PROVE  AllWhole(s)
<1>1. PICK S : Closed(S) /\ s \in Seq(S \union {NoExpr})
  BY DEF WholeOrNull
<1>2. \A k \in 1..Len(s) : s[k] \in S
  BY <1>1 DEF HasNull
<1>3. s \in Seq(S)
  BY <1>1, <1>2
<1> QED BY <1>1, <1>3 DEF AllWhole

LEMMA MayBeWhole ==
    ASSUME NEW s, AllWhole(s)
    PROVE  WholeOrNull(s)
<1>1. PICK S : Closed(S) /\ s \in Seq(S)
  BY DEF AllWhole
<1>2. s \in Seq(S \union {NoExpr})
  BY <1>1
<1> QED BY <1>1, <1>2 DEF WholeOrNull

\* A node of whole children is whole.
LEMMA NodeWhole ==
    ASSUME NEW op, NEW kids, AllWhole(kids)
    PROVE  Whole(Node(op, kids))
<1>1. PICK S : Closed(S) /\ kids \in Seq(S)
  BY DEF AllWhole
<1> DEFINE n == Node(op, kids)
           T == S \union {n}
<1>2. n.op = op /\ n.kids = kids /\ n = Node(n.op, n.kids)
  BY NodeFields
<1> HIDE DEF n
<1>3. \A m \in S : m.op # "import" => m.kids \in Seq(T)
  BY <1>1 DEF Closed
<1>4. kids \in Seq(T)
  BY <1>1
<1>5. Closed(T)
  BY <1>1, <1>2, <1>3, <1>4 DEF Closed
<1>6. n \in T
  OBVIOUS
<1> QED BY <1>5, <1>6 DEF Whole, n

LEMMA LeafWhole == \A k : Whole(Leaf(k))
  BY NoneAtAll, NodeWhole DEF Leaf

\* The child of an import is not followed.
LEMMA ImportWhole == \A n : Whole(Node("import", <<n>>))
<1> SUFFICES ASSUME NEW n PROVE Whole(Node("import", <<n>>))
  OBVIOUS
<1> DEFINE m == Node("import", <<n>>)
<1>1. m.op = "import" /\ m.kids = <<n>> /\ m = Node(m.op, m.kids)
  BY NodeFields
<1>2. <<n>> \in Seq({n})
  OBVIOUS
<1> HIDE DEF m
<1>3. Closed({m})
  BY <1>1, <1>2 DEF Closed
<1> QED BY <1>3 DEF Whole, m

LEMMA OneWhole ==
    ASSUME NEW n, Whole(n)
    PROVE  AllWhole(<<n>>)
<1>1. AllWhole(Append(<<>>, n))
  BY NoneAtAll, OneMore
<1>2. Append(<<>>, n) = <<n>>
  OBVIOUS
<1> QED BY <1>1, <1>2

LEMMA TwoWhole ==
    ASSUME NEW n, NEW m, Whole(n), Whole(m)
    PROVE  AllWhole(<<n, m>>)
<1>1. PICK S : Closed(S) /\ n \in S
  BY DEF Whole
<1>2. PICK T : Closed(T) /\ m \in T
  BY DEF Whole
<1>3. Closed(S \union T)
  BY <1>1, <1>2, BothClosed
<1>4. <<n, m>> \in Seq(S \union T)
  BY <1>1, <1>2
<1> QED BY <1>3, <1>4 DEF AllWhole

LEMMA WholeBefore ==
    ASSUME NEW n, NEW s, Whole(n), AllWhole(s)
    PROVE  AllWhole(<<n>> \o s)
<1>1. PICK S : Closed(S) /\ s \in Seq(S)
  BY DEF AllWhole
<1>2. PICK T : Closed(T) /\ n \in T
  BY DEF Whole
<1>3. Closed(S \union T)
  BY <1>1, <1>2, BothClosed
<1>4. s \in Seq(S \union T) /\ <<n>> \in Seq(S \union T)
  BY <1>1, <1>2
<1>5. <<n>> \o s \in Seq(S \union T)
  BY <1>4
<1> QED BY <1>3, <1>5 DEF AllWhole

LEMMA BinExprWhole ==
    ASSUME NEW left, NEW op, NEW right, OrNull(left), OrNull(right), CanBuild(left, op, right)
    PROVE  Whole(BinExpr(left, op, right))
<1>1. Whole(right)
  BY DEF CanBuild, OrNull
<1>2. CASE op = "!" \/ left = NoExpr
  BY <1>1, <1>2, OneWhole, NodeWhole DEF BinExpr
<1>3. CASE ~(op = "!" \/ left = NoExpr)
  BY <1>1, <1>3, TwoWhole, NodeWhole DEF BinExpr, OrNull
<1> QED BY <1>2, <1>3

LEMMA TypeVariableWhole ==
    ASSUME NEW n, NEW type, Whole(n), Whole(type)
    PROVE  Whole(WithTypeVariable(n, type))
<1> DEFINE v == Node("<>", <<type>>)
           m == Node(n.op, Append(n.kids, v))
<1>1. Whole(v)
  BY OneWhole, NodeWhole
<1>2. n = Node(n.op, n.kids) /\ \E T : n.kids \in Seq(T)
  BY WholeIsNode
<1>3. WithTypeVariable(n, type) = m
  <2>1. DOMAIN n = {"op", "kids"}
    BY <1>2 DEF Node
  <2>2. \A x : [n EXCEPT !.kids = x] = Node(n.op, x)
    BY <2>1 DEF Node
  <2>3. WithTypeVariable(n, type) = [n EXCEPT !.kids = Append(n.kids, v)]
    BY DEF WithTypeVariable
  <2> QED BY <2>2, <2>3
<1>4. PICK S : Closed(S) /\ n \in S
  BY DEF Whole
<1>5. CASE n.op # "import"
  <2>1. AllWhole(n.kids)
    BY <1>4, <1>5 DEF AllWhole, Closed
  <2> QED BY <1>1, <1>3, <2>1, OneMore, NodeWhole
<1>6. CASE n.op = "import"
  <2>1. m.op = "import" /\ m.kids = Append(n.kids, v) /\ m = Node(m.op, m.kids)
    BY <1>6, NodeFields
  <2>2. \E T : Append(n.kids, v) \in Seq(T)
    <3>1. PICK T : n.kids \in Seq(T)
      BY <1>2
    <3>2. n.kids \in Seq(T \union {v}) /\ v \in T \union {v}
      BY <3>1
    <3>3. Append(n.kids, v) \in Seq(T \union {v})
      BY <3>2
    <3> QED BY <3>3
  <2> HIDE DEF m
  <2>3. Closed({m})
    BY <2>1, <2>2 DEF Closed
  <2> QED BY <1>3, <2>3 DEF Whole
<1> QED BY <1>5, <1>6

-----------------------------------------------------------------------------
(* What the visitors hold and hand back.                                    *)

\* The lists of these visitors may hold null pointers.
Lax == {"tuple", "cond", "while", "module"}

HoldsNodes(f) ==
    /\ OrNull(f.cur)
    /\ IF f.proc \in Lax THEN WholeOrNull(f.acc) ELSE AllWhole(f.acc)
    /\ f.proc = "expr" /\ f.pc = "call" => f.cur # NoExpr

\* What a visitor hands back: an expression or null, a list, or a whole node.
HandsBack(proc, n) ==
    /\ proc \in {"expr", "op"} => OrNull(n)
    /\ proc = "args" => AllWhole(n.kids)
    /\ proc \in {"tuple", "cond"} => n = Node(n.op, n.kids) /\ WholeOrNull(n.kids)
    /\ proc \notin {"expr", "op", "args", "tuple", "cond"} => Whole(n)

(***************************************************************************)
(* NoNullNode is a fact about the end.  Before it, null pointers are held  *)
(* here and there, but only by visitors that look before they use them.    *)
(***************************************************************************)
FramesHold == \A k \in 1..Len(stack) : HoldsNodes(stack[k])
HandedBack ==
    (\E proc : Awaits(Top.proc, Top.pc, proc)) =>
        \E proc : Awaits(Top.proc, Top.pc, proc) /\ HandsBack(proc, ret)
ModuleWhole ==
    /\ DOMAIN module = {"functions", "statics"}
    /\ AllWhole(module.functions)
    /\ status = "parsed" => AllWhole(module.statics)
TreesInv == FramesHold /\ HandedBack /\ ModuleWhole

Building == StackOK /\ AwaitsOK /\ TreesInv /\ status = "running"

\* A visitor at one of these places waits for nobody.
Works(proc, pc) == proc \in DOMAIN Runs /\ pc \in Runs[proc]

LEMMA WorksAlone ==
    ASSUME NEW proc, NEW pc, Works(proc, pc), NEW callee
    PROVE  ~Awaits(proc, pc, callee)
  BY DEF Works, Runs, Awaits, Waits

LEMMA FrameFields ==
    ASSUME NEW f, IsFrame(f)
    PROVE  /\ \A pc : LET g == At_(f, pc)
                      IN /\ IsFrame(g) /\ g.proc = f.proc /\ g.pc = pc
                         /\ g.cur = f.cur /\ g.acc = f.acc
           /\ \A n : LET g == Plus(f, n)
                     IN /\ IsFrame(g) /\ g.proc = f.proc /\ g.pc = f.pc
                        /\ g.cur = f.cur /\ g.acc = Append(f.acc, n)
           /\ \A o : LET g == Owning(f, o)
                     IN /\ IsFrame(g) /\ g.proc = f.proc /\ g.pc = f.pc
                        /\ g.cur = f.cur /\ g.acc = f.acc
  BY DEF At_, Plus, Owning, IsFrame

LEMMA NewHolds ==
    /\ \A proc, pc : pc # "call" => HoldsNodes(Frame(proc, pc))
    /\ \A proc, pc, o : pc # "call" => HoldsNodes(Owning(Frame(proc, pc), o))
    /\ \A t, rhs : HoldsNodes(Visitor(t, rhs))
    /\ \A n, o, t : OrNull(n) => HoldsNodes(OpVisitor(n, o, t))
<1>1. \A f : f.acc = <<>> /\ OrNull(f.cur) /\ f.pc # "call" => HoldsNodes(f)
  BY NoneAtAll DEF HoldsNodes
<1>2. \A proc, pc : LET f == Frame(proc, pc) IN f.acc = <<>> /\ f.cur = NoExpr /\ f.pc = pc
  BY DEF Frame
<1>3. \A t, rhs : LET f == Visitor(t, rhs) IN f.acc = <<>> /\ f.cur = NoExpr /\ f.pc = "visit"
  BY DEF Visitor, Frame
<1>4. \A n, o, t : LET f == OpVisitor(n, o, t) IN f.acc = <<>> /\ f.cur = n /\ f.pc = "start"
  BY DEF OpVisitor, Frame
<1>5. \A proc, pc, o : LET f == Owning(Frame(proc, pc), o)
                       IN f.acc = <<>> /\ f.cur = NoExpr /\ f.pc = pc
  BY DEF Frame, Owning
<1> QED BY <1>1, <1>2, <1>3, <1>4, <1>5 DEF OrNull

LEMMA TopHolds ==
    ASSUME Building
    PROVE  HoldsNodes(Top) /\ IsFrame(Top) /\ Len(stack) \in Nat \ {0}
<1>1. Len(stack) \in Nat \ {0} /\ IsFrame(Top)
  BY TopFrame DEF Building
<1>2. Len(stack) \in 1..Len(stack)
  BY <1>1
<1> QED BY <1>1, <1>2 DEF Building, TreesInv, FramesHold, Top

LEMMA BackFrom ==
    ASSUME Building, NEW proc, Awaits(Top.proc, Top.pc, proc), Top.pc # "static"
    PROVE  HandsBack(proc, ret)
<1>1. PICK p : Awaits(Top.proc, Top.pc, p) /\ HandsBack(p, ret)
  BY DEF Building, TreesInv, HandedBack
<1>2. p = proc
  BY <1>1 DEF Awaits
<1> QED BY <1>1, <1>2

LEMMA BelowHolds ==
    ASSUME Building, NEW f, stack' = Below(f), HoldsNodes(f), Works(f.proc, f.pc)
    PROVE  FramesHold' /\ HandedBack'
<1>1. /\ Len(stack') = Len(stack) /\ stack'[Len(stack)] = f
      /\ \A k \in 1..(Len(stack) - 1) : stack'[k] = stack[k]
  BY BelowSeq DEF Building
<1>2. Len(stack) \in Nat \ {0}
  BY TopHolds
<1>3. ASSUME NEW k \in 1..Len(stack') PROVE HoldsNodes(stack'[k])
  <2>1. k = Len(stack) \/ k \in 1..(Len(stack) - 1)
    BY <1>1, <1>2, NotLast
  <2> QED BY <1>1, <1>2, <2>1 DEF Building, TreesInv, FramesHold
<1>4. Top' = f
  BY <1>1 DEF Top
<1>5. \A proc : ~Awaits(f.proc, f.pc, proc)
  BY WorksAlone
<1> QED BY <1>3, <1>4, <1>5 DEF FramesHold, HandedBack

LEMMA GotoTrees ==
    ASSUME Building, NEW f, Goto(f), HoldsNodes(f), Works(f.proc, f.pc)
    PROVE  TreesInv'
<1>1. stack' = Below(f) /\ status' = "running" /\ module' = module
  BY DEF Goto, Building
<1>2. FramesHold' /\ HandedBack'
  BY <1>1, BelowHolds
<1> QED BY <1>1, <1>2 DEF Building, TreesInv, ModuleWhole, AllWhole

LEMMA CallTrees ==
    ASSUME Building, NEW f, NEW g, Call(f, g), HoldsNodes(f), HoldsNodes(g),
           Works(g.proc, g.pc)
    PROVE  TreesInv'
<1> DEFINE b == Below(f)
<1>1. /\ Len(b) = Len(stack) /\ b[Len(stack)] = f
      /\ \A k \in 1..(Len(stack) - 1) : b[k] = stack[k]
      /\ \E S : b \in Seq(S)
  BY BelowSeq DEF Building
<1>2. stack' = Append(b, g) /\ status' = "running" /\ module' = module
  BY DEF Call, Building
<1>3. Len(stack) \in Nat \ {0}
  BY TopHolds
<1> HIDE DEF b
<1>4. /\ Len(stack') = Len(stack) + 1 /\ stack'[Len(stack) + 1] = g
      /\ \A k \in 1..Len(stack) : stack'[k] = b[k]
  BY <1>1, <1>2, <1>3
<1>5. ASSUME NEW k \in 1..Len(stack') PROVE HoldsNodes(stack'[k])
  <2>1. k = Len(stack) + 1 \/ k = Len(stack) \/ k \in 1..(Len(stack) - 1)
    BY <1>3, <1>4
  <2>2. CASE k = Len(stack) + 1
    BY <1>4, <2>2
  <2>3. CASE k = Len(stack)
    BY <1>1, <1>3, <1>4, <2>3
  <2>4. CASE k \in 1..(Len(stack) - 1)
    <3>1. k \in 1..Len(stack)
      BY <1>3, <2>4
    <3> QED BY <1>1, <1>4, <2>4, <3>1 DEF Building, TreesInv, FramesHold
  <2> QED BY <2>1, <2>2, <2>3, <2>4
<1>6. Top' = g
  BY <1>4 DEF Top
<1>7. \A proc : ~Awaits(g.proc, g.pc, proc)
  BY WorksAlone
<1> QED BY <1>2, <1>5, <1>6, <1>7 DEF Building, TreesInv, FramesHold, HandedBack, ModuleWhole, AllWhole

LEMMA ReturnTrees ==
    ASSUME Building, NEW n, NEW own, ReturnOwning(n, own), Top.proc # "module",
           HandsBack(Top.proc, n)
    PROVE  TreesInv'
<1>1. PICK S : stack \in Seq(S)
  BY DEF Building, StackOK
<1>2. Len(stack) \in Nat /\ Len(stack) # 0 /\ Len(stack) # 1
  BY TopFrame DEF Building, StackOK, Top
<1> DEFINE m == Len(stack) - 1
<1>3. m \in Nat /\ m # 0 /\ 1 \in 1..m /\ m \in 1..m
  BY <1>2, MoreThanOne
<1>4. \A k \in 1..m : k \in 1..Len(stack)
  BY <1>2, BeforeLast
<1>5. Awaits(stack[m].proc, stack[m].pc, Top.proc)
  <2>1. Awaits(stack[m].proc, stack[m].pc, stack[m + 1].proc)
    BY <1>3 DEF Building, AwaitsOK
  <2> QED BY <1>2, <2>1 DEF Top
<1>6. stack' = SubSeq(stack, 1, m) /\ ret' = n /\ status' = "running" /\ module' = module
  BY DEF ReturnOwning, Building
<1> HIDE DEF m
<1>7. Len(stack') = m /\ \A k \in 1..m : stack'[k] = stack[k]
  BY <1>1, <1>3, <1>4, <1>6
<1>8. \A k \in 1..Len(stack') : HoldsNodes(stack'[k])
  BY <1>4, <1>7 DEF Building, TreesInv, FramesHold
<1>9. Top' = stack[m]
  BY <1>3, <1>7 DEF Top
<1> QED BY <1>5, <1>6, <1>8, <1>9 DEF Building, TreesInv, FramesHold, HandedBack, ModuleWhole, AllWhole, HandsBack, OrNull, Whole,
                                       WholeOrNull

LEMMA StopTrees ==
    ASSUME Building, NEW s, Stop(s), s # "parsed"
    PROVE  TreesInv'
<1>1. stack' = stack /\ ret' = ret /\ module' = module /\ status' # "parsed"
  BY DEF Stop
<1>2. Top' = Top
  BY <1>1 DEF Top
<1> QED BY <1>1, <1>2 DEF Building, TreesInv, FramesHold, HandedBack, ModuleWhole, HandsBack, OrNull, Whole, AllWhole, WholeOrNull

-----------------------------------------------------------------------------

\* f is the frame at work at another place.
Same(f, pc) == f.proc = Top.proc /\ f.pc = pc /\ f.cur = Top.cur /\ f.acc = Top.acc

LEMMA SameHolds ==
    ASSUME Building, NEW f, NEW pc, Same(f, pc), pc # "call"
    PROVE  HoldsNodes(f)
  BY TopHolds DEF HoldsNodes, Same

LEMMA MoveTrees ==
    ASSUME Building, NEW f, NEW pc, Goto(f), Same(f, pc), Works(Top.proc, pc)
    PROVE  TreesInv'
<1>1. pc # "call"
  BY DEF Works, Runs
<1>2. Works(f.proc, f.pc) /\ HoldsNodes(f)
  BY <1>1, SameHolds DEF Same
<1> QED BY <1>2, GotoTrees

LEMMA StartTrees ==
    ASSUME Building, NEW f, NEW g, NEW pc, Call(f, g), Same(f, pc), pc # "call",
           HoldsNodes(g), Works(g.proc, g.pc)
    PROVE  TreesInv'
  BY SameHolds, CallTrees

\* The frame at work, changed in every way a visitor changes it.
LEMMA TopFields ==
    ASSUME Building
    PROVE  /\ IsFrame(Top)
           /\ Same(Top, Top.pc)
           /\ \A pc : Same(At_(Top, pc), pc)
           /\ \A pc, tok : Same([Top EXCEPT !.pc = pc, !.tok = tok], pc)
           /\ \A pc, nl, o : Same([Top EXCEPT !.nl = nl, !.pc = pc, !.own = o], pc)
           /\ \A pc, o : Same([Top EXCEPT !.pc = pc, !.own = o], pc)
           /\ \A pc, o : Same(At_(Owning(Top, o), pc), pc)
<1>1. IsFrame(Top)
  BY TopHolds
<1> HIDE DEF Top
<1> QED BY <1>1 DEF Same, At_, Owning, IsFrame

\* A new visitor at its first place.
LEMMA StartsAtWork ==
    /\ \A t, rhs : LET g == Visitor(t, rhs) IN Works(g.proc, g.pc)
    /\ \A n, o, t : LET g == OpVisitor(n, o, t) IN Works(g.proc, g.pc)
    /\ \A p, q : Frame(p, q).proc = p /\ Frame(p, q).pc = q
    /\ \A p, q, o : LET g == Owning(Frame(p, q), o) IN g.proc = p /\ g.pc = q
  BY DEF Visitor, OpVisitor, Frame, Owning, Works, Runs

LEMMA WorkPlaces ==
    /\ \A pc \in {"visit", "further", "again", "take"} : Works("expr", pc)
    /\ Works("op", "start") /\ Works("args", "next") /\ Works("tuple", "next")
    /\ Works("string", "next")
    /\ \A pc \in {"start", "else", "elseKeyword", "elseCurl"} : Works("if", pc)
    /\ \A pc \in {"next", "delete", "skip", "take", "last"} : Works("cond", pc)
    /\ \A pc \in {"name", "lparen", "type"} : Works("fun", pc)
    /\ \A pc \in {"visit", "bracket"} : Works("type", pc)
    /\ \A pc \in {"next", "delete", "type", "check"} : Works("params", pc)
    /\ \A pc \in {"next", "delete"} : Works("body", pc)
    /\ \A pc \in {"start", "loop"} : Works("while", pc)
    /\ \A pc \in {"head", "clear", "body"} : Works("for", pc)
    /\ \A pc \in {"package", "keyword", "line", "top", "visit"} : Works("module", pc)
  BY DEF Works, Runs

\* A visitor started by the one at work, which keeps what it has.
LEMMA ExprStarted ==
    ASSUME Building, NEW pc, pc # "call", NEW t, NEW rhs, Call(At_(Top, pc), Visitor(t, rhs))
    PROVE  TreesInv'
  BY TopFields, NewHolds, StartsAtWork, StartTrees

LEMMA OtherStarted ==
    ASSUME Building, NEW pc, NEW p, NEW q, pc # "call" \/ Top.cur # NoExpr, q # "call",
           Works(p, q), Call(At_(Top, pc), Frame(p, q))
    PROVE  TreesInv'
<1> DEFINE f == At_(Top, pc)
<1>1. f.proc = Top.proc /\ f.pc = pc /\ f.cur = Top.cur /\ f.acc = Top.acc
  BY TopFields DEF Same
<1>2. HoldsNodes(f)
  BY <1>1, TopHolds DEF HoldsNodes
<1>3. HoldsNodes(Frame(p, q)) /\ Works(Frame(p, q).proc, Frame(p, q).pc)
  BY NewHolds, StartsAtWork
<1> HIDE DEF f
<1> QED BY <1>2, <1>3, CallTrees DEF f

\* The visitor at work takes over a node's tokens, or gives one to the visitor
\* it starts.
LEMMA OwningStarted ==
    ASSUME Building, NEW f, NEW pc, Same(f, pc), pc # "call", NEW p, NEW q, q # "call",
           Works(p, q), NEW g, Call(f, g),
           g = Frame(p, q) \/ \E o : g = Owning(Frame(p, q), o)
    PROVE  TreesInv'
<1>1. HoldsNodes(g) /\ Works(g.proc, g.pc)
  BY NewHolds, StartsAtWork
<1> QED BY <1>1, StartTrees

\* What an expression visitor hands back may be null.
LEMMA ExprReturned ==
    ASSUME Building, NEW n, NEW own, ReturnOwning(n, own), Top.proc \in {"expr", "op"}, OrNull(n)
    PROVE  TreesInv'
  BY ReturnTrees DEF HandsBack

LEMMA CurReturned ==
    ASSUME Building, Return(Top.cur), Top.proc \in {"expr", "op"}
    PROVE  TreesInv'
  BY TopHolds, ExprReturned DEF HoldsNodes, Return

LEMMA GotNode ==
    ASSUME Building, Top.proc = "expr", NEW n, OrNull(n), NEW f, Goto(f),
           f.proc = "expr", f.cur = n, f.acc = Top.acc, f.pc \in {"take", "further", "again"}
    PROVE  TreesInv'
<1>1. HoldsNodes(f)
  BY TopHolds DEF HoldsNodes, Lax
<1>2. Works(f.proc, f.pc)
  BY WorkPlaces
<1> QED BY <1>1, <1>2, GotoTrees

LEMMA GotFields ==
    ASSUME IsFrame(Top), Top.proc = "expr"
    PROVE  \A n, o, pc : LET f == Got(n, o, pc)
                         IN f.proc = "expr" /\ f.cur = n /\ f.acc = Top.acc /\ f.pc = pc
<1> HIDE DEF Top
<1> QED BY DEF Got, IsFrame

LEMMA GotTrees ==
    ASSUME Building, Top.proc = "expr", NEW n, OrNull(n), NEW o,
           NEW pc \in {"take", "further", "again"}, Goto(Got(n, o, pc))
    PROVE  TreesInv'
<1> DEFINE f == Got(n, o, pc)
<1>1. f.proc = "expr" /\ f.cur = n /\ f.acc = Top.acc /\ f.pc = pc /\ Goto(f)
  BY TopHolds, GotFields
<1> HIDE DEF f
<1> QED BY <1>1, GotNode

LEMMA ExprTrees ==
    ASSUME Building, ExprStep
    PROVE  TreesInv'
<1> USE TopFields, WorkPlaces
<1>0. Top.proc = "expr"
  BY DEF ExprStep, At, Visits, VisitNewLine, GoFurther, TakeFurther, VisitLiteral, VisitNumber,
         VisitTrue, VisitFalse, VisitQuotionMark, VisitOperator, VisitLeftParenthesis, VisitDot,
         VisitRetOrImport, VisitIf, VisitFor, VisitOther, StringDone, OpDone, IfDone,
         LesserDone, CallDone, TupleDone, DotDone, RetDone, ImportDone
<1>1. CASE VisitNewLine
  BY <1>0, <1>1, MoveTrees DEF VisitNewLine
<1>2. CASE GoFurther
  BY <1>0, <1>2, MoveTrees, CurReturned, StopTrees DEF GoFurther
<1>3. CASE TakeFurther
  BY <1>0, <1>3, MoveTrees DEF TakeFurther
<1>4. CASE VisitLiteral
  <2>1. OrNull(Leaf(Kind(Top.tok)))
    BY LeafWhole DEF OrNull
  <2> QED BY <1>0, <1>4, <2>1, GotTrees DEF VisitLiteral
<1>5. CASE VisitNumber
  <2>1. OrNull(Leaf(Kind(Top.tok)))
    BY LeafWhole DEF OrNull
  <2> QED BY <1>0, <1>5, <2>1, GotTrees DEF VisitNumber
<1>6. CASE VisitTrue \/ VisitFalse
  BY <1>0, <1>6, LeafWhole, ExprReturned, StopTrees DEF VisitTrue, VisitFalse, OrNull
<1>7. CASE VisitQuotionMark \/ VisitIf
  BY <1>7, OtherStarted DEF VisitQuotionMark, VisitIf
<1>8. CASE VisitOperator
  <2> DEFINE pc == IF Kind(Top.tok) = "<" THEN "lesser" ELSE "op"
  <2>1. OrNull(Top.cur) /\ pc # "call"
    BY TopHolds DEF HoldsNodes
  <2>2. Call([Top EXCEPT !.pc = pc, !.own = <<>>], OpVisitor(Top.cur, Top.own, Top.tok))
    BY <1>8 DEF VisitOperator
  <2>3. Same([Top EXCEPT !.pc = pc, !.own = <<>>], pc)
    OBVIOUS
  <2>4. HoldsNodes(OpVisitor(Top.cur, Top.own, Top.tok))
    BY <2>1, NewHolds
  <2> HIDE DEF pc
  <2> QED BY <2>1, <2>2, <2>3, <2>4, StartsAtWork, StartTrees
<1>9. CASE VisitLeftParenthesis
  BY <1>9, OtherStarted, StopTrees DEF VisitLeftParenthesis
<1>10. CASE VisitDot
  BY <1>10, ExprStarted DEF VisitDot
<1>11. CASE VisitRetOrImport
  <2>1. Kind(Top.tok) # "call"
    BY <1>11 DEF VisitRetOrImport, Visits
  <2> QED BY <1>11, <2>1, ExprStarted DEF VisitRetOrImport
<1>12. CASE VisitFor \/ VisitOther
  BY <1>0, <1>12, CurReturned, StopTrees DEF VisitFor, VisitOther
<1>13. CASE StringDone
  <2>1. HandsBack("string", ret)
    BY <1>13, CallsOfExpr, BackFrom DEF StringDone, At
  <2>2. OrNull(ret)
    BY <2>1 DEF HandsBack, OrNull
  <2> QED BY <1>0, <1>13, <2>2, GotTrees DEF StringDone
<1>14. CASE OpDone
  <2>1. HandsBack("op", ret)
    BY <1>14, CallsOfExpr, BackFrom DEF OpDone, At
  <2> QED BY <1>0, <1>14, <2>1, ExprReturned DEF OpDone, HandsBack
<1>15. CASE IfDone
  <2>1. HandsBack("if", ret)
    BY <1>15, CallsOfExpr, BackFrom DEF IfDone, At
  <2>2. OrNull(ret)
    BY <2>1 DEF HandsBack, OrNull
  <2> QED BY <1>0, <1>15, <2>2, ExprReturned DEF IfDone
<1>16. CASE LesserDone
  <2>1. HandsBack("op", ret)
    BY <1>16, CallsOfExpr, BackFrom DEF LesserDone, At
  <2>2. OrNull(ret)
    BY <2>1 DEF HandsBack
  <2> DEFINE f == [Top EXCEPT !.cur = ret, !.own = owned, !.pc = "further"]
  <2>3. f.proc = "expr" /\ f.cur = ret /\ f.acc = Top.acc /\ f.pc = "further"
    BY <1>0 DEF IsFrame
  <2>4. CASE Goto(f)
    <3> HIDE DEF f
    <3> QED BY <1>0, <2>2, <2>3, <2>4, GotNode
  <2>5. CASE ReturnOwning(ret, owned)
    BY <1>0, <2>2, <2>5, ExprReturned
  <2> QED BY <1>16, <2>4, <2>5 DEF LesserDone
<1>17. CASE CallDone
  <2>1. HandsBack("args", ret) /\ Top.pc = "call"
    BY <1>17, CallsOfExpr, BackFrom DEF CallDone, At
  <2>2. Whole(Top.cur)
    BY <1>0, <2>1, TopHolds DEF HoldsNodes, OrNull
  <2>3. AllWhole(<<Top.cur>> \o ret.kids)
    BY <2>1, <2>2, WholeBefore DEF HandsBack
  <2>4. OrNull(Node("call", <<Top.cur>> \o ret.kids))
    BY <2>3, NodeWhole DEF OrNull
  <2> QED BY <1>0, <1>17, <2>4, GotTrees DEF CallDone
<1>18. CASE TupleDone
  <2>1. HandsBack("tuple", ret)
    BY <1>18, CallsOfExpr, BackFrom DEF TupleDone, At
  <2>2. CASE ~HasNull(ret.kids)
    <3>1. AllWhole(ret.kids)
      BY <2>1, <2>2, NoneLacks DEF HandsBack
    <3>2. OrNull(Node("paren", ret.kids)) /\ OrNull(Node("tuple", ret.kids))
      BY <3>1, NodeWhole DEF OrNull
    <3> DEFINE two == owned \o <<Top.tok, Pointer(lex.currentToken)>>
    <3>3. Goto(IF Len(ret.kids) = 1 THEN Got(Node("paren", ret.kids), two, "take")
                                    ELSE Got(Node("tuple", ret.kids), owned, "take"))
      BY <1>18, <2>2 DEF TupleDone
    <3> HIDE DEF two
    <3>4. CASE Len(ret.kids) = 1
      <4>1. Goto(Got(Node("paren", ret.kids), two, "take"))
        BY <3>3, <3>4 DEF Goto
      <4> QED BY <1>0, <3>2, <4>1, GotTrees
    <3>5. CASE Len(ret.kids) # 1
      <4>1. Goto(Got(Node("tuple", ret.kids), owned, "take"))
        BY <3>3, <3>5 DEF Goto
      <4> QED BY <1>0, <3>2, <4>1, GotTrees
    <3> QED BY <3>4, <3>5
  <2> QED BY <1>18, <2>2, StopTrees DEF TupleDone
<1>19. CASE DotDone
  <2>1. HandsBack("expr", ret)
    BY <1>19, CallsOfExpr, BackFrom DEF DotDone, At
  <2>2. CASE NoExpr \notin {Top.cur, ret}
    <3>1. Whole(Top.cur) /\ Whole(ret)
      BY <2>1, <2>2, TopHolds DEF HoldsNodes, HandsBack, OrNull
    <3>2. OrNull(Node(".", <<Top.cur, ret>>))
      BY <3>1, TwoWhole, NodeWhole DEF OrNull
    <3> QED BY <1>0, <1>19, <2>2, <3>2, GotTrees DEF DotDone
  <2> QED BY <1>19, <2>2, StopTrees DEF DotDone
<1>20. CASE RetDone
  <2>1. HandsBack("expr", ret)
    BY <1>20, CallsOfExpr, BackFrom DEF RetDone, At
  <2>2. CASE ret # NoExpr
    <3>1. OrNull(Node("ret", <<ret>>))
      BY <2>1, <2>2, OneWhole, NodeWhole DEF HandsBack, OrNull
    <3> QED BY <1>0, <1>20, <2>2, <3>1, ExprReturned DEF RetDone
  <2> QED BY <1>20, <2>2, StopTrees DEF RetDone
<1>21. CASE ImportDone
  BY <1>0, <1>21, ImportWhole, ExprReturned, StopTrees DEF ImportDone, OrNull
<1> QED
  BY <1>1, <1>2, <1>3, <1>4, <1>5, <1>6, <1>7, <1>8, <1>9, <1>10, <1>11, <1>12, <1>13, <1>14,
     <1>15, <1>16, <1>17, <1>18, <1>19, <1>20, <1>21 DEF ExprStep

-----------------------------------------------------------------------------
LEMMA CurOrNull ==
    ASSUME Building
    PROVE  OrNull(Top.cur)
  BY TopHolds DEF HoldsNodes

LEMMA BuildTrees ==
    ASSUME Building, Top.proc = "op", NEW right, OrNull(right), Build(right)
    PROVE  TreesInv'
<1> DEFINE op == Kind(Top.tok)
<1>1. CASE CanBuild(Top.cur, op, right)
  <2>1. OrNull(BinExpr(Top.cur, op, right))
    BY <1>1, CurOrNull, BinExprWhole DEF OrNull
  <2> QED BY <1>1, <2>1, ExprReturned DEF Build
<1> QED BY <1>1, StopTrees DEF Build

LEMMA OpTrees ==
    ASSUME Building, OpStep
    PROVE  TreesInv'
<1>0. Top.proc = "op"
  BY DEF OpStep, At, OpStart, OpRight, OpTail
<1>1. CASE OpStart
  BY <1>1, ExprStarted DEF OpStart
<1>2. CASE OpTail
  <2>1. HandsBack("op", ret)
    BY <1>2, CallsOfOthers, BackFrom DEF OpTail, At
  <2> QED BY <1>0, <1>2, <2>1, BuildTrees DEF OpTail, HandsBack
<1>3. CASE OpRight
  <2>1. HandsBack("expr", ret)
    BY <1>3, CallsOfOthers, BackFrom DEF OpRight, At
  <2>2. OrNull(ret) /\ OrNull(Top.cur)
    BY <2>1, CurOrNull DEF HandsBack
  <2>3. PICK t : OpNext(t) \/ OpEnd(t)
    BY <1>3 DEF OpRight
  <2>4. CASE OpEnd(t)
    <3>1. CASE /\ \E o : ReturnOwning(WithTypeVariable(Top.cur, ret), o)
               /\ Top.cur # NoExpr /\ IsLiteralExpr(ret)
      <4>1. OrNull(WithTypeVariable(Top.cur, ret))
        BY <2>2, <3>1, TypeVariableWhole DEF OrNull, IsLiteralExpr
      <4> QED BY <1>0, <3>1, <4>1, ExprReturned
    <3> QED BY <1>0, <2>2, <2>4, <3>1, BuildTrees, StopTrees DEF OpEnd
  <2>5. CASE OpNext(t)
    <3> DEFINE op == Kind(Top.tok)
    <3>1. CASE Call(At_(Top, "tail"), OpVisitor(ret, owned, t))
      <4> DEFINE g == OpVisitor(ret, owned, t)
      <4>1. HoldsNodes(g) /\ Works(g.proc, g.pc)
        BY <2>2, NewHolds, StartsAtWork
      <4>2. Same(At_(Top, "tail"), "tail") /\ Call(At_(Top, "tail"), g)
        BY <3>1, TopFields
      <4> HIDE DEF g
      <4> QED BY <4>1, <4>2, StartTrees
    <3>2. CASE Goto(OpVisitor(BinExpr(Top.cur, op, ret), BinOwns, t)) /\ CanBuild(Top.cur, op, ret)
      <4>1. OrNull(BinExpr(Top.cur, op, ret))
        BY <2>2, <3>2, BinExprWhole DEF OrNull
      <4> QED BY <3>2, <4>1, NewHolds, StartsAtWork, GotoTrees
    <3>3. \/ Stop("aborted") \/ Stop("crashed")
          \/ Call(At_(Top, "tail"), OpVisitor(ret, owned, t))
          \/ Goto(OpVisitor(BinExpr(Top.cur, op, ret), BinOwns, t)) /\ CanBuild(Top.cur, op, ret)
      BY <2>5 DEF OpNext
    <3> QED BY <3>1, <3>2, <3>3, StopTrees
  <2> QED BY <2>3, <2>4, <2>5
<1> QED BY <1>1, <1>2, <1>3 DEF OpStep

\* One more child.
LEMMA AddHolds ==
    ASSUME Building, NEW f, NEW n, f.proc = Top.proc, f.pc # "call", f.cur = Top.cur,
           f.acc = Append(Top.acc, n), IF Top.proc \in Lax THEN OrNull(n) ELSE Whole(n)
    PROVE  HoldsNodes(f)
<1>1. OrNull(f.cur)
  BY CurOrNull
<1>2. CASE Top.proc \in Lax
  BY <1>1, <1>2, TopHolds, OneMoreOrNull DEF HoldsNodes
<1>3. CASE Top.proc \notin Lax
  BY <1>1, <1>3, TopHolds, OneMore DEF HoldsNodes
<1> QED BY <1>2, <1>3

Added(f, n, pc) ==
    f.proc = Top.proc /\ f.pc = pc /\ f.cur = Top.cur /\ f.acc = Append(Top.acc, n)

LEMMA AddFields ==
    ASSUME Building
    PROVE  /\ \A n : Added(Plus(Top, n), n, Top.pc)
           /\ \A n, pc : Added(At_(Plus(Top, n), pc), n, pc)
           /\ \A n, o, pc : Added(At_(Owning(Plus(Top, n), o), pc), n, pc)
<1>1. IsFrame(Top)
  BY TopHolds
<1> HIDE DEF Top
<1> QED BY <1>1 DEF Added, At_, Plus, Owning, IsFrame

LEMMA AddTrees ==
    ASSUME Building, NEW n, NEW pc, NEW f, Added(f, n, pc), Goto(f), Works(Top.proc, pc),
           IF Top.proc \in Lax THEN OrNull(n) ELSE Whole(n)
    PROVE  TreesInv'
<1>1. pc # "call"
  BY DEF Works, Runs
<1>2. HoldsNodes(f) /\ Works(f.proc, f.pc)
  BY <1>1, AddHolds DEF Added
<1> QED BY <1>2, GotoTrees

\* A visitor hands back its children as one node.
LEMMA AccReturned ==
    ASSUME Building, NEW op, NEW own, ReturnOwning(Node(op, Top.acc), own),
           Top.proc \in {"args", "tuple", "cond", "string", "if", "params", "body"}
    PROVE  TreesInv'
<1> DEFINE n == Node(op, Top.acc)
<1>1. n.kids = Top.acc /\ n = Node(n.op, n.kids)
  BY NodeFields
<1>2. CASE Top.proc \in {"tuple", "cond"}
  <2>1. WholeOrNull(n.kids)
    BY <1>1, <1>2, TopHolds DEF HoldsNodes, Lax
  <2> QED BY <1>1, <1>2, <2>1, ReturnTrees DEF HandsBack
<1>3. CASE Top.proc \notin {"tuple", "cond"}
  <2>1. AllWhole(Top.acc)
    BY <1>3, TopHolds DEF HoldsNodes, Lax
  <2>2. Whole(n)
    BY <2>1, NodeWhole
  <2> QED BY <1>1, <1>3, <2>1, <2>2, ReturnTrees DEF HandsBack
<1> QED BY <1>2, <1>3

LEMMA ListTrees ==
    ASSUME Building, ListStep
    PROVE  TreesInv'
<1> USE WorkPlaces
<1>1. CASE ListEnd
  BY <1>1, AccReturned DEF ListEnd, AtList, At, Return
<1>2. CASE ListNext
  BY <1>2, AccReturned, ExprStarted DEF ListNext, AtList, At, Return
<1>3. CASE ListGot
  <2>0. Top.proc \in {"args", "tuple"}
    BY <1>3 DEF ListGot, AtList, At
  <2>1. OrNull(ret)
    <3>1. HandsBack("expr", ret)
      BY <1>3, CallsOfOthers, BackFrom DEF ListGot, AtList, At
    <3> QED BY <3>1 DEF HandsBack
  <2>2. CASE Top.proc = "args" /\ ret = NoExpr
    BY <1>3, <2>2, StopTrees DEF ListGot
  <2>3. CASE ~(Top.proc = "args" /\ ret = NoExpr)
    <3>1. IF Top.proc \in Lax THEN OrNull(ret) ELSE Whole(ret)
      BY <2>0, <2>1, <2>3 DEF Lax, OrNull
    <3>2. \/ Goto(At_(Owning(Plus(Top, ret), owned), "next"))
          \/ \E o : ReturnOwning(Node("list", Append(Top.acc, ret)), o)
      BY <1>3, <2>3 DEF ListGot
    <3>3. CASE Goto(At_(Owning(Plus(Top, ret), owned), "next"))
      BY <2>0, <3>1, <3>3, AddFields, AddTrees
    <3>4. CASE \E o : ReturnOwning(Node("list", Append(Top.acc, ret)), o)
      <4> DEFINE n == Node("list", Append(Top.acc, ret))
      <4>1. n.kids = Append(Top.acc, ret) /\ n = Node(n.op, n.kids)
        BY NodeFields
      <4>2. Top.proc = "args" => AllWhole(n.kids)
        BY <3>1, <4>1, TopHolds, OneMore DEF HoldsNodes, Lax
      <4>3. Top.proc = "tuple" => WholeOrNull(n.kids)
        BY <2>1, <4>1, TopHolds, OneMoreOrNull DEF HoldsNodes, Lax
      <4>4. HandsBack(Top.proc, n)
        BY <2>0, <4>1, <4>2, <4>3 DEF HandsBack
      <4> HIDE DEF n
      <4> QED BY <2>0, <3>4, <4>4, ReturnTrees DEF n
    <3> QED BY <3>2, <3>3, <3>4
  <2> QED BY <2>2, <2>3
<1>4. CASE StringNext
  <2> DEFINE k == Kind(lex'.currentToken)
  <2>1. Top.proc = "string" /\ Top.pc = "next"
    BY <1>4 DEF StringNext, At
  <2>2. CASE Goto(Plus(Top, Leaf(k)))
    <3> DEFINE f == Plus(Top, Leaf(k))
    <3>1. f.proc = Top.proc /\ f.pc = Top.pc /\ f.cur = Top.cur /\ f.acc = Append(Top.acc, Leaf(k))
      BY AddFields DEF Added
    <3> HIDE DEF f
    <3>2. HoldsNodes(f) /\ Works(f.proc, f.pc)
      BY <2>1, <3>1, LeafWhole, AddHolds DEF Lax
    <3> QED BY <2>2, <3>2, GotoTrees DEF f
  <2> QED BY <1>4, <2>1, <2>2, AccReturned DEF StringNext, Return
<1>5. CASE StringEnd
  BY <1>5, AccReturned DEF StringEnd, At, Return
<1> QED BY <1>1, <1>2, <1>3, <1>4, <1>5 DEF ListStep

-----------------------------------------------------------------------------
LEMMA FrameStarted ==
    ASSUME Building, NEW f, NEW p, NEW q, q # "call", Works(p, q), Call(f, Frame(p, q)),
           HoldsNodes(f)
    PROVE  TreesInv'
<1>1. HoldsNodes(Frame(p, q)) /\ Works(Frame(p, q).proc, Frame(p, q).pc)
  BY NewHolds, StartsAtWork
<1> QED BY <1>1, CallTrees

LEMMA AddTwo ==
    ASSUME Building, NEW n, NEW m, NEW o, NEW x, NEW pc
    PROVE  LET f == At_(Owning(Plus(Owning(Plus(Top, n), o), m), x), pc)
           IN f.proc = Top.proc /\ f.pc = pc /\ f.cur = Top.cur
              /\ f.acc = Append(Append(Top.acc, n), m)
<1> DEFINE f == Owning(Plus(Top, n), o)
           h == Owning(Plus(f, m), x)
<1>1. f.proc = Top.proc /\ f.cur = Top.cur /\ f.acc = Append(Top.acc, n) /\ IsFrame(f)
  BY TopHolds, FrameFields
<1> HIDE DEF f
<1>2. h.proc = Top.proc /\ h.cur = Top.cur /\ h.acc = Append(f.acc, m) /\ IsFrame(h)
  BY <1>1, FrameFields
<1> HIDE DEF h
<1>3. LET g == At_(h, pc) IN g.proc = h.proc /\ g.pc = pc /\ g.cur = h.cur /\ g.acc = h.acc
  BY <1>2, FrameFields
<1> QED BY <1>1, <1>2, <1>3 DEF f, h

LEMMA IfTrees ==
    ASSUME Building, Top.proc = "if", IfStep
    PROVE  TreesInv'
<1> USE WorkPlaces, TopFields
<1>1. CASE IfStart
  BY <1>1, ExprStarted DEF IfStart
<1>2. CASE IfCond
  <2>1. HandsBack("expr", ret)
    BY <1>2, CallsOfOthers, BackFrom DEF IfCond, At
  <2> DEFINE f == [Top EXCEPT !.pc = "block", !.cur = ret, !.own = owned]
  <2>2. f.proc = "if" /\ f.pc = "block" /\ f.cur = ret /\ f.acc = Top.acc
    BY DEF IsFrame
  <2>3. Call(f, Frame("cond", "next"))
    BY <1>2 DEF IfCond
  <2> HIDE DEF f
  <2>4. HoldsNodes(f)
    BY <2>1, <2>2, TopHolds DEF HoldsNodes, HandsBack, Lax
  <2> QED BY <2>3, <2>4, FrameStarted
<1>3. CASE IfBlock
  <2>1. HandsBack("cond", ret)
    BY <1>3, CallsOfOthers, BackFrom DEF IfBlock, At
  <2> DEFINE f == [Owning(Top, owned) EXCEPT !.pc = "else", !.acc = <<Top.cur, ret>>]
  <2>2. CASE ~HasNull(ret.kids) /\ Top.cur # NoExpr /\ Goto(f)
    <3>1. Whole(ret)
      BY <2>1, <2>2, NoneLacks, NodeWhole DEF HandsBack
    <3>2. Whole(Top.cur)
      BY <2>2, CurOrNull DEF OrNull
    <3>3. AllWhole(<<Top.cur, ret>>)
      BY <3>1, <3>2, TwoWhole
    <3>4. f.proc = "if" /\ f.pc = "else" /\ f.cur = Top.cur /\ f.acc = <<Top.cur, ret>>
      <4> DEFINE g == Owning(Top, owned)
      <4>1. IsFrame(g) /\ g.proc = "if" /\ g.cur = Top.cur
        BY TopHolds, FrameFields
      <4> HIDE DEF g
      <4> QED BY <4>1 DEF IsFrame, g
    <3>5. Goto(f)
      BY <2>2
    <3> HIDE DEF f
    <3>6. HoldsNodes(f) /\ Works(f.proc, f.pc)
      BY <3>3, <3>4, CurOrNull DEF HoldsNodes, Lax
    <3> QED BY <3>5, <3>6, GotoTrees
  <2> QED BY <1>3, <2>2, StopTrees DEF IfBlock
<1>4. CASE IfElse
  BY <1>4, MoveTrees, AccReturned DEF IfElse, Return
<1>5. CASE IfElseKeyword
  BY <1>5, MoveTrees DEF IfElseKeyword
<1>6. CASE IfElseCurl
  BY <1>6, OwningStarted DEF IfElseCurl
<1>7. CASE IfElseBlock
  <2>1. HandsBack("cond", ret)
    BY <1>7, CallsOfOthers, BackFrom DEF IfElseBlock, At
  <2>2. CASE ~HasNull(ret.kids)
    <3>1. Whole(ret)
      BY <2>1, <2>2, NoneLacks, NodeWhole DEF HandsBack
    <3>2. AllWhole(Append(Top.acc, ret))
      BY <3>1, TopHolds, OneMore DEF HoldsNodes, Lax
    <3>3. HandsBack("if", Node("if", Append(Top.acc, ret)))
      BY <3>2, NodeWhole DEF HandsBack
    <3> QED BY <1>7, <2>2, <3>3, ReturnTrees DEF IfElseBlock
  <2> QED BY <1>7, <2>2, StopTrees DEF IfElseBlock
<1>8. ~(CondNext \/ CondDelete \/ CondSkip \/ CondTake \/ CondGot \/ CondLast)
  BY DEF CondNext, CondDelete, CondSkip, CondTake, CondGot, CondLast, At
<1> QED BY <1>1, <1>2, <1>3, <1>4, <1>5, <1>6, <1>7, <1>8 DEF IfStep

LEMMA BlockTrees ==
    ASSUME Building, Top.proc = "cond", IfStep
    PROVE  TreesInv'
<1> USE WorkPlaces, TopFields
<1>1. CASE CondNext
  BY <1>1, MoveTrees DEF CondNext
<1>2. CASE CondDelete \/ CondSkip
  BY <1>2, MoveTrees DEF CondDelete, CondSkip
<1>3. CASE CondTake
  BY <1>3, ExprStarted DEF CondTake
<1>4. CASE CondGot
  <2>1. HandsBack("expr", ret)
    BY <1>4, CallsOfOthers, BackFrom DEF CondGot, At
  <2> QED BY <1>4, <2>1, AddFields, AddTrees DEF CondGot, HandsBack, Lax
<1>5. CASE CondLast
  BY <1>5, AccReturned DEF CondLast, Return
<1>6. ~(IfStart \/ IfCond \/ IfBlock \/ IfElse \/ IfElseKeyword \/ IfElseCurl \/ IfElseBlock)
  BY DEF IfStart, IfCond, IfBlock, IfElse, IfElseKeyword, IfElseCurl, IfElseBlock, At
<1> QED BY <1>1, <1>2, <1>3, <1>4, <1>5, <1>6 DEF IfStep

\* One more child, and then a visitor for the next.
LEMMA AddStarted ==
    ASSUME Building, NEW n, NEW pc, pc # "call", NEW p, NEW q, q # "call", Works(p, q),
           NEW f, Added(f, n, pc), Call(f, Frame(p, q)), Top.proc \notin Lax, Whole(n)
    PROVE  TreesInv'
<1>1. HoldsNodes(f)
  BY AddHolds DEF Added
<1> QED BY <1>1, FrameStarted

LEMMA FunTrees ==
    ASSUME Building, Top.proc = "fun", FunStep
    PROVE  TreesInv'
<1> USE WorkPlaces, TopFields
<1>1. CASE FunName
  BY <1>1, AddFields, AddTrees, LeafWhole, StopTrees DEF FunName, Lax
<1>2. CASE FunLeftParenthesis
  BY <1>2, OwningStarted, StopTrees DEF FunLeftParenthesis
<1>3. CASE FunArrow
  <2>1. HandsBack("params", ret)
    BY <1>3, CallsOfOthers, BackFrom DEF FunArrow, At
  <2>2. Whole(ret)
    BY <2>1 DEF HandsBack
  <2> DEFINE f == Owning(Plus(Top, ret), owned)
  <2>3. CASE Goto(At_(f, "type"))
    BY <2>2, <2>3, AddFields, AddTrees DEF Lax
  <2>4. CASE \E x : Call(At_(Owning(Plus(f, Leaf("Unit")), x), "body"), Frame("body", "next"))
    <3>1. PICK x : Call(At_(Owning(Plus(f, Leaf("Unit")), x), "body"), Frame("body", "next"))
      BY <2>4
    <3> DEFINE g == At_(Owning(Plus(f, Leaf("Unit")), x), "body")
               u == Leaf("Unit")
    <3>3. /\ g.proc = Top.proc /\ g.pc = "body" /\ g.cur = Top.cur
          /\ g.acc = Append(Append(Top.acc, ret), u)
      BY ONLY Building, AddTwo
    <3>4. g.proc = "fun" /\ g.pc = "body" /\ g.cur = Top.cur
          /\ g.acc = Append(Append(Top.acc, ret), u)
      BY <3>3
    <3> HIDE DEF g
    <3>5. AllWhole(Append(Append(Top.acc, ret), u))
      BY <2>2, TopHolds, OneMore, LeafWhole DEF HoldsNodes, Lax
    <3>6. HoldsNodes(g)
      BY <3>4, <3>5, CurOrNull DEF HoldsNodes, Lax
    <3> QED BY <3>1, <3>6, FrameStarted DEF g
  <2> QED BY <1>3, <2>3, <2>4, StopTrees DEF FunArrow
<1>4. CASE FunType
  <2> DEFINE t == ReturnedSkipNL(lex)
             g == [Frame("type", "visit") EXCEPT !.tok = t]
  <2>1. Call(At_(Top, "curl"), g)
    BY <1>4 DEF FunType
  <2>2. g.proc = "type" /\ g.pc = "visit" /\ g.cur = NoExpr /\ g.acc = <<>>
    BY DEF Frame
  <2> HIDE DEF g
  <2>3. HoldsNodes(g) /\ Works(g.proc, g.pc)
    BY <2>2, NoneAtAll DEF HoldsNodes, OrNull
  <2> QED BY <2>1, <2>3, StartTrees
<1>5. CASE FunCurl
  <2>1. HandsBack("type", ret)
    BY <1>5, CallsOfOthers, BackFrom DEF FunCurl, At
  <2> QED BY <1>5, <2>1, AddFields, AddStarted DEF FunCurl, HandsBack, Lax
<1>6. CASE FunEnd
  <2>1. HandsBack("body", ret)
    BY <1>6, CallsOfOthers, BackFrom DEF FunEnd, At
  <2>2. AllWhole(Append(Top.acc, ret))
    BY <2>1, TopHolds, OneMore DEF HoldsNodes, HandsBack, Lax
  <2>3. HandsBack("fun", Node("fun", Append(Top.acc, ret)))
    BY <2>2, NodeWhole DEF HandsBack
  <2> QED BY <1>6, <2>3, ReturnTrees DEF FunEnd
<1>7. ~(\/ TypeVisit \/ TypeElement \/ TypeArray
        \/ ParamName \/ ParamDelete \/ ParamType \/ ParamEnd \/ ParamCheck
        \/ BodyNext \/ BodyDelete \/ BodyGot \/ BodyEnd)
  BY DEF At, TypeVisit, TypeElement, TypeArray, ParamName, ParamDelete, ParamType, ParamEnd,
         ParamCheck, BodyNext, BodyDelete, BodyGot, BodyEnd
<1> QED BY <1>1, <1>2, <1>3, <1>4, <1>5, <1>6, <1>7 DEF FunStep

LEMMA TypeTrees ==
    ASSUME Building, Top.proc = "type", FunStep
    PROVE  TreesInv'
<1> USE WorkPlaces, TopFields
<1>0. \A n : Whole(n) => HandsBack("type", n)
  BY DEF HandsBack
<1>1. CASE TypeVisit
  BY <1>0, <1>1, LeafWhole, ReturnTrees, MoveTrees, StopTrees DEF TypeVisit, WildType, Return
<1>2. CASE TypeElement
  <2> DEFINE t == lex'.currentToken
             g == [Frame("type", "visit") EXCEPT !.tok = t]
  <2>1. Call(At_(Top, "array"), g)
    BY <1>2 DEF TypeElement
  <2>2. g.proc = "type" /\ g.pc = "visit" /\ g.cur = NoExpr /\ g.acc = <<>>
    BY DEF Frame
  <2> HIDE DEF g
  <2>3. HoldsNodes(g) /\ Works(g.proc, g.pc)
    BY <2>2, NoneAtAll DEF HoldsNodes, OrNull
  <2> QED BY <2>1, <2>3, StartTrees
<1>3. CASE TypeArray
  <2>1. HandsBack("type", ret)
    BY <1>3, CallsOfOthers, BackFrom DEF TypeArray, At
  <2>2. Whole(Node("array", <<ret>>))
    BY <2>1, OneWhole, NodeWhole DEF HandsBack
  <2> QED BY <1>0, <1>3, <2>2, ReturnTrees, StopTrees DEF TypeArray
<1>4. ~(\/ FunName \/ FunLeftParenthesis \/ FunArrow \/ FunType \/ FunCurl \/ FunEnd
        \/ ParamName \/ ParamDelete \/ ParamType \/ ParamEnd \/ ParamCheck
        \/ BodyNext \/ BodyDelete \/ BodyGot \/ BodyEnd)
  BY DEF At, FunName, FunLeftParenthesis, FunArrow, FunType, FunCurl, FunEnd, ParamName,
         ParamDelete, ParamType, ParamEnd, ParamCheck, BodyNext, BodyDelete, BodyGot, BodyEnd
<1> QED BY <1>1, <1>2, <1>3, <1>4 DEF FunStep

-----------------------------------------------------------------------------
LEMMA ParamTrees ==
    ASSUME Building, Top.proc = "params", FunStep
    PROVE  TreesInv'
<1> USE WorkPlaces, TopFields
<1>1. CASE ParamName
  BY <1>1, MoveTrees, StopTrees DEF ParamName
<1>2. CASE ParamDelete \/ ParamEnd
  BY <1>2, MoveTrees DEF ParamDelete, ParamEnd
<1>3. CASE ParamType
  <2> DEFINE k == Kind(ReturnedSkipNL(lex))
             n == Node("param", <<Leaf(Kind(Top.tok)), Leaf(k)>>)
  <2>1. CASE \E o : Goto(At_(Owning(Plus(Top, n), o), "next"))
    <3>1. Whole(n)
      BY LeafWhole, TwoWhole, NodeWhole
    <3> HIDE DEF n
    <3> QED BY <2>1, <3>1, AddFields, AddTrees DEF Lax
  <2> QED BY <1>3, <2>1, MoveTrees DEF ParamType
<1>4. CASE ParamCheck
  BY <1>4, AccReturned, StopTrees DEF ParamCheck, Return
<1>5. ~(\/ FunName \/ FunLeftParenthesis \/ FunArrow \/ FunType \/ FunCurl \/ FunEnd
        \/ TypeVisit \/ TypeElement \/ TypeArray
        \/ BodyNext \/ BodyDelete \/ BodyGot \/ BodyEnd)
  BY DEF At, FunName, FunLeftParenthesis, FunArrow, FunType, FunCurl, FunEnd, TypeVisit,
         TypeElement, TypeArray, BodyNext, BodyDelete, BodyGot, BodyEnd
<1> QED BY <1>1, <1>2, <1>3, <1>4, <1>5 DEF FunStep

LEMMA BodyTrees ==
    ASSUME Building, Top.proc = "body", FunStep
    PROVE  TreesInv'
<1> USE WorkPlaces, TopFields
<1>1. CASE BodyNext
  BY <1>1, AccReturned, MoveTrees, ExprStarted DEF BodyNext, Return
<1>2. CASE BodyDelete
  BY <1>2, MoveTrees DEF BodyDelete
<1>3. CASE BodyGot
  <2>1. HandsBack("expr", ret)
    BY <1>3, CallsOfOthers, BackFrom DEF BodyGot, At
  <2>2. CASE ret = NoExpr
    BY <1>3, <2>2, MoveTrees DEF BodyGot
  <2>3. CASE ret # NoExpr
    BY <1>3, <2>1, <2>3, AddFields, AddTrees DEF BodyGot, HandsBack, OrNull, Lax
  <2> QED BY <2>2, <2>3
<1>4. CASE BodyEnd
  BY <1>4, AccReturned DEF BodyEnd, Return
<1>5. ~(\/ FunName \/ FunLeftParenthesis \/ FunArrow \/ FunType \/ FunCurl \/ FunEnd
        \/ TypeVisit \/ TypeElement \/ TypeArray
        \/ ParamName \/ ParamDelete \/ ParamType \/ ParamEnd \/ ParamCheck)
  BY DEF At, FunName, FunLeftParenthesis, FunArrow, FunType, FunCurl, FunEnd, TypeVisit,
         TypeElement, TypeArray, ParamName, ParamDelete, ParamType, ParamEnd, ParamCheck
<1> QED BY <1>1, <1>2, <1>3, <1>4, <1>5 DEF FunStep

LEMMA FunctionTrees ==
    ASSUME Building, FunStep
    PROVE  TreesInv'
<1>1. Top.proc \in {"fun", "type", "params", "body"}
  BY DEF FunStep, At, FunName, FunLeftParenthesis, FunArrow, FunType, FunCurl, FunEnd, TypeVisit,
         TypeElement, TypeArray, ParamName, ParamDelete, ParamType, ParamEnd, ParamCheck,
         BodyNext, BodyDelete, BodyGot, BodyEnd
<1> QED BY <1>1, FunTrees, TypeTrees, ParamTrees, BodyTrees

LEMMA LoopTrees ==
    ASSUME Building, LoopStep
    PROVE  TreesInv'
<1> USE WorkPlaces, TopFields
<1>1. CASE WhileStart
  BY <1>1, ExprStarted DEF WhileStart
<1>2. CASE WhileCond
  <2>0. Top.proc = "while"
    BY <1>2 DEF WhileCond, At
  <2>1. HandsBack("expr", ret)
    BY <1>2, CallsOfOthers, BackFrom DEF WhileCond, At
  <2> DEFINE f == [Owning(Top, owned) EXCEPT !.pc = "loop", !.cur = ret]
  <2>2. f.proc = "while" /\ f.pc = "loop" /\ f.cur = ret /\ f.acc = Top.acc
    BY <2>0, TopHolds, FrameFields DEF IsFrame
  <2>3. Goto(f)
    BY <1>2 DEF WhileCond
  <2> HIDE DEF f
  <2>4. HoldsNodes(f) /\ Works(f.proc, f.pc)
    BY <2>0, <2>1, <2>2, TopHolds DEF HoldsNodes, HandsBack, Lax
  <2> QED BY <2>3, <2>4, GotoTrees
<1>3. CASE WhileLoop
  <2>1. Top.proc = "while" /\ Top.pc = "loop"
    BY <1>3 DEF WhileLoop, At
  <2>2. CASE Goto(Top)
    BY <2>1, <2>2, MoveTrees
  <2> QED BY <1>3, <2>2, ExprStarted DEF WhileLoop
<1>4. CASE WhileGot
  <2>0. Top.proc = "while"
    BY <1>4 DEF WhileGot, At
  <2>1. HandsBack("expr", ret)
    BY <1>4, CallsOfOthers, BackFrom DEF WhileGot, At
  <2>2. CASE Goto(At_(Top, "loop"))
    BY <2>0, <2>2, MoveTrees
  <2>3. CASE Goto(At_(Owning(Plus(Top, ret), owned), "loop"))
    BY <2>0, <2>1, <2>3, AddFields, AddTrees DEF HandsBack, Lax
  <2> QED BY <1>4, <2>2, <2>3 DEF WhileGot
<1>5. CASE WhileEnd
  <2>0. Top.proc = "while"
    BY <1>5 DEF WhileEnd, At
  <2> DEFINE b == Node("block", Top.acc)
  <2>1. CASE ~HasNull(Top.acc) /\ Top.cur # NoExpr
    <3>1. Whole(b)
      BY <2>0, <2>1, TopHolds, NoneLacks, NodeWhole DEF HoldsNodes, Lax
    <3>2. Whole(Top.cur)
      BY <2>1, CurOrNull DEF OrNull
    <3> HIDE DEF b
    <3>3. Whole(Node("while", <<Top.cur, b>>))
      BY <3>1, <3>2, TwoWhole, NodeWhole
    <3>4. HandsBack("while", Node("while", <<Top.cur, b>>))
      BY <3>3 DEF HandsBack
    <3>5. Return(Node("while", <<Top.cur, b>>))
      BY <1>5, <2>1 DEF WhileEnd, b
    <3> QED BY <2>0, <3>4, <3>5, ReturnTrees DEF Return
  <2> QED BY <1>5, <2>1, StopTrees DEF WhileEnd
<1>6. CASE ForHead
  <2>1. Top.proc = "for" /\ Top.pc = "head"
    BY <1>6 DEF ForHead, At
  <2>2. CASE Goto(Top)
    BY <2>1, <2>2, MoveTrees
  <2> QED BY <1>6, <2>1, <2>2, MoveTrees, ExprStarted DEF ForHead
<1>7. CASE ForPart
  BY <1>7, MoveTrees DEF ForPart, At
<1>8. CASE ForBody
  <2>1. Top.proc = "for" /\ Top.pc = "body"
    BY <1>8 DEF ForBody, At
  <2>2. CASE Goto(Top)
    BY <2>1, <2>2, MoveTrees
  <2> QED BY <1>8, <2>2, StopTrees, ExprStarted DEF ForBody
<1>9. CASE ForStmt
  BY <1>9, MoveTrees, StopTrees DEF ForStmt, At
<1>10. CASE ForClear
  BY <1>10, MoveTrees DEF ForClear, At
<1> QED BY <1>1, <1>2, <1>3, <1>4, <1>5, <1>6, <1>7, <1>8, <1>9, <1>10 DEF LoopStep

LEMMA ModuleTrees ==
    ASSUME Building, ModuleStep
    PROVE  TreesInv'
<1> USE WorkPlaces, TopFields
<1>0. Top.proc = "module"
  BY DEF ModuleStep, At, ModulePackage, ModuleKeyword, ModuleLine, ModuleTop, ModuleVisit,
         ModuleStatic, ModuleImport, ModuleFun, ModuleEnd
<1>1. CASE ModulePackage
  BY <1>0, <1>1, MoveTrees, StopTrees DEF ModulePackage
<1>2. CASE ModuleKeyword \/ ModuleImport
  BY <1>0, <1>2, MoveTrees DEF ModuleKeyword, ModuleImport
<1>3. CASE ModuleLine
  BY <1>0, <1>3, MoveTrees DEF ModuleLine
<1>4. CASE ModuleTop
  BY <1>0, <1>4, MoveTrees DEF ModuleTop
<1>5. CASE ModuleVisit
  <2>1. \/ Goto(At_(Top, "top")) \/ Stop("syntaxError")
        \/ \E pc \in {"static", "import"} : Call(At_(Top, pc), Visitor(Top.tok, FALSE))
        \/ Call(At_(Top, "static"), Frame("if", "start"))
        \/ \E o : Call(At_(Top, "static"), Owning(Frame("while", "start"), o))
        \/ Call(At_(Top, "static"), Frame("for", "head"))
        \/ \E o : Call(At_(Top, "fun"), Owning(Frame("fun", "name"), o))
    BY <1>5 DEF ModuleVisit
  <2> QED BY <1>0, <2>1, MoveTrees, StopTrees, ExprStarted, OtherStarted, OwningStarted
<1>6. CASE ModuleStatic
  <2>1. PICK proc : Awaits(Top.proc, Top.pc, proc) /\ HandsBack(proc, ret)
    <3>1. Awaits("module", "static", "expr")
      BY CallsOfOthers
    <3>2. Awaits(Top.proc, Top.pc, "expr")
      BY <1>6, <3>1 DEF ModuleStatic, At
    <3> QED BY <3>2 DEF Building, TreesInv, HandedBack
  <2>2. proc \in {"expr", "if", "while", "for"}
    BY <1>6, <2>1 DEF ModuleStatic, At, Awaits
  <2>3. OrNull(ret)
    BY <2>1, <2>2 DEF HandsBack, OrNull
  <2> QED BY <1>0, <1>6, <2>3, AddFields, AddTrees DEF ModuleStatic, Lax
<1>7. CASE ModuleFun
  <2>1. HandsBack("fun", ret)
    BY <1>7, CallsOfOthers, BackFrom DEF ModuleFun, At
  <2>2. AllWhole(Append(module.functions, ret))
    BY <2>1, OneMore DEF Building, TreesInv, ModuleWhole, HandsBack
  <2> DEFINE f == At_(Owning(Top, owned), "top")
  <2>3. stack' = Below(f) /\ status' = "running"
    BY <1>7 DEF ModuleFun, Building
  <2>4. Same(f, "top")
    OBVIOUS
  <2> HIDE DEF f
  <2>5. HoldsNodes(f) /\ Works(f.proc, f.pc)
    BY <1>0, <2>4, SameHolds DEF Same
  <2>6. FramesHold' /\ HandedBack'
    BY <2>3, <2>5, BelowHolds
  <2>7. /\ DOMAIN module' = {"functions", "statics"}
        /\ module'.functions = Append(module.functions, ret)
    BY <1>7 DEF ModuleFun, Building, TreesInv, ModuleWhole
  <2>8. ModuleWhole'
    BY <2>2, <2>3, <2>7 DEF ModuleWhole, AllWhole
  <2> QED BY <2>6, <2>8 DEF TreesInv
<1>8. CASE ModuleEnd
  <2>1. CASE HasNull(Top.acc)
    BY <1>8, <2>1, StopTrees DEF ModuleEnd
  <2>2. CASE ~HasNull(Top.acc)
    <3>1. AllWhole(Top.acc)
      BY <1>0, <2>2, TopHolds, NoneLacks DEF HoldsNodes, Lax
    <3>2. stack' = stack /\ ret' = ret /\ module' = [module EXCEPT !.statics = Top.acc]
      BY <1>8, <2>2 DEF ModuleEnd
    <3>3. /\ DOMAIN module' = {"functions", "statics"}
          /\ module'.functions = module.functions /\ module'.statics = Top.acc
      BY <3>2 DEF Building, TreesInv, ModuleWhole
    <3>4. ModuleWhole'
      BY <3>1, <3>3 DEF Building, TreesInv, ModuleWhole, AllWhole
    <3>5. FramesHold'
      BY <3>2 DEF Building, TreesInv, FramesHold
    <3>6. Top' = Top
      BY <3>2 DEF Top
    <3>7. HandedBack'
      BY <3>2, <3>6 DEF Building, TreesInv, HandedBack
    <3> QED BY <3>4, <3>5, <3>7 DEF TreesInv
  <2> QED BY <2>1, <2>2
<1> QED BY <1>1, <1>2, <1>3, <1>4, <1>5, <1>6, <1>7, <1>8 DEF ModuleStep

-----------------------------------------------------------------------------

LEMMA TreesStart == ParserInit => TreesInv
<1> SUFFICES ASSUME ParserInit PROVE TreesInv
  OBVIOUS
<1> DEFINE f == Frame("module", "package")
<1>1. stack = <<f>> /\ status = "running" /\ module = [functions |-> <<>>, statics |-> <<>>]
  BY DEF ParserInit
<1>2. HoldsNodes(f) /\ f.proc = "module" /\ f.pc = "package"
  BY NewHolds, StartsAtWork
<1> HIDE DEF f
<1>3. Len(stack) = 1 /\ Top = f
  BY <1>1 DEF Top
<1>4. \A proc : ~Awaits(f.proc, f.pc, proc)
  BY <1>2, WorkPlaces, WorksAlone
<1>5. FramesHold /\ HandedBack
  BY <1>1, <1>2, <1>3, <1>4 DEF FramesHold, HandedBack
<1>6. ModuleWhole
  BY <1>1, NoneAtAll DEF ModuleWhole
<1> QED BY <1>5, <1>6 DEF TreesInv

LEMMA TreesStep ==
    ParserInv /\ VisitorsInv /\ TreesInv /\ [ParserNext]_vars => TreesInv'
<1> SUFFICES ASSUME ParserInv, VisitorsInv, TreesInv, [ParserNext]_vars PROVE TreesInv'
  OBVIOUS
<1>1. CASE UNCHANGED vars
  <2>1. stack' = stack /\ ret' = ret /\ module' = module /\ status' = status
    BY <1>1 DEF vars, parserVars
  <2> QED BY <2>1 DEF TreesInv, FramesHold, HandedBack, ModuleWhole, Top, HandsBack, OrNull, Whole,
                      AllWhole, WholeOrNull
<1>2. CASE ParserNext
  <2>1. Building
    BY <1>2, StepsRun DEF Building, ParserInv, VisitorsInv
  <2>2. CASE DeadToken
    BY <2>1, <2>2, StopTrees DEF DeadToken
  <2>3. IfStep => Top.proc \in {"if", "cond"}
    BY DEF IfStep, At, IfStart, IfCond, IfBlock, IfElse, IfElseKeyword, IfElseCurl,
           IfElseBlock, CondNext, CondDelete, CondSkip, CondTake, CondGot, CondLast
  <2> QED BY <1>2, <2>1, <2>2, <2>3, ExprTrees, OpTrees, ListTrees, IfTrees, BlockTrees,
             FunctionTrees, LoopTrees, ModuleTrees DEF ParserNext
<1> QED BY <1>1, <1>2

-----------------------------------------------------------------------------
(* What is reached from whole nodes is whole, however far one goes.         *)

LEMMA WithinClosed ==
    ASSUME NEW S, Closed(S), NEW roots, roots \subseteq S, NEW h \in Nat
    PROVE  Within(roots, h) \subseteq S
<1> DEFINE U == SUBSET S
           Deeper(above) == above \union UNION {Followed(n) : n \in above}
           F == [a \in (1..h) \X U |-> Deeper(a[2])]
<1>1. \A n \in S : Followed(n) \subseteq S
  <2> SUFFICES ASSUME NEW n \in S, n.op # "import", NEW k \in 1..Len(n.kids)
               PROVE  n.kids[k] \in S
    BY DEF Followed
  <2>1. n.kids \in Seq(S)
    BY DEF Closed
  <2> QED BY <2>1
<1>2. \A above \in U : Deeper(above) \in U
  BY <1>1
<1>3. F \in [(1..h) \X U -> U] /\ roots \in U
  BY <1>2
<1>4. \A k \in 1..h : \A above \in U : F[<<k, above>>] = Deeper(above)
  OBVIOUS
<1> HIDE DEF F
<1>5. PICK f \in [0..h -> U] : Follows(f, h, roots, F)
  BY <1>3, FunctionBySteps
<1>6. \A k \in 1..h : k - 1 \in 0..h /\ k \in 0..h /\ k # 0
  OBVIOUS
<1>7. f[0] = roots /\ \A k \in 1..h : f[k] = Deeper(f[k - 1])
  BY <1>4, <1>5, <1>6 DEF Follows
<1> DEFINE g[k \in 0..h] == IF k = 0 THEN roots
                            ELSE LET above == g[k - 1]
                                 IN above \union UNION {Followed(n) : n \in above}
<1>8. \A k \in 0..h : f[k] = IF k = 0 THEN roots ELSE Deeper(f[k - 1])
  BY <1>7
<1>9. f = [k \in 0..h |-> IF k = 0 THEN roots ELSE Deeper(f[k - 1])]
  BY <1>5, <1>8
<1>10. g = [k \in 0..h |-> IF k = 0 THEN roots ELSE Deeper(g[k - 1])]
  BY <1>9 DEF g
<1>11. Within(roots, h) = g[h]
  BY DEF Within
<1> HIDE DEF g
<1>12. \A k \in 0..h : g[k] = IF k = 0 THEN roots ELSE Deeper(g[k - 1])
  BY <1>10
<1> DEFINE T == {k \in 0..h : g[k] \in U}
<1>13. 0 \in T
  <2>1. 0 \in 0..h
    OBVIOUS
  <2>2. g[0] = roots
    BY <1>12, <2>1
  <2> QED BY <1>3, <2>1, <2>2
<1>14. ASSUME NEW k \in 0..h, k \in T, k < h PROVE k + 1 \in T
  <2>1. k + 1 \in 0..h /\ k + 1 # 0 /\ (k + 1) - 1 = k
    BY <1>14
  <2>2. g[k + 1] = Deeper(g[k]) /\ g[k] \in U
    BY <1>12, <1>14, <2>1
  <2> QED BY <1>2, <2>1, <2>2
<1> HIDE DEF T
<1>15. 0..h \subseteq T
  BY <1>13, <1>14, UpToInduction
<1>16. h \in T
  BY <1>15
<1> QED BY <1>11, <1>16 DEF T

\* A module of whole nodes has no null pointer at any depth.
LEMMA NoNull ==
    ASSUME ModuleWhole, NEW h \in Nat
    PROVE  NoNullWithin(h)
<1> SUFFICES ASSUME status = "parsed" PROVE NoExpr \notin Within(Roots, h)
  BY DEF NoNullWithin
<1>1. PICK S : Closed(S) /\ module.functions \in Seq(S)
  BY DEF ModuleWhole, AllWhole
<1>2. PICK T : Closed(T) /\ module.statics \in Seq(T)
  BY DEF ModuleWhole, AllWhole
<1>3. Closed(S \union T)
  BY <1>1, <1>2, BothClosed
<1>4. Roots \subseteq S \union T
  BY <1>1, <1>2 DEF Roots
<1>5. Within(Roots, h) \subseteq S \union T
  BY <1>3, <1>4, WithinClosed
<1>6. NoExpr \notin S \union T
  BY <1>3, NodeIsNotNull DEF Closed
<1> QED BY <1>5, <1>6

\* TreesInv holds throughout.
LEMMA Growing == ParserSpec => []TreesInv
<1>1. ParserInit => TreesInv
  BY TreesStart
<1>2. ParserInv /\ VisitorsInv /\ TreesInv /\ [ParserNext]_vars => TreesInv'
  BY TreesStep
<1> QED BY <1>1, <1>2, Visiting, PTL DEF ParserSpec

(***************************************************************************)
(* A module that parsed has no null pointer in its tree, at any depth a    *)
(* pass that follows the children may reach: what the visitors hand back   *)
(* as null is looked at before it becomes a child, and where it is not,    *)
(* the module is not accepted (AST.cpp 99-124, 660-672, 733-736, 988-1042, *)
(* 1091-1132, Parser.cpp 157-160).                                         *)
(***************************************************************************)
THEOREM NoNullAnywhere == ASSUME NEW h \in Nat PROVE ParserSpec => []NoNullWithin(h)
<1>1. TreesInv => NoNullWithin(h)
  BY NoNull DEF TreesInv
<1> QED BY <1>1, Growing, PTL

\* So, in particular, as deep as the source is long.
THEOREM NoNullInTrees == ParserSpec => []NoNullNode
<1>1. TreesInv /\ ParserInv => NoNullNode
  <2> SUFFICES ASSUME TreesInv, ParserInv PROVE NoNullNode
    OBVIOUS
  <2>1. Size \in Nat
    BY SizeType, SourcesAssumption DEF ParserInv, IInv, LexTypeOK
  <2> QED BY <2>1, NoNull DEF TreesInv, NoNullNode
<1> QED BY <1>1, Growing, Visiting, PTL
=============================================================================
