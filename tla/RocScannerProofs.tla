-------------------------- MODULE RocScannerProofs --------------------------
(***************************************************************************)
(* Proofs about RocScanner, for every set of texts and of keywords: no     *)
(* character is lost, repeated or reordered between a text and its tokens, *)
(* numbers are told from words, and each token begins where it must.       *)
(***************************************************************************)
EXTENDS RocScanner, SetInduction

(***************************************************************************)
(* Between its steps the word at hand follows what was returned, and       *)
(* startOffset has only bytes 0 between it and the first character.        *)
(***************************************************************************)
WordAtHand ==
    /\ Increasing(acc)
    /\ StartsAt(start, acc)
    /\ \A i, j \in DOMAIN text : Given(i) /\ In(j, acc) => i < j
    /\ status = "idle" => acc = <<>>
    /\ status = "scanning" /\ acc = <<>> /\ ~AtEnd =>
          start <= pos /\ \A i \in start..(pos - 1) : text[i] = "nul"

ScanInv == ScanTypeOK /\ Lossless /\ InTextOrder /\ WordAtHand

\* nextChar reads one character: where it is not the end yet, the frontier
\* moves by the number of calls.
LEMMA ReadOn ==
    ASSUME ScanTypeOK, text \in Seq(STRING), current # "end",
           NEW n \in {1, 2}, Advance(n), text' = text,
           n = 2 => pos + 1 \in DOMAIN text /\ text[pos + 1] # "end"
    PROVE  /\ Frontier = pos /\ pos \in DOMAIN text /\ current = text[pos]
           /\ Frontier' = pos + n
           /\ ~AtEnd' => pos' = pos + n
           /\ pos' \in Nat \ {0} /\ (text = <<>> \/ pos' \in DOMAIN text)
           /\ current' = "end" \/ (text # <<>> /\ current' = text[pos'])
<1>1. pos \in DOMAIN text /\ current = text[pos] /\ text # <<>> /\ pos \in Nat
    BY DEF ScanTypeOK
<1>2. DOMAIN text = 1..Len(text) /\ Len(text) \in Nat
    OBVIOUS
<1>3. Frontier = pos
    BY <1>1 DEF Frontier, AtEnd
<1>4. CASE pos + n > Len(text)
    <2>1. pos' = pos + n - 1 /\ pos' = Len(text) /\ current' = "end"
        BY <1>1, <1>2, <1>4 DEF Advance, CharAt
    <2>2. text[pos'] # "end"
        BY <1>1, <1>2, <2>1
    <2>3. AtEnd' /\ Frontier' = pos + n
        BY <2>1, <2>2, <1>1, <1>2 DEF AtEnd, Frontier
    <2> QED BY <2>1, <2>3, <1>1, <1>2, <1>3
<1>5. CASE ~(pos + n > Len(text))
    <2>1. pos' = pos + n /\ pos' \in DOMAIN text /\ current' = text[pos']
        BY <1>1, <1>2, <1>5 DEF Advance, CharAt
    <2>2. ~AtEnd' /\ Frontier' = pos + n
        BY <2>1, <1>1 DEF AtEnd, Frontier
    <2> QED BY <2>1, <2>2, <1>1, <1>2, <1>3
<1> QED BY <1>4, <1>5

\* What is given after one more token is returned.
LEMMA GivenMore ==
    ASSUME tokens \in Seq(Token), NEW t \in Token, tokens' = Append(tokens, t)
    PROVE  /\ tokens' \in Seq(Token)
           /\ DOMAIN tokens' = 1..(Len(tokens) + 1)
           /\ \A k \in DOMAIN tokens : tokens'[k] = tokens[k]
           /\ DOMAIN tokens = 1..Len(tokens) /\ Len(tokens) \in Nat
           /\ tokens'[Len(tokens) + 1] = t
           /\ \A i : Given(i)' <=> Given(i) \/ In(i, t.at)
<1>1. /\ tokens' \in Seq(Token)
      /\ DOMAIN tokens' = 1..(Len(tokens) + 1)
      /\ \A k \in DOMAIN tokens : tokens'[k] = tokens[k]
      /\ DOMAIN tokens = 1..Len(tokens) /\ Len(tokens) \in Nat
      /\ tokens'[Len(tokens) + 1] = t
    OBVIOUS
<1>2. \A k \in DOMAIN tokens' : k \in DOMAIN tokens \/ k = Len(tokens) + 1
    BY <1>1
<1>3. \A k \in DOMAIN tokens : k \in DOMAIN tokens'
    BY <1>1
<1>4. Len(tokens) + 1 \in DOMAIN tokens'
    BY <1>1
<1>5. ASSUME NEW i PROVE Given(i)' <=> Given(i) \/ In(i, t.at)
    BY <1>1, <1>2, <1>3, <1>4 DEF Given, In
<1> QED BY <1>1, <1>5

\* A token at the frontier, after everything given, keeps what is known of
\* the tokens.
LEMMA TokenInOrder ==
    ASSUME ScanTypeOK, InTextOrder, text' = text,
           NEW t \in Token, tokens' = Append(tokens, t),
           Increasing(t.at), StartsAt(t.start, t.at),
           \A i, j \in DOMAIN text : Given(i) /\ In(j, t.at) => i < j
    PROVE  InTextOrder'
<1>1. tokens \in Seq(Token)
    BY DEF ScanTypeOK
<1>2. /\ DOMAIN tokens' = 1..(Len(tokens) + 1)
      /\ \A k \in DOMAIN tokens : tokens'[k] = tokens[k]
      /\ DOMAIN tokens = 1..Len(tokens) /\ Len(tokens) \in Nat
      /\ tokens'[Len(tokens) + 1] = t
    BY <1>1, GivenMore
<1>3. ASSUME NEW k \in DOMAIN tokens'
      PROVE  Increasing(tokens'[k].at) /\ StartsAt(tokens'[k].start, tokens'[k].at)
    <2>1. CASE k \in DOMAIN tokens
        BY <2>1, <1>2 DEF InTextOrder, StartsAt, Increasing
    <2>2. CASE k = Len(tokens) + 1
        BY <2>2, <1>2 DEF StartsAt, Increasing
    <2> QED BY <2>1, <2>2, <1>2
<1>4. ASSUME NEW k \in DOMAIN tokens', NEW l \in DOMAIN tokens', k < l,
             NEW i \in DOMAIN text, NEW j \in DOMAIN text,
             In(i, tokens'[k].at), In(j, tokens'[l].at)
      PROVE  i < j
    <2>1. k \in DOMAIN tokens /\ tokens'[k] = tokens[k]
        BY <1>2, <1>4
    <2>2. CASE l \in DOMAIN tokens
        BY <2>1, <2>2, <1>2, <1>4 DEF InTextOrder
    <2>3. CASE l = Len(tokens) + 1
        <3>1. Given(i)
            BY <2>1, <1>4 DEF Given
        <3> QED BY <3>1, <2>3, <1>2, <1>4
    <2> QED BY <2>2, <2>3, <1>2
<1> QED BY <1>3, <1>4 DEF InTextOrder, In, Increasing, StartsAt

LEMMA InitInv == ScanInit => ScanInv
<1> SUFFICES ASSUME ScanInit PROVE ScanInv
    OBVIOUS
<1>1. text \in Seq(STRING)
    BY TextsAssumption DEF ScanInit
<1>2. text = <<>> \/ 1 \in DOMAIN text
    BY <1>1
<1>3. current = "end" \/ (text # <<>> /\ current = text[1])
    BY <1>1, <1>2 DEF ScanInit, CharAt
<1>4. ScanTypeOK
    <2>1. acc \in Seq(DOMAIN text) /\ tokens \in Seq(Token)
        BY DEF ScanInit
    <2>2. pos = 1 /\ start = 1 /\ isDigit = FALSE /\ status = "idle" /\ text \in Texts
        BY DEF ScanInit
    <2>3. pos \in Nat \ {0} /\ start \in Nat /\ (text = <<>> \/ pos \in DOMAIN text)
        BY <1>2, <2>2
    <2>4. current = "end" \/ (text # <<>> /\ current = text[pos])
        BY <1>3, <2>2
    <2>5. isDigit \in BOOLEAN /\ status \in Statuses
        BY <2>2 DEF Statuses
    <2> QED BY <2>1, <2>2, <2>3, <2>4, <2>5 DEF ScanTypeOK
<1>5. \A i : ~Given(i) /\ ~In(i, acc)
    BY DEF ScanInit, Given, In
<1>6. Frontier = 1
    <2>1. CASE text = <<>>
        BY <2>1 DEF Frontier, AtEnd, ScanInit, CharAt
    <2>2. CASE text # <<>>
        BY <2>2, <1>1, <1>2 DEF Frontier, AtEnd, ScanInit, CharAt
    <2> QED BY <2>1, <2>2
<1>7. Lossless
    BY <1>1, <1>5, <1>6 DEF Lossless
<1>8. InTextOrder
    BY DEF ScanInit, InTextOrder
<1>9. WordAtHand
    BY <1>5 DEF ScanInit, WordAtHand, Increasing, StartsAt
<1> QED BY <1>4, <1>7, <1>8, <1>9 DEF ScanInv

-----------------------------------------------------------------------------

LEMMA InAppend ==
    ASSUME NEW S, NEW at \in Seq(S), NEW p \in S
    PROVE  /\ Append(at, p) \in Seq(S)
           /\ \A i : In(i, Append(at, p)) <=> In(i, at) \/ i = p
<1>1. /\ Append(at, p) \in Seq(S)
      /\ DOMAIN Append(at, p) = 1..(Len(at) + 1) /\ DOMAIN at = 1..Len(at) /\ Len(at) \in Nat
      /\ \A n \in DOMAIN at : Append(at, p)[n] = at[n]
      /\ Append(at, p)[Len(at) + 1] = p
    OBVIOUS
<1>2. \A n \in DOMAIN Append(at, p) : n \in DOMAIN at \/ n = Len(at) + 1
    BY <1>1
<1>3. \A n \in DOMAIN at : n \in DOMAIN Append(at, p)
    BY <1>1
<1>4. Len(at) + 1 \in DOMAIN Append(at, p)
    BY <1>1
<1> QED BY <1>1, <1>2, <1>3, <1>4 DEF In

LEMMA CallStep ==
    ASSUME ScanInv, Call PROVE ScanInv'
<1> USE DEF ScanInv, Call
<1>1. text' = text /\ pos' = pos /\ current' = current /\ acc' = acc /\ tokens' = tokens
      /\ status' = "scanning" /\ start' = pos /\ isDigit' = FALSE
    OBVIOUS
<1>2. acc = <<>>
    BY DEF WordAtHand
<1>3. pos \in Nat
    BY DEF ScanTypeOK
<1>4. ScanTypeOK'
    BY <1>1, <1>3 DEF ScanTypeOK, Statuses, Token
<1>5. Lossless'
    BY <1>1 DEF Lossless, Frontier, AtEnd, Given, In
<1>6. InTextOrder'
    BY <1>1 DEF InTextOrder, In, Increasing, StartsAt
<1>7. \A i \in start'..(pos' - 1) : FALSE
    BY <1>1, <1>3
<1>8. WordAtHand'
    BY <1>1, <1>2, <1>3, <1>7 DEF WordAtHand, Increasing, StartsAt, Given, In, AtEnd
<1> QED BY <1>4, <1>5, <1>6, <1>8

LEMMA AccumulateStep ==
    ASSUME ScanInv, Accumulate PROVE ScanInv'
<1>1. ScanTypeOK /\ Lossless /\ InTextOrder /\ WordAtHand
    BY DEF ScanInv
<1>2. /\ status = "scanning" /\ status' = status /\ text' = text /\ start' = start
      /\ tokens' = tokens /\ acc' = Append(acc, pos) /\ isDigit' \in BOOLEAN /\ Advance(1)
    BY <1>1 DEF Accumulate, ScanTypeOK
<1>3. current # "end" /\ current # "nul"
    BY DEF Accumulate, Takes
<1>4. text \in Seq(STRING) /\ acc \in Seq(DOMAIN text)
    BY <1>1, TextsAssumption DEF ScanTypeOK
<1>5. /\ Frontier = pos /\ pos \in DOMAIN text /\ current = text[pos]
      /\ Frontier' = pos + 1
      /\ ~AtEnd' => pos' = pos + 1
      /\ pos' \in Nat \ {0} /\ (text = <<>> \/ pos' \in DOMAIN text)
      /\ current' = "end" \/ (text # <<>> /\ current' = text[pos'])
    BY <1>1, <1>2, <1>3, <1>4, ReadOn
<1>6. DOMAIN text \subseteq Nat
    BY <1>4
<1>7. acc' \in Seq(DOMAIN text) /\ \A i : In(i, acc') <=> In(i, acc) \/ i = pos
    BY <1>2, <1>4, <1>5, InAppend
<1>8. /\ DOMAIN acc' = 1..(Len(acc) + 1) /\ DOMAIN acc = 1..Len(acc) /\ Len(acc) \in Nat
      /\ \A n \in DOMAIN acc : acc'[n] = acc[n] /\ acc[n] \in DOMAIN text
      /\ acc'[Len(acc) + 1] = pos
    BY <1>2, <1>4
<1>9. ScanTypeOK'
    BY <1>1, <1>2, <1>5, <1>7 DEF ScanTypeOK, Token
<1>10. \A i : Given(i)' <=> Given(i)
    BY <1>2 DEF Given, In
<1>11. Lossless'
    <2>1. \A i \in DOMAIN text : i < pos + 1 <=> (i < pos \/ i = pos)
        BY <1>5, <1>6
    <2> QED BY <2>1, <1>1, <1>2, <1>3, <1>5, <1>7, <1>10 DEF Lossless
<1>12. InTextOrder'
    BY <1>1, <1>2 DEF InTextOrder, In, Increasing, StartsAt
<1>13. \A i \in DOMAIN text : Given(i) \/ In(i, acc) => i < pos
    BY <1>1, <1>5 DEF Lossless
<1>14. Increasing(acc')
    <2> SUFFICES ASSUME NEW m \in DOMAIN acc', NEW n \in DOMAIN acc', m < n
                 PROVE  acc'[m] < acc'[n]
        BY DEF Increasing
    <2>1. m \in DOMAIN acc /\ acc'[m] = acc[m]
        BY <1>8
    <2>2. CASE n \in DOMAIN acc
        BY <2>1, <2>2, <1>1, <1>8 DEF WordAtHand, Increasing
    <2>3. CASE n = Len(acc) + 1
        BY <2>1, <2>3, <1>8, <1>13 DEF In
    <2> QED BY <2>2, <2>3, <1>8
<1>15. StartsAt(start, acc')
    <2>1. CASE acc = <<>>
        BY <2>1, <1>1, <1>2, <1>3, <1>8 DEF WordAtHand, AtEnd, StartsAt
    <2>2. CASE acc # <<>>
        BY <2>2, <1>1, <1>8, <1>4 DEF WordAtHand, StartsAt
    <2> QED BY <2>1, <2>2
<1>16. acc' # <<>>
    BY <1>8
<1>17. \A i, j \in DOMAIN text : Given(i) /\ In(j, acc') => i < j
    BY <1>1, <1>7, <1>13 DEF WordAtHand
<1>18. WordAtHand'
    <2>1. Increasing(acc)'
        BY <1>14 DEF Increasing
    <2>2. StartsAt(start, acc)'
        BY <1>2, <1>15 DEF StartsAt
    <2>3. (\A i, j \in DOMAIN text : Given(i) /\ In(j, acc) => i < j)'
        BY <1>2, <1>10, <1>17 DEF In
    <2> QED BY <2>1, <2>2, <2>3, <1>2, <1>16 DEF WordAtHand
<1> QED BY <1>9, <1>11, <1>12, <1>18 DEF ScanInv

LEMMA SkipNulStep ==
    ASSUME ScanInv, SkipNul PROVE ScanInv'
<1>1. ScanTypeOK /\ Lossless /\ InTextOrder /\ WordAtHand
    BY DEF ScanInv
<1>2. /\ status = "scanning" /\ status' = status /\ text' = text /\ start' = start
      /\ tokens' = tokens /\ acc' = acc /\ isDigit' = isDigit /\ Advance(1)
      /\ current = "nul"
    BY DEF SkipNul
<1>3. text \in Seq(STRING)
    BY <1>1, TextsAssumption DEF ScanTypeOK
<1>4. /\ Frontier = pos /\ pos \in DOMAIN text /\ current = text[pos]
      /\ Frontier' = pos + 1
      /\ ~AtEnd' => pos' = pos + 1
      /\ pos' \in Nat \ {0} /\ (text = <<>> \/ pos' \in DOMAIN text)
      /\ current' = "end" \/ (text # <<>> /\ current' = text[pos'])
    BY <1>1, <1>2, <1>3, ReadOn
<1>5. DOMAIN text \subseteq Nat
    BY <1>3
<1>6. ScanTypeOK'
    BY <1>1, <1>2, <1>4 DEF ScanTypeOK, Token
<1>7. Lossless'
    <2>1. \A i \in DOMAIN text : i < pos + 1 <=> (i < pos \/ i = pos)
        BY <1>4, <1>5
    <2> QED BY <2>1, <1>1, <1>2, <1>4 DEF Lossless, Given, In
<1>8. InTextOrder'
    BY <1>1, <1>2 DEF InTextOrder, In, Increasing, StartsAt
<1>9. WordAtHand'
    <2>1. acc = <<>> => start <= pos /\ \A i \in start..(pos - 1) : text[i] = "nul"
        BY <1>1, <1>2 DEF WordAtHand, AtEnd
    <2>2. start \in Nat /\ pos \in Nat
        BY <1>1 DEF ScanTypeOK
    <2>3. acc = <<>> => start <= pos + 1 /\ \A i \in start..pos : text[i] = "nul"
        <3>1. \A i \in start..pos : i \in start..(pos - 1) \/ i = pos
            BY <2>2
        <3> QED BY <2>1, <2>2, <3>1, <1>2, <1>4
    <2>4. (status = "scanning" /\ acc = <<>> /\ ~AtEnd =>
              start <= pos /\ \A i \in start..(pos - 1) : text[i] = "nul")'
        BY <2>2, <2>3, <1>2, <1>4
    <2> QED BY <2>4, <1>1, <1>2 DEF WordAtHand, Increasing, StartsAt, Given, In
<1> QED BY <1>6, <1>7, <1>8, <1>9 DEF ScanInv

\* What a token that is returned leaves as it was.
LEMMA ReturnInOrder ==
    ASSUME ScanInv, text' = text, NEW kind \in Kinds, NEW at \in Seq(DOMAIN text),
           Return(kind, at), Increasing(at), StartsAt(start, at),
           \A i, j \in DOMAIN text : Given(i) /\ In(j, at) => i < j
    PROVE  /\ tokens' \in Seq(Token) /\ InTextOrder'
           /\ \A i : Given(i)' <=> Given(i) \/ In(i, at)
           /\ acc' = <<>> /\ \A i : ~In(i, acc)'
           /\ status' = "idle" /\ start' = start /\ isDigit' = isDigit
           /\ WordAtHand'
<1> DEFINE t == [kind |-> kind, at |-> at, start |-> start]
<1>1. ScanTypeOK /\ InTextOrder /\ tokens \in Seq(Token)
    BY DEF ScanInv, ScanTypeOK
<1>2. t \in Token
    BY <1>1 DEF Token, ScanTypeOK
<1>3. tokens' = Append(tokens, t) /\ acc' = <<>> /\ status' = "idle" /\ start' = start
      /\ isDigit' = isDigit
    BY DEF Return
<1>4. t.at = at /\ t.start = start
    OBVIOUS
<1> HIDE DEF t
<1>5. InTextOrder'
    BY <1>1, <1>2, <1>3, <1>4, TokenInOrder
<1>6. tokens' \in Seq(Token) /\ \A i : Given(i)' <=> Given(i) \/ In(i, at)
    BY <1>1, <1>2, <1>3, <1>4, GivenMore
<1>7. \A i : ~In(i, acc)'
    BY <1>3 DEF In
<1>8. WordAtHand'
    BY <1>3, <1>7 DEF WordAtHand, Increasing, StartsAt
<1> QED BY <1>3, <1>5, <1>6, <1>7, <1>8

LEMMA WordStep ==
    ASSUME ScanInv, ResolveWord PROVE ScanInv'
<1>1. ScanTypeOK /\ Lossless /\ InTextOrder /\ WordAtHand
    BY DEF ScanInv
<1>2. status = "scanning" /\ text' = text /\ pos' = pos /\ current' = current /\ acc # <<>>
    BY DEF ResolveWord, Return
<1> DEFINE kind == ResolveToken(Spelled(acc), isDigit)
<1>3. CASE kind \in Exceptions
    <2>1. /\ status' = "uncaught" /\ acc' = acc /\ start' = start
          /\ isDigit' = isDigit /\ tokens' = tokens
        BY <1>3 DEF ResolveWord
    <2>2. ScanTypeOK'
        BY <1>1, <1>2, <2>1 DEF ScanTypeOK, Token, Statuses
    <2>3. Lossless'
        BY <1>1, <1>2, <2>1 DEF Lossless, Frontier, AtEnd, Given, In
    <2>4. InTextOrder'
        BY <1>1, <1>2, <2>1 DEF InTextOrder, In, Increasing, StartsAt
    <2>5. WordAtHand'
        BY <1>1, <1>2, <2>1 DEF WordAtHand, In, Increasing, StartsAt, Given
    <2> QED BY <2>2, <2>3, <2>4, <2>5 DEF ScanInv
<1>4. CASE kind \notin Exceptions
    <2>1. Return(kind, acc)
        BY <1>4 DEF ResolveWord
    <2>2. kind \in Kinds /\ acc \in Seq(DOMAIN text)
        <3>1. NumberKind(Spelled(acc)) \in Exceptions \union {"double", "int"}
            BY DEF NumberKind, Exceptions
        <3>2. kind \in Exceptions \union {"keyword", "literal", "double", "int"}
            BY <3>1 DEF ResolveToken
        <3>3. kind \in Kinds
            BY <1>4, <3>2 DEF Kinds
        <3> QED BY <3>3, <1>1 DEF ScanTypeOK
    <2>3. Increasing(acc) /\ StartsAt(start, acc)
          /\ \A i, j \in DOMAIN text : Given(i) /\ In(j, acc) => i < j
        BY <1>1 DEF WordAtHand
    <2> HIDE DEF kind
    <2>4. /\ tokens' \in Seq(Token) /\ InTextOrder'
          /\ \A i : Given(i)' <=> Given(i) \/ In(i, acc)
          /\ acc' = <<>> /\ \A i : ~In(i, acc)'
          /\ status' = "idle" /\ start' = start /\ isDigit' = isDigit
          /\ WordAtHand'
        BY <1>2, <2>1, <2>2, <2>3, ReturnInOrder
    <2>5. ScanTypeOK'
        <3>1. acc' \in Seq(DOMAIN text')
            BY <2>4
        <3>2. Token' = Token
            BY <1>2 DEF Token
        <3> QED BY <3>1, <3>2, <1>1, <1>2, <2>4 DEF ScanTypeOK, Statuses
    <2>6. Lossless'
        BY <1>1, <1>2, <2>4 DEF Lossless, Frontier, AtEnd
    <2> QED BY <2>4, <2>5, <2>6 DEF ScanInv
<1> QED BY <1>3, <1>4

LEMMA EndStep ==
    ASSUME ScanInv, EndOfText PROVE ScanInv'
<1>1. ScanTypeOK /\ Lossless /\ InTextOrder /\ WordAtHand
    BY DEF ScanInv
<1>2. text' = text /\ pos' = pos /\ current' = current /\ acc = <<>> /\ Return("eof", <<>>)
    BY DEF EndOfText, Return
<1>3. <<>> \in Seq(DOMAIN text) /\ Increasing(<<>>) /\ StartsAt(start, <<>>)
      /\ \A i : ~In(i, <<>>)
    BY DEF Increasing, StartsAt, In
<1>e. "eof" \in Kinds
    BY DEF Kinds
<1> DEFINE at == <<>>
<1>a. at \in Seq(DOMAIN text) /\ Increasing(at) /\ StartsAt(start, at) /\ Return("eof", at)
      /\ \A i, j \in DOMAIN text : Given(i) /\ In(j, at) => i < j
    BY <1>2, <1>3
<1>b. \A i : ~In(i, at)
    BY <1>3
<1> HIDE DEF at
<1>4. /\ tokens' \in Seq(Token) /\ InTextOrder'
      /\ \A i : Given(i)' <=> Given(i)
      /\ acc' = <<>> /\ \A i : ~In(i, acc)'
      /\ status' = "idle" /\ start' = start /\ isDigit' = isDigit
      /\ WordAtHand'
    <2>1. \A i : Given(i)' <=> Given(i) \/ In(i, at)
        BY <1>2, <1>a, <1>e, ReturnInOrder
    <2>2. /\ tokens' \in Seq(Token) /\ InTextOrder'
          /\ acc' = <<>> /\ \A i : ~In(i, acc)'
          /\ status' = "idle" /\ start' = start /\ isDigit' = isDigit
          /\ WordAtHand'
        BY <1>2, <1>a, <1>e, ReturnInOrder
    <2> QED BY <2>1, <2>2, <1>b
<1>5. ScanTypeOK'
    <2>1. acc' \in Seq(DOMAIN text')
        BY <1>4
    <2>2. Token' = Token
        BY <1>2 DEF Token
    <2> QED BY <2>1, <2>2, <1>1, <1>2, <1>4 DEF ScanTypeOK, Statuses
<1>6. Lossless'
    BY <1>1, <1>2, <1>3, <1>4 DEF Lossless, Frontier, AtEnd
<1> QED BY <1>4, <1>5, <1>6 DEF ScanInv

LEMMA SingleStep ==
    ASSUME ScanInv, SingleSymbol PROVE ScanInv'
<1>1. ScanTypeOK /\ Lossless /\ InTextOrder /\ WordAtHand
    BY DEF ScanInv
<1>2. /\ status = "scanning" /\ acc = <<>> /\ current \in Singles /\ text' = text
      /\ Return(Kind(current), <<pos>>) /\ Advance(1)
    BY DEF SingleSymbol, Return
<1>3. current # "end" /\ current # "nul" /\ Kind(current) \in Kinds
    BY <1>2 DEF Singles, Kind, Kinds, Symbols
<1>4. text \in Seq(STRING)
    BY <1>1, TextsAssumption DEF ScanTypeOK
<1>5. /\ Frontier = pos /\ pos \in DOMAIN text /\ current = text[pos]
      /\ Frontier' = pos + 1
      /\ ~AtEnd' => pos' = pos + 1
      /\ pos' \in Nat \ {0} /\ (text = <<>> \/ pos' \in DOMAIN text)
      /\ current' = "end" \/ (text # <<>> /\ current' = text[pos'])
    BY <1>1, <1>2, <1>3, <1>4, ReadOn
<1>6. DOMAIN text \subseteq Nat
    BY <1>4
<1> DEFINE at == <<pos>>
<1>7. at \in Seq(DOMAIN text) /\ DOMAIN at = {1} /\ at[1] = pos
    BY <1>5
<1>8. Return(Kind(current), at)
    BY <1>2
<1> HIDE DEF at
<1>9. \A i : In(i, at) <=> i = pos
    BY <1>7 DEF In
<1>10. Increasing(at)
    BY <1>7 DEF Increasing
<1>11. StartsAt(start, at)
    BY <1>1, <1>2, <1>3, <1>7 DEF WordAtHand, AtEnd, StartsAt
<1>12. \A i, j \in DOMAIN text : Given(i) /\ In(j, at) => i < j
    BY <1>1, <1>5, <1>9 DEF Lossless
<1>13. /\ tokens' \in Seq(Token) /\ InTextOrder'
       /\ \A i : Given(i)' <=> Given(i) \/ In(i, at)
       /\ acc' = <<>> /\ \A i : ~In(i, acc)'
       /\ status' = "idle" /\ start' = start /\ isDigit' = isDigit
       /\ WordAtHand'
    BY <1>2, <1>3, <1>7, <1>8, <1>10, <1>11, <1>12, ReturnInOrder
<1>14. ScanTypeOK'
    <2>1. acc' \in Seq(DOMAIN text')
        BY <1>13
    <2>2. Token' = Token
        BY <1>2 DEF Token
    <2> QED BY <2>1, <2>2, <1>1, <1>2, <1>5, <1>13 DEF ScanTypeOK, Statuses
<1>15. Lossless'
    <2>1. \A i \in DOMAIN text : i < pos + 1 <=> (i < pos \/ i = pos)
        BY <1>5, <1>6
    <2>2. \A i : ~In(i, acc)
        BY <1>2 DEF In
    <2> QED BY <2>1, <2>2, <1>1, <1>2, <1>3, <1>5, <1>9, <1>13 DEF Lossless
<1> QED BY <1>13, <1>14, <1>15 DEF ScanInv

LEMMA PairStep ==
    ASSUME ScanInv, PairSymbol PROVE ScanInv'
<1>1. ScanTypeOK /\ Lossless /\ InTextOrder /\ WordAtHand
    BY DEF ScanInv
<1>2. text \in Seq(STRING)
    BY <1>1, TextsAssumption DEF ScanTypeOK
<1>3. status = "scanning" /\ acc = <<>> /\ current \in Firsts /\ text' = text
    BY DEF PairSymbol, Return
<1>4. current # "end" /\ current # "nul" /\ current \in Kinds /\ Both(current) \in Kinds
      /\ Second(current) \in {">", "="}
    BY <1>3 DEF Firsts, Kinds, Symbols, Both, Second
<1>5. pos \in DOMAIN text /\ current = text[pos] /\ DOMAIN text = 1..Len(text) /\ Len(text) \in Nat
    BY <1>1, <1>2, <1>4 DEF ScanTypeOK
\* One character, or two.
<1> DEFINE two == CharAt(pos + 1) = Second(current)
           n == IF two THEN 2 ELSE 1
           at == IF two THEN <<pos, pos + 1>> ELSE <<pos>>
           kind == IF two THEN Both(current) ELSE current
<1>6. Return(kind, at) /\ Advance(n) /\ n \in {1, 2} /\ kind \in Kinds
    BY <1>4 DEF PairSymbol
<1>7. two => pos + 1 \in DOMAIN text /\ text[pos + 1] # "end" /\ text[pos + 1] # "nul"
    BY <1>4, <1>5 DEF CharAt
<1>8. n = 2 => two
    OBVIOUS
<1>9. /\ at \in Seq(DOMAIN text)
      /\ at[1] = pos /\ at # <<>>
      /\ \A i : In(i, at) <=> (i = pos \/ (n = 2 /\ i = pos + 1))
      /\ Increasing(at)
    <2>1. CASE two
        <3>1. at = <<pos, pos + 1>> /\ n = 2
            BY <2>1
        <3>2. at \in Seq(DOMAIN text) /\ DOMAIN at = {1, 2} /\ at[1] = pos /\ at[2] = pos + 1
            BY <3>1, <2>1, <1>5, <1>7
        <3> QED BY <3>1, <3>2, <1>5 DEF In, Increasing
    <2>2. CASE ~two
        <3>1. at = <<pos>> /\ n = 1
            BY <2>2
        <3>2. at \in Seq(DOMAIN text) /\ DOMAIN at = {1} /\ at[1] = pos
            BY <3>1, <1>5
        <3> QED BY <3>1, <3>2, <1>5 DEF In, Increasing
    <2> QED BY <2>1, <2>2
<1>10. n = 2 => pos + 1 \in DOMAIN text /\ text[pos + 1] # "end" /\ text[pos + 1] # "nul"
    BY <1>7, <1>8
<1> HIDE DEF two, n, at, kind
<1>11. /\ Frontier = pos
       /\ Frontier' = pos + n
       /\ ~AtEnd' => pos' = pos + n
       /\ pos' \in Nat \ {0} /\ (text = <<>> \/ pos' \in DOMAIN text)
       /\ current' = "end" \/ (text # <<>> /\ current' = text[pos'])
    BY <1>1, <1>2, <1>3, <1>4, <1>6, <1>10, ReadOn
<1>12. StartsAt(start, at)
    BY <1>1, <1>3, <1>4, <1>9 DEF WordAtHand, AtEnd, StartsAt
<1>13. \A i, j \in DOMAIN text : Given(i) /\ In(j, at) => i < j
    BY <1>1, <1>5, <1>9, <1>11 DEF Lossless
<1>14. /\ tokens' \in Seq(Token) /\ InTextOrder'
       /\ \A i : Given(i)' <=> Given(i) \/ In(i, at)
       /\ acc' = <<>> /\ \A i : ~In(i, acc)'
       /\ status' = "idle" /\ start' = start /\ isDigit' = isDigit
       /\ WordAtHand'
    BY <1>3, <1>6, <1>9, <1>12, <1>13, ReturnInOrder
<1>15. ScanTypeOK'
    <2>1. acc' \in Seq(DOMAIN text')
        BY <1>14
    <2>2. Token' = Token
        BY <1>3 DEF Token
    <2> QED BY <2>1, <2>2, <1>1, <1>3, <1>11, <1>14 DEF ScanTypeOK, Statuses
<1>16. Lossless'
    <2>1. \A i \in DOMAIN text :
              i < pos + n <=> (i < pos \/ i = pos \/ (n = 2 /\ i = pos + 1))
        BY <1>5, <1>6
    <2>2. \A i : ~In(i, acc)
        BY <1>3 DEF In
    <2>3. \A i \in DOMAIN text : i < pos /\ text[i] # "nul" <=> Given(i)
        BY <2>2, <1>1, <1>11 DEF Lossless
    <2>4. \A i : Given(i)' \/ In(i, acc)' <=> Given(i) \/ i = pos \/ (n = 2 /\ i = pos + 1)
        BY <1>9, <1>14
    <2>5. \A i \in DOMAIN text :
              i < pos + n /\ text[i] # "nul" <=> Given(i)' \/ In(i, acc)'
        BY <2>1, <2>3, <2>4, <1>4, <1>5, <1>10
    <2> QED BY <2>5, <1>3, <1>11 DEF Lossless
<1> QED BY <1>14, <1>15, <1>16 DEF ScanInv

LEMMA NextInv == ScanInv /\ [ScanNext]_scanVars => ScanInv'
<1> SUFFICES ASSUME ScanInv, [ScanNext]_scanVars PROVE ScanInv'
    OBVIOUS
<1>1. CASE UNCHANGED scanVars
    BY <1>1 DEF scanVars, ScanInv, ScanTypeOK, Token, Lossless, InTextOrder, WordAtHand,
                Frontier, AtEnd, Given, In, Increasing, StartsAt
<1> QED BY <1>1, CallStep, AccumulateStep, SkipNulStep, WordStep, SingleStep, PairStep, EndStep
        DEF ScanNext

(***************************************************************************)
(* getNextToken keeps its cursor on the text, and every token's characters *)
(* are characters of the text.                                             *)
(***************************************************************************)
THEOREM ScanTypeCorrect == ScanSpec => []ScanTypeOK
<1>1. ScanInv => ScanTypeOK
    BY DEF ScanInv
<1> QED BY InitInv, NextInv, <1>1, PTL DEF ScanSpec

(***************************************************************************)
(* Whatever the text and the keywords are, scanning loses no character,    *)
(* but the bytes 0 and what follows a byte 0xFF, and invents none.         *)
(***************************************************************************)
THEOREM TextKept == ScanSpec => []Lossless
<1>1. ScanInv => Lossless
    BY DEF ScanInv
<1> QED BY InitInv, NextInv, <1>1, PTL DEF ScanSpec

(***************************************************************************)
(* No token repeats a character or holds it out of order, and its offset   *)
(* is where its first character is.                                        *)
(***************************************************************************)
THEOREM TextInOrder == ScanSpec => []InTextOrder
<1>1. ScanInv => InTextOrder
    BY DEF ScanInv
<1> QED BY InitInv, NextInv, <1>1, PTL DEF ScanSpec
-----------------------------------------------------------------------------
(* Numbers.                                                                 *)

\* Where a word has no e, isNumber looks at every character.
LEMMA LooksAtAll ==
    ASSUME NEW word, \A i \in DOMAIN word : word[i] # "e",
           \A i \in DOMAIN word : i = 1 \/ i - 1 \in DOMAIN word
    PROVE  Looked(word) = DOMAIN word
<1> DEFINE Looks(f, i) == i = 1 \/ word[i - 1] # "e" \/ ~f[i - 1]
           looked == CHOOSE f : f = [i \in DOMAIN word |-> Looks(f, i)]
           all == [i \in DOMAIN word |-> TRUE]
<1>1. \A f : \A i \in DOMAIN word : Looks(f, i) = TRUE
    OBVIOUS
<1>2. all = [i \in DOMAIN word |-> Looks(all, i)]
    BY <1>1
<1> HIDE DEF all
<1>3. looked = [i \in DOMAIN word |-> Looks(looked, i)]
    BY <1>2
<1>4. \A i \in DOMAIN word : looked[i]
    BY <1>1, <1>3
<1>5. Looked(word) = {i \in DOMAIN word : looked[i]}
    BY DEF Looked
<1> HIDE DEF looked
<1> QED BY <1>4, <1>5

\* What isNumber makes of digits with or without dots.
LEMMA DecimalIsNumber ==
    ASSUME NEW S, NEW word \in Seq(S), Decimal(word)
    PROVE  NumberKind(word) = IF Dots(word) = {} THEN "int"
                              ELSE IF word \in OutOfRange THEN "outOfRange" ELSE "double"
<1>1. \A i \in DOMAIN word : word[i] \in Digits \/ word[i] = "."
    BY DEF Decimal, Dots
<1>2. \A i \in DOMAIN word : word[i] # "e" /\ InNumber(word, i)
    BY <1>1 DEF Digits, InNumber
<1>3. \A i \in DOMAIN word : i = 1 \/ i - 1 \in DOMAIN word
    OBVIOUS
<1>4. Looked(word) = DOMAIN word
    BY <1>2, <1>3, LooksAtAll
<1> QED BY <1>2, <1>4 DEF NumberKind, Dots

\* isDigit tells what the word at hand began with.
WordDigit ==
    IF acc = <<>> THEN status = "scanning" => ~isDigit
                  ELSE isDigit <=> text[acc[1]] \in Digits

NumberInv == NumbersRead /\ WordDigit

\* A token that is no number, and that is none of digits either, is read
\* rightly.
LEMMA ReturnRead ==
    ASSUME tokens \in Seq(Token), text' = text, NumbersRead,
           NEW kind \in Kinds, NEW at \in Seq(DOMAIN text), start \in Nat, Return(kind, at),
           Decimal(Spelled(at)) => kind = IF Dots(Spelled(at)) = {} THEN "int" ELSE "double",
           Numeric(kind) => Spelled(at)[1] \in Digits,
           kind = "double" => Spelled(at) \notin OutOfRange
    PROVE  NumberInv'
<1> DEFINE t == [kind |-> kind, at |-> at, start |-> start]
<1>1. t \in Token /\ t.kind = kind /\ t.at = at
    BY DEF Token
<1>2. tokens' = Append(tokens, t) /\ acc' = <<>> /\ status' = "idle"
    BY DEF Return
<1> HIDE DEF t
<1>3. /\ DOMAIN tokens' = 1..(Len(tokens) + 1) /\ DOMAIN tokens = 1..Len(tokens)
      /\ Len(tokens) \in Nat
      /\ \A k \in DOMAIN tokens : tokens'[k] = tokens[k]
      /\ tokens'[Len(tokens) + 1] = t
    BY <1>1, <1>2, GivenMore
<1>4. \A s : Spelled(s)' = Spelled(s)
    BY DEF Spelled
<1>5. ASSUME NEW k \in DOMAIN tokens'
      PROVE  LET word == Spelled(tokens'[k].at)
             IN /\ Decimal(word) => tokens'[k].kind = IF Dots(word) = {} THEN "int" ELSE "double"
                /\ Numeric(tokens'[k].kind) => word[1] \in Digits
                /\ tokens'[k].kind = "double" => word \notin OutOfRange
    <2>1. CASE k \in DOMAIN tokens
        BY <2>1, <1>3 DEF NumbersRead
    <2>2. CASE k = Len(tokens) + 1
        BY <2>2, <1>1, <1>3
    <2> QED BY <2>1, <2>2, <1>3
<1> QED BY <1>2, <1>4, <1>5 DEF NumberInv, NumbersRead, WordDigit

\* The tokens that are no words are not of digits.
LEMMA SymbolsAreNotRead ==
    ASSUME NEW at, at = <<>> \/ (1 \in DOMAIN at /\ text[at[1]] \in Symbols)
    PROVE  ~Decimal(Spelled(at))
<1>1. CASE at = <<>>
    BY <1>1 DEF Decimal, Spelled
<1>2. CASE 1 \in DOMAIN at /\ text[at[1]] \in Symbols
    <2>1. Spelled(at)[1] \in Symbols
        BY <1>2 DEF Spelled
    <2> QED BY <2>1 DEF Decimal, Symbols, Singles, Firsts, Digits
<1> QED BY <1>1, <1>2

LEMMA NumberStep ==
    ASSUME ScanInv, NumberInv, [ScanNext]_scanVars PROVE NumberInv'
<1>1. ScanTypeOK /\ WordAtHand /\ NumbersRead /\ WordDigit
    BY DEF ScanInv, NumberInv
<1>2. text \in Seq(STRING) /\ tokens \in Seq(Token) /\ acc \in Seq(DOMAIN text) /\ start \in Nat
    BY <1>1, TextsAssumption DEF ScanTypeOK
<1>3. CASE UNCHANGED scanVars
    BY <1>1, <1>3 DEF scanVars, NumberInv, NumbersRead, WordDigit, Spelled
<1>4. CASE Call
    <2>1. acc' = acc /\ acc = <<>> /\ tokens' = tokens /\ text' = text /\ status' = "scanning"
          /\ isDigit' = FALSE
        BY <1>1, <1>4 DEF Call, WordAtHand
    <2> QED BY <1>1, <2>1 DEF NumberInv, NumbersRead, WordDigit, Spelled
<1>5. CASE Accumulate
    <2>1. /\ acc' = Append(acc, pos) /\ status = "scanning" /\ status' = status
          /\ text' = text /\ tokens' = tokens
          /\ isDigit' = (isDigit \/ (acc = <<>> /\ current \in Digits))
        BY <1>5 DEF Accumulate
    <2>2. current # "end"
        BY <1>5 DEF Accumulate, Takes
    <2>3. pos \in DOMAIN text /\ current = text[pos]
        BY <1>1, <2>2 DEF ScanTypeOK
    <2>4. acc' # <<>> /\ acc'[1] = IF acc = <<>> THEN pos ELSE acc[1]
        BY <1>2, <2>1, <2>3
    <2>5. WordDigit'
        BY <1>1, <2>1, <2>3, <2>4 DEF WordDigit
    <2>6. NumbersRead'
        BY <1>1, <2>1 DEF NumbersRead, Spelled
    <2> QED BY <2>5, <2>6 DEF NumberInv
<1>6. CASE SkipNul
    BY <1>1, <1>6 DEF SkipNul, NumberInv, NumbersRead, WordDigit, Spelled
<1>7. CASE ResolveWord
    <2> DEFINE word == Spelled(acc)
               kind == ResolveToken(word, isDigit)
    <2>1. acc # <<>> /\ text' = text /\ (isDigit <=> text[acc[1]] \in Digits) /\ 1 \in DOMAIN acc
        BY <1>1, <1>2, <1>7 DEF ResolveWord, WordDigit, Return
    <2>2. word \in Seq(STRING) /\ word # <<>> /\ word[1] = text[acc[1]] /\ 1 \in DOMAIN word
        <3>1. DOMAIN word = DOMAIN acc /\ \A k \in DOMAIN acc : word[k] = text[acc[k]]
            BY DEF Spelled
        <3>2. \A k \in DOMAIN acc : text[acc[k]] \in STRING
            BY <1>2
        <3>3. word = [k \in 1..Len(acc) |-> text[acc[k]]] /\ Len(acc) \in Nat
              /\ DOMAIN acc = 1..Len(acc)
            BY <1>2 DEF Spelled
        <3>4. word \in Seq(STRING)
            BY <3>2, <3>3
        <3> HIDE DEF word
        <3> QED BY <2>1, <3>1, <3>4
    <2>3. isDigit => word \notin Keywords
        BY <2>1, <2>2, KeywordsAssumption
    <2>4. Decimal(word) => kind = IF Dots(word) = {} THEN "int"
                                   ELSE IF word \in OutOfRange THEN "outOfRange" ELSE "double"
        <3>1. Decimal(word) => isDigit
            BY <2>1, <2>2 DEF Decimal
        <3> QED BY <3>1, <2>2, <2>3, DecimalIsNumber DEF ResolveToken
    <2>5. NumberKind(word) \in Exceptions \union {"double", "int"}
          /\ (NumberKind(word) = "double" => word \notin OutOfRange)
        BY DEF NumberKind, Exceptions
    <2>6. Numeric(kind) \/ kind \in Exceptions => isDigit
        BY DEF ResolveToken, Numeric, Exceptions
    <2>7. CASE kind \in Exceptions
        <3>1. status' = "uncaught" /\ acc' = acc /\ tokens' = tokens /\ isDigit' = isDigit
            BY <1>7, <2>7 DEF ResolveWord
        <3>2. Decimal(word) => Dots(word) # {} /\ word \in OutOfRange
            BY <2>4, <2>7 DEF Exceptions
        <3>3. text[acc[1]] \in Digits
            BY <2>1, <2>6, <2>7
        <3>4. \A at : Spelled(at)' = Spelled(at)
            BY <2>1 DEF Spelled
        <3>5. WordDigit'
            BY <1>1, <2>1, <3>1 DEF WordDigit
        <3>6. NumbersRead'
            BY <1>1, <2>1, <3>1, <3>2, <3>3, <3>4 DEF NumbersRead
        <3> QED BY <3>5, <3>6 DEF NumberInv
    <2>8. CASE kind \notin Exceptions
        <3>1. Return(kind, acc)
            BY <1>7, <2>8 DEF ResolveWord
        <3>2. kind \in Kinds
            BY <2>5, <2>8 DEF ResolveToken, Kinds
        <3>3. Numeric(kind) => word[1] \in Digits
            BY <2>1, <2>2, <2>6
        <3>4. Decimal(word) => kind = IF Dots(word) = {} THEN "int" ELSE "double"
            BY <2>4, <2>8 DEF Exceptions
        <3>5. kind = "double" => word \notin OutOfRange
            BY <2>5 DEF ResolveToken
        <3> HIDE DEF kind
        <3> QED BY <1>1, <1>2, <2>1, <3>1, <3>2, <3>3, <3>4, <3>5, ReturnRead
    <2> QED BY <2>7, <2>8
<1>8. CASE SingleSymbol
    <2> DEFINE at == <<pos>>
    <2>1. Return(Kind(current), at) /\ current \in Singles /\ text' = text
        BY <1>8 DEF SingleSymbol, Return
    <2>2. current # "end" /\ current \in Symbols
        BY <2>1 DEF Singles, Symbols
    <2>3. pos \in DOMAIN text /\ current = text[pos]
        BY <1>1, <2>2 DEF ScanTypeOK
    <2>4. Kind(current) \in Kinds /\ ~Numeric(Kind(current))
        BY <2>1 DEF Kind, Kinds, Symbols, Singles, Numeric
    <2>d. Kind(current) # "double"
        BY <2>4 DEF Numeric
    <2>5. at \in Seq(DOMAIN text) /\ 1 \in DOMAIN at /\ at[1] = pos
        BY <2>3
    <2> HIDE DEF at
    <2>6. ~Decimal(Spelled(at))
        BY <2>2, <2>3, <2>5, SymbolsAreNotRead
    <2> QED BY <1>1, <1>2, <2>1, <2>4, <2>d, <2>5, <2>6, ReturnRead
<1>9. CASE PairSymbol
    <2> DEFINE two == CharAt(pos + 1) = Second(current)
               at == IF two THEN <<pos, pos + 1>> ELSE <<pos>>
               kind == IF two THEN Both(current) ELSE current
    <2>1. Return(kind, at) /\ current \in Firsts /\ text' = text
        BY <1>9 DEF PairSymbol, Return
    <2>2. current # "end" /\ current \in Symbols /\ Second(current) # "end"
        BY <2>1 DEF Firsts, Symbols, Second
    <2>3. pos \in DOMAIN text /\ current = text[pos] /\ (two => pos + 1 \in DOMAIN text)
        BY <1>1, <1>2, <2>2 DEF ScanTypeOK, CharAt
    <2>4. kind \in Kinds /\ ~Numeric(kind)
        BY <2>1 DEF Kinds, Symbols, Firsts, Numeric, Both
    <2>d. kind # "double"
        BY <2>4 DEF Numeric
    <2>5. at \in Seq(DOMAIN text) /\ 1 \in DOMAIN at /\ at[1] = pos
        <3>1. CASE two
            <4>1. at = <<pos, pos + 1>>
                BY <3>1
            <4> QED BY <3>1, <4>1, <2>3
        <3>2. CASE ~two
            <4>1. at = <<pos>>
                BY <3>2
            <4> QED BY <3>2, <4>1, <2>3
        <3> QED BY <3>1, <3>2
    <2> HIDE DEF at, kind, two
    <2>6. ~Decimal(Spelled(at))
        BY <2>2, <2>3, <2>5, SymbolsAreNotRead
    <2> QED BY <1>1, <1>2, <2>1, <2>4, <2>d, <2>5, <2>6, ReturnRead
<1>10. CASE EndOfText
    <2> DEFINE at == <<>>
    <2>1. Return("eof", at) /\ text' = text /\ at \in Seq(DOMAIN text) /\ at = <<>>
        BY <1>10 DEF EndOfText, Return
    <2>2. "eof" \in Kinds /\ ~Numeric("eof")
        BY DEF Kinds, Numeric
    <2> HIDE DEF at
    <2>3. ~Decimal(Spelled(at))
        BY <2>1, SymbolsAreNotRead
    <2> QED BY <1>1, <1>2, <2>1, <2>2, <2>3, ReturnRead
<1> QED BY <1>3, <1>4, <1>5, <1>6, <1>7, <1>8, <1>9, <1>10 DEF ScanNext

(***************************************************************************)
(* For every text, all keywords that do not begin with a digit, and any    *)
(* range of a double: digits are read as an int and digits with dots as a  *)
(* double, or end in the exception if they have a dot and are out of that  *)
(* range; a word that begins with another character is no number.          *)
(***************************************************************************)
THEOREM NumbersReadRight == ScanSpec => []NumbersRead
<1>1. ScanInit => NumberInv
    BY DEF ScanInit, NumberInv, NumbersRead, WordDigit
<1>2. ScanInv /\ NumberInv /\ [ScanNext]_scanVars => NumberInv'
    BY NumberStep
<1>3. NumberInv => NumbersRead
    BY DEF NumberInv
<1> QED BY InitInv, NextInv, <1>1, <1>2, <1>3, PTL DEF ScanSpec
-----------------------------------------------------------------------------
(* Where the tokens begin.                                                  *)

Parts == {"none", "number", "first", "second", "word"}

\* PartOf satisfies its equation.
LEMMA PartOfSteps ==
    ASSUME text \in Seq(STRING)
    PROVE  /\ PartOf[0] = "none"
           /\ \A i \in 1..Len(text) : PartOf[i] = Part(i, PartOf[i - 1])
<1> DEFINE n == Len(text)
           F == [x \in (1..n) \X Parts |-> Part(x[1], x[2])]
<1>1. n \in Nat
    OBVIOUS
<1>2. \A x \in (1..n) \X Parts : Part(x[1], x[2]) \in Parts
    BY DEF Part, Parts
<1>3. F \in [(1..n) \X Parts -> Parts] /\ "none" \in Parts
    BY <1>2 DEF Parts
<1>4. \A i \in 1..n : \A before \in Parts : F[<<i, before>>] = Part(i, before)
    OBVIOUS
<1> HIDE DEF F, n
<1> DEFINE b == "none"
<1>b. b \in Parts /\ b = "none"
    BY <1>3
<1> HIDE DEF b
<1>5a. PICK f \in [0..n -> Parts] : Follows(f, n, b, F)
    BY <1>1, <1>3, <1>b, FunctionBySteps
<1>5. f[0] = b /\ \A i \in 1..n : f[i] = F[<<i, f[i - 1]>>]
    BY <1>5a DEF Follows
<1>6. \A i \in 1..n : f[i - 1] \in Parts
    BY <1>1
<1>7. \A i \in 1..n : f[i] = Part(i, f[i - 1])
    BY <1>4, <1>5, <1>6
<1>8. \A i \in 0..n : f[i] = IF i = 0 THEN "none" ELSE Part(i, f[i - 1])
    BY <1>1, <1>5, <1>7, <1>b
<1>9. f = [i \in 0..n |-> IF i = 0 THEN "none" ELSE Part(i, f[i - 1])]
    BY <1>8
<1>10. PartOf = [i \in 0..n |-> IF i = 0 THEN "none" ELSE Part(i, PartOf[i - 1])]
    BY <1>9 DEF PartOf, n
<1>11. 0 \in 0..n /\ \A i \in 1..n : i \in 0..n /\ i # 0
    BY <1>1
<1>12. PartOf[0] = "none" /\ \A i \in 1..n : PartOf[i] = Part(i, PartOf[i - 1])
    BY <1>10, <1>11
<1> QED BY <1>12 DEF n

\* The character after a token that is one symbol or two begins a token, and
\* so does the first one.
LEMMA BeginsAfter ==
    ASSUME text \in Seq(STRING), NEW i \in DOMAIN text,
           PartOf[i - 1] \in {"none", "first", "second"},
           PartOf[i - 1] = "first" /\ text[i - 1] \in Firsts => text[i] # Second(text[i - 1])
    PROVE  Begins(i)
<1>1. PartOf[i] = Part(i, PartOf[i - 1])
    BY PartOfSteps
<1> QED BY <1>1 DEF Part, Begins

\* A symbol that begins a token is just that.
LEMMA SymbolBegins ==
    ASSUME text \in Seq(STRING), NEW i \in DOMAIN text, Begins(i), text[i] \in Symbols
    PROVE  PartOf[i] = "first"
<1>1. PartOf[i] = Part(i, PartOf[i - 1])
    BY PartOfSteps
<1> QED BY <1>1 DEF Part, Begins

(***************************************************************************)
(* The invariant: what was read holds no end; the word at hand reaches the *)
(* frontier and is a number just when isDigit; and with no word at hand    *)
(* the next character begins a token.                                      *)
(***************************************************************************)
NoEndBehind == \A i \in DOMAIN text : i < Frontier => text[i] # "end"
HeadsBegin == Heads = {i \in DOMAIN text : i < Frontier /\ Begins(i)}
AtFrontier ==
    IF acc = <<>> THEN current # "end" => Begins(pos)
    ELSE /\ acc[Len(acc)] = Frontier - 1
         /\ PartOf[Frontier - 1] = IF isDigit THEN "number" ELSE "word"

MatchInv == NoEndBehind /\ (NoNul => HeadsBegin /\ AtFrontier)

\* The heads after one more token is returned.
LEMMA HeadsMore ==
    ASSUME tokens \in Seq(Token), text' = text,
           NEW kind \in Kinds, NEW at \in Seq(DOMAIN text), start \in Nat, Return(kind, at)
    PROVE  Heads' = {tokens[k].at[1] : k \in {l \in DOMAIN tokens : tokens[l].at # <<>>}}
                       \union (IF at = <<>> THEN {} ELSE {at[1]})
<1> DEFINE t == [kind |-> kind, at |-> at, start |-> start]
<1>1. t \in Token /\ t.at = at
    BY DEF Token
<1>2. tokens' = Append(tokens, t) /\ acc' = <<>>
    BY DEF Return
<1> HIDE DEF t
<1>3. /\ DOMAIN tokens' = 1..(Len(tokens) + 1) /\ DOMAIN tokens = 1..Len(tokens)
      /\ Len(tokens) \in Nat
      /\ \A k \in DOMAIN tokens : tokens'[k] = tokens[k]
      /\ tokens'[Len(tokens) + 1] = t
    BY <1>1, <1>2, GivenMore
<1>4. DOMAIN tokens' = DOMAIN tokens \union {Len(tokens) + 1}
    BY <1>3
<1>5. Heads' = {tokens'[k].at[1] : k \in {l \in DOMAIN tokens' : tokens'[l].at # <<>>}}
    BY <1>2 DEF Heads
<1>6. {l \in DOMAIN tokens' : tokens'[l].at # <<>>} =
        {l \in DOMAIN tokens : tokens[l].at # <<>>}
            \union (IF at = <<>> THEN {} ELSE {Len(tokens) + 1})
    BY <1>1, <1>3, <1>4
<1> QED BY <1>1, <1>3, <1>5, <1>6

LEMMA SameBegins ==
    ASSUME text' = text
    PROVE  PartOf' = PartOf /\ NoNul' = NoNul /\ \A i : Begins(i)' <=> Begins(i)
BY DEF PartOf, Part, NoNul, Begins

LEMMA MatchInit == ScanInit => MatchInv
<1> SUFFICES ASSUME ScanInit PROVE MatchInv
    OBVIOUS
<1>1. text \in Seq(STRING) /\ acc = <<>> /\ tokens = <<>> /\ pos = 1
    BY TextsAssumption DEF ScanInit
<1>2. Heads = {}
    BY <1>1 DEF Heads
<1>3. Frontier = 1
    <2>1. current = CharAt(1)
        BY DEF ScanInit
    <2>2. CASE text = <<>>
        BY <2>2, <2>1, <1>1 DEF Frontier, AtEnd, CharAt
    <2>3. CASE text # <<>>
        BY <2>3, <2>1, <1>1 DEF Frontier, AtEnd, CharAt
    <2> QED BY <2>2, <2>3
<1>4. \A i \in DOMAIN text : ~(i < 1)
    BY <1>1
<1>5. ASSUME current # "end" PROVE Begins(1)
    <2>1. 1 \in DOMAIN text
        BY <1>1, <1>5 DEF ScanInit, CharAt
    <2>2. PartOf[1 - 1] = "none"
        BY <1>1, PartOfSteps
    <2> QED BY <1>1, <2>1, <2>2, BeginsAfter
<1> QED BY <1>1, <1>2, <1>3, <1>4, <1>5 DEF MatchInv, NoEndBehind, HeadsBegin, AtFrontier

\* Steps that read no character and return no token.
LEMMA MatchSame ==
    ASSUME MatchInv, text' = text, pos' = pos, current' = current, acc' = acc,
           tokens' = tokens, acc = <<>> \/ isDigit' = isDigit
    PROVE  MatchInv'
<1>1. Frontier' = Frontier /\ Heads' = Heads
    BY DEF Frontier, AtEnd, Heads
<1>2. PartOf' = PartOf /\ NoNul' = NoNul /\ \A i : Begins(i)' <=> Begins(i)
    BY SameBegins
<1>3. NoEndBehind' <=> NoEndBehind
    BY <1>1 DEF NoEndBehind
<1>4. HeadsBegin' <=> HeadsBegin
    BY <1>1, <1>2 DEF HeadsBegin
<1>5. AtFrontier' <=> AtFrontier
    BY <1>1, <1>2 DEF AtFrontier
<1> QED BY <1>2, <1>3, <1>4, <1>5 DEF MatchInv

\* The character at pos is in the word at hand.
LEMMA MatchAccumulate ==
    ASSUME ScanInv, NumberInv, MatchInv, Accumulate PROVE MatchInv'
<1>1. ScanTypeOK /\ text \in Seq(STRING) /\ acc \in Seq(DOMAIN text)
    BY TextsAssumption DEF ScanInv, ScanTypeOK
<1>2. /\ text' = text /\ tokens' = tokens /\ acc' = Append(acc, pos) /\ Advance(1)
      /\ isDigit' = (isDigit \/ (acc = <<>> /\ current \in Digits))
      /\ current # "end" /\ status = "scanning" /\ WordDigit /\ isDigit \in BOOLEAN
    BY <1>1 DEF Accumulate, Takes, NumberInv, ScanTypeOK
<1>3. Frontier = pos /\ pos \in DOMAIN text /\ current = text[pos] /\ Frontier' = pos + 1
    BY <1>1, <1>2, ReadOn
<1>4. DOMAIN text = 1..Len(text) /\ Len(text) \in Nat /\ pos \in Nat
    BY <1>1, <1>3
<1>5. PartOf' = PartOf /\ NoNul' = NoNul /\ \A i : Begins(i)' <=> Begins(i)
    BY <1>2, SameBegins
<1>6. NoEndBehind'
    <2>1. \A i \in DOMAIN text : i < pos + 1 => i < pos \/ i = pos
        BY <1>4
    <2> QED BY <2>1, <1>2, <1>3 DEF NoEndBehind, MatchInv
<1>7. ASSUME NoNul PROVE HeadsBegin' /\ AtFrontier'
    <2>1. HeadsBegin /\ AtFrontier
        BY <1>7 DEF MatchInv
    <2>2. /\ acc' # <<>> /\ acc'[Len(acc')] = pos
          /\ acc'[1] = IF acc = <<>> THEN pos ELSE acc[1]
        BY <1>1, <1>2, <1>3
    <2>3. PartOf[pos] = Part(pos, PartOf[pos - 1])
        BY <1>1, <1>3, <1>4, PartOfSteps
    <2>4. {i \in DOMAIN text : i < pos + 1 /\ Begins(i)} =
             {i \in DOMAIN text : i < pos /\ Begins(i)} \union {i \in {pos} : Begins(i)}
        BY <1>3, <1>4
    <2>5. CASE acc = <<>>
        <3>1. Begins(pos) /\ ~isDigit /\ current \notin Symbols
            BY <2>1, <2>5, <1>2 DEF AtFrontier, Accumulate, Takes, WordDigit
        <3>2. PartOf[pos] = IF text[pos] \in Digits THEN "number" ELSE "word"
            BY <2>3, <3>1, <1>3 DEF Part, Begins
        <3>3. Heads' = Heads \union {pos}
            BY <1>2, <2>2, <2>5 DEF Heads
        <3>4. HeadsBegin'
            BY <3>1, <3>3, <2>1, <2>4, <1>2, <1>3, <1>5 DEF HeadsBegin
        <3>5. isDigit' = (text[pos] \in Digits) /\ Frontier' - 1 = pos
            BY <3>1, <2>5, <1>2, <1>3, <1>4
        <3>6. AtFrontier'
            BY <3>2, <3>5, <2>2, <1>5 DEF AtFrontier
        <3> QED BY <3>4, <3>6
    <2>6. CASE acc # <<>>
        <3>1. /\ acc[Len(acc)] = pos - 1
              /\ PartOf[pos - 1] = IF isDigit THEN "number" ELSE "word"
              /\ isDigit' = isDigit
            <4>1. isDigit' = isDigit
                BY <2>6, <1>2
            <4> QED BY <4>1, <2>1, <2>6, <1>3 DEF AtFrontier
        <3>2. PartOf[pos] = PartOf[pos - 1]
            BY <2>3, <3>1, <1>3 DEF Part, Accumulate, Takes
        <3>3. ~Begins(pos)
            BY <3>1, <3>2 DEF Begins
        <3>4. Heads' = Heads
            BY <1>2, <2>2, <2>6 DEF Heads
        <3>5. HeadsBegin'
            BY <3>3, <3>4, <2>1, <2>4, <1>2, <1>3, <1>5 DEF HeadsBegin
        <3>6. AtFrontier'
            BY <3>1, <3>2, <2>2, <2>6, <1>2, <1>3, <1>4, <1>5 DEF AtFrontier
        <3> QED BY <3>5, <3>6
    <2> QED BY <2>5, <2>6
<1> QED BY <1>5, <1>6, <1>7 DEF MatchInv

\* A word that is returned leaves the heads, and what ends it begins a token.
LEMMA MatchWord ==
    ASSUME ScanInv, NumberInv, MatchInv, ResolveWord PROVE MatchInv'
<1>1. ScanTypeOK /\ text \in Seq(STRING) /\ acc \in Seq(DOMAIN text) /\ start \in Nat
      /\ tokens \in Seq(Token) /\ isDigit \in BOOLEAN
    BY TextsAssumption DEF ScanInv, ScanTypeOK
<1> DEFINE kind == ResolveToken(Spelled(acc), isDigit)
<1>2. text' = text /\ pos' = pos /\ current' = current /\ acc # <<>> /\ ~Takes /\ current # "nul"
      /\ isDigit' = isDigit
    BY DEF ResolveWord, Return
<1>3. CASE kind \in Exceptions
    <2>1. acc' = acc /\ tokens' = tokens
        BY <1>3 DEF ResolveWord
    <2> QED BY <1>2, <2>1, MatchSame
<1>4. CASE kind \notin Exceptions
    <2>1. Return(kind, acc) /\ acc' = <<>>
        BY <1>4 DEF ResolveWord, Return
    <2>2. kind \in Kinds
        BY <1>4 DEF ResolveToken, NumberKind, Kinds, Exceptions
    <2> HIDE DEF kind
    <2>3. Heads' = Heads
        BY <1>1, <1>2, <2>1, <2>2, HeadsMore DEF Heads
    <2>4. Frontier' = Frontier
        BY <1>2 DEF Frontier, AtEnd
    <2>5. PartOf' = PartOf /\ NoNul' = NoNul /\ \A i : Begins(i)' <=> Begins(i)
        BY <1>2, SameBegins
    <2>6. NoEndBehind'
        BY <1>2, <2>4 DEF NoEndBehind, MatchInv
    <2>7. ASSUME NoNul PROVE HeadsBegin' /\ AtFrontier'
        <3>1. HeadsBegin /\ AtFrontier
            BY <2>7 DEF MatchInv
        <3>2. HeadsBegin'
            BY <3>1, <2>3, <2>4, <2>5, <1>2 DEF HeadsBegin
        <3>3. ASSUME current # "end" PROVE Begins(pos)
            <4>1. pos \in DOMAIN text /\ current = text[pos] /\ Frontier = pos
                BY <1>1, <3>3 DEF ScanTypeOK, Frontier, AtEnd
            <4>2. PartOf[pos] = Part(pos, PartOf[pos - 1])
                BY <1>1, <4>1, PartOfSteps
            <4>3. /\ acc[Len(acc)] = pos - 1
                  /\ PartOf[pos - 1] = IF isDigit THEN "number" ELSE "word"
                BY <3>1, <4>1, <1>2 DEF AtFrontier
            <4>4. current \in Symbols
                BY <3>3, <1>2 DEF Takes
            <4>5. PartOf[pos] = "first"
                BY <4>1, <4>2, <4>3, <4>4, <1>2 DEF Part, Takes
            <4> QED BY <4>5 DEF Begins
        <3>4. AtFrontier'
            BY <3>3, <1>2, <2>1, <2>5 DEF AtFrontier
        <3> QED BY <3>2, <3>4
    <2> QED BY <2>5, <2>6, <2>7 DEF MatchInv
<1> QED BY <1>3, <1>4

\* A symbol of one character or of two is returned, and the character after
\* it begins a token.
LEMMA MatchSymbol ==
    ASSUME ScanInv, MatchInv, acc = <<>>, current \in Symbols, text' = text,
           NEW n \in {1, 2}, NEW kind \in Kinds, NEW at \in Seq(DOMAIN text),
           at # <<>>, at[1] = pos, Return(kind, at), Advance(n),
           IF n = 2 THEN current \in Firsts /\ CharAt(pos + 1) = Second(current)
                    ELSE current \in Singles \/ CharAt(pos + 1) # Second(current)
    PROVE  MatchInv'
<1>1. ScanTypeOK /\ text \in Seq(STRING) /\ start \in Nat /\ tokens \in Seq(Token)
    BY TextsAssumption DEF ScanInv, ScanTypeOK
<1>2. current # "end" /\ current # "nul" /\ Second(current) # "end" /\ Second(current) # "nul"
    BY DEF Symbols, Singles, Firsts, Second
<1>3. n = 2 => pos + 1 \in DOMAIN text /\ text[pos + 1] = Second(current)
    BY <1>1, <1>2 DEF CharAt, ScanTypeOK
<1>4. /\ Frontier = pos /\ pos \in DOMAIN text /\ current = text[pos] /\ Frontier' = pos + n
      /\ ~AtEnd' => pos' = pos + n
      /\ text = <<>> \/ pos' \in DOMAIN text
      /\ current' = "end" \/ (text # <<>> /\ current' = text[pos'])
    BY <1>1, <1>2, <1>3, ReadOn
<1>5. DOMAIN text = 1..Len(text) /\ Len(text) \in Nat /\ pos \in Nat
    BY <1>1, <1>4
<1>6. PartOf' = PartOf /\ NoNul' = NoNul /\ \A i : Begins(i)' <=> Begins(i)
    BY SameBegins
<1>7. \A i \in DOMAIN text : i < pos + n <=> i < pos \/ i = pos \/ (n = 2 /\ i = pos + 1)
    BY <1>5
<1>8. NoEndBehind'
    BY <1>2, <1>3, <1>4, <1>7 DEF NoEndBehind, MatchInv
<1>9. ASSUME NoNul PROVE HeadsBegin' /\ AtFrontier'
    <2>1. HeadsBegin /\ Begins(pos) /\ acc' = <<>>
        BY <1>2, <1>9 DEF MatchInv, AtFrontier, Return
    <2>2. PartOf[pos] = "first"
        BY <2>1, <1>1, <1>4, SymbolBegins
    <2>3. n = 2 => PartOf[pos + 1] = "second"
        <3>1. ASSUME n = 2 PROVE PartOf[pos + 1] = Part(pos + 1, PartOf[pos])
            <4>1. pos + 1 \in 1..Len(text) /\ (pos + 1) - 1 = pos
                BY <3>1, <1>3, <1>5
            <4> QED BY <4>1, <1>1, PartOfSteps
        <3>2. n = 2 => (pos + 1) - 1 = pos
            BY <1>5
        <3> QED BY <3>1, <3>2, <2>2, <1>3, <1>4 DEF Part
    <2>4. n = 2 => ~Begins(pos + 1)
        BY <2>3 DEF Begins
    <2>5. Heads' = Heads \union {pos}
        BY <1>1, HeadsMore DEF Heads
    <2>6. {i \in DOMAIN text : i < pos + n /\ Begins(i)} =
             {i \in DOMAIN text : i < pos /\ Begins(i)} \union {pos}
        BY <2>1, <2>4, <1>4, <1>7
    <2>7. HeadsBegin'
        BY <2>1, <2>5, <2>6, <1>4, <1>6 DEF HeadsBegin
    <2>8. ASSUME current' # "end" PROVE Begins(pos')
        <3>1. pos' = pos + n /\ pos' \in DOMAIN text
            BY <2>8, <1>4 DEF AtEnd
        <3>2. CASE n = 2
            <4>1. PartOf[(pos + n) - 1] = "second"
                BY <3>2, <2>3, <1>5
            <4> QED BY <4>1, <3>1, <1>1, BeginsAfter
        <3>3. CASE n = 1
            <4>1. (pos + n) - 1 = pos /\ pos + 1 = pos + n
                BY <3>3, <1>5
            <4>2. CharAt(pos + n) = text[pos + n]
                BY <3>1, <1>5 DEF CharAt
            <4>3. current \in Singles \/ CharAt(pos + n) # Second(current)
                BY <4>1, <3>3
            <4>4. current \in Firsts => current \notin Singles
                BY DEF Singles, Firsts
            <4>5. current \in Firsts => text[pos + n] # Second(text[pos])
                BY <4>2, <4>3, <4>4, <1>4
            <4> QED BY <4>1, <4>5, <3>1, <2>2, <1>1, <1>4, BeginsAfter
        <3> QED BY <3>2, <3>3
    <2>9. AtFrontier'
        BY <2>1, <2>8, <1>6 DEF AtFrontier
    <2> QED BY <2>7, <2>9
<1> QED BY <1>6, <1>8, <1>9 DEF MatchInv

LEMMA MatchSingle ==
    ASSUME ScanInv, MatchInv, SingleSymbol PROVE MatchInv'
<1> DEFINE at == <<pos>>
           kind == Kind(current)
<1>1. Return(kind, at) /\ current \in Singles /\ text' = text /\ acc = <<>> /\ Advance(1)
    BY DEF SingleSymbol, Return
<1>2. current # "end" /\ current \in Symbols
    BY <1>1 DEF Singles, Symbols
<1>3. pos \in DOMAIN text
    BY <1>2 DEF ScanInv, ScanTypeOK
<1>4. kind \in Kinds
    BY <1>1 DEF Kind, Kinds, Symbols, Singles
<1>5. at \in Seq(DOMAIN text) /\ at # <<>> /\ at[1] = pos
    BY <1>3
<1> HIDE DEF at, kind
<1> DEFINE n == 1
<1>6. n \in {1, 2} /\ Advance(n) /\ n # 2
    BY <1>1
<1> HIDE DEF n
<1> QED BY <1>1, <1>2, <1>4, <1>5, <1>6, MatchSymbol

LEMMA MatchPair ==
    ASSUME ScanInv, MatchInv, PairSymbol PROVE MatchInv'
<1> DEFINE two == CharAt(pos + 1) = Second(current)
           at == IF two THEN <<pos, pos + 1>> ELSE <<pos>>
           kind == IF two THEN Both(current) ELSE current
           n == IF two THEN 2 ELSE 1
<1>1. Return(kind, at) /\ current \in Firsts /\ text' = text /\ acc = <<>> /\ Advance(n)
    BY DEF PairSymbol, Return
<1>2. current # "end" /\ current \in Symbols /\ Second(current) # "end"
    BY <1>1 DEF Firsts, Symbols, Second
<1>3. pos \in DOMAIN text /\ (two => pos + 1 \in DOMAIN text)
    BY <1>2, TextsAssumption DEF ScanInv, ScanTypeOK, CharAt
<1>4. kind \in Kinds
    BY <1>1 DEF Kinds, Symbols, Firsts, Both
<1>5. at \in Seq(DOMAIN text) /\ at # <<>> /\ at[1] = pos
    <2>1. CASE two
        BY <2>1, <1>3
    <2>2. CASE ~two
        BY <2>2, <1>3
    <2> QED BY <2>1, <2>2
<1>6. n \in {1, 2} /\ (n = 2 <=> two)
    OBVIOUS
<1> HIDE DEF at, kind, n
<1> QED BY <1>1, <1>2, <1>4, <1>5, <1>6, MatchSymbol

LEMMA MatchStep ==
    ASSUME ScanInv, NumberInv, MatchInv, [ScanNext]_scanVars PROVE MatchInv'
<1>1. CASE UNCHANGED scanVars
    BY <1>1, MatchSame DEF scanVars
<1>2. CASE Call
    <2>1. acc = <<>>
        BY <1>2 DEF Call, ScanInv, WordAtHand
    <2> QED BY <1>2, <2>1, MatchSame DEF Call
<1>3. CASE Accumulate
    BY <1>3, MatchAccumulate
<1>4. CASE SkipNul
    <2>1. ScanTypeOK /\ text \in Seq(STRING)
        BY TextsAssumption DEF ScanInv, ScanTypeOK
    <2>2. text' = text /\ current = "nul" /\ Advance(1)
        BY <1>4 DEF SkipNul
    <2>3. Frontier = pos /\ pos \in DOMAIN text /\ current = text[pos] /\ Frontier' = pos + 1
        BY <2>1, <2>2, ReadOn
    <2>4. \A i \in DOMAIN text : i < pos + 1 => i < pos \/ i = pos
        BY <2>1, <2>3
    <2>5. NoEndBehind'
        BY <2>2, <2>3, <2>4 DEF NoEndBehind, MatchInv
    <2>6. ~NoNul'
        BY <2>2, <2>3 DEF NoNul
    <2> QED BY <2>5, <2>6 DEF MatchInv
<1>5. CASE ResolveWord
    BY <1>5, MatchWord
<1>6. CASE SingleSymbol
    BY <1>6, MatchSingle
<1>7. CASE PairSymbol
    BY <1>7, MatchPair
<1>8. CASE EndOfText
    <2> DEFINE at == <<>>
    <2>1. /\ Return("eof", at) /\ text' = text /\ at \in Seq(DOMAIN text) /\ at = <<>>
          /\ acc = <<>> /\ pos' = pos /\ current' = current /\ acc' = acc
        BY <1>8 DEF EndOfText, Return
    <2>2. "eof" \in Kinds /\ tokens \in Seq(Token) /\ start \in Nat
        BY DEF Kinds, ScanInv, ScanTypeOK
    <2> HIDE DEF at
    <2>3. Heads' = Heads
        BY <2>1, <2>2, HeadsMore DEF Heads
    <2>4. Frontier' = Frontier
        BY <2>1 DEF Frontier, AtEnd
    <2>5. PartOf' = PartOf /\ NoNul' = NoNul /\ \A i : Begins(i)' <=> Begins(i)
        BY <2>1, SameBegins
    <2> QED BY <2>1, <2>3, <2>4, <2>5 DEF MatchInv, NoEndBehind, HeadsBegin, AtFrontier
<1> QED BY <1>1, <1>2, <1>3, <1>4, <1>5, <1>6, <1>7, <1>8 DEF ScanNext

\* The invariant says what the property does.
LEMMA MatchIsLongest == ScanInv /\ MatchInv => LongestMatch
<1> SUFFICES ASSUME ScanInv, MatchInv, NoNul PROVE LongestMatch
    BY DEF LongestMatch
<1>1. ScanTypeOK /\ text \in Seq(STRING) /\ HeadsBegin /\ AtFrontier /\ NoEndBehind
    BY TextsAssumption DEF ScanInv, ScanTypeOK, MatchInv
<1>2. DOMAIN text = 1..Len(text) /\ Len(text) \in Nat /\ pos \in Nat
      /\ (text = <<>> \/ pos \in DOMAIN text)
    BY <1>1 DEF ScanTypeOK
<1> DEFINE begins == {i \in DOMAIN text : BeforeEnd(i) /\ Begins(i)}
<1>3. \A i \in DOMAIN text : i < Frontier => BeforeEnd(i)
    <2> SUFFICES ASSUME NEW i \in DOMAIN text, i < Frontier, NEW j \in 1..i
                 PROVE  text[j] # "end"
        BY DEF BeforeEnd
    <2>1. Frontier \in Nat
        BY <1>2 DEF Frontier
    <2>2. j \in DOMAIN text /\ j < Frontier
        BY <2>1, <1>2
    <2> QED BY <2>2, <1>1 DEF NoEndBehind
<1>4. Heads = {i \in begins : i < Frontier}
    BY <1>1, <1>3 DEF HeadsBegin
<1>5. ASSUME status = "idle" PROVE (current = "end") = (Heads = begins)
    <2>1. acc = <<>>
        BY <1>5 DEF ScanInv, WordAtHand
    <2>2. ASSUME current # "end" PROVE Heads # begins
        <3>1. pos \in DOMAIN text /\ current = text[pos] /\ Frontier = pos /\ Begins(pos)
            BY <1>1, <2>1, <2>2 DEF ScanTypeOK, Frontier, AtEnd, AtFrontier
        <3>2. BeforeEnd(pos)
            <4>1. \A j \in 1..pos : j \in DOMAIN text /\ (j < pos \/ j = pos)
                BY <3>1, <1>2
            <4> QED BY <4>1, <3>1, <2>2, <1>1 DEF BeforeEnd, NoEndBehind
        <3>3. pos \in begins /\ ~(pos < Frontier)
            BY <3>1, <3>2, <1>2
        <3> QED BY <3>3, <1>4
    <2>3. ASSUME current = "end" PROVE \A i \in begins : i < Frontier
        <3>1. CASE AtEnd
            BY <3>1, <1>2 DEF Frontier
        <3>2. CASE ~AtEnd
            <4>1. text # <<>> /\ text[pos] = "end" /\ Frontier = pos /\ pos \in DOMAIN text
                BY <3>2, <2>3, <1>2 DEF AtEnd, Frontier
            <4>2. ASSUME NEW i \in begins, ~(i < pos) PROVE FALSE
                <5>1. pos \in 1..i
                    BY <4>1, <4>2, <1>2
                <5> QED BY <5>1, <4>1, <4>2 DEF BeforeEnd
            <4> QED BY <4>1, <4>2
        <3> QED BY <3>1, <3>2
    <2>4. (current = "end") => (Heads = begins)
        BY <2>3, <1>4
    <2> QED BY <2>2, <2>4
<1> QED BY <1>4, <1>5 DEF LongestMatch

(***************************************************************************)
(* For every text without a byte 0, tokens begin exactly where the text    *)
(* alone says, up to what was read, and between two calls current is -1    *)
(* just when none is left before the end or a byte that ends the text.     *)
(***************************************************************************)
THEOREM TokensBeginRight == ScanSpec => []LongestMatch
<1>1. ScanInit => NumberInv
    BY DEF ScanInit, NumberInv, NumbersRead, WordDigit
<1>2. ScanInv /\ NumberInv /\ [ScanNext]_scanVars => NumberInv'
    BY NumberStep
<1>3. ScanInv /\ NumberInv /\ MatchInv /\ [ScanNext]_scanVars => MatchInv'
    BY MatchStep
<1> QED BY InitInv, NextInv, MatchInit, MatchIsLongest, <1>1, <1>2, <1>3, PTL DEF ScanSpec
=============================================================================
