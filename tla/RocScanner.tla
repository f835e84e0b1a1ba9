---------------------------- MODULE RocScanner ----------------------------
(***************************************************************************)
(* How Lexer makes tokens of characters (parser/Lexer.cpp): getNextToken,  *)
(* one step for each round of its loop, and what resolveToken and isNumber *)
(* make of a word.  RocLexer takes the tokens from here on.                *)
(*                                                                         *)
(* A text is a sequence of characters, each a string of one.  "nul" is the *)
(* byte 0, "end" the byte 0xFF, which the loop cannot tell from the end of *)
(* the text: both are the char -1.  acc and a token's text are sequences   *)
(* of positions, so that a character of the text is itself and no copy.    *)
(***************************************************************************)
EXTENDS Naturals, Sequences

CONSTANTS
    Texts,          \* the texts to scan
    Keywords,       \* the words resolveToken knows
    OutOfRange      \* external: the words std::stod throws out_of_range for

Digits == {"0", "1", "2", "3", "4", "5", "6", "7", "8", "9"}

ASSUME TextsAssumption == Texts \subseteq Seq(STRING)

\* The keywords are words: none begins with a digit.
ASSUME KeywordsAssumption == \A word \in Keywords : word[1] \notin Digits

VARIABLES
    text,           \* Lexer::content, chosen at the start
    pos,            \* Lexer::pos and offset, from 1
    current,        \* Lexer::current
    start,          \* startOffset of the call
    acc,            \* the characters of a word, by position
    isDigit,        \* the word began with a digit
    tokens,         \* history: the tokens returned
    status          \* whether a call is at work, or ended in an exception

scanVars == <<text, pos, current, start, acc, isDigit, tokens, status>>

Statuses == {"idle", "scanning", "uncaught"}

\* The characters that are a token, or the first of two.
Singles == {" ", "\n", ".", ";", "{", "}", "(", ")", "[", "]", ",", ":", "\"", "/", "\\", "*",
            "%", "^", "+"}
Firsts == {"!", "<", ">", "-", "="}
Second(c) == IF c = "-" THEN ">" ELSE "="
Both(c) ==
    CASE c = "!" -> "!=" [] c = "<" -> "<=" [] c = ">" -> ">=" [] c = "-" -> "->" [] OTHER -> "=="
Symbols == Singles \union Firsts
Kind(c) == CASE c = " " -> "space" [] c = "\n" -> "newline" [] OTHER -> c

Kinds ==
    {"keyword", "literal", "int", "double", "eof", "space", "newline", "!=", "<=", ">=", "->", "=="}
        \union Symbols

CharAt(p) == IF p > Len(text) THEN "end" ELSE text[p]
Spelled(at) == [k \in DOMAIN at |-> text[at[k]]]

-----------------------------------------------------------------------------
(* resolveToken and isNumber.                                               *)

\* The characters isNumber looks at: not the one after an e it looked at.
Looked(word) ==
    LET looked[i \in DOMAIN word] == i = 1 \/ word[i - 1] # "e" \/ ~looked[i - 1]
    IN {i \in DOMAIN word : looked[i]}

InNumber(word, i) == word[i] \in Digits \union {"."} \/ (word[i] = "e" /\ i < Len(word))

\* Mutant: every number goes through std::stod.
NumberKindStod(word) ==
    IF \E i \in Looked(word) : ~InNumber(word, i) THEN "unsupported"
    ELSE IF word \in OutOfRange THEN "outOfRange"
    ELSE IF \E i \in Looked(word) : word[i] = "." THEN "double" ELSE "int"

\* Only std::stod throws: strtol gives its largest number instead.
NumberKind(word) ==
    IF \E i \in Looked(word) : ~InNumber(word, i) THEN "unsupported"
    ELSE IF \A i \in Looked(word) : word[i] # "." THEN "int"
    ELSE IF word \in OutOfRange THEN "outOfRange" ELSE "double"

\* What isNumber ends in when it returns no token: nothing catches either.
Exceptions == {"unsupported", "outOfRange"}

ResolveToken(word, digit) ==
    IF word \in Keywords THEN "keyword" ELSE IF digit THEN NumberKind(word) ELSE "literal"

-----------------------------------------------------------------------------

ScanInit ==
    /\ text \in Texts
    /\ pos = 1 /\ current = CharAt(1) /\ start = 1
    /\ acc = <<>> /\ isDigit = FALSE
    /\ tokens = <<>> /\ status = "idle"

\* Mutant: pos runs past the last character.
AdvancePastEnd(n) == pos' = pos + n /\ current' = CharAt(pos + n)

\* n calls of nextChar: pos stays on the last character.
Advance(n) ==
    /\ pos' = IF pos + n > Len(text) THEN pos + n - 1 ELSE pos + n
    /\ current' = CharAt(pos + n)

\* Any client: it stops when it is handed eofT.
Ended == \E k \in DOMAIN tokens : tokens[k].kind = "eof"

Call ==
    /\ status = "idle" /\ ~Ended
    /\ status' = "scanning"
    /\ start' = pos /\ isDigit' = FALSE
    /\ UNCHANGED <<text, pos, current, acc, tokens>>

Return(kind, at) ==
    /\ tokens' = Append(tokens, [kind |-> kind, at |-> at, start |-> start])
    /\ status' = "idle"
    /\ acc' = <<>>
    /\ UNCHANGED <<text, start, isDigit>>

\* Mutant: the exponent of a number may not be negative.
TakesUnsigned ==
    \/ current \notin Symbols \union {"nul", "end"}
    \/ acc # <<>> /\ isDigit /\ current = "."

\* What the word goes on with.
Takes ==
    \/ current \notin Symbols \union {"nul", "end"}
    \/ acc # <<>> /\ isDigit /\ current = "."
    \/ acc # <<>> /\ isDigit /\ current = "-" /\ text[acc[Len(acc)]] = "e"

Accumulate ==
    /\ status = "scanning" /\ Takes
    /\ acc' = Append(acc, pos)
    /\ isDigit' = (isDigit \/ (acc = <<>> /\ current \in Digits))
    /\ Advance(1)
    /\ UNCHANGED <<text, start, tokens, status>>

\* Mutant: the character before the 0 is read again.
SkipNulBack ==
    /\ status = "scanning" /\ current = "nul"
    /\ pos' = IF pos > 1 THEN pos - 1 ELSE pos
    /\ current' = CharAt(pos')
    /\ UNCHANGED <<text, start, acc, isDigit, tokens, status>>

\* A byte 0 does not even end a word.
SkipNul ==
    /\ status = "scanning" /\ current = "nul"
    /\ Advance(1)
    /\ UNCHANGED <<text, start, acc, isDigit, tokens, status>>

\* The character that ends a word stays for the next call.
ResolveWord ==
    /\ status = "scanning" /\ acc # <<>> /\ ~Takes /\ current # "nul"
    /\ UNCHANGED <<pos, current>>
    /\ LET kind == ResolveToken(Spelled(acc), isDigit)
       IN IF kind \in Exceptions
          THEN status' = "uncaught" /\ UNCHANGED <<text, start, acc, isDigit, tokens>>
          ELSE Return(kind, acc)

SingleSymbol ==
    /\ status = "scanning" /\ acc = <<>> /\ current \in Singles
    /\ Return(Kind(current), <<pos>>)
    /\ Advance(1)

\* Mutant: two characters are passed over for one.
PairSymbolLeft ==
    /\ status = "scanning" /\ acc = <<>> /\ current \in Firsts
    /\ Return(current, <<pos>>)
    /\ Advance(IF CharAt(pos + 1) = Second(current) THEN 2 ELSE 1)

PairSymbol ==
    /\ status = "scanning" /\ acc = <<>> /\ current \in Firsts
    /\ IF CharAt(pos + 1) = Second(current)
       THEN Return(Both(current), <<pos, pos + 1>>) /\ Advance(2)
       ELSE Return(current, <<pos>>) /\ Advance(1)

\* Mutant: the end is not handed over.
EndOfTextKept ==
    /\ status = "scanning" /\ acc = <<>> /\ current = "end"
    /\ status' = "idle"
    /\ UNCHANGED <<text, pos, current, start, acc, isDigit, tokens>>

EndOfText ==
    /\ status = "scanning" /\ acc = <<>> /\ current = "end"
    /\ Return("eof", <<>>)
    /\ UNCHANGED <<pos, current>>

ScanNext ==
    Call \/ Accumulate \/ SkipNul \/ ResolveWord \/ SingleSymbol \/ PairSymbol \/ EndOfText

ScanSpec == ScanInit /\ [][ScanNext]_scanVars /\ WF_scanVars(ScanNext)

-----------------------------------------------------------------------------
(* Properties.                                                              *)

\* The characters before Frontier were read.
AtEnd == current = "end" /\ (text = <<>> \/ text[pos] # "end")
Frontier == IF AtEnd THEN Len(text) + 1 ELSE pos

Token ==
    [kind : Kinds, at : Seq(DOMAIN text), start : Nat]

(***************************************************************************)
(* The Lexer stands at a character of its text, current is that character  *)
(* or the end, and a token's characters are characters of the text         *)
(* (Lexer.cpp 12-60).                                                      *)
(***************************************************************************)
ScanTypeOK ==
    /\ text \in Texts
    /\ pos \in Nat \ {0} /\ (text = <<>> \/ pos \in DOMAIN text)
    /\ current = "end" \/ (text # <<>> /\ current = text[pos])
    /\ start \in Nat /\ acc \in Seq(DOMAIN text) /\ isDigit \in BOOLEAN
    /\ tokens \in Seq(Token)
    /\ status \in Statuses

In(i, at) == \E n \in DOMAIN at : at[n] = i
Given(i) == \E k \in DOMAIN tokens : In(i, tokens[k].at)

(***************************************************************************)
(* Every character read, but the bytes 0, is in a token that was returned  *)
(* or in the word at hand, and nothing else is: none is lost when a word   *)
(* ends at a character of the next token, when a "-" turns out to be no    *)
(* arrow, or when the text ends (getNextToken, nextChar).                  *)
(***************************************************************************)
Lossless ==
    \A i \in DOMAIN text :
        (i < Frontier /\ text[i] # "nul") <=> (Given(i) \/ In(i, acc))

(***************************************************************************)
(* The tokens hold the characters in the order of the text, each once, and *)
(* a token's offset is that of its first character or of a byte 0 before   *)
(* it: Lexer::offset is kept apart from pos, and stays at the end.         *)
(***************************************************************************)
Increasing(at) == \A m, n \in DOMAIN at : m < n => at[m] < at[n]
StartsAt(from, at) ==
    at # <<>> => from <= at[1] /\ \A i \in from..(at[1] - 1) : text[i] = "nul"

InTextOrder ==
    /\ \A k \in DOMAIN tokens :
          /\ Increasing(tokens[k].at)
          /\ StartsAt(tokens[k].start, tokens[k].at)
    /\ \A k, l \in DOMAIN tokens : k < l =>
          \A i, j \in DOMAIN text :
              In(i, tokens[k].at) /\ In(j, tokens[l].at) => i < j
\* Texts without a byte 0, up to a byte that ends them.
NoNul == \A i \in DOMAIN text : text[i] # "nul"
BeforeEnd(i) == \A j \in 1..i : text[j] # "end"

\* What a character is part of, given what the one before it is part of.
Part(i, before) ==
    IF before = "number" /\ (text[i] = "." \/ (text[i] = "-" /\ text[i - 1] = "e"))
    THEN "number"
    ELSE IF before = "first" /\ text[i - 1] \in Firsts /\ text[i] = Second(text[i - 1])
    THEN "second"
    ELSE IF text[i] \in Symbols THEN "first"
    ELSE IF before \in {"word", "number"} THEN before
    ELSE IF text[i] \in Digits THEN "number" ELSE "word"

PartOf ==
    LET part[i \in 0..Len(text)] == IF i = 0 THEN "none" ELSE Part(i, part[i - 1])
    IN part

Begins(i) == PartOf[i] = "first" \/ PartOf[i] \notin {"second", PartOf[i - 1]}

\* The first characters of the tokens returned and of the word at hand.
Heads == {tokens[k].at[1] : k \in {l \in DOMAIN tokens : tokens[l].at # <<>>}}
            \union (IF acc = <<>> THEN {} ELSE {acc[1]})

(***************************************************************************)
(* Tokens begin where the text alone says: a word goes on as far as it     *)
(* can, "->" and the comparisons are one token, a "-" or a dot is part of a*)
(* number only where it may be; and current is -1 between two calls just   *)
(* when no token is left, as hasNext trusts (Lexer.cpp 161-448, 488-496).  *)
(***************************************************************************)
LongestMatch ==
    NoNul =>
        LET begins == {i \in DOMAIN text : BeforeEnd(i) /\ Begins(i)}
        IN /\ Heads = {i \in begins : i < Frontier}
           /\ status = "idle" => (current = "end") = (Heads = begins)

(***************************************************************************)
(* A word of digits is an int, digits with a dot in or after them are a    *)
(* double; of these only those with a dot end in an exception, and just    *)
(* when they are out of a double's range, which no double returned is.  A  *)
(* word that begins with another character is never a number and never     *)
(* ends in an exception (resolveToken, isNumber).                          *)
(***************************************************************************)
Dots(word) == {i \in DOMAIN word : word[i] = "."}
Decimal(word) ==
    word # <<>> /\ word[1] \in Digits /\ \A i \in DOMAIN word \ Dots(word) : word[i] \in Digits
Numeric(kind) == kind \in {"int", "double"}

NumbersRead ==
    /\ \A k \in DOMAIN tokens :
          LET word == Spelled(tokens[k].at)
          IN /\ Decimal(word) => tokens[k].kind = IF Dots(word) = {} THEN "int" ELSE "double"
             /\ Numeric(tokens[k].kind) => word[1] \in Digits
             /\ tokens[k].kind = "double" => word \notin OutOfRange
    /\ status = "uncaught" =>
          LET word == Spelled(acc)
          IN /\ text[acc[1]] \in Digits
             /\ Decimal(word) => Dots(word) # {} /\ word \in OutOfRange
=============================================================================
