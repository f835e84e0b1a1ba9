---------------------------- MODULE TokenStream ----------------------------
(***************************************************************************)
(* What a lexer promises its client: the tokens of the source, each at     *)
(* most once and in order, with only blanks left out, and the end only     *)
(* after the last of them.  How the tokens are looked ahead at and which   *)
(* blanks are left out is the implementation's choice.                     *)
(***************************************************************************)
EXTENDS Naturals, Sequences

CONSTANT Sources
VARIABLES source, out, ended

streamVars == <<source, out, ended>>

Blanks == {"space", "newline"}
LastOut == IF out = <<>> THEN 0 ELSE out[Len(out)]
OnlyBlanks(from, to) == \A j \in from..to : source[j] \in Blanks

Init ==
    /\ source \in Sources
    /\ out = <<>>
    /\ ended = FALSE

Deliver(i) ==
    /\ ~ended
    /\ i > LastOut
    /\ OnlyBlanks(LastOut + 1, i - 1)
    /\ out' = Append(out, i)
    /\ UNCHANGED <<source, ended>>

Finish ==
    /\ ~ended
    /\ OnlyBlanks(LastOut + 1, Len(source))
    /\ ended' = TRUE
    /\ UNCHANGED <<source, out>>

Next == Finish \/ \E i \in 1..Len(source) : Deliver(i)

Spec == Init /\ [][Next]_streamVars
=============================================================================
