---------------------------- MODULE MCRocScanner ----------------------------
(***************************************************************************)
(* All texts of up to MaxLength characters over one character for each     *)
(* case of getNextToken and isNumber.                                      *)
(***************************************************************************)
EXTENDS RocScanner, SequencesExt

CONSTANT MaxLength

MCCharacters == {"1", "e", "i", "n", ".", "-", ">", "=", " ", "nul", "end"}
MCTexts == SeqOf(MCCharacters, MaxLength)
MCKeywords == {<<"i", "n">>}

\* A range of three places stands for that of a double: no word of three
\* digits is in it, and no dot before an exponent.
MCOutOfRange ==
    {word \in MCTexts :
        \/ Cardinality({i \in DOMAIN word : word[i] = "1"}) > 2
        \/ \E i, j \in DOMAIN word : i < j /\ word[i] = "." /\ word[j] = "e"}

\* A client that asks until it is handed eofT gets it, or an exception.
ScanEnds == <>(Ended \/ status = "uncaught")
=============================================================================
