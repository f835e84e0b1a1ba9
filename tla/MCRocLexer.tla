----------------------------- MODULE MCRocLexer -----------------------------
(* All sources of up to MaxLength tokens over two blanks and one token that *)
(* can stand next to any other.                                             *)
EXTENDS RocLexer, SequencesExt

CONSTANT MaxLength

MCKinds == {"space", "newline", "("}
MCSources == SeqOf(MCKinds, MaxLength)
=============================================================================
