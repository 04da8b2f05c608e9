--------------------------------- MODULE MCLexer -------------------------------
(* Every input of up to four characters, one of each kind that the lexer   *)
(* treats differently; two letters, to spell a keyword.                    *)
EXTENDS Lexer, TLC

MCLetters  == {"i", "f"}
MCDigits   == {"0"}
MCBlanks   == {"blank"}
MCSymbols  == {"+"}
MCKeywords == (<<"i", "f">> :> "IF")

MaxLength == 4
Alphabet == MCLetters \union MCDigits \union MCBlanks \union MCSymbols
                 \union Equals \union {NUL, Quote, "illegal"}
MCInputs == UNION {[1 .. n -> Alphabet] : n \in 0 .. MaxLength}
================================================================================
