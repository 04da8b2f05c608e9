---------------------------------- MODULE Lexer --------------------------------
(***************************************************************************)
(* The lexer (src/lexer/lexer.go): NextToken reads characters one by one   *)
(* and returns the next token.  Its loops are in steps of one character,   *)
(* because one of them does not end.                                       *)
(*                                                                         *)
(* A token is its type and the stretch of the input that is its literal,   *)
(* from the position of the first character to that behind the last; as    *)
(* in Go, positions count from 0.  The fields ch and readPosition of the   *)
(* lexer follow from position.                                             *)
(***************************************************************************)
EXTENDS Integers, Sequences

CONSTANTS
  Inputs,    (* the inputs: sequences of characters                        *)
  Letters,   (* isLetter                                                   *)
  Digits,    (* isDigit                                                    *)
  Blanks,    (* what skipWhitespace skips                                  *)
  Symbols,   (* the characters that are a token, which is its own type,    *)
             (* whatever follows                                           *)
  Keywords   (* token.keywords: from words to types                        *)

NUL == "nul"          (* the character 0                                   *)
Quote == "quote"
Equals == {"=", "!"}  (* the characters that a = may follow                *)

ASSUME CharactersAssumption ==
  /\ \A input \in Inputs : input \in Seq(STRING)
  /\ LET classes == <<Letters, Digits, Blanks, Symbols, Equals, {NUL, Quote}>>
     IN  \A i, j \in 1 .. 6 : i # j => classes[i] \intersect classes[j] = {}
  /\ Symbols \intersect {"EOF", "STRING"} = {}

ASSUME KeywordsAssumption ==
  \A word \in DOMAIN Keywords : Keywords[word] \notin {"EOF", "STRING"}

VARIABLES
  input,     (* l.input                                                    *)
  position,  (* l.position                                                 *)
  mode,      (* the loop that NextToken is in, or "ready" between calls    *)
  start,     (* where the literal starts that a loop reads                 *)
  tokens     (* the tokens returned so far                                 *)

vars == <<input, position, mode, start, tokens>>

(* readChar and peekChar: behind the end of the input are zeros, too. *)
CharAt(p) == IF p < Len(input) THEN input[p + 1] ELSE NUL
Ch == CharAt(position)
PeekChar == CharAt(position + 1)

Word(from, to) == SubSeq(input, from + 1, to)

(* token.LookupIdent *)
LookupIdent(word) == IF word \in DOMAIN Keywords THEN Keywords[word] ELSE "IDENT"

(* The constants of token.TokenType. *)
TokenTypes ==
  Symbols \union Equals \union {Keywords[word] : word \in DOMAIN Keywords}
  \union {"IDENT", "INT", "STRING", "ILLEGAL", "EOF", "==", "!="}

Token(type, from, to) == [type |-> type, from |-> from, to |-> to]

(* The most tokens that a caller asks for: the parser has one more at hand *)
(* than the end of the input.                                              *)
MaxTokens == Len(input) + 2

(* How far behind its end the input is read; all positions there are the   *)
(* same.                                                                   *)
LastPosition == Len(input) + 2

(* New *)
Init ==
  /\ input \in Inputs
  /\ position = 0
  /\ mode = "ready"
  /\ start = 0
  /\ tokens = <<>>

(* n times readChar *)
ReadChars(n) ==
  position' = IF position + n <= LastPosition THEN position + n ELSE LastPosition

Answer(token) ==
  /\ tokens' = Append(tokens, token)
  /\ mode' = "ready"
  /\ UNCHANGED <<input, start>>

NextToken ==
  /\ mode = "ready"
  /\ Len(tokens) < MaxTokens
  /\ mode' = "skipWhitespace"
  /\ UNCHANGED <<input, position, start, tokens>>

SkipWhitespace ==
  /\ mode = "skipWhitespace"
  /\ Ch \in Blanks
  /\ ReadChars(1)
  /\ UNCHANGED <<input, mode, start, tokens>>

(* What the switch is on. *)
Switch(characters) == mode = "skipWhitespace" /\ Ch \in characters

ReadSymbol ==
  /\ Switch(Symbols)
  /\ Answer(Token(Ch, position, position + 1))
  /\ ReadChars(1)

(* Mutant: the second character stays. *)
ReadOperatorAlone ==
  /\ Switch(Equals)
  /\ Answer(Token(Ch, position, position + 1))
  /\ ReadChars(1)

(* = and !, alone or before another =. *)
ReadOperator ==
  /\ Switch(Equals)
  /\ \/ /\ PeekChar = "="
        /\ Answer(Token(IF Ch = "=" THEN "==" ELSE "!=", position, position + 2))
        /\ ReadChars(2)
     \/ /\ PeekChar # "="
        /\ Answer(Token(Ch, position, position + 1))
        /\ ReadChars(1)

(* The end of the input, or a zero in it. *)
ReadEnd ==
  /\ Switch({NUL})
  /\ Answer(Token("EOF", position, position))
  /\ ReadChars(1)

ReadIllegal ==
  /\ mode = "skipWhitespace"
  /\ Ch \notin Letters \union Digits \union Blanks \union Symbols \union Equals \union {NUL, Quote}
  /\ Answer(Token("ILLEGAL", position, position + 1))
  /\ ReadChars(1)

(* The loops. *)
Enter(loop, characters, from) ==
  /\ Switch(characters)
  /\ mode' = loop
  /\ start' = from
  /\ UNCHANGED <<input, position, tokens>>

EnterLetters == Enter("readLetter", Letters, position)
EnterDigits  == Enter("readDigit", Digits, position)
EnterString  == Enter("readString", {Quote}, position + 1)

Characters(loop) == IF loop = "readLetter" THEN Letters ELSE Digits

ReadLetterOrDigit ==
  /\ mode \in {"readLetter", "readDigit"}
  /\ Ch \in Characters(mode)
  /\ ReadChars(1)
  /\ UNCHANGED <<input, mode, start, tokens>>

(* Mutant: the character behind the word is read, too. *)
EndWordLate ==
  /\ mode \in {"readLetter", "readDigit"}
  /\ Ch \notin Characters(mode)
  /\ Answer(Token(IF mode = "readLetter" THEN LookupIdent(Word(start, position)) ELSE "INT",
                  start, position))
  /\ ReadChars(1)

(* Mutant: the word is cut out one character too long. *)
EndWordLong ==
  /\ mode \in {"readLetter", "readDigit"}
  /\ Ch \notin Characters(mode)
  /\ Answer(Token(IF mode = "readLetter" THEN LookupIdent(Word(start, position)) ELSE "INT",
                  start, position + 1))
  /\ UNCHANGED position

(* The first character that does not belong to the word stays. *)
EndWord ==
  /\ mode \in {"readLetter", "readDigit"}
  /\ Ch \notin Characters(mode)
  /\ Answer(Token(IF mode = "readLetter" THEN LookupIdent(Word(start, position)) ELSE "INT",
                  start, position))
  /\ UNCHANGED position

(* The loop of readString only ends with a quotation mark. *)
ReadInString ==
  /\ mode = "readString"
  /\ PeekChar # Quote
  /\ ReadChars(1)
  /\ UNCHANGED <<input, mode, start, tokens>>

(* Mutant: the closing quotation mark stays. *)
EndStringEarly ==
  /\ mode = "readString"
  /\ PeekChar = Quote
  /\ Answer(Token("STRING", start, position + 1))
  /\ ReadChars(1)

(* Mutant: the end of the input ends a string, too. *)
EndStringAtEnd ==
  /\ mode = "readString"
  /\ PeekChar \in {Quote, NUL}
  /\ Answer(Token("STRING", start, IF position < Len(input) THEN position + 1 ELSE Len(input)))
  /\ ReadChars(2)

EndString ==
  /\ mode = "readString"
  /\ PeekChar = Quote
  /\ Answer(Token("STRING", start, position + 1))
  /\ ReadChars(2)

Working ==
  \/ SkipWhitespace \/ ReadSymbol \/ ReadOperator \/ ReadEnd \/ ReadIllegal
  \/ EnterLetters \/ EnterDigits \/ ReadLetterOrDigit \/ EndWord
  \/ EnterString \/ ReadInString \/ EndString

(* Nobody asks for more. *)
Finished ==
  /\ mode = "ready"
  /\ Len(tokens) = MaxTokens
  /\ UNCHANGED vars

Next == NextToken \/ Working \/ Finished

(* NextToken goes on by itself until it returns. *)
Spec == Init /\ [][Next]_vars /\ WF_vars(Working)

--------------------------------------------------------------------------------

Modes == {"ready", "skipWhitespace", "readLetter", "readDigit", "readString"}

(* The types of the variables; every literal can be sliced out of the input.*)
TypeOK ==
  /\ position \in 0 .. LastPosition
  /\ mode \in Modes
  /\ start \in 0 .. Len(input)
  /\ \A i \in DOMAIN tokens :
       /\ tokens[i].type \in TokenTypes
       /\ tokens[i].from \in 0 .. LastPosition
       /\ tokens[i].type # "EOF" => tokens[i].from <= tokens[i].to /\ tokens[i].to <= Len(input)

(* What can be a token, by itself. *)
Lexeme(text) ==
  \/ Len(text) = 1 /\ text[1] \notin Blanks \union {Quote, NUL}
  \/ text \in {<<"=", "=">>, <<"!", "=">>}
  \/ \E class \in {Letters, Digits} : \A i \in DOMAIN text : text[i] \in class
  \/ /\ Len(text) >= 2
     /\ \A i \in DOMAIN text : text[i] = Quote <=> i \in {1, Len(text)}

(* Where the text of a token starts and ends: a string includes its marks. *)
From(token) == IF token.type = "STRING" THEN token.from - 1 ELSE token.from
To(token)   == IF token.type = "STRING" THEN token.to + 1 ELSE token.to

(* A lexeme, and no longer one starts at the same place. *)
Longest(token) ==
  /\ Lexeme(Word(From(token), To(token)))
  /\ From(token) < To(token)
  /\ \A to \in To(token) + 1 .. Len(input) : ~Lexeme(Word(From(token), to))

(* Every token is the longest there is at its place: the lexer does not    *)
(* split == nor end a word early, although it only ever looks one          *)
(* character ahead.                                                        *)
LongestLexemes == \A i \in DOMAIN tokens : tokens[i].type # "EOF" => Longest(tokens[i])

(* Where the first i tokens end. *)
Behind(i) == IF i = 0 THEN 0 ELSE To(tokens[i])

Skippable(from, to) == \A p \in from .. to - 1 : CharAt(p) \in Blanks \union {NUL}

(* Nothing is skipped but whitespace, and zeros, which are taken for the   *)
(* end of the input; and nothing is read twice.                            *)
NothingSkipped ==
  \A i \in 1 .. Len(tokens) :
    Behind(i - 1) <= From(tokens[i]) /\ Skippable(Behind(i - 1), From(tokens[i]))

(* The number of quotation marks among the first n characters of a text    *)
(* tells whether all strings there are closed: there is no way to have one *)
(* in a string, nor a comment.                                             *)
Marks(text) ==
  LET marks[n \in 0 .. Len(text)] ==
        IF n = 0 THEN 0 ELSE marks[n - 1] + (IF text[n] = Quote THEN 1 ELSE 0)
  IN  marks

Closed == Marks(input)[Len(input)] % 2 = 0

(* No zero is in the input. *)
Whole == \A p \in DOMAIN input : input[p] # NUL

(* The end of the input is final, unless there is a zero in it: the parser *)
(* stops at the first.  It is only reached when strings are closed.        *)
EndIsFinal ==
  /\ Whole => \A i, j \in DOMAIN tokens : i <= j /\ tokens[i].type = "EOF" =>
                 tokens[j].type = "EOF" /\ tokens[j].from >= Len(input)
  /\ \A i \in DOMAIN tokens : tokens[i].type = "EOF" /\ tokens[i].from >= Len(input) => Closed

(* Every call of NextToken returns, unless it reads a string that is not   *)
(* closed beyond the end of the input: then it never does.                 *)
Lost == mode = "readString" /\ position >= Len(input)

NextTokenReturns ==
  /\ mode # "ready" ~> mode = "ready" \/ Lost
  /\ [](Lost => ~Closed /\ []Lost)

================================================================================
