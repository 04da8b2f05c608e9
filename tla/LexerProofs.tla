------------------------------- MODULE LexerProofs -----------------------------
(***************************************************************************)
(* The lexer, for inputs of any length over any characters: its tokens can *)
(* be cut out of the input, and nothing between them is lost.              *)
(***************************************************************************)
EXTENDS Lexer, WellOrder

TokenType == [type : TokenTypes, from : Nat, to : Nat]

(* Where the next token may start. *)
Covered == Behind(Len(tokens))

Types ==
  /\ input \in Seq(STRING)
  /\ position \in 0 .. LastPosition
  /\ mode \in Modes
  /\ start \in 0 .. Len(input)
  /\ tokens \in Seq(TokenType)

(* Every token is a stretch of the input, and a string has its marks around*)
(* it.                                                                     *)
Cut(token) ==
  /\ token.from \in 0 .. LastPosition
  /\ token.from <= token.to
  /\ token.type # "EOF" => token.to <= Len(input)
  /\ token.type = "STRING" => token.from >= 1

AllCut == \A i \in DOMAIN tokens : Cut(tokens[i])

(* What has been read since the last token: nothing but what is skipped,   *)
(* and the token that a loop is reading.                                   *)
Between ==
  /\ mode \in {"ready", "skipWhitespace"} =>
       Covered <= position /\ Skippable(Covered, position)
  /\ mode \in {"readLetter", "readDigit"} =>
       /\ Covered <= start /\ start <= position /\ position <= Len(input)
       /\ Skippable(Covered, start)
  /\ mode = "readString" =>
       /\ start >= 1 /\ Covered <= start - 1 /\ start - 1 <= position
       /\ Skippable(Covered, start - 1)

(* The inductive invariant. *)
IInv == Types /\ AllCut /\ NothingSkipped /\ Between

--------------------------------------------------------------------------------

(* The classes of characters do not overlap. *)
LEMMA Disjoint ==
  /\ \A c \in Letters : c # NUL /\ c # Quote
  /\ \A c \in Digits : c # NUL /\ c # Quote
  /\ \A c \in Blanks : c # NUL /\ c # Quote
  /\ \A c \in Symbols : c # NUL /\ c # Quote
  /\ \A c \in Equals : c # NUL /\ c # Quote
<1> DEFINE classes == <<Letters, Digits, Blanks, Symbols, Equals, {NUL, Quote}>>
<1>1. \A i, j \in 1 .. 6 : i # j => classes[i] \intersect classes[j] = {}
  BY CharactersAssumption
<1>2. classes[6] = {NUL, Quote} /\ classes[1] = Letters /\ classes[2] = Digits
        /\ classes[3] = Blanks /\ classes[4] = Symbols /\ classes[5] = Equals
  OBVIOUS
<1>3. \A i \in 1 .. 5 : classes[i] \intersect classes[6] = {}
  BY <1>1
<1> HIDE DEF classes
<1>4. \A i \in 1 .. 5 : NUL \notin classes[i] /\ Quote \notin classes[i]
  BY <1>2, <1>3
<1>5. QED
  BY <1>2, <1>4, CharactersAssumption

(* A character that is not zero is one of the input. *)
LEMMA InInput ==
  ASSUME Types, NEW p \in Nat, CharAt(p) # NUL
  PROVE  p + 1 <= Len(input)
BY DEF Types, CharAt

LEMMA Constants ==
  ASSUME Types
  PROVE  /\ Len(input) \in Nat /\ Len(tokens) \in Nat
         /\ DOMAIN tokens = 1 .. Len(tokens)
         /\ position \in Nat /\ start \in Nat /\ LastPosition \in Nat
         /\ \A i \in DOMAIN tokens : tokens[i] \in TokenType
BY DEF Types, LastPosition

LEMMA CoveredType ==
  ASSUME Types
  PROVE  Covered \in Int
BY Constants DEF Covered, Behind, To, TokenType

LEMMA InitIInv == Init => IInv
<1> SUFFICES ASSUME Init PROVE IInv
  OBVIOUS
<1>1. Types
  BY CharactersAssumption DEF Init, Types, LastPosition, Modes
<1>2. Len(tokens) = 0 /\ DOMAIN tokens = {}
  BY DEF Init
<1>3. AllCut /\ NothingSkipped
  BY <1>2 DEF AllCut, NothingSkipped
<1>4. Between
  BY <1>2 DEF Init, Between, Covered, Behind, Skippable
<1>5. QED
  BY <1>1, <1>3, <1>4 DEF IInv

(* What a token needs, to be the next. *)
LEMMA NextIsCut ==
  ASSUME IInv, NEW token \in TokenType, Answer(token),
         Cut(token), Covered <= From(token), Skippable(Covered, From(token))
  PROVE  /\ tokens' \in Seq(TokenType)
         /\ AllCut' /\ NothingSkipped'
         /\ Covered' = To(token)
<1>1. input' = input /\ tokens' = Append(tokens, token)
  BY DEF Answer
<1>2. Types /\ AllCut /\ NothingSkipped
  BY DEF IInv
<1>3. /\ Len(tokens) \in Nat
      /\ tokens \in Seq(TokenType)
      /\ DOMAIN tokens = 1 .. Len(tokens)
  BY <1>2, Constants DEF Types
<1>4. /\ tokens' \in Seq(TokenType)
      /\ Len(tokens') = Len(tokens) + 1
      /\ DOMAIN tokens' = 1 .. Len(tokens) + 1
      /\ \A i \in 1 .. Len(tokens) : tokens'[i] = tokens[i]
      /\ tokens'[Len(tokens) + 1] = token
  BY <1>1, <1>3
<1>5. AllCut'
  <2>1. ASSUME NEW i \in 1 .. Len(tokens) + 1
        PROVE  Cut(tokens'[i])
    BY <1>2, <1>3, <1>4 DEF AllCut
  <2>2. QED
    BY <2>1, <1>1, <1>4 DEF AllCut, Cut, LastPosition
<1>6. \A i \in 0 .. Len(tokens) : (IF i = 0 THEN 0 ELSE To(tokens'[i])) = Behind(i)
  BY <1>3, <1>4 DEF Behind
<1>7. Covered' = To(token)
  BY <1>3, <1>4 DEF Covered, Behind
<1>8. NothingSkipped'
  <2>1. ASSUME NEW i \in 1 .. Len(tokens) + 1
        PROVE  Behind(i - 1) <= From(tokens'[i]) /\ Skippable(Behind(i - 1), From(tokens'[i]))
    <3>1. CASE i \in 1 .. Len(tokens)
      BY <3>1, <1>2, <1>4 DEF NothingSkipped
    <3>2. CASE i = Len(tokens) + 1
      BY <3>2, <1>3, <1>4 DEF Covered
    <3>3. QED
      BY <3>1, <3>2, <1>3
  <2>2. ASSUME NEW i \in 1 .. Len(tokens) + 1
        PROVE  (IF i - 1 = 0 THEN 0 ELSE To(tokens'[i - 1])) = Behind(i - 1)
    BY <1>3, <1>6
  <2>3. QED
    BY <2>1, <2>2, <1>1, <1>4 DEF NothingSkipped, Behind, Skippable, CharAt
<1>9. QED
  BY <1>4, <1>5, <1>7, <1>8

(* One more character is skipped. *)
LEMMA SkipOne ==
  ASSUME NEW from \in Int, NEW to \in Int, Skippable(from, to),
         CharAt(to) \in Blanks \union {NUL}
  PROVE  Skippable(from, to + 1)
BY DEF Skippable

LEMMA ReadsOn ==
  ASSUME Types, NEW n \in 1 .. 2, ReadChars(n)
  PROVE  /\ position' \in 0 .. LastPosition
         /\ position <= position'
         /\ position + n <= LastPosition => position' = position + n
<1>1. position \in 0 .. LastPosition /\ LastPosition \in Nat /\ position \in Nat
  BY Constants DEF Types
<1>2. QED
  BY <1>1 DEF ReadChars

(* A call returns a token: where it ends, or behind a zero, the next call  *)
(* goes on.                                                                *)
LEMMA AnswerKeepsIInv ==
  ASSUME IInv, NEW token \in TokenType, Answer(token),
         Cut(token), Covered <= From(token), Skippable(Covered, From(token)),
         position' \in 0 .. LastPosition,
         To(token) <= position', Skippable(To(token), position')
  PROVE  IInv'
<1>1. /\ tokens' \in Seq(TokenType)
      /\ AllCut' /\ NothingSkipped'
      /\ Covered' = To(token)
  BY NextIsCut
<1>2. input' = input /\ start' = start /\ mode' = "ready"
  BY DEF Answer
<1>3. Types'
  BY <1>1, <1>2 DEF IInv, Types, Modes, LastPosition
<1>4. Between'
  BY <1>1, <1>2 DEF Between, Skippable, CharAt
<1>5. QED
  BY <1>1, <1>3, <1>4 DEF IInv

(* A step that returns nothing leaves alone what was returned. *)
LEMMA QuietKeepsIInv ==
  ASSUME IInv, UNCHANGED <<input, tokens>>,
         position' \in 0 .. LastPosition, mode' \in Modes, start' \in 0 .. Len(input),
         Between'
  PROVE  IInv'
<1>1. Types'
  BY DEF IInv, Types, LastPosition
<1>2. AllCut'
  BY DEF IInv, AllCut, Cut, LastPosition
<1>3. NothingSkipped'
  BY DEF IInv, NothingSkipped, Behind, Skippable, CharAt
<1>4. QED
  BY <1>1, <1>2, <1>3 DEF IInv

--------------------------------------------------------------------------------
(* The step of every action. *)

(* What the steps below start from. *)
LEMMA Before ==
  ASSUME IInv
  PROVE  /\ Types /\ Between
         /\ Len(input) \in Nat /\ Covered \in Int
         /\ position \in 0 .. LastPosition /\ LastPosition = Len(input) + 2
         /\ start \in 0 .. Len(input)
         /\ \A p \in Nat : CharAt(p) # NUL => p + 1 <= Len(input)
<1>1. Types /\ Between
  BY DEF IInv
<1>2. Len(input) \in Nat /\ Covered \in Int /\ input \in Seq(STRING)
  BY <1>1, Constants, CoveredType DEF Types
<1>3. QED
  BY <1>1, <1>2 DEF Types, LastPosition, CharAt

LEMMA NextTokenStep == ASSUME IInv, NextToken PROVE IInv'
<1>1. /\ UNCHANGED <<input, position, start, tokens>>
      /\ mode = "ready" /\ mode' = "skipWhitespace"
  BY DEF NextToken
<1>2. Between'
  BY <1>1, Before DEF Between, Covered, Behind, Skippable, CharAt
<1>3. QED
  BY <1>1, <1>2, Before, QuietKeepsIInv DEF Modes

LEMMA SkipWhitespaceStep == ASSUME IInv, SkipWhitespace PROVE IInv'
<1>1. /\ UNCHANGED <<input, mode, start, tokens>>
      /\ mode = "skipWhitespace"
      /\ Ch \in Blanks /\ ReadChars(1)
  BY DEF SkipWhitespace
<1>2. position + 1 <= Len(input)
  BY <1>1, Before, Disjoint DEF Ch
<1>3. position' = position + 1 /\ position' \in 0 .. LastPosition
  BY <1>1, <1>2, Before, ReadsOn
<1>4. Covered <= position /\ Skippable(Covered, position)
  BY <1>1, Before DEF Between
<1>5. Skippable(Covered, position + 1)
  BY <1>1, <1>4, Before, SkipOne DEF Ch
<1>6. Between'
  BY <1>1, <1>3, <1>4, <1>5, Before DEF Between, Covered, Behind, Skippable, CharAt
<1>7. QED
  BY <1>1, <1>3, <1>6, Before, QuietKeepsIInv DEF Modes

(* A token of one or two characters. *)
LEMMA ShortTokenStep ==
  ASSUME IInv, mode = "skipWhitespace", NEW type \in TokenTypes \ {"EOF", "STRING"},
         NEW n \in 1 .. 2, Answer(Token(type, position, position + n)), ReadChars(n),
         position + n <= Len(input)
  PROVE  IInv'
<1> DEFINE token == Token(type, position, position + n)
<1>1. /\ token \in TokenType /\ Cut(token)
      /\ From(token) = position /\ To(token) = position + n
  BY Before DEF Token, TokenType, Cut, From, To
<1>2. Covered <= position /\ Skippable(Covered, position)
  BY Before DEF Between
<1>3. position' = position + n /\ position' \in 0 .. LastPosition
  BY Before, ReadsOn
<1>4. Skippable(position + n, position + n)
  BY Before DEF Skippable
<1> HIDE DEF token
<1>5. Answer(token)
  BY DEF token
<1>6. To(token) <= position' /\ Skippable(To(token), position')
  BY <1>1, <1>3, <1>4, Before
<1>7. QED
  BY <1>1, <1>2, <1>3, <1>5, <1>6, AnswerKeepsIInv

LEMMA ReadSymbolStep == ASSUME IInv, ReadSymbol PROVE IInv'
<1>1. /\ mode = "skipWhitespace" /\ Ch \in Symbols /\ ReadChars(1)
      /\ Answer(Token(Ch, position, position + 1))
  BY DEF ReadSymbol, Switch
<1>2. Ch \in TokenTypes \ {"EOF", "STRING"} /\ position + 1 <= Len(input)
  BY <1>1, Before, Disjoint, CharactersAssumption DEF Ch, TokenTypes
<1>3. QED
  BY <1>1, <1>2, ShortTokenStep

LEMMA ReadOperatorStep == ASSUME IInv, ReadOperator PROVE IInv'
<1>1. mode = "skipWhitespace" /\ Ch \in {"=", "!"}
  BY DEF ReadOperator, Switch, Equals
<1>2. position + 1 <= Len(input)
  BY <1>1, Before DEF Ch, NUL
<1>3. CASE /\ PeekChar = "="
           /\ Answer(Token(IF Ch = "=" THEN "==" ELSE "!=", position, position + 2))
           /\ ReadChars(2)
  <2>1. position + 2 <= Len(input)
    BY <1>3, Before DEF PeekChar, NUL
  <2>2. (IF Ch = "=" THEN "==" ELSE "!=") \in TokenTypes \ {"EOF", "STRING"}
    BY DEF TokenTypes
  <2>3. QED
    BY <1>1, <1>3, <2>1, <2>2, ShortTokenStep
<1>4. CASE Answer(Token(Ch, position, position + 1)) /\ ReadChars(1)
  <2>1. Ch \in TokenTypes \ {"EOF", "STRING"}
    BY <1>1 DEF TokenTypes, Equals
  <2>2. QED
    BY <1>1, <1>2, <1>4, <2>1, ShortTokenStep
<1>5. QED
  BY <1>3, <1>4 DEF ReadOperator

LEMMA ReadIllegalStep == ASSUME IInv, ReadIllegal PROVE IInv'
<1>1. /\ mode = "skipWhitespace" /\ Ch # NUL /\ ReadChars(1)
      /\ Answer(Token("ILLEGAL", position, position + 1))
  BY DEF ReadIllegal
<1>2. position + 1 <= Len(input)
  BY <1>1, Before DEF Ch
<1>3. "ILLEGAL" \in TokenTypes \ {"EOF", "STRING"}
  BY DEF TokenTypes
<1>4. QED
  BY <1>1, <1>2, <1>3, ShortTokenStep

(* The end of the input stands for the zero that is read there. *)
LEMMA ReadEndStep == ASSUME IInv, ReadEnd PROVE IInv'
<1> DEFINE token == Token("EOF", position, position)
<1>1. mode = "skipWhitespace" /\ Ch = NUL /\ ReadChars(1) /\ Answer(token)
  BY DEF ReadEnd, Switch
<1>2. /\ token \in TokenType /\ Cut(token)
      /\ From(token) = position /\ To(token) = position
  BY Before DEF Token, TokenType, TokenTypes, Cut, From, To
<1>3. Covered <= position /\ Skippable(Covered, position)
  BY <1>1, Before DEF Between
<1>4. position' \in {position, position + 1} /\ position' \in 0 .. LastPosition
  BY <1>1, Before DEF ReadChars
<1>5. Skippable(position, position) /\ Skippable(position, position + 1)
  BY <1>1, Before DEF Skippable, Ch
<1> HIDE DEF token
<1>6. To(token) <= position' /\ Skippable(To(token), position')
  BY <1>2, <1>4, <1>5, Before
<1>7. QED
  BY <1>1, <1>2, <1>3, <1>4, <1>6, AnswerKeepsIInv

(* The loops start at the character at hand, and that of a string behind   *)
(* it.                                                                     *)
LEMMA EnterStep ==
  ASSUME IInv, EnterLetters \/ EnterDigits \/ EnterString
  PROVE  IInv'
<1>1. Covered <= position /\ Skippable(Covered, position)
  BY Before DEF EnterLetters, EnterDigits, EnterString, Enter, Switch, Between
<1>2. /\ UNCHANGED <<input, position, tokens>>
      /\ Ch \in Letters \union Digits \union {Quote}
      /\ \/ mode' \in {"readLetter", "readDigit"} /\ start' = position
         \/ mode' = "readString" /\ start' = position + 1
  BY DEF EnterLetters, EnterDigits, EnterString, Enter, Switch
<1>3. position + 1 <= Len(input)
  BY <1>2, Before, Disjoint DEF Ch, NUL, Quote
<1>4. Between'
  BY <1>1, <1>2, <1>3, Before DEF Between, Covered, Behind, Skippable, CharAt
<1>5. QED
  BY <1>2, <1>3, <1>4, Before, QuietKeepsIInv DEF Modes

LEMMA ReadLetterOrDigitStep == ASSUME IInv, ReadLetterOrDigit PROVE IInv'
<1>1. /\ UNCHANGED <<input, mode, start, tokens>>
      /\ mode \in {"readLetter", "readDigit"}
      /\ Ch \in Letters \union Digits /\ ReadChars(1)
  BY DEF ReadLetterOrDigit, Characters
<1>2. position + 1 <= Len(input)
  BY <1>1, Before, Disjoint DEF Ch
<1>3. position' = position + 1 /\ position' \in 0 .. LastPosition
  BY <1>1, <1>2, Before, ReadsOn
<1>4. Between'
  BY <1>1, <1>2, <1>3, Before DEF Between, Covered, Behind, Skippable, CharAt
<1>5. QED
  BY <1>1, <1>3, <1>4, Before, QuietKeepsIInv DEF Modes

LEMMA EndWordStep == ASSUME IInv, EndWord PROVE IInv'
<1> DEFINE type == IF mode = "readLetter" THEN LookupIdent(Word(start, position)) ELSE "INT"
           token == Token(type, start, position)
<1>1. mode \in {"readLetter", "readDigit"} /\ UNCHANGED position /\ Answer(token)
  BY DEF EndWord
<1>2. type \in TokenTypes \ {"EOF", "STRING"}
  BY KeywordsAssumption DEF LookupIdent, TokenTypes
<1>3. /\ Covered <= start /\ start <= position /\ position <= Len(input)
      /\ Skippable(Covered, start)
  BY <1>1, Before DEF Between
<1> HIDE DEF type
<1>4. /\ token \in TokenType /\ Cut(token)
      /\ From(token) = start /\ To(token) = position
  BY <1>2, <1>3, Before DEF Token, TokenType, Cut, From, To
<1>5. Skippable(position, position)
  BY Before DEF Skippable
<1> HIDE DEF token
<1>6. To(token) <= position' /\ Skippable(To(token), position')
  BY <1>1, <1>4, <1>5, Before
<1>7. QED
  BY <1>1, <1>3, <1>4, <1>6, Before, AnswerKeepsIInv

(* Wherever the loop of a string is, it has its start behind it. *)
LEMMA ReadInStringStep == ASSUME IInv, ReadInString PROVE IInv'
<1>1. /\ UNCHANGED <<input, mode, start, tokens>>
      /\ mode = "readString" /\ ReadChars(1)
  BY DEF ReadInString
<1>2. position <= position' /\ position' \in 0 .. LastPosition
  BY <1>1, Before, ReadsOn
<1>3. Between'
  BY <1>1, <1>2, Before DEF Between, Covered, Behind, Skippable, CharAt
<1>4. QED
  BY <1>1, <1>2, <1>3, Before, QuietKeepsIInv DEF Modes

LEMMA EndStringStep == ASSUME IInv, EndString PROVE IInv'
<1> DEFINE token == Token("STRING", start, position + 1)
<1>1. mode = "readString" /\ PeekChar = Quote /\ ReadChars(2) /\ Answer(token)
  BY DEF EndString
<1>2. position + 2 <= Len(input)
  BY <1>1, Before DEF PeekChar, NUL, Quote
<1>3. /\ start >= 1 /\ Covered <= start - 1 /\ start - 1 <= position
      /\ Skippable(Covered, start - 1)
  BY <1>1, Before DEF Between
<1>4. /\ token \in TokenType /\ Cut(token)
      /\ From(token) = start - 1 /\ To(token) = position + 2
  BY <1>2, <1>3, Before DEF Token, TokenType, TokenTypes, Cut, From, To
<1>5. position' = position + 2 /\ position' \in 0 .. LastPosition
  BY <1>1, <1>2, Before, ReadsOn
<1>6. Skippable(position + 2, position + 2)
  BY Before DEF Skippable
<1> HIDE DEF token
<1>7. To(token) <= position' /\ Skippable(To(token), position')
  BY <1>4, <1>5, <1>6, Before
<1>8. QED
  BY <1>1, <1>3, <1>4, <1>5, <1>7, AnswerKeepsIInv

LEMMA StutterStep == ASSUME IInv, UNCHANGED vars PROVE IInv'
<1>1. UNCHANGED <<input, position, mode, start, tokens>>
  BY DEF vars
<1>2. Between'
  BY <1>1, Before DEF Between, Covered, Behind, Skippable, CharAt
<1>3. QED
  BY <1>1, <1>2, Before, QuietKeepsIInv DEF Types

LEMMA NextKeepsIInv == IInv /\ [Next]_vars => IInv'
<1> SUFFICES ASSUME IInv, [Next]_vars PROVE IInv'
  OBVIOUS
<1>1. CASE NextToken
  BY <1>1, NextTokenStep
<1>2. CASE Working
  BY <1>2, SkipWhitespaceStep, ReadSymbolStep, ReadOperatorStep, ReadEndStep, ReadIllegalStep,
     EnterStep, ReadLetterOrDigitStep, EndWordStep, ReadInStringStep, EndStringStep DEF Working
<1>3. CASE UNCHANGED vars
  BY <1>3, StutterStep
<1>4. QED
  BY <1>1, <1>2, <1>3 DEF Next, Finished

THEOREM Invariance == Spec => []IInv
BY InitIInv, NextKeepsIInv, PTL DEF Spec

(* Whatever the input, and wherever the lexer is lost in it, the literal   *)
(* of every token returned can be sliced out of the input.                 *)
THEOREM TypeCorrectness == Spec => []TypeOK
<1>1. IInv => TypeOK
  BY Constants DEF IInv, Types, AllCut, Cut, TypeOK, TokenType, LastPosition
<1>2. QED
  BY <1>1, Invariance, PTL

(* Whatever the input, no character but whitespace and zeros is between    *)
(* two tokens, and no character is part of two.                            *)
THEOREM NothingIsSkipped == Spec => []NothingSkipped
<1>1. IInv => NothingSkipped
  BY DEF IInv
<1>2. QED
  BY <1>1, Invariance, PTL
--------------------------------------------------------------------------------
(***************************************************************************)
(* Every token is the longest at its place.  The invariant adds what the   *)
(* loops have read: a word of its class, a string without a quotation mark.*)
(***************************************************************************)
Reading ==
  /\ mode \in {"readLetter", "readDigit"} =>
       \A p \in start .. position : (p = position /\ p # start) \/ CharAt(p) \in Characters(mode)
  /\ mode = "readString" =>
       /\ CharAt(start - 1) = Quote
       /\ \A p \in start .. position : CharAt(p) # Quote

LongInv == IInv /\ LongestLexemes /\ Reading

(* What can be a token, by its place in the input. *)
Stretch(from, to) ==
  \/ to = from + 1 /\ CharAt(from) \notin Blanks \union {Quote, NUL}
  \/ to = from + 2 /\ CharAt(from) \in Equals /\ CharAt(from + 1) = "="
  \/ \E class \in {Letters, Digits} : \A p \in from .. to - 1 : CharAt(p) \in class
  \/ /\ to >= from + 2
     /\ \A p \in from .. to - 1 : CharAt(p) = Quote <=> p \in {from, to - 1}

(* The places of a word's characters. *)
LEMMA WordCharacters ==
  ASSUME Types, NEW from \in Nat, NEW to \in Nat, from < to, to <= Len(input)
  PROVE  /\ Word(from, to) \in Seq(STRING)
         /\ Len(Word(from, to)) = to - from
         /\ DOMAIN Word(from, to) = 1 .. to - from
         /\ \A i \in 1 .. to - from : Word(from, to)[i] = CharAt(from + i - 1)
<1>1. input \in Seq(STRING) /\ Len(input) \in Nat
  BY DEF Types
<1>2. /\ Word(from, to) \in Seq(STRING)
      /\ Len(Word(from, to)) = to - from
      /\ \A i \in 1 .. to - from : Word(from, to)[i] = input[from + i]
  BY <1>1 DEF Word
<1>3. \A i \in 1 .. to - from : from + i - 1 < Len(input) /\ (from + i - 1) + 1 = from + i
  BY <1>1
<1>4. QED
  BY <1>2, <1>3 DEF CharAt

LEMMA LexemesAreStretches ==
  ASSUME Types, NEW from \in Nat, NEW to \in Nat, from < to, to <= Len(input)
  PROVE  Lexeme(Word(from, to)) <=> Stretch(from, to)
<1> DEFINE w == Word(from, to)
           n == to - from
<1>1. /\ w \in Seq(STRING) /\ Len(w) = n /\ DOMAIN w = 1 .. n
      /\ \A i \in 1 .. n : w[i] = CharAt(from + i - 1)
  BY WordCharacters
<1>2. n \in Nat \ {0} /\ \A p \in from .. to - 1 : p - from + 1 \in 1 .. n /\ p = from + (p - from + 1) - 1
  OBVIOUS
<1>3. \A i \in 1 .. n : from + i - 1 \in from .. to - 1
  OBVIOUS
<1> HIDE DEF w
<1>4. Len(w) = 1 <=> to = from + 1
  BY <1>1
<1>5. w[1] = CharAt(from)
  BY <1>1, <1>2
<1>6. w \in {<<"=", "=">>, <<"!", "=">>}
        <=> to = from + 2 /\ CharAt(from) \in Equals /\ CharAt(from + 1) = "="
  <2>1. w \in {<<"=", "=">>, <<"!", "=">>} <=> Len(w) = 2 /\ w[1] \in Equals /\ w[2] = "="
    <3>1. \A o : Len(<<o, "=">>) = 2 /\ <<o, "=">>[1] = o /\ <<o, "=">>[2] = "="
      OBVIOUS
    <3>2. w \in {<<"=", "=">>, <<"!", "=">>} <=> \E o \in Equals : w = <<o, "=">>
      BY DEF Equals
    <3>3. ASSUME NEW o \in Equals, Len(w) = 2, w[1] = o, w[2] = "="
          PROVE  w = <<o, "=">>
      <4>1. w = [i \in 1 .. 2 |-> w[i]]
        <5>1. w \in Seq(STRING) /\ Len(w) = 2
          BY <1>1, <3>3
        <5>2. QED
          BY <5>1
      <4>2. <<o, "=">> = [i \in 1 .. 2 |-> <<o, "=">>[i]]
        OBVIOUS
      <4>3. \A i \in 1 .. 2 : i = 1 \/ i = 2
        OBVIOUS
      <4>4. \A i \in 1 .. 2 : w[i] = <<o, "=">>[i]
        BY <3>1, <3>3, <4>3
      <4>5. QED
        BY <4>1, <4>2, <4>4, Zenon
    <3>4. QED
      BY <3>1, <3>2, <3>3, Zenon
  <2>2. Len(w) = 2 <=> to = from + 2
    BY <1>1
  <2>3. Len(w) = 2 => w[2] = CharAt(from + 1)
    BY <1>1
  <2>4. QED
    BY <1>5, <2>1, <2>2, <2>3
<1>7. ASSUME NEW class
      PROVE  (\A i \in DOMAIN w : w[i] \in class) <=> (\A p \in from .. to - 1 : CharAt(p) \in class)
  <2>1. ASSUME \A i \in 1 .. n : CharAt(from + i - 1) \in class, NEW p \in from .. to - 1
        PROVE  CharAt(p) \in class
    BY <1>2, <2>1
  <2>2. QED
    BY <1>1, <1>3, <2>1
<1>8. (\A i \in DOMAIN w : w[i] = Quote <=> i \in {1, Len(w)})
        <=> (\A p \in from .. to - 1 : CharAt(p) = Quote <=> p \in {from, to - 1})
  <2>1. \A i \in 1 .. n : i \in {1, n} <=> from + i - 1 \in {from, to - 1}
    OBVIOUS
  <2>2. ASSUME \A i \in 1 .. n : CharAt(from + i - 1) = Quote <=> i \in {1, n}, NEW p \in from .. to - 1
        PROVE  CharAt(p) = Quote <=> p \in {from, to - 1}
    <3>1. PICK i \in 1 .. n : p = from + i - 1
      BY <1>2
    <3>2. QED
      BY <2>1, <2>2, <3>1, Zenon
  <2>3. ASSUME \A p \in from .. to - 1 : CharAt(p) = Quote <=> p \in {from, to - 1}, NEW i \in 1 .. n
        PROVE  w[i] = Quote <=> i \in {1, n}
    BY <1>1, <1>3, <2>1, <2>3
  <2>4. (\A i \in DOMAIN w : w[i] = Quote <=> i \in {1, Len(w)})
          <=> (\A i \in 1 .. n : CharAt(from + i - 1) = Quote <=> i \in {1, n})
    BY <1>1
  <2>5. (\A i \in DOMAIN w : w[i] = Quote <=> i \in {1, Len(w)})
          <=> (\A i \in 1 .. n : w[i] = Quote <=> i \in {1, n})
    BY <1>1
  <2> HIDE DEF n
  <2>6. QED
    BY <2>2, <2>3, <2>4, <2>5, Zenon
<1>9. Len(w) >= 2 <=> to >= from + 2
  BY <1>1
<1>10. QED
  <2>1. (\E class \in {Letters, Digits} : \A i \in DOMAIN w : w[i] \in class)
          <=> (\E class \in {Letters, Digits} : \A p \in from .. to - 1 : CharAt(p) \in class)
    BY <1>7, Zenon
  <2>2. QED
    BY <1>4, <1>5, <1>6, <1>8, <1>9, <2>1, Zenon DEF Lexeme, Stretch, w

LEMMA LongestStretch ==
  ASSUME Types, NEW token, NEW from \in Nat, NEW to \in Nat,
         From(token) = from, To(token) = to, from < to, to <= Len(input),
         Stretch(from, to), \A end \in to + 1 .. Len(input) : ~Stretch(from, end)
  PROVE  Longest(token)
<1>1. Lexeme(Word(from, to))
  BY LexemesAreStretches
<1>2. ASSUME NEW end \in to + 1 .. Len(input) PROVE ~Lexeme(Word(from, end))
  <2>1. end \in Nat /\ from < end /\ end <= Len(input) /\ ~Stretch(from, end)
    BY Constants
  <2>2. QED
    BY <2>1, LexemesAreStretches
<1>3. QED
  BY <1>1, <1>2 DEF Longest

LEMMA Classes ==
  /\ \A c \in Letters : c \notin Digits \union Blanks \union Symbols \union Equals \union {NUL, Quote}
  /\ \A c \in Digits : c \notin Blanks \union Symbols \union Equals \union {NUL, Quote}
  /\ \A c \in Blanks : c \notin Symbols \union Equals \union {NUL, Quote}
  /\ \A c \in Symbols : c \notin Equals \union {NUL, Quote}
  /\ Equals \intersect {NUL, Quote} = {} /\ NUL # Quote
<1> DEFINE classes == <<Letters, Digits, Blanks, Symbols, Equals, {NUL, Quote}>>
<1>1. \A i, j \in 1 .. 6 : i # j => classes[i] \intersect classes[j] = {}
  BY CharactersAssumption
<1>2. classes[6] = {NUL, Quote} /\ classes[1] = Letters /\ classes[2] = Digits
        /\ classes[3] = Blanks /\ classes[4] = Symbols /\ classes[5] = Equals
  OBVIOUS
<1> HIDE DEF classes
<1>3. \A i, j \in 1 .. 6 : i < j => classes[i] \intersect classes[j] = {}
  BY <1>1
<1>4. /\ \A j \in {2, 3, 4, 5, 6} : Letters \intersect classes[j] = {}
      /\ \A j \in {3, 4, 5, 6} : Digits \intersect classes[j] = {}
      /\ \A j \in {4, 5, 6} : Blanks \intersect classes[j] = {}
      /\ \A j \in {5, 6} : Symbols \intersect classes[j] = {}
      /\ Equals \intersect {NUL, Quote} = {}
  BY <1>2, <1>3
<1>5. NUL # Quote
  BY DEF NUL, Quote
<1>6. QED
  BY <1>2, <1>4, <1>5

(* A character that belongs to no word and no string stays alone, unless it*)
(* is one of an operator of two.                                           *)
LEMMA ShortIsLongest ==
  ASSUME Types, NEW p \in Nat, NEW n \in 1 .. 2, p + n <= Len(input),
         CharAt(p) \notin Letters \union Digits \union Blanks \union {Quote, NUL},
         n = 2 <=> CharAt(p) \in Equals /\ CharAt(p + 1) = "="
  PROVE  Stretch(p, p + n) /\ \A end \in p + n + 1 .. Len(input) : ~Stretch(p, end)
<1>1. Stretch(p, p + n)
  BY DEF Stretch
<1>2. ASSUME NEW end \in p + n + 1 .. Len(input), Stretch(p, end) PROVE FALSE
  <2>1. end > p + n /\ end \in Int /\ p \in p .. end - 1 /\ end # p + 1
        /\ (end = p + 2 => n = 1)
    BY Constants
  <2>2. ~(end = p + 2 /\ CharAt(p) \in Equals /\ CharAt(p + 1) = "=")
    BY <2>1
  <2>3. ~ \E class \in {Letters, Digits} : \A k \in p .. end - 1 : CharAt(k) \in class
    BY <2>1
  <2>4. ~ \A k \in p .. end - 1 : CharAt(k) = Quote <=> k \in {p, end - 1}
    BY <2>1
  <2>5. QED
    BY <1>2, <2>1, <2>2, <2>3, <2>4 DEF Stretch
<1>3. QED
  BY <1>1, <1>2

(* A word ends where its class does. *)
LEMMA WordIsLongest ==
  ASSUME Types, NEW from \in Nat, NEW to \in Nat, from < to, to <= Len(input),
         NEW class \in {Letters, Digits},
         \A p \in from .. to - 1 : CharAt(p) \in class, CharAt(to) \notin class
  PROVE  Stretch(from, to) /\ \A end \in to + 1 .. Len(input) : ~Stretch(from, end)
<1>1. Stretch(from, to)
  BY DEF Stretch
<1>2. ASSUME NEW end \in to + 1 .. Len(input), Stretch(from, end) PROVE FALSE
  <2>1. end \in Int /\ end > to /\ end # from + 1 /\ from \in from .. end - 1 /\ to \in from .. end - 1
        /\ from \in from .. to - 1
    BY Constants
  <2>2. CharAt(from) \in class
    BY <2>1
  <2>3. CharAt(from) \notin Equals \union {Quote} /\ \A c \in {Letters, Digits} : CharAt(from) \in c => c = class
    BY <2>2, Classes
  <2>4. ~ \E c \in {Letters, Digits} : \A k \in from .. end - 1 : CharAt(k) \in c
    BY <2>1, <2>3
  <2>5. ~ \A k \in from .. end - 1 : CharAt(k) = Quote <=> k \in {from, end - 1}
    BY <2>1, <2>3
  <2>6. QED
    BY <1>2, <2>1, <2>3, <2>4, <2>5 DEF Stretch
<1>3. QED
  BY <1>1, <1>2

(* A string ends with the first quotation mark. *)
LEMMA StringIsLongest ==
  ASSUME Types, NEW from \in Nat, NEW to \in Nat, from + 2 <= to, to <= Len(input),
         CharAt(from) = Quote, CharAt(to - 1) = Quote,
         \A p \in from + 1 .. to - 2 : CharAt(p) # Quote
  PROVE  Stretch(from, to) /\ \A end \in to + 1 .. Len(input) : ~Stretch(from, end)
<1>1. Stretch(from, to)
  <2>1. \A p \in from .. to - 1 : p \in {from, to - 1} \/ p \in from + 1 .. to - 2
    OBVIOUS
  <2>2. \A p \in from + 1 .. to - 2 : p \notin {from, to - 1}
    OBVIOUS
  <2>3. \A p \in from .. to - 1 : CharAt(p) = Quote <=> p \in {from, to - 1}
    BY <2>1, <2>2
  <2>4. QED
    BY <2>3 DEF Stretch
<1>2. ASSUME NEW end \in to + 1 .. Len(input), Stretch(from, end) PROVE FALSE
  <2>1. end \in Int /\ end > to /\ from \in from .. end - 1 /\ to - 1 \in from .. end - 1
        /\ to - 1 # from /\ to - 1 # end - 1 /\ end # from + 1
    BY Constants
  <2>2. CharAt(from) \notin Letters \union Digits \union Equals
    BY Classes
  <2>3. ~ \A k \in from .. end - 1 : CharAt(k) = Quote <=> k \in {from, end - 1}
    BY <2>1
  <2>4. QED
    BY <1>2, <2>1, <2>2, <2>3 DEF Stretch
<1>3. QED
  BY <1>1, <1>2

LEMMA LongestKept ==
  ASSUME IInv, LongestLexemes, NEW token \in TokenType, Answer(token),
         token.type # "EOF" => Longest(token)
  PROVE  LongestLexemes' /\ Reading'
<1>1. input' = input /\ tokens' = Append(tokens, token) /\ mode' = "ready"
  BY DEF Answer
<1>2. tokens \in Seq(TokenType) /\ Len(tokens) \in Nat /\ DOMAIN tokens = 1 .. Len(tokens)
  BY Constants DEF IInv, Types
<1>3. /\ DOMAIN tokens' = 1 .. Len(tokens) + 1
      /\ \A i \in 1 .. Len(tokens) : tokens'[i] = tokens[i]
      /\ tokens'[Len(tokens) + 1] = token
      /\ \A i \in 1 .. Len(tokens) + 1 : i \in 1 .. Len(tokens) \/ i = Len(tokens) + 1
  BY <1>1, <1>2
<1>4. \A i \in DOMAIN tokens' : tokens'[i].type # "EOF" => Longest(tokens'[i])
  BY <1>2, <1>3, Zenon DEF LongestLexemes
<1>5. LongestLexemes'
  BY <1>1, <1>4 DEF LongestLexemes, Longest, Word
<1>6. QED
  BY <1>1, <1>5 DEF Reading

(* A step that returns nothing. *)
LEMMA LongestStays ==
  ASSUME LongestLexemes, UNCHANGED <<input, tokens>> PROVE LongestLexemes'
BY DEF LongestLexemes, Longest, Word

LEMMA ShortTokenLongest ==
  ASSUME IInv, LongestLexemes, mode = "skipWhitespace", NEW type \in TokenTypes \ {"EOF", "STRING"},
         NEW n \in 1 .. 2, Answer(Token(type, position, position + n)),
         position + n <= Len(input),
         Ch \notin Letters \union Digits \union Blanks \union {Quote, NUL},
         n = 2 <=> Ch \in Equals /\ PeekChar = "="
  PROVE  LongestLexemes' /\ Reading'
<1> DEFINE token == Token(type, position, position + n)
<1>1. Types /\ position \in Nat
  BY Before
<1>2. token \in TokenType /\ From(token) = position /\ To(token) = position + n
  BY <1>1 DEF Token, TokenType, From, To
<1>3. Stretch(position, position + n)
      /\ \A end \in position + n + 1 .. Len(input) : ~Stretch(position, end)
  BY <1>1, ShortIsLongest DEF Ch, PeekChar
<1>4. position < position + n /\ position + n \in Nat
  BY <1>1
<1>5. Answer(token)
  OBVIOUS
<1> HIDE DEF token
<1>6. Longest(token)
  BY <1>1, <1>2, <1>3, <1>4, LongestStretch
<1>7. QED
  BY <1>2, <1>5, <1>6, LongestKept

LEMMA ReadSymbolLongest ==
  ASSUME IInv, LongestLexemes, ReadSymbol PROVE LongestLexemes' /\ Reading'
<1>1. mode = "skipWhitespace" /\ Ch \in Symbols /\ Answer(Token(Ch, position, position + 1))
  BY DEF ReadSymbol, Switch
<1>2. Ch \notin Letters \union Digits \union Blanks \union Equals \union {Quote, NUL}
  BY <1>1, Classes
<1>3. Ch \in TokenTypes \ {"EOF", "STRING"} /\ position + 1 <= Len(input)
  BY <1>1, <1>2, Before, CharactersAssumption DEF Ch, TokenTypes
<1>4. QED
  BY <1>1, <1>2, <1>3, ShortTokenLongest

LEMMA ReadOperatorLongest ==
  ASSUME IInv, LongestLexemes, ReadOperator PROVE LongestLexemes' /\ Reading'
<1>1. mode = "skipWhitespace" /\ Ch \in Equals
  BY DEF ReadOperator, Switch
<1>2. Ch \notin Letters \union Digits \union Blanks \union {Quote, NUL}
  BY <1>1, Classes
<1>3. position + 1 <= Len(input)
  BY <1>2, Before DEF Ch
<1>4. CASE /\ PeekChar = "="
           /\ Answer(Token(IF Ch = "=" THEN "==" ELSE "!=", position, position + 2))
  <2>1. position + 2 <= Len(input)
    BY <1>4, Before DEF PeekChar, NUL
  <2>2. (IF Ch = "=" THEN "==" ELSE "!=") \in TokenTypes \ {"EOF", "STRING"}
    BY DEF TokenTypes
  <2>3. QED
    BY <1>1, <1>2, <1>4, <2>1, <2>2, ShortTokenLongest
<1>5. CASE PeekChar # "=" /\ Answer(Token(Ch, position, position + 1))
  <2>1. Ch \in TokenTypes \ {"EOF", "STRING"}
    BY <1>1 DEF TokenTypes, Equals
  <2>2. QED
    BY <1>1, <1>2, <1>3, <1>5, <2>1, ShortTokenLongest
<1>6. QED
  BY <1>4, <1>5 DEF ReadOperator

LEMMA ReadIllegalLongest ==
  ASSUME IInv, LongestLexemes, ReadIllegal PROVE LongestLexemes' /\ Reading'
<1>1. /\ mode = "skipWhitespace" /\ Answer(Token("ILLEGAL", position, position + 1))
      /\ Ch \notin Letters \union Digits \union Blanks \union Equals \union {Quote, NUL}
  BY DEF ReadIllegal
<1>2. position + 1 <= Len(input)
  BY <1>1, Before DEF Ch
<1>3. "ILLEGAL" \in TokenTypes \ {"EOF", "STRING"}
  BY DEF TokenTypes
<1>4. QED
  BY <1>1, <1>2, <1>3, ShortTokenLongest

LEMMA ReadEndLongest ==
  ASSUME IInv, LongestLexemes, ReadEnd PROVE LongestLexemes' /\ Reading'
<1> DEFINE token == Token("EOF", position, position)
<1>1. Answer(token) /\ token \in TokenType /\ token.type = "EOF"
  BY Before DEF ReadEnd, Token, TokenType, TokenTypes
<1> HIDE DEF token
<1>2. QED
  BY <1>1, LongestKept

LEMMA EnterLongest ==
  ASSUME IInv, LongestLexemes, EnterLetters \/ EnterDigits \/ EnterString
  PROVE  LongestLexemes' /\ Reading'
<1>1. UNCHANGED <<input, position, tokens>> /\ position \in Nat
  BY Before DEF EnterLetters, EnterDigits, EnterString, Enter
<1>2. \A p \in position .. position : p = position
  BY <1>1
<1>3. CASE EnterLetters \/ EnterDigits
  <2>1. mode' \in {"readLetter", "readDigit"} /\ Ch \in Characters(mode') /\ start' = position
    BY <1>3 DEF EnterLetters, EnterDigits, Enter, Switch, Characters
  <2>2. QED
    BY <1>1, <1>2, <2>1, LongestStays DEF Reading, CharAt, Ch
<1>4. CASE EnterString
  <2>1. mode' = "readString" /\ Ch = Quote /\ start' = position + 1
    BY <1>4 DEF EnterString, Enter, Switch
  <2>2. position + 1 - 1 = position /\ position + 1 .. position = {}
    BY <1>1
  <2>3. QED
    BY <1>1, <2>1, <2>2, LongestStays DEF Reading, CharAt, Ch
<1>5. QED
  BY <1>3, <1>4

LEMMA ReadLetterOrDigitLongest ==
  ASSUME IInv, LongestLexemes, Reading, ReadLetterOrDigit PROVE LongestLexemes' /\ Reading'
<1>1. /\ UNCHANGED <<input, mode, start, tokens>>
      /\ mode \in {"readLetter", "readDigit"}
      /\ Ch \in Characters(mode) /\ ReadChars(1)
  BY DEF ReadLetterOrDigit
<1>2. position \in Nat /\ start \in Nat /\ start <= position /\ position <= Len(input)
  BY <1>1, Before DEF Between
<1>3. position' = position + 1
  BY <1>1, <1>2, Before, ReadsOn
<1>4. \A p \in start .. position + 1 : p \in start .. position \/ p = position + 1
  BY <1>2
<1>5. \A p \in start .. position + 1 : (p = position + 1 /\ p # start) \/ CharAt(p) \in Characters(mode)
  BY <1>1, <1>2, <1>4 DEF Reading, Ch
<1>6. QED
  BY <1>1, <1>3, <1>5, LongestStays DEF Reading, CharAt

LEMMA EndWordLongest ==
  ASSUME IInv, LongestLexemes, Reading, EndWord PROVE LongestLexemes' /\ Reading'
<1> DEFINE type == IF mode = "readLetter" THEN LookupIdent(Word(start, position)) ELSE "INT"
           token == Token(type, start, position)
<1>1. mode \in {"readLetter", "readDigit"} /\ Ch \notin Characters(mode) /\ Answer(token)
  BY DEF EndWord
<1>2. type \in TokenTypes \ {"EOF", "STRING"}
  BY KeywordsAssumption DEF LookupIdent, TokenTypes
<1> HIDE DEF type
<1>3. Types /\ start \in Nat /\ position \in Nat /\ start <= position /\ position <= Len(input)
  BY <1>1, Before DEF Between
<1>4. token \in TokenType /\ From(token) = start /\ To(token) = position
  BY <1>2, <1>3 DEF Token, TokenType, From, To
<1>5. CharAt(start) \in Characters(mode) /\ \A p \in start .. position - 1 : CharAt(p) \in Characters(mode)
  <2>1. \A p \in start .. position - 1 : p \in start .. position /\ p # position
    BY <1>3
  <2>2. start \in start .. position
    BY <1>3
  <2>3. QED
    BY <1>1, <2>1, <2>2 DEF Reading
<1>6. start < position
  BY <1>1, <1>3, <1>5 DEF Ch
<1>7. Characters(mode) \in {Letters, Digits}
  BY DEF Characters
<1>8. Stretch(start, position) /\ \A end \in position + 1 .. Len(input) : ~Stretch(start, end)
  BY <1>1, <1>3, <1>5, <1>6, <1>7, WordIsLongest DEF Ch
<1> HIDE DEF token
<1>9. Longest(token)
  BY <1>3, <1>4, <1>6, <1>8, LongestStretch
<1>10. QED
  BY <1>1, <1>4, <1>9, LongestKept

LEMMA ReadInStringLongest ==
  ASSUME IInv, LongestLexemes, Reading, ReadInString PROVE LongestLexemes' /\ Reading'
<1>1. /\ UNCHANGED <<input, mode, start, tokens>>
      /\ mode = "readString" /\ PeekChar # Quote /\ ReadChars(1)
  BY DEF ReadInString
<1>2. position \in Nat /\ start \in Nat /\ position' \in {position, position + 1}
  BY <1>1, Before DEF ReadChars
<1>3. \A p \in start .. position + 1 : p \in start .. position \/ p = position + 1
  BY <1>2
<1>4. \A p \in start .. position' : CharAt(p) # Quote
  BY <1>1, <1>2, <1>3 DEF Reading, PeekChar
<1>5. QED
  BY <1>1, <1>4, LongestStays DEF Reading, CharAt

LEMMA EndStringLongest ==
  ASSUME IInv, LongestLexemes, Reading, EndString PROVE LongestLexemes' /\ Reading'
<1> DEFINE token == Token("STRING", start, position + 1)
<1>1. mode = "readString" /\ PeekChar = Quote /\ Answer(token)
  BY DEF EndString
<1>2. /\ Types /\ position \in Nat /\ start \in Nat
      /\ start >= 1 /\ start - 1 <= position /\ position + 2 <= Len(input)
  BY <1>1, Before DEF Between, PeekChar, NUL, Quote
<1>3. token \in TokenType /\ From(token) = start - 1 /\ To(token) = position + 2
  BY <1>2 DEF Token, TokenType, TokenTypes, From, To
<1>4. /\ start - 1 \in Nat /\ position + 2 \in Nat
      /\ (start - 1) + 1 = start /\ (position + 2) - 2 = position /\ (position + 2) - 1 = position + 1
      /\ start - 1 < position + 2
  BY <1>2
<1>5. start - 1 + 2 <= position + 2
  BY <1>2
<1>6. CharAt(start - 1) = Quote /\ CharAt(position + 1) = Quote
      /\ \A p \in start .. position : CharAt(p) # Quote
  BY <1>1 DEF Reading, PeekChar
<1>7. /\ Stretch(start - 1, position + 2)
      /\ \A end \in position + 2 + 1 .. Len(input) : ~Stretch(start - 1, end)
  BY <1>2, <1>4, <1>5, <1>6, StringIsLongest
<1> HIDE DEF token
<1>8. Longest(token)
  BY <1>2, <1>3, <1>4, <1>7, LongestStretch
<1>9. QED
  BY <1>1, <1>3, <1>8, LongestKept

LEMMA NextKeepsLongest == LongInv /\ [Next]_vars => LongInv'
<1> SUFFICES ASSUME IInv, LongestLexemes, Reading, [Next]_vars
             PROVE  LongestLexemes' /\ Reading'
  BY NextKeepsIInv DEF LongInv
<1>1. CASE NextToken \/ SkipWhitespace
  <2>1. mode' = "skipWhitespace" /\ UNCHANGED <<input, tokens>>
    BY <1>1 DEF NextToken, SkipWhitespace
  <2>2. QED
    BY <2>1, LongestStays DEF Reading
<1>2. CASE Working
  BY <1>1, <1>2, ReadSymbolLongest, ReadOperatorLongest, ReadEndLongest, ReadIllegalLongest,
     EnterLongest, ReadLetterOrDigitLongest, EndWordLongest, ReadInStringLongest, EndStringLongest
     DEF Working
<1>3. CASE UNCHANGED vars
  BY <1>3, LongestStays DEF vars, Reading, CharAt
<1>4. QED
  BY <1>1, <1>2, <1>3 DEF Next, Finished

(* Whatever the input: no token stops short, although no more than one     *)
(* character is ever looked at ahead.                                      *)
THEOREM TokensAreLongest == Spec => []LongestLexemes
<1>1. Init => LongInv
  <2>1. Init => LongestLexemes /\ Reading
    BY DEF Init, LongestLexemes, Reading
  <2>2. QED
    BY <2>1, InitIInv DEF LongInv
<1>2. LongInv => LongestLexemes
  BY DEF LongInv
<1>3. QED
  BY <1>1, <1>2, NextKeepsLongest, PTL DEF Spec

--------------------------------------------------------------------------------
(***************************************************************************)
(* The end is final, and strings are closed there.  The recursion of Marks *)
(* ends, which is no induction here: there is no least n for which it does *)
(* not.                                                                    *)
(***************************************************************************)
MarksAt(text, f, n) == IF n = 0 THEN 0 ELSE f[n - 1] + (IF text[n] = Quote THEN 1 ELSE 0)

LEMMA PartialMarks ==
  ASSUME NEW text, Len(text) \in Nat, NEW n \in 0 .. Len(text)
  PROVE  \E f : f = [l \in 0 .. n |-> MarksAt(text, f, l)]
<1> DEFINE Exists(k) == \E f : f = [l \in 0 .. k |-> MarksAt(text, f, l)]
           Bad == {k \in 0 .. Len(text) : ~Exists(k)}
<1>1. SUFFICES ASSUME ~Exists(n) PROVE FALSE
  OBVIOUS
<1>2. PICK k \in Bad : \A j \in Bad : k <= j
  <2>1. n \in Bad /\ Bad \subseteq Nat
    BY <1>1
  <2> HIDE DEF Bad
  <2>2. QED
    BY <2>1, LeastElement
<1>3. k \in 0 .. Len(text) /\ ~Exists(k)
  OBVIOUS
<1>4. CASE k = 0
  <2> DEFINE f == [l \in {0} |-> 0]
  <2>1. f = [l \in {0} |-> MarksAt(text, f, l)]
    BY DEF MarksAt
  <2>2. 0 .. 0 = {0}
    OBVIOUS
  <2>3. Exists(0)
    BY <2>1, <2>2
  <2>4. QED
    BY <2>3, <1>3, <1>4
<1>5. CASE k # 0
  <2>1. k - 1 \in 0 .. Len(text) /\ ~(k <= k - 1)
    BY <1>3, <1>5
  <2>2. Exists(k - 1)
    BY <2>1, <1>2
  <2>3. PICK f : f = [l \in 0 .. k - 1 |-> MarksAt(text, f, l)]
    BY <2>2
  <2> DEFINE g == [l \in 0 .. k |-> IF l = k THEN MarksAt(text, f, l) ELSE f[l]]
  <2>4. \A l \in 0 .. k - 1 : f[l] = MarksAt(text, f, l)
    BY <2>3, ZenonT(20)
  <2>5. \A l \in 0 .. k : l = k \/ (l \in 0 .. k - 1 /\ l # k)
    BY <1>3, <1>5
  <2>6. \A l \in 0 .. k : g[l] = MarksAt(text, f, l)
    BY <2>4, <2>5
  <2>7. \A l \in 0 .. k : MarksAt(text, f, l) = MarksAt(text, g, l)
    <3>1. SUFFICES ASSUME NEW l \in 0 .. k
                   PROVE  MarksAt(text, f, l) = MarksAt(text, g, l)
      OBVIOUS
    <3>2. l # 0 => l - 1 \in 0 .. k /\ l - 1 # k
      BY <1>3
    <3>3. l # 0 => g[l - 1] = f[l - 1]
      BY <3>2
    <3>4. QED
      BY <3>3 DEF MarksAt
  <2>8. g = [l \in 0 .. k |-> g[l]]
    OBVIOUS
  <2>9. g = [l \in 0 .. k |-> MarksAt(text, g, l)]
    <3> HIDE DEF g
    <3>1. QED
      BY <2>6, <2>7, <2>8
  <2>10. QED
    BY <2>9, <1>3
<1>6. QED
  BY <1>4, <1>5

LEMMA MarksEquation ==
  ASSUME NEW text, Len(text) \in Nat
  PROVE  \A n \in 0 .. Len(text) : Marks(text)[n] = MarksAt(text, Marks(text), n)
<1>1. \E f : f = [n \in 0 .. Len(text) |-> MarksAt(text, f, n)]
  <2>1. Len(text) \in 0 .. Len(text)
    OBVIOUS
  <2>2. QED
    BY <2>1, PartialMarks
<1>2. Marks(text) = CHOOSE f : f = [n \in 0 .. Len(text) |-> MarksAt(text, f, n)]
  BY DEF Marks, MarksAt
<1>3. Marks(text) = [n \in 0 .. Len(text) |-> MarksAt(text, Marks(text), n)]
  BY <1>1, <1>2
<1>4. QED
  BY <1>3, Zenon

LEMMA MarksCount ==
  ASSUME NEW text, Len(text) \in Nat
  PROVE  /\ Marks(text)[0] = 0
         /\ \A n \in 1 .. Len(text) :
              Marks(text)[n] = Marks(text)[n - 1] + (IF text[n] = Quote THEN 1 ELSE 0)
         /\ \A n \in 0 .. Len(text) : Marks(text)[n] \in Nat
<1> DEFINE Bad == {n \in 0 .. Len(text) : Marks(text)[n] \notin Nat}
<1>1. Marks(text)[0] = 0
  BY MarksEquation DEF MarksAt
<1>2. \A n \in 1 .. Len(text) :
        Marks(text)[n] = Marks(text)[n - 1] + (IF text[n] = Quote THEN 1 ELSE 0)
  BY MarksEquation DEF MarksAt
<1>3. Bad = {}
  <2>1. SUFFICES ASSUME Bad # {} PROVE FALSE
    OBVIOUS
  <2>2. PICK k \in Bad : \A j \in Bad : k <= j
    <3>1. Bad \subseteq Nat
      OBVIOUS
    <3> HIDE DEF Bad
    <3>2. QED
      BY <2>1, <3>1, LeastElement
  <2>3. k \in 1 .. Len(text) /\ k - 1 \in 0 .. Len(text) /\ ~(k <= k - 1)
    BY <1>1
  <2>4. Marks(text)[k - 1] \in Nat
    BY <2>2, <2>3
  <2>5. Marks(text)[k] \in Nat
    BY <1>2, <2>3, <2>4
  <2>6. QED
    BY <2>5
<1>4. QED
  BY <1>1, <1>2, <1>3

(* The quotation marks before a position. *)
Seen(p) == Marks(input)[IF p <= Len(input) THEN p ELSE Len(input)]

Even(n) == n % 2 = 0

LEMMA OneMore ==
  ASSUME Types, NEW p \in Nat
  PROVE  Even(Seen(p + 1)) <=> (Even(Seen(p)) <=> CharAt(p) # Quote)
<1>1. Len(input) \in Nat
  BY Constants
<1>2. Seen(p) \in Nat
  BY <1>1, MarksCount DEF Seen
<1>3. Seen(p + 1) = Seen(p) + (IF CharAt(p) = Quote THEN 1 ELSE 0)
  <2>1. CASE p < Len(input)
    <3>1. p + 1 \in 1 .. Len(input) /\ p + 1 - 1 = p /\ p <= Len(input) /\ p + 1 <= Len(input)
      BY <1>1, <2>1
    <3>2. Seen(p + 1) = Marks(input)[p + 1] /\ Seen(p) = Marks(input)[p]
      BY <3>1 DEF Seen
    <3>3. Marks(input)[p + 1] = Marks(input)[p] + (IF input[p + 1] = Quote THEN 1 ELSE 0)
      BY <1>1, <3>1, MarksCount
    <3>4. QED
      BY <2>1, <3>2, <3>3 DEF CharAt
  <2>2. CASE ~(p < Len(input))
    <3>1. Seen(p + 1) = Marks(input)[Len(input)] /\ Seen(p) = Marks(input)[Len(input)]
      BY <1>1, <2>2 DEF Seen
    <3>2. CharAt(p) # Quote
      BY <2>2 DEF CharAt, NUL, Quote
    <3>3. QED
      BY <1>2, <3>1, <3>2
  <2>3. QED
    BY <2>1, <2>2
<1>4. \A n \in Nat : (n + 1) % 2 = 0 <=> ~(n % 2 = 0)
  OBVIOUS
<1>5. QED
  BY <1>2, <1>3, <1>4 DEF Even

(* Between the tokens, all strings that were opened are closed; in one, the*)
(* last is open.                                                           *)
Parity ==
  /\ mode # "readString" => Even(Seen(position))
  /\ mode = "readString" => ~Even(Seen(position + 1))

SomeEnd == \E i \in DOMAIN tokens : tokens[i].type = "EOF"

(* What is read behind the end is only zeros. *)
AtEnd == Whole /\ SomeEnd => position >= Len(input) /\ mode \in {"ready", "skipWhitespace"}

FinalInv == IInv /\ EndIsFinal /\ AtEnd /\ Parity

(* Behind the end, all positions are the same. *)
LEMMA SeenBehind ==
  ASSUME Types, NEW n \in 1 .. 2, ReadChars(n), input' = input
  PROVE  Seen(position)' = Seen(position + n) /\ Seen(position + 1)' = Seen(position + n + 1)
<1>1. Len(input) \in Nat /\ position \in Nat
  BY Constants
<1>2. position' = position + n \/ (position' >= Len(input) /\ position + n >= Len(input) /\ position' \in Nat)
  BY <1>1 DEF ReadChars, LastPosition
<1>3. \A p \in Nat : p >= Len(input) => Seen(p) = Marks(input)[Len(input)] /\ Seen(p + 1) = Marks(input)[Len(input)]
  BY <1>1 DEF Seen
<1>4. Seen(position') = Seen(position + n) /\ Seen(position' + 1) = Seen(position + n + 1)
  BY <1>1, <1>2, <1>3
<1>5. QED
  BY <1>4 DEF Seen

LEMMA ParityStep == FinalInv /\ [Next]_vars => Parity'
<1> SUFFICES ASSUME FinalInv, [Next]_vars PROVE Parity'
  OBVIOUS
<1>1. Types /\ Parity /\ position \in Nat
  BY Before DEF FinalInv
<1>2. input' = input
  BY DEF Next, Working, vars, NextToken, SkipWhitespace, ReadSymbol, ReadOperator, ReadEnd, ReadIllegal,
     EnterLetters, EnterDigits, EnterString, Enter, ReadLetterOrDigit, EndWord, ReadInString, EndString,
     Answer, Finished
<1>3. ASSUME mode # "readString", mode' # "readString", Ch # Quote, ReadChars(1) PROVE Parity'
  <2>1. Even(Seen(position + 1))
    BY <1>1, <1>3, OneMore DEF Parity, Ch
  <2>2. QED
    BY <1>1, <1>2, <1>3, <2>1, SeenBehind DEF Parity
<1>4. ASSUME mode # "readString", mode' # "readString", UNCHANGED position PROVE Parity'
  BY <1>1, <1>2, <1>4 DEF Parity, Seen
<1>5. CASE NextToken \/ EnterLetters \/ EnterDigits \/ EndWord
  BY <1>4, <1>5 DEF NextToken, EnterLetters, EnterDigits, Enter, Switch, EndWord, Answer
<1>6. CASE SkipWhitespace \/ ReadSymbol \/ ReadEnd \/ ReadIllegal \/ ReadLetterOrDigit
  <2>1. mode # "readString" /\ mode' # "readString" /\ ReadChars(1)
    BY <1>6 DEF SkipWhitespace, ReadSymbol, ReadEnd, ReadIllegal, ReadLetterOrDigit, Switch, Answer
  <2>2. Ch # Quote
    BY <1>6, Classes DEF SkipWhitespace, ReadSymbol, ReadEnd, ReadIllegal, ReadLetterOrDigit, Switch, Characters
  <2>3. QED
    BY <1>3, <2>1, <2>2
<1>7. CASE ReadOperator
  <2>1. mode # "readString" /\ mode' = "ready" /\ Ch # Quote
    BY <1>7, Classes DEF ReadOperator, Switch, Answer
  <2>2. CASE ReadChars(1)
    BY <1>3, <2>1, <2>2
  <2>3. CASE PeekChar = "=" /\ ReadChars(2)
    <3>1. Even(Seen(position + 1))
      BY <1>1, <2>1, OneMore DEF Parity, Ch
    <3>2. Even(Seen(position + 1 + 1))
      BY <1>1, <2>3, <3>1, OneMore DEF PeekChar, Quote
    <3>3. position + 1 + 1 = position + 2
      BY <1>1
    <3>4. QED
      BY <1>1, <1>2, <2>1, <2>3, <3>2, <3>3, SeenBehind DEF Parity
  <2>4. QED
    BY <1>7, <2>2, <2>3 DEF ReadOperator
<1>8. CASE EnterString
  <2>1. mode # "readString" /\ mode' = "readString" /\ Ch = Quote /\ UNCHANGED position
    BY <1>8 DEF EnterString, Enter, Switch
  <2>2. ~Even(Seen(position + 1))
    BY <1>1, <2>1, OneMore DEF Parity, Ch
  <2>3. QED
    BY <1>2, <2>1, <2>2 DEF Parity, Seen
<1>9. CASE ReadInString
  <2>1. mode = "readString" /\ mode' = mode /\ PeekChar # Quote /\ ReadChars(1)
    BY <1>9 DEF ReadInString
  <2>2. ~Even(Seen(position + 1 + 1))
    BY <1>1, <2>1, OneMore DEF Parity, PeekChar
  <2>3. QED
    BY <1>1, <1>2, <2>1, <2>2, SeenBehind DEF Parity
<1>10. CASE EndString
  <2>1. mode = "readString" /\ mode' = "ready" /\ PeekChar = Quote /\ ReadChars(2)
    BY <1>10 DEF EndString, Answer
  <2>2. Even(Seen(position + 1 + 1)) /\ position + 1 + 1 = position + 2
    BY <1>1, <2>1, OneMore DEF Parity, PeekChar
  <2>3. QED
    BY <1>1, <1>2, <2>1, <2>2, SeenBehind DEF Parity
<1>11. CASE UNCHANGED vars
  BY <1>1, <1>11 DEF Parity, Seen, vars
<1>12. QED
  BY <1>5, <1>6, <1>7, <1>8, <1>9, <1>10, <1>11 DEF Next, Working, Finished

(* A token that is not the end comes before all ends, unless a zero is in  *)
(* the input.                                                              *)
LEMMA MoreTokens ==
  ASSUME FinalInv, ~(Whole /\ SomeEnd), NEW token \in TokenType, Answer(token), token.type # "EOF"
  PROVE  EndIsFinal' /\ AtEnd'
<1>1. input' = input /\ tokens' = Append(tokens, token)
  BY DEF Answer
<1>2. tokens \in Seq(TokenType) /\ Len(tokens) \in Nat /\ DOMAIN tokens = 1 .. Len(tokens)
  BY Constants DEF FinalInv, IInv, Types
<1>3. /\ DOMAIN tokens' = 1 .. Len(tokens) + 1
      /\ \A i \in 1 .. Len(tokens) : tokens'[i] = tokens[i]
      /\ tokens'[Len(tokens) + 1] = token
      /\ \A i \in 1 .. Len(tokens) + 1 : i \in 1 .. Len(tokens) \/ i = Len(tokens) + 1
  BY <1>1, <1>2
<1>4. \A i \in DOMAIN tokens' : tokens'[i].type = "EOF" => i \in DOMAIN tokens /\ tokens'[i] = tokens[i]
  BY <1>2, <1>3, Zenon
<1>5. Whole' <=> Whole
  BY <1>1 DEF Whole
<1>6. ~(Whole' /\ SomeEnd')
  BY <1>4, <1>5 DEF SomeEnd
<1>7. \A i \in DOMAIN tokens' : tokens'[i].type = "EOF" /\ tokens'[i].from >= Len(input) => Closed
  BY <1>4 DEF FinalInv, EndIsFinal
<1>8. QED
  BY <1>1, <1>6, <1>7 DEF EndIsFinal, AtEnd, SomeEnd, Closed

LEMMA QuietAtEnd ==
  ASSUME EndIsFinal, UNCHANGED <<input, tokens>>,
         \/ ~(Whole /\ SomeEnd)
         \/ AtEnd /\ position' = position /\ mode' \in {"ready", "skipWhitespace"}
  PROVE  EndIsFinal' /\ AtEnd'
BY DEF EndIsFinal, AtEnd, Whole, SomeEnd, Closed

(* What is left when the end was reached. *)
LEMMA NoEndYet ==
  ASSUME FinalInv, mode \notin {"ready", "skipWhitespace"} \/ Ch # NUL
  PROVE  ~(Whole /\ SomeEnd)
BY Before DEF FinalInv, AtEnd, Ch, CharAt

LEMMA ReadEndFinal ==
  ASSUME FinalInv, ReadEnd PROVE EndIsFinal' /\ AtEnd'
<1> DEFINE token == Token("EOF", position, position)
<1>1. /\ mode = "skipWhitespace" /\ Ch = NUL /\ ReadChars(1) /\ mode' = "ready"
      /\ input' = input /\ tokens' = Append(tokens, token)
  BY DEF ReadEnd, Switch, Answer
<1>2. /\ Types /\ Len(input) \in Nat /\ position \in Nat
      /\ token \in TokenType /\ token.type = "EOF" /\ token.from = position
  BY Before DEF FinalInv, Token, TokenType, TokenTypes
<1> HIDE DEF token
<1>3. tokens \in Seq(TokenType) /\ Len(tokens) \in Nat /\ DOMAIN tokens = 1 .. Len(tokens)
  BY <1>2, Constants DEF Types
<1>4. /\ DOMAIN tokens' = 1 .. Len(tokens) + 1
      /\ \A i \in 1 .. Len(tokens) : tokens'[i] = tokens[i]
      /\ tokens'[Len(tokens) + 1] = token
      /\ \A i \in 1 .. Len(tokens) + 1 : i \in 1 .. Len(tokens) \/ i = Len(tokens) + 1
  BY <1>1, <1>2, <1>3
<1>5. Whole => position >= Len(input)
  <2>1. input \in Seq(STRING) /\ position \in Nat
    BY <1>2 DEF Types
  <2>2. QED
    BY <1>1, <2>1 DEF Whole, Ch, CharAt
<1>6. position >= Len(input) => Closed
  <2>1. Even(Seen(position))
    BY <1>1 DEF FinalInv, Parity
  <2>2. position >= Len(input) => Seen(position) = Marks(input)[Len(input)]
    BY <1>2 DEF Seen
  <2>3. QED
    BY <2>1, <2>2 DEF Closed, Even
<1>7. ASSUME Whole, NEW i \in DOMAIN tokens', NEW j \in DOMAIN tokens', i <= j, tokens'[i].type = "EOF"
      PROVE  tokens'[j].type = "EOF" /\ tokens'[j].from >= Len(input)
  <2>1. CASE j = Len(tokens) + 1
    BY <1>2, <1>4, <1>5, <1>7, <2>1
  <2>2. CASE j \in 1 .. Len(tokens)
    <3>1. i \in 1 .. Len(tokens)
      BY <1>3, <1>4, <1>7, <2>2
    <3>2. i \in DOMAIN tokens /\ j \in DOMAIN tokens /\ tokens'[i] = tokens[i] /\ tokens'[j] = tokens[j]
      BY <1>3, <1>4, <2>2, <3>1
    <3>3. QED
      BY <1>7, <3>2 DEF FinalInv, EndIsFinal
  <2>3. QED
    BY <1>4, <2>1, <2>2
<1>8. ASSUME NEW i \in DOMAIN tokens', tokens'[i].type = "EOF", tokens'[i].from >= Len(input)
      PROVE  Closed
  <2>1. CASE i = Len(tokens) + 1
    BY <1>2, <1>4, <1>6, <1>8, <2>1
  <2>2. CASE i \in 1 .. Len(tokens)
    <3>1. i \in DOMAIN tokens /\ tokens'[i] = tokens[i]
      BY <1>3, <1>4, <2>2
    <3>2. QED
      BY <1>8, <3>1 DEF FinalInv, EndIsFinal
  <2>3. QED
    BY <1>4, <2>1, <2>2
<1>9. Whole' <=> Whole
  BY <1>1 DEF Whole
<1>10. EndIsFinal'
  <2>1. Closed' <=> Closed
    BY <1>1 DEF Closed
  <2>2. QED
    BY <1>1, <1>7, <1>8, <1>9, <2>1 DEF EndIsFinal
<1>11. AtEnd'
  <2>1. position' >= position /\ position' \in Int
    BY <1>1, <1>2, ReadsOn
  <2>2. Whole => position' >= Len(input)
    BY <1>2, <1>5, <2>1
  <2>3. QED
    BY <1>1, <1>9, <2>2 DEF AtEnd
<1>12. QED
  BY <1>10, <1>11

LEMMA FinalStep == FinalInv /\ [Next]_vars => EndIsFinal' /\ AtEnd'
<1> SUFFICES ASSUME FinalInv, [Next]_vars PROVE EndIsFinal' /\ AtEnd'
  OBVIOUS
<1>1. /\ Types /\ EndIsFinal /\ AtEnd /\ position \in Nat /\ start \in Nat /\ Len(input) \in Nat
  BY Before DEF FinalInv
<1>2. ASSUME NEW type \in TokenTypes \ {"EOF"}, NEW from \in Nat, NEW to \in Nat,
             Answer(Token(type, from, to)), mode \notin {"ready", "skipWhitespace"} \/ Ch # NUL
      PROVE  EndIsFinal' /\ AtEnd'
  <2> DEFINE token == Token(type, from, to)
  <2>1. token \in TokenType /\ token.type # "EOF" /\ Answer(token)
    BY <1>2 DEF Token, TokenType
  <2> HIDE DEF token
  <2>2. QED
    BY <1>2, <2>1, NoEndYet, MoreTokens
<1>3. CASE ReadSymbol
  <2>1. Ch \in Symbols /\ Answer(Token(Ch, position, position + 1))
    BY <1>3 DEF ReadSymbol, Switch
  <2>2. Ch # NUL /\ Ch \in TokenTypes \ {"EOF"}
    BY <2>1, Classes, CharactersAssumption DEF TokenTypes
  <2>3. QED
    BY <1>1, <1>2, <2>1, <2>2
<1>4. CASE ReadOperator
  <2>1. Ch \in Equals /\ Ch # NUL
    BY <1>4, Classes DEF ReadOperator, Switch
  <2>2. PICK type \in {"==", "!="} \union Equals, n \in 1 .. 2 : Answer(Token(type, position, position + n))
    <3>1. CASE Answer(Token(IF Ch = "=" THEN "==" ELSE "!=", position, position + 2))
      <4>1. (IF Ch = "=" THEN "==" ELSE "!=") \in {"==", "!="} \union Equals /\ 2 \in 1 .. 2
        OBVIOUS
      <4>2. QED
        BY <3>1, <4>1, Zenon
    <3>2. CASE Answer(Token(Ch, position, position + 1))
      <4>1. Ch \in {"==", "!="} \union Equals /\ 1 \in 1 .. 2
        BY <2>1
      <4>2. QED
        BY <3>2, <4>1, Zenon
    <3>3. QED
      BY <1>4, <3>1, <3>2 DEF ReadOperator
  <2>3. type \in TokenTypes \ {"EOF"} /\ position + n \in Nat
    BY <1>1 DEF TokenTypes, Equals
  <2>4. QED
    BY <1>1, <1>2, <2>1, <2>2, <2>3
<1>5. CASE ReadIllegal
  <2>1. Ch # NUL /\ Answer(Token("ILLEGAL", position, position + 1)) /\ "ILLEGAL" \in TokenTypes \ {"EOF"}
    BY <1>5 DEF ReadIllegal, TokenTypes
  <2>2. QED
    BY <1>1, <1>2, <2>1
<1>6. CASE EndWord
  <2> DEFINE type == IF mode = "readLetter" THEN LookupIdent(Word(start, position)) ELSE "INT"
  <2>1. mode \in {"readLetter", "readDigit"} /\ Answer(Token(type, start, position))
    BY <1>6 DEF EndWord
  <2>2. type \in TokenTypes \ {"EOF"}
    BY KeywordsAssumption DEF LookupIdent, TokenTypes
  <2> HIDE DEF type
  <2>3. QED
    BY <1>1, <1>2, <2>1, <2>2
<1>7. CASE EndString
  <2>1. mode = "readString" /\ Answer(Token("STRING", start, position + 1)) /\ "STRING" \in TokenTypes \ {"EOF"}
    BY <1>7 DEF EndString, TokenTypes
  <2>2. QED
    BY <1>1, <1>2, <2>1
<1>8. CASE NextToken
  <2>1. UNCHANGED <<input, tokens>> /\ position' = position /\ mode' = "skipWhitespace"
    BY <1>8 DEF NextToken
  <2>2. QED
    BY <1>1, <2>1, QuietAtEnd
<1>9. CASE SkipWhitespace \/ EnterLetters \/ EnterDigits \/ EnterString \/ ReadLetterOrDigit \/ ReadInString
  <2>1. UNCHANGED <<input, tokens>>
    BY <1>9 DEF SkipWhitespace, EnterLetters, EnterDigits, EnterString, Enter, ReadLetterOrDigit, ReadInString
  <2>2. mode \notin {"ready", "skipWhitespace"} \/ Ch # NUL
    BY <1>9, Classes DEF SkipWhitespace, EnterLetters, EnterDigits, EnterString, Enter, Switch,
                         ReadLetterOrDigit, ReadInString
  <2>3. QED
    BY <1>1, <2>1, <2>2, NoEndYet, QuietAtEnd
<1>10. CASE UNCHANGED vars
  BY <1>1, <1>10 DEF EndIsFinal, AtEnd, Whole, SomeEnd, Closed, vars
<1>11. QED
  BY <1>3, <1>4, <1>5, <1>6, <1>7, <1>8, <1>9, <1>10, ReadEndFinal DEF Next, Working, Finished

(* Whatever the input: the parser, which stops at the first end, has seen  *)
(* all of it, unless there is a zero in it; and no string is open there.   *)
THEOREM TheEndIsFinal == Spec => []EndIsFinal
<1>1. Init => FinalInv
  <2>1. SUFFICES ASSUME Init PROVE FinalInv
    OBVIOUS
  <2>2. tokens = <<>> /\ mode = "ready" /\ position = 0 /\ Types
    <3>1. IInv
      BY <2>1, InitIInv
    <3>2. QED
      BY <2>1, <3>1 DEF Init, IInv
  <2>3. EndIsFinal /\ AtEnd
    BY <2>2 DEF EndIsFinal, AtEnd, SomeEnd
  <2>4. Parity
    <3>1. Len(input) \in Nat
      BY <2>2, Constants
    <3>2. Seen(0) = 0
      BY <3>1, MarksCount DEF Seen
    <3>3. QED
      BY <2>2, <3>2 DEF Parity, Even
  <2>5. QED
    BY <2>1, <2>3, <2>4, InitIInv DEF FinalInv
<1>2. FinalInv /\ [Next]_vars => FinalInv'
  BY NextKeepsIInv, ParityStep, FinalStep DEF FinalInv
<1>3. FinalInv => EndIsFinal
  BY DEF FinalInv
<1>4. QED
  BY <1>1, <1>2, <1>3, PTL DEF Spec

================================================================================
