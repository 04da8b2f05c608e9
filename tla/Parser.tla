---------------------------------- MODULE Parser -------------------------------
(***************************************************************************)
(* The parser (src/parser/parser.go): recursive descent for statements,    *)
(* precedence climbing for expressions, two tokens at hand.                *)
(*                                                                         *)
(* The variable calls is the Go call stack, innermost call first: a frame  *)
(* says what it does next, and holds what it has got so far.  A call that  *)
(* returns drops its frame and leaves its value in result.                 *)
(*                                                                         *)
(* A token is a record of its type and, when it is a literal or a name,    *)
(* the node that the parser makes of it: Missing, for a number that        *)
(* ParseInt does not accept.  Of the error messages, the model keeps       *)
(* whether there are any.                                                  *)
(***************************************************************************)
EXTENDS Syntax, FiniteSets

CONSTANTS
  Sources,       (* the sequences of tokens that the lexer finds           *)
  MaxStatements  (* how many statements of a block are collected           *)

ASSUME MaxStatementsAssumption == MaxStatements \in Nat

VARIABLES
  source,    (* the tokens                                                 *)
  position,  (* p.curToken is the token there, p.peekToken the one after   *)
  calls,     (* the calls that have not returned                           *)
  result,    (* what the last call returned                                *)
  failed     (* whether p.errors is not empty                              *)

vars == <<source, position, calls, result, failed>>

(* The lexer returns EOF again and again. *)
TokenAt(i) == IF i \in DOMAIN source THEN source[i] ELSE [type |-> "EOF"]
Cur == TokenAt(position)
Peek == TokenAt(position + 1)

(* n times nextToken; all positions behind the end are the same.           *)
NextTokens(n) ==
  position' = IF position + n <= Len(source) THEN position + n ELSE Len(source) + 1

--------------------------------------------------------------------------------
(* precedences *)
LOWEST == 1
EQUALS == 2
LESSGREATER == 3
SUM == 4
PRODUCT == 5
PREFIX == 6
CALL == 7
INDEX == 8

Precedence(type) ==
  CASE type \in {"==", "!="} -> EQUALS
    [] type \in {"<", ">"}   -> LESSGREATER
    [] type \in {"+", "-"}   -> SUM
    [] type \in {"/", "*"}   -> PRODUCT
    [] type = "("            -> CALL
    [] type = "["            -> INDEX
    [] OTHER                 -> LOWEST

(* The operators as the trees name them. *)
Sign(operator) ==
  CASE operator = "plus" -> "+" [] operator = "minus" -> "-" [] operator = "over" -> "/"
    [] operator = "times" -> "*" [] operator = "eq" -> "==" [] operator = "ne" -> "!="
    [] operator = "lt" -> "<" [] operator = "gt" -> ">" [] operator = "bang" -> "!"
Named(type, operators) == CHOOSE operator \in operators : Sign(operator) = type

InfixSigns  == {Sign(operator) : operator \in InfixOperators}
PrefixSigns == {Sign(operator) : operator \in PrefixOperators}
Literals    == { "IDENT", "INT", "STRING", "TRUE", "FALSE" }
HasPrefixFn == Literals \union PrefixSigns \union { "(", "IF", "FUNCTION", "[", "{" }

--------------------------------------------------------------------------------
(* Calls.                                                                  *)

Frame == Head(calls)
Doing(what) == calls # <<>> /\ Frame.do = what

(* The innermost call goes on as these. *)
Become(frames) == calls' = frames \o Tail(calls)

Give(value) == calls' = Tail(calls) /\ result' = value

Statements(end) == [do |-> "statements", end |-> end, list |-> <<>>]
Expression(precedence) == [do |-> "expression", precedence |-> precedence]
List(end) == [do |-> "list", end |-> end]
Do(what) == [do |-> what]

(* expectPeek once for each type, up to the first that does not follow.    *)
Matched(types) ==
  Cardinality({n \in DOMAIN types : \A i \in 1 .. n : TokenAt(position + i).type = types[i]})
Follow(types) == Matched(types) = Len(types)

(* Mutant: without the error. *)
UnexpectedSilently(types) ==
  /\ ~Follow(types)
  /\ NextTokens(Matched(types))
  /\ UNCHANGED failed
  /\ Give(Missing)

(* return nil, after expectPeek has failed. *)
Unexpected(types) ==
  /\ ~Follow(types)
  /\ NextTokens(Matched(types))
  /\ failed' = TRUE
  /\ Give(Missing)

(* A call returns without a further token. *)
Done(value) == Give(value) /\ UNCHANGED <<source, position, failed>>

(* When the types follow: n tokens in all are passed. *)
Expected(types, n, frames) ==
  /\ Follow(types)
  /\ NextTokens(n)
  /\ Become(frames)
  /\ UNCHANGED <<result, failed>>

Expect(types, n, frames) ==
  /\ Expected(types, n, frames) \/ Unexpected(types)
  /\ UNCHANGED source

(* n tokens are passed without a look at them. *)
Pass(n, frames) ==
  /\ NextTokens(n)
  /\ Become(frames)
  /\ UNCHANGED <<source, result, failed>>

(* New, and ParseProgram *)
Start ==
  /\ position = 1
  /\ calls = <<Statements("EOF")>>
  /\ result = Missing
  /\ failed = FALSE

Init == source \in Sources /\ Start

--------------------------------------------------------------------------------
(***************************************************************************)
(* Statements.                                                             *)
(***************************************************************************)

(* The loops of ParseProgram and of parseBlockStatement differ in what ends*)
(* them.  The second does not look for the end of the source.              *)
NextStatement ==
  /\ Doing("statements")
  /\ Cur.type # Frame.end
  /\ Pass(0, <<[do |-> "statement"], [Frame EXCEPT !.do = "append"]>>)

(* Mutant: a statement with an error is not passed. *)
AppendStatementInPlace ==
  /\ Doing("append")
  /\ Pass(IF failed THEN 0 ELSE 1,
          <<[ Frame EXCEPT !.do = "statements",
                           !.list = IF Len(@) < MaxStatements THEN Append(@, result) ELSE @ ]>>)

(* parseLetStatement returns a typed nil when it fails, so that the test   *)
(* for nil before the append is never false.                               *)
AppendStatement ==
  /\ Doing("append")
  /\ Pass(1, <<[ Frame EXCEPT !.do = "statements",
                              !.list = IF Len(@) < MaxStatements THEN Append(@, result) ELSE @ ]>>)

EndStatements ==
  /\ Doing("statements")
  /\ Cur.type = Frame.end
  /\ Done(Block(Frame.list))

ParseLetStatement ==
  /\ Doing("statement")
  /\ Cur.type = "LET"
  /\ Expect(<<"IDENT", "=">>, 3,
            <<Expression(LOWEST), [do |-> "let", name |-> TokenAt(position + 1).node.name]>>)

ParseReturnStatement ==
  /\ Doing("statement")
  /\ Cur.type = "RETURN"
  /\ Pass(1, <<Expression(LOWEST), [do |-> "return"]>>)

ParseExpressionStatement ==
  /\ Doing("statement")
  /\ Cur.type \notin {"LET", "RETURN"}
  /\ Pass(0, <<Expression(LOWEST), [do |-> "expressionStatement"]>>)

(* Mutant: the semicolon is not looked for. *)
EndStatementBlindly ==
  /\ \/ Doing("let") /\ Give(Let(Frame.name, result))
     \/ Doing("return") /\ Give(Return(result))
     \/ Doing("expressionStatement") /\ Give(Expr(result))
  /\ NextTokens(1)
  /\ UNCHANGED <<source, failed>>

(* ... each with a semicolon, if there is one. *)
EndStatement ==
  /\ \/ Doing("let") /\ Give(Let(Frame.name, result))
     \/ Doing("return") /\ Give(Return(result))
     \/ Doing("expressionStatement") /\ Give(Expr(result))
  /\ NextTokens(IF Peek.type = ";" THEN 1 ELSE 0)
  /\ UNCHANGED <<source, failed>>

--------------------------------------------------------------------------------
(***************************************************************************)
(* Expressions: a prefix function by the type of the token, then infix     *)
(* functions as long as the next operator binds tighter.                   *)
(***************************************************************************)

(* The prefix function goes on as these, and the loop behind them. *)
Prefixed(frames) ==
  frames \o <<[do |-> "infix", precedence |-> Frame.precedence]>>

StartsWith(types) == Doing("expression") /\ Cur.type \in types

NoPrefixFn ==
  /\ Doing("expression")
  /\ Cur.type \notin HasPrefixFn
  /\ Give(Missing)
  /\ failed' = TRUE
  /\ UNCHANGED <<source, position>>

(* parseIdentifier, parseIntegerLiteral, parserBoolean, parseStringLiteral:*)
(* the loop goes on even behind a number that is not one.                  *)
ParseLiteral ==
  /\ StartsWith(Literals)
  /\ Become(Prefixed(<<>>))
  /\ result' = Cur.node
  /\ failed' = (failed \/ Cur.node = Missing)
  /\ UNCHANGED <<source, position>>

ParsePrefixExpression ==
  /\ StartsWith(PrefixSigns)
  /\ Pass(1, Prefixed(<<Expression(PREFIX),
                        [do |-> "prefix", operator |-> Named(Cur.type, PrefixOperators)]>>))

ParseGroupedExpression ==
  /\ StartsWith({"("})
  /\ Pass(1, Prefixed(<<Expression(LOWEST), Do("group")>>))

EndGroup ==
  /\ Doing("group")
  /\ \/ Follow(<<")">>) /\ NextTokens(1) /\ Give(result) /\ UNCHANGED failed
     \/ Unexpected(<<")">>)
  /\ UNCHANGED source

(* expectPeek fails in the prefix function at once: the loop goes on. *)
Stumble(types) ==
  /\ ~Follow(types)
  /\ Become(Prefixed(<<>>))
  /\ result' = Missing
  /\ failed' = TRUE
  /\ UNCHANGED <<source, position>>

ParseIfExpression ==
  /\ StartsWith({"IF"})
  /\ \/ /\ Follow(<<"(">>)
        /\ Pass(2, Prefixed(<<Expression(LOWEST), Do("ifCondition")>>))
     \/ Stumble(<<"(">>)

(* The block starts behind its brace. *)
IfCondition ==
  /\ Doing("ifCondition")
  /\ Expect(<<")", "{">>, 3, <<Statements("}"), [do |-> "ifConsequence", condition |-> result]>>)

IfConsequence ==
  /\ Doing("ifConsequence")
  /\ Peek.type = "ELSE"
  /\ Expect(<<"ELSE", "{">>, 3,
            <<Statements("}"), [ do |-> "ifAlternative", condition |-> Frame.condition,
                                 consequence |-> result ]>>)

ParseFunctionLiteral ==
  /\ StartsWith({"FUNCTION"})
  /\ \/ /\ Follow(<<"(">>)
        /\ Pass(1, Prefixed(<<Do("parameters"), Do("functionBody")>>))
     \/ Stumble(<<"(">>)

(* parseFunctionParameters: every token is a parameter's name. *)
ParameterName(token) == IF token.type = "IDENT" THEN token.node.name ELSE token.type

NoParameters ==
  /\ Doing("parameters")
  /\ Peek.type = ")"
  /\ NextTokens(1)
  /\ Give(<<>>)
  /\ UNCHANGED <<source, failed>>

FirstParameter ==
  /\ Doing("parameters")
  /\ Peek.type # ")"
  /\ Pass(1, <<[do |-> "parameter", names |-> <<ParameterName(Peek)>>]>>)

NextParameter ==
  /\ Doing("parameter")
  /\ Peek.type = ","
  /\ Pass(2, <<[Frame EXCEPT !.names = Append(@, ParameterName(TokenAt(position + 2)))]>>)

(* The caller does not see from a list that it is nil. *)
EndOfList(end, value) ==
  /\ Peek.type # ","
  /\ NextTokens(IF Peek.type = end THEN 1 ELSE 0)
  /\ Give(IF Peek.type = end THEN value ELSE <<>>)
  /\ failed' = (failed \/ Peek.type # end)
  /\ UNCHANGED source

EndParameters == Doing("parameter") /\ EndOfList(")", Frame.names)

FunctionBody ==
  /\ Doing("functionBody")
  /\ Expect(<<"{">>, 2, <<Statements("}"), [do |-> "function", parameters |-> result]>>)

ParseArrayLiteral ==
  /\ StartsWith({"["})
  /\ Pass(0, Prefixed(<<List("]"), Do("array")>>))

(* parseExpressionList *)
EmptyList ==
  /\ Doing("list")
  /\ Peek.type = Frame.end
  /\ NextTokens(1)
  /\ Give(<<>>)
  /\ UNCHANGED <<source, failed>>

FirstElement ==
  /\ Doing("list")
  /\ Peek.type # Frame.end
  /\ Pass(1, <<Expression(LOWEST), [do |-> "element", end |-> Frame.end, list |-> <<>>]>>)

NextElement ==
  /\ Doing("element")
  /\ Peek.type = ","
  /\ Pass(2, <<Expression(LOWEST), [Frame EXCEPT !.list = Append(@, result)]>>)

EndList == Doing("element") /\ EndOfList(Frame.end, Append(Frame.list, result))

ParseHashLiteral ==
  /\ StartsWith({"{"})
  /\ Pass(0, Prefixed(<<[do |-> "hash", list |-> <<>>]>>))

HashKey ==
  /\ Doing("hash")
  /\ Peek.type # "}"
  /\ Pass(1, <<Expression(LOWEST), [Frame EXCEPT !.do = "hashKey"]>>)

HashValue ==
  /\ Doing("hashKey")
  /\ Expect(<<":">>, 2,
            <<Expression(LOWEST), [Frame EXCEPT !.do = "hashValue", !.list = Append(@, result)]>>)

(* The comma is one between pairs, or one before the closing brace. *)
EndPair ==
  /\ Doing("hashValue")
  /\ LET loop == <<[Frame EXCEPT !.do = "hash", !.list = Append(@, result)]>>
     IN  IF Peek.type = "}" THEN Pass(0, loop) ELSE Expect(<<",">>, 1, loop)

EndHash ==
  /\ Doing("hash")
  /\ Peek.type = "}"
  /\ NextTokens(1)
  /\ Give(Hash(Frame.list))
  /\ UNCHANGED <<source, failed>>

(* The loop. *)
BindsTighter == Peek.type # ";" /\ Frame.precedence < Precedence(Peek.type)

Extends(types) == Doing("infix") /\ BindsTighter /\ Peek.type \in types

(* Mutant: operators are right associative. *)
ParseInfixToTheRight ==
  /\ Extends(InfixSigns)
  /\ Pass(2, <<Expression(Precedence(Peek.type) - 1),
               [do |-> "right", operator |-> Named(Peek.type, InfixOperators), left |-> result],
               Frame>>)

ParseInfixExpression ==
  /\ Extends(InfixSigns)
  /\ Pass(2, <<Expression(Precedence(Peek.type)),
               [do |-> "right", operator |-> Named(Peek.type, InfixOperators), left |-> result],
               Frame>>)

ParseCallExpression ==
  /\ Extends({"("})
  /\ Pass(1, <<List(")"), [do |-> "call", function |-> result], Frame>>)

ParseIndexExpression ==
  /\ Extends({"["})
  /\ Pass(2, <<Expression(LOWEST), [do |-> "index", left |-> result], Frame>>)

EndIndex ==
  /\ Doing("index")
  /\ \/ /\ Follow(<<"]">>)
        /\ NextTokens(1)
        /\ Give(Index(Frame.left, result))
        /\ UNCHANGED failed
     \/ Unexpected(<<"]">>)
  /\ UNCHANGED source

EndExpression ==
  /\ Doing("infix")
  /\ ~BindsTighter
  /\ Done(result)

(* What is left to do when the last part has been parsed. *)
Build ==
  \/ Doing("prefix") /\ Done(Prefix(Frame.operator, result))
  \/ Doing("right") /\ Done(Infix(Frame.operator, Frame.left, result))
  \/ Doing("call") /\ Done(Call(Frame.function, result))
  \/ Doing("array") /\ Done(Array(result))
  \/ Doing("function") /\ Done(Fn(Frame.parameters, result))
  \/ Doing("ifConsequence") /\ Peek.type # "ELSE" /\ Done(If(Frame.condition, result, NoBlock))
  \/ Doing("ifAlternative") /\ Done(If(Frame.condition, Frame.consequence, result))

--------------------------------------------------------------------------------

Finished == calls = <<>> /\ UNCHANGED vars

Step ==
  \/ NextStatement \/ AppendStatement \/ EndStatements
  \/ ParseLetStatement \/ ParseReturnStatement \/ ParseExpressionStatement \/ EndStatement
  \/ NoPrefixFn \/ ParseLiteral \/ ParsePrefixExpression
  \/ ParseGroupedExpression \/ EndGroup
  \/ ParseIfExpression \/ IfCondition \/ IfConsequence
  \/ ParseFunctionLiteral \/ NoParameters \/ FirstParameter \/ NextParameter
  \/ EndParameters \/ FunctionBody
  \/ ParseArrayLiteral \/ EmptyList \/ FirstElement \/ NextElement \/ EndList
  \/ ParseHashLiteral \/ HashKey \/ HashValue \/ EndPair \/ EndHash
  \/ ParseInfixExpression \/ ParseCallExpression \/ ParseIndexExpression \/ EndIndex
  \/ EndExpression \/ Build

Next == Step \/ Finished

(* Nothing waits for anything else. *)
Spec == Init /\ [][Next]_vars /\ WF_vars(Step)

================================================================================
