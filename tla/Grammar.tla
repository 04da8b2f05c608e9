---------------------------------- MODULE Grammar ------------------------------
(***************************************************************************)
(* What the parser promises: the tokens of a tree, as a programmer writes  *)
(* them (with the parentheses that precedence makes necessary, and no      *)
(* other) and as the String methods of src/ast/ast.go print them (with all *)
(* of them).  Parsing either gives the tree back.                          *)
(***************************************************************************)
EXTENDS Parser, Subtrees, SequencesExt

CONSTANT
  Trees  (* programs                                                       *)

VARIABLE
  tree   (* the program that the source was made from, or Missing          *)

Plain(type) == <<[type |-> type]>>
Name(n) == <<[type |-> "IDENT", node |-> Var(n)]>>

(* token.Token of a literal or a name. *)
LiteralToken(node) ==
  LET type == CASE node.kind = "Identifier" -> "IDENT"
                [] node.kind = "Boolean" -> IF node.bool THEN "TRUE" ELSE "FALSE"
                [] node.kind = "IntegerLiteral" -> "INT"
                [] node.kind = "StringLiteral" -> "STRING"
  IN  <<[type |-> type, node |-> node]>>

LiteralKinds == {"Identifier", "Boolean", "IntegerLiteral", "StringLiteral"}

Joined(seqs, separator) ==
  FlattenSeq([i \in DOMAIN seqs |-> (IF i = 1 THEN <<>> ELSE Plain(separator)) \o seqs[i]])

(* How tightly the outermost operator of an expression binds.              *)
Level(node) ==
  CASE node.kind = "InfixExpression"  -> Precedence(Sign(node.operator))
    [] node.kind = "PrefixExpression" -> PREFIX
    [] node.kind = "CallExpression"   -> CALL
    [] OTHER                          -> INDEX

RECURSIVE Written(_, _)

(* All operators are left associative. *)
Written(node, level) ==
  LET Outer(e) == Written(e, LOWEST)
      Listed(es) == Joined([i \in DOMAIN es |-> Outer(es[i])], ",")
      Braced(block) == Plain("{") \o Outer(block) \o Plain("}")
      tokens ==
        CASE node.kind \in LiteralKinds -> LiteralToken(node)
          [] node.kind = "PrefixExpression" ->
               Plain(Sign(node.operator)) \o Written(node.right, PREFIX)
          [] node.kind = "InfixExpression" ->
               Written(node.left, Level(node)) \o Plain(Sign(node.operator))
                 \o Written(node.right, Level(node) + 1)
          [] node.kind = "IndexExpression" ->
               Written(node.left, CALL) \o Plain("[") \o Outer(node.index) \o Plain("]")
          [] node.kind = "CallExpression" ->
               Written(node.function, CALL) \o Plain("(") \o Listed(node.arguments) \o Plain(")")
          [] node.kind = "ArrayLiteral" -> Plain("[") \o Listed(node.elements) \o Plain("]")
          [] node.kind = "HashLiteral" ->
               LET pair(i) == Outer(node.keysAndValues[2 * i - 1]) \o Plain(":")
                                \o Outer(node.keysAndValues[2 * i])
               IN  Plain("{") \o Joined([i \in 1 .. Len(node.keysAndValues) \div 2 |-> pair(i)], ",")
                     \o Plain("}")
          [] node.kind = "IfExpression" ->
               Plain("IF") \o Plain("(") \o Outer(node.condition) \o Plain(")")
                 \o Braced(node.consequence)
                 \o (IF node.alternative = NoBlock THEN <<>>
                     ELSE Plain("ELSE") \o Braced(node.alternative))
          [] node.kind = "FunctionLiteral" ->
               Plain("FUNCTION") \o Plain("(")
                 \o Joined([i \in DOMAIN node.parameters |-> Name(node.parameters[i])], ",")
                 \o Plain(")") \o Braced(node.body)
          [] node.kind = "LetStatement" ->
               Plain("LET") \o Name(node.name) \o Plain("=") \o Outer(node.value) \o Plain(";")
          [] node.kind = "ReturnStatement" -> Plain("RETURN") \o Outer(node.value) \o Plain(";")
          [] node.kind = "ExpressionStatement" -> Outer(node.expression) \o Plain(";")
          [] node.kind = "BlockStatement" ->
               FlattenSeq([i \in DOMAIN node.statements |-> Outer(node.statements[i])])
  IN  IF Level(node) < level THEN Plain("(") \o tokens \o Plain(")") ELSE tokens

Source(program) == Written(program, LOWEST)

--------------------------------------------------------------------------------
(* String.  It leaves out the braces of a block and the quotation marks of *)
(* a string, and prints a program's statements without a separator.  So    *)
(* only one statement without them can be parsed again.                    *)

RECURSIVE Printed(_)

PrintedList(es) == Joined([i \in DOMAIN es |-> Printed(es[i])], ",")

PrintedPrefix(node) ==
  Plain("(") \o Plain(Sign(node.operator)) \o Printed(node.right) \o Plain(")")

PrintedInfix(node) ==
  Plain("(") \o Printed(node.left) \o Plain(Sign(node.operator)) \o Printed(node.right) \o Plain(")")

PrintedIndex(node) ==
  Plain("(") \o Printed(node.left) \o Plain("[") \o Printed(node.index) \o Plain("]") \o Plain(")")

PrintedCall(node) ==
  Printed(node.function) \o Plain("(") \o PrintedList(node.arguments) \o Plain(")")

PrintedArray(node) == Plain("[") \o PrintedList(node.elements) \o Plain("]")

(* In any order, because Pairs is a Go map: here, in the order of the tree. *)
PrintedHash(node) ==
  LET pair(i) ==
        Printed(node.keysAndValues[2 * i - 1]) \o Plain(":") \o Printed(node.keysAndValues[2 * i])
  IN  Plain("{") \o Joined([i \in 1 .. Len(node.keysAndValues) \div 2 |-> pair(i)], ",") \o Plain("}")

PrintedLet(node) ==
  Plain("LET") \o Name(node.name) \o Plain("=") \o Printed(node.value) \o Plain(";")

PrintedReturn(node) == Plain("RETURN") \o Printed(node.value) \o Plain(";")

PrintedProgram(node) ==
  FlattenSeq([i \in DOMAIN node.statements |-> Printed(node.statements[i])])

Printed(node) ==
  CASE node.kind \in LiteralKinds         -> LiteralToken(node)
    [] node.kind = "PrefixExpression"     -> PrintedPrefix(node)
    [] node.kind = "InfixExpression"      -> PrintedInfix(node)
    [] node.kind = "IndexExpression"      -> PrintedIndex(node)
    [] node.kind = "CallExpression"       -> PrintedCall(node)
    [] node.kind = "ArrayLiteral"         -> PrintedArray(node)
    [] node.kind = "HashLiteral"          -> PrintedHash(node)
    [] node.kind = "LetStatement"         -> PrintedLet(node)
    [] node.kind = "ReturnStatement"      -> PrintedReturn(node)
    [] node.kind = "ExpressionStatement"  -> Printed(node.expression)
    [] node.kind = "BlockStatement"       -> PrintedProgram(node)

--------------------------------------------------------------------------------

RECURSIVE Printable(_)

Printable(node) ==
  /\ node.kind \notin {"IfExpression", "FunctionLiteral", "StringLiteral"}
  /\ \A child \in Children(node) : Printable(child)

(* The parser is given any source, or that of a program. *)
GrammarInit ==
  \/ Init /\ tree = Missing
  \/ /\ tree \in Trees
     /\ \/ source = Source(tree)
        \/ Len(tree.statements) = 1 /\ Printable(tree) /\ source = Printed(tree)
     /\ Start

GrammarNext == Next /\ UNCHANGED tree

GrammarSpec == GrammarInit /\ [][GrammarNext]_<<vars, tree>> /\ WF_vars(Step)

--------------------------------------------------------------------------------

Parsed == calls = <<>> /\ ~failed

(* A parser without errors returns a tree without gaps, every part of      *)
(* which is what its place wants: the compiler and the evaluator are given *)
(* nothing else (the assumption of module SyntaxTrees), and would crash.   *)
(* A call that fails must have reported an error, whatever its callers     *)
(* make of its nil.                                                        *)
WholeTree == Parsed => result.kind = "BlockStatement" /\ Grammatical(NodesOf({result}))

(* Precedence, associativity and grouping: what is written or printed for  *)
(* a tree is parsed, and parsed as that tree.                              *)
RoundTrip == calls = <<>> /\ tree # Missing => ~failed /\ result = tree

(* What is not an error is in the tree: all the tokens of the source are   *)
(* there, in their order, but parentheses, commas and semicolons.          *)
NothingDropped ==
  LET Kept(tokens) ==
        SelectSeq([i \in DOMAIN tokens |-> ParameterName(tokens[i])],
                  LAMBDA word : word \notin {"(", ")", ",", ";"})
  IN  Parsed => Kept(source) = Kept(Source(result))

(* Every source is parsed to its end, unless the parser reaches that end   *)
(* inside of a block: parseBlockStatement only ends at a brace.  Then it   *)
(* never ends.                                                             *)
Hung == position > Len(source) /\ \E i \in DOMAIN calls :
          calls[i].do \in {"statements", "append"} /\ calls[i].end = "}"

ParsingEnds == <>(calls = <<>> \/ Hung) /\ [](Hung => []Hung)

================================================================================
