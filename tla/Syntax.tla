--------------------------------- MODULE Syntax --------------------------------
(***************************************************************************)
(* The nodes of the syntax tree (src/ast/ast.go), to write programs with.  *)
(* The field object of a literal is the object that the compiler puts into *)
(* the pool of constants; a text is a sequence of letters.  The pairs of a *)
(* hash, a Go map in the code, are a list in an order in which the         *)
(* compiler may sort them: keys of equal text stand in any order, and a    *)
(* source with such keys has a tree for each.                              *)
(***************************************************************************)
EXTENDS Sequences, Integers

NoBlock == [kind |-> "None"]

(* The node nil, of a piece of source that is not a program. *)
Missing == [kind |-> "nil"]

Block(ss)    == [kind |-> "BlockStatement", statements |-> ss]
Expr(e)      == [kind |-> "ExpressionStatement", expression |-> e]
Let(n, e)    == [kind |-> "LetStatement", name |-> n, value |-> e]
Return(e)    == [kind |-> "ReturnStatement", value |-> e]

Number(i)    == [kind |-> "IntegerLiteral", object |-> [type |-> "INTEGER", int |-> i]]
Text(s)      == [kind |-> "StringLiteral", object |-> [type |-> "STRING", str |-> s]]
True         == [kind |-> "Boolean", bool |-> TRUE]
False        == [kind |-> "Boolean", bool |-> FALSE]
Var(n)       == [kind |-> "Identifier", name |-> n]
Prefix(o, e) == [kind |-> "PrefixExpression", operator |-> o, right |-> e]
Infix(o, l, r) ==
  [kind |-> "InfixExpression", operator |-> o, left |-> l, right |-> r]
Array(es)    == [kind |-> "ArrayLiteral", elements |-> es]
Hash(es)     == [kind |-> "HashLiteral", keysAndValues |-> es]
Index(l, i)  == [kind |-> "IndexExpression", left |-> l, index |-> i]
If(c, t, e) ==
  [kind |-> "IfExpression", condition |-> c, consequence |-> t, alternative |-> e]
Fn(ns, body) == [kind |-> "FunctionLiteral", parameters |-> ns, body |-> body]
Call(f, es)  == [kind |-> "CallExpression", function |-> f, arguments |-> es]

(* Whether a block leaves a value when the compiler removes its last pop,  *)
(* and whether both branches of an if do.                                  *)
HasValue(block) ==
  /\ block.statements # <<>>
  /\ block.statements[Len(block.statements)].kind # "LetStatement"

BranchesHaveValues(node) ==
  /\ HasValue(node.consequence)
  /\ node.alternative = NoBlock \/ HasValue(node.alternative)

(* The types of nodes. *)
ExpressionKinds ==
  { "IntegerLiteral", "StringLiteral", "Boolean", "Identifier", "PrefixExpression",
    "InfixExpression", "ArrayLiteral", "HashLiteral", "IndexExpression", "IfExpression",
    "FunctionLiteral", "CallExpression" }
StatementKinds == { "LetStatement", "ReturnStatement", "ExpressionStatement" }

ExpressionsIn(nodes) == {n \in nodes : n.kind \in ExpressionKinds}
StatementsIn(nodes)  == {n \in nodes : n.kind \in StatementKinds}
BlocksIn(nodes)      == {n \in nodes : n.kind = "BlockStatement"}

PrefixOperators == { "bang", "minus" }
InfixOperators  == { "plus", "minus", "over", "times", "eq", "ne", "lt", "gt" }

(* A node of one of the types of ast.go, with other nodes where that type  *)
(* wants them.                                                             *)
WellFormed(n, expressions, statements, blocks) ==
  /\ n.kind \in ExpressionKinds \union StatementKinds \union {"BlockStatement"}
  /\ n.kind = "IntegerLiteral"      => n.object.type = "INTEGER"
  /\ n.kind = "StringLiteral"       => n.object.type = "STRING"
  /\ n.kind = "Boolean"             => n.bool \in BOOLEAN
  /\ n.kind = "PrefixExpression"    => n.operator \in PrefixOperators /\ n.right \in expressions
  /\ n.kind = "InfixExpression"     => /\ n.operator \in InfixOperators
                                       /\ n.left \in expressions /\ n.right \in expressions
  /\ n.kind = "ArrayLiteral"        => n.elements \in Seq(expressions)
  /\ n.kind = "HashLiteral"         => /\ n.keysAndValues \in Seq(expressions)
                                       /\ Len(n.keysAndValues) % 2 = 0
  /\ n.kind = "IndexExpression"     => n.left \in expressions /\ n.index \in expressions
  /\ n.kind = "IfExpression"        => /\ n.condition \in expressions
                                       /\ n.consequence \in blocks
                                       /\ n.alternative \in blocks \union {NoBlock}
  /\ n.kind = "FunctionLiteral"     => /\ DOMAIN n.parameters = 1 .. Len(n.parameters)
                                       /\ Len(n.parameters) \in Nat
                                       /\ n.body \in blocks
  /\ n.kind = "CallExpression"      => n.function \in expressions /\ n.arguments \in Seq(expressions)
  /\ n.kind = "LetStatement"        => n.value \in expressions
  /\ n.kind = "ReturnStatement"     => n.value \in expressions
  /\ n.kind = "ExpressionStatement" => n.expression \in expressions
  /\ n.kind = "BlockStatement"      => n.statements \in Seq(statements)

(* The nodes of whole trees. *)
Grammatical(nodes) ==
  LET expressions == ExpressionsIn(nodes)
      statements  == StatementsIn(nodes)
      blocks      == BlocksIn(nodes)
  IN  \A n \in nodes : WellFormed(n, expressions, statements, blocks)

(* The nodes and the values that a node is made of. *)
Elements(list) == {list[i] : i \in DOMAIN list}

Children(node) ==
  CASE node.kind \in { "Identifier", "Boolean", "IntegerLiteral", "StringLiteral", "None", "nil" } -> {}
    [] node.kind = "PrefixExpression"    -> {node.right}
    [] node.kind = "InfixExpression"     -> {node.left, node.right}
    [] node.kind = "IndexExpression"     -> {node.left, node.index}
    [] node.kind = "CallExpression"      -> {node.function} \union Elements(node.arguments)
    [] node.kind = "ArrayLiteral"        -> Elements(node.elements)
    [] node.kind = "HashLiteral"         -> Elements(node.keysAndValues)
    [] node.kind = "IfExpression"        -> {node.condition, node.consequence, node.alternative}
    [] node.kind = "FunctionLiteral"     -> {node.body}
    [] node.kind \in {"LetStatement", "ReturnStatement"} -> {node.value}
    [] node.kind = "ExpressionStatement" -> {node.expression}
    [] node.kind = "BlockStatement"      -> Elements(node.statements)

================================================================================
