-------------------------------- MODULE SyntaxTrees ----------------------------
(***************************************************************************)
(* The trees that the compiler and the evaluator are given.  Neither looks *)
(* whether they are whole: the parser reports an error when they are not   *)
(* (Grammar!WholeTree), and the command does not go on then.               *)
(***************************************************************************)
EXTENDS Syntax

CONSTANTS
  Nodes,    (* the nodes of all the trees                                  *)
  Programs  (* the trees: what ParseProgram returns is a block             *)

ASSUME TreesAssumption ==
  /\ Grammatical(Nodes)
  /\ Programs \subseteq BlocksIn(Nodes)

Expressions == ExpressionsIn(Nodes)
Statements  == StatementsIn(Nodes)
Blocks      == BlocksIn(Nodes)

================================================================================
