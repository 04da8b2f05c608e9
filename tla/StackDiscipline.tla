---------------------------- MODULE StackDiscipline ----------------------------
(***************************************************************************)
(* The compiler promises the virtual machine code that module Verifier     *)
(* accepts.  It keeps the promise only when the branches of an if have     *)
(* values and nothing returns outside of functions.  The history variable  *)
(* flawed says whether the program has had one of the two.                 *)
(***************************************************************************)
EXTENDS Compiler, Verifier

VARIABLE
  flawed  (* some branch so far was empty or ended in a let, or some       *)
          (* return was outside of functions                               *)

historyVars == <<vars, flawed>>

HistoryInit == Init /\ flawed = FALSE

HistoryNext ==
  /\ Next
  /\ flawed' = \/ flawed
               \/ Compiling({"IfExpression"}) /\ ~BranchesHaveValues(Task.node)
               \/ Compiling({"ReturnStatement"}) /\ Len(scopes) = 1

HistorySpec == HistoryInit /\ [][HistoryNext]_historyVars

(* Compiled code never pops what it did not push, leaves the stack as it   *)
(* found it whichever way control takes through an if or out of a function,*)
(* and uses no index that leads nowhere.                                   *)
CodeVerified ==
  status = "compiled" /\ ~flawed => Verified(scopes[1], constants, Len(Builtins))

================================================================================
