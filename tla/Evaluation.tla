-------------------------------- MODULE Evaluation -----------------------------
(***************************************************************************)
(* What the evaluator achieves.  It has values that no operation expects:  *)
(* Go's nil for a function without a value, and the wrapping of a returned *)
(* value.  The history variable oddities records which of the kinds        *)
(* an evaluation has met; the properties are about evaluations without, or *)
(* say what an oddity may lead to.                                         *)
(***************************************************************************)
EXTENDS Evaluator

VARIABLES
  oddities,  (* the kinds met so far                                       *)
  captured,  (* the environments that functions were made in               *)
  raised     (* the errors that were values so far                         *)

history == <<oddities, captured, raised>>
evaluationHistory == <<evaluation, history>>

(* A block, or the program, ends without a value. *)
NoValue ==
  /\ InLoop
  /\ Ended
  /\ Unwrapped(value) = Nil
  /\ Doing("program") => ~HasValue(tree)

(* A nil is used: as a part of an expression, or as the answer. *)
NilValue == (Doing("part") \/ (Doing("program") /\ Ended)) /\ Unwrapped(value) = Nil

(* A return inside of an expression leaves only the block around it.       *)
EarlyReturn == Doing("part") /\ IsReturn(value)

(* An error becomes an operand. *)
UncheckedError == Doing("part") /\ IsError(value) /\ Frame.node.kind = "InfixExpression"

(* A name gets another value where a function may have used the old one.   *)
LateBinding ==
  /\ Complete("LetStatement")
  /\ Frame.env \in captured
  /\ \/ Frame.node.name \in DOMAIN Visible(Frame.env)
     \/ \E i \in DOMAIN Builtins : Builtins[i] = Frame.node.name

(* The pairs of a hash are not evaluated in their order, and some of them  *)
(* may not just have a value.                                              *)
HashOrder ==
  /\ Evaluating({"HashLiteral"})
  /\ calls' # <<>>
  /\ Head(calls').rest # Frame.node.keysAndValues
  /\ \E i \in DOMAIN Head(calls').rest : Head(calls').rest[i].kind \notin Leaves

NewOddities ==
  {kind \in {"no value", "nil value", "early return", "unchecked error", "late binding", "hash order"} :
     \/ kind = "no value" /\ NoValue
     \/ kind = "nil value" /\ NilValue
     \/ kind = "early return" /\ EarlyReturn
     \/ kind = "unchecked error" /\ UncheckedError
     \/ kind = "late binding" /\ LateBinding
     \/ kind = "hash order" /\ HashOrder}

HistoryStart == oddities = {} /\ captured = {} /\ raised = {}

Record ==
  /\ oddities' = oddities \union NewOddities
  /\ captured' = captured \union
       (IF Evaluating({"FunctionLiteral"}) THEN {Frame.env} ELSE {})
  /\ raised' = raised \union (IF IsError(value') THEN {value'} ELSE {})

HistoryInit == Init /\ HistoryStart
HistoryNext == Next /\ Record
HistorySpec == HistoryInit /\ [][HistoryNext]_evaluationHistory

--------------------------------------------------------------------------------

(* The types of the variables.  An environment is inside of an older one,  *)
(* and no call or value refers to one that does not exist.                 *)
TypeOK ==
  /\ end \in {"running", "done", "stack exhausted"} \union Panics
  /\ \A e \in DOMAIN envs :
       /\ envs[e].outer < e
       /\ \A n \in DOMAIN envs[e].store :
            envs[e].store[n].type = "FUNCTION" => envs[e].store[n].env \in DOMAIN envs
  /\ \A i \in DOMAIN calls : calls[i].do # "apply" => calls[i].env \in DOMAIN envs

(* The wrapping of a returned value is taken off before anything else sees *)
(* it: no name, no element of an array and no answer is one.               *)
ReturnsUnwrapped ==
  "early return" \notin oddities =>
    LET Plain(v) == ~IsReturn(v) /\ (v.type = "ARRAY" => \A i \in DOMAIN v.elements : ~IsReturn(v.elements[i]))
    IN  /\ \A e \in DOMAIN envs : \A n \in DOMAIN envs[e].store : Plain(envs[e].store[n])
        /\ end = "done" => Plain(value)

(* An error ends the program, and is its answer, when it is no operand: no *)
(* function, block or literal around it loses it, and none goes on to      *)
(* another error.                                                          *)
ErrorsEndPrograms ==
  "unchecked error" \notin oddities =>
    /\ Cardinality(raised) <= 1
    /\ end = "done" => raised \subseteq {value}

(* The evaluator only asks a nil for its type, or prints it, when a block  *)
(* without a value was evaluated: the built-in functions' nil is none.     *)
NilsExplained ==
  "no value" \notin oddities =>
    end # "nil dereference" /\ (end = "done" => ~Holed(value))

================================================================================
