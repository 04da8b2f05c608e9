--------------------------------- MODULE Evaluator -----------------------------
(***************************************************************************)
(* The evaluator (src/evaluator/evaluator.go): Eval walks the syntax tree  *)
(* and calls itself on the parts of a node.                                *)
(*                                                                         *)
(* The variable calls is the Go call stack, innermost call first; value is *)
(* what the last call returned.  A call that evaluates the parts of a node *)
(* one after the other holds the values it has got, and looks at each for  *)
(* an error.  Environments are on a heap: functions keep theirs alive, and *)
(* share it with each other.                                               *)
(***************************************************************************)
EXTENDS Object, SyntaxTrees, FiniteSets

CONSTANTS
  Builtins,  (* the names of the built-in functions                        *)
  MaxDepth   (* how many calls of functions the Go stack holds             *)

ASSUME MaxDepthAssumption == MaxDepth \in Nat \ {0}

ASSUME BuiltinsAssumption ==
  Builtins \in Seq({"len", "puts", "first", "last", "rest", "push"})

VARIABLES
  tree,      (* the program                                                *)
  calls,     (* the calls that have not returned                           *)
  value,     (* what the last call returned                                *)
  envs,      (* the environments, in the order of their creation           *)
  made,      (* how many objects were allocated                            *)
  end        (* "running", "done", or what Go says when it crashes         *)

evaluation == <<tree, calls, value, envs, made, end>>

Eval(node, env) == [do |-> "eval", node |-> node, env |-> env]

(* NewEnclosedEnvironment; 0 is no environment. *)
Environment(store, outer) == [store |-> store, outer |-> outer]

NoNames == [n \in {} |-> Nil]

(* evalProgram, with NewEnvironment. *)
Loop(do, block, env) == [do |-> do, rest |-> block.statements, env |-> env]

Start(program) ==
  /\ calls = <<Loop("program", program, 1)>>
  /\ value = Nil
  /\ envs = <<Environment(NoNames, 0)>>
  /\ made = 0
  /\ end = "running"

Init == tree \in Programs /\ Start(tree)

--------------------------------------------------------------------------------

Frame == Head(calls)
Doing(what) == end = "running" /\ calls # <<>> /\ Frame.do = what
Evaluating(kinds) == Doing("eval") /\ Frame.node.kind \in kinds

(* The address of the next object. *)
Address == <<"object", made>>

(* The innermost call goes on as these. *)
Become(frames) ==
  /\ calls' = frames \o Tail(calls)
  /\ UNCHANGED <<tree, envs, end>>

Crash(why) == end' = why /\ UNCHANGED <<tree, calls, value, envs, made>>

(* A call returns a value, or panics. *)
Give(result) ==
  \/ /\ result.type = "failure"
     /\ Crash(result.why)
  \/ /\ result.type # "failure"
     /\ value' = result
     /\ made' = made + 1
     /\ Become(<<>>)

IsError(v) == v.type = "ERROR"
IsReturn(v) == v.type = "RETURN_VALUE"

(* Mutant: the wrapping stays. *)
StillWrapped(v) == v

Unwrapped(v) == IF IsReturn(v) THEN v.value ELSE v

--------------------------------------------------------------------------------
(***************************************************************************)
(* Operations on values.  A type is asked of every value but nil.          *)
(***************************************************************************)

BangResult(v) == Boolean(v \in {Boolean(FALSE), Null})

MinusResult(v) ==
  CASE v = Nil            -> Failure("nil dereference")
    [] v.type = "INTEGER" -> Integer(Wrap(-v.int))
    [] OTHER              -> Error(Address)

IntegerResult(operator, i, j) ==
  CASE operator = "plus"            -> Integer(Wrap(i + j))
    [] operator = "minus"           -> Integer(Wrap(i - j))
    [] operator = "times"           -> Integer(Wrap(i * j))
    [] operator = "over" /\ j = 0   -> Failure("division by zero")
    [] operator = "over" /\ j # 0   -> Integer(Wrap(Quotient(i, j)))
    [] operator = "lt"              -> Boolean(i < j)
    [] operator = "gt"              -> Boolean(i > j)
    [] operator = "eq"              -> Boolean(i = j)
    [] operator = "ne"              -> Boolean(i # j)

(* Nothing but + is known, not even ==. *)
StringResult(operator, s, t) ==
  IF operator = "plus" THEN String(s \o t, Address) ELSE Error(Address)

(* Of two values that are neither numbers nor strings, == and != compare   *)
(* the addresses, of errors as well.                                       *)
InfixResult(operator, left, right) ==
  CASE left = Nil \/ (right = Nil /\ left.type \in {"INTEGER", "STRING"})
         -> Failure("nil dereference")
    [] left.type = "INTEGER" /\ right.type = "INTEGER"
         -> IntegerResult(operator, left.int, right.int)
    [] left.type = "STRING" /\ right.type = "STRING"
         -> StringResult(operator, left.str, right.str)
    [] OTHER
         -> CASE operator = "eq" -> Boolean(left = right)
              [] operator = "ne" -> Boolean(left # right)
              [] operator \notin {"eq", "ne"}
                   -> IF right = Nil THEN Failure("nil dereference") ELSE Error(Address)

HashIndexResult(pairs, index) ==
  CASE ~Hashable(index) -> Error(Address)
    [] Hashable(index) /\ HashKey(index) \in DOMAIN pairs -> pairs[HashKey(index)]
    [] Hashable(index) /\ HashKey(index) \notin DOMAIN pairs -> Null

(* Neither array nor hash: not even the index is looked at, when it is not *)
(* that of an array.                                                       *)
IndexResult(left, index) ==
  CASE left = Nil \/ (left.type \in {"ARRAY", "HASH"} /\ index = Nil)
         -> Failure("nil dereference")
    [] left.type = "ARRAY" /\ index.type = "INTEGER"
         -> IF index.int + 1 \in DOMAIN left.elements THEN left.elements[index.int + 1] ELSE Null
    [] left.type = "HASH" /\ index # Nil
         -> HashIndexResult(left.pairs, index)
    [] OTHER -> Error(Address)

(* The pair that comes last wins. *)
HashResult(got) ==
  LET keys == {i \in DOMAIN got : i % 2 = 1}
      Last(key) == CHOOSE i \in keys : /\ HashKey(got[i]) = key
                                       /\ \A j \in keys : HashKey(got[j]) = key => j <= i
  IN  HashObject([key \in {HashKey(got[i]) : i \in keys} |-> got[Last(key) + 1]], Address)

IsTruthy(v) == v \notin {Boolean(FALSE), Null}

(* Get: the innermost environment that has the name. *)
Visible(env) ==
  LET names[e \in 0 .. Len(envs)] ==
        IF e = 0 THEN NoNames
        ELSE LET outer == names[envs[e].outer]
             IN  [n \in DOMAIN envs[e].store \union DOMAIN outer |->
                    IF n \in DOMAIN envs[e].store THEN envs[e].store[n] ELSE outer[n]]
  IN  names[env]

(* evalIdentifier: the built-in functions are behind all the environments. *)
IdentifierResult(name, env) ==
  LET visible == Visible(env)
      known == {i \in DOMAIN Builtins : Builtins[i] = name}
  IN  CASE name \in DOMAIN visible -> visible[name]
        [] name \notin DOMAIN visible /\ known # {} -> BuiltinFn((CHOOSE i \in known : TRUE) - 1)
        [] OTHER -> Error(Address)

LeafResult(node, env) ==
  CASE node.kind = "IntegerLiteral"  -> node.object
    [] node.kind = "StringLiteral"   -> String(node.object.str, Address)
    [] node.kind = "Boolean"         -> Boolean(node.bool)
    [] node.kind = "Identifier"      -> IdentifierResult(node.name, env)
    [] node.kind = "FunctionLiteral" -> Function(node.parameters, node.body, env, Address)

Leaves == {"IntegerLiteral", "StringLiteral", "Boolean", "Identifier", "FunctionLiteral"}

--------------------------------------------------------------------------------
(***************************************************************************)
(* Parts of nodes.                                                         *)
(***************************************************************************)

(* What is evaluated first, in its order.  The pairs of a hash are in a Go *)
(* map, and come in any order.                                             *)
Orders(es) ==
  LET n == Len(es) \div 2
  IN  {[i \in 1 .. 2 * n |-> es[2 * p[(i + 1) \div 2] - (i % 2)]] :
         p \in {q \in [1 .. n -> 1 .. n] : \A i, j \in 1 .. n : q[i] = q[j] => i = j}}

Parts(node) ==
  CASE node.kind = "PrefixExpression" -> {<<node.right>>}
    [] node.kind = "InfixExpression"  -> {<<node.left, node.right>>}
    [] node.kind = "IndexExpression"  -> {<<node.left, node.index>>}
    [] node.kind = "CallExpression"   -> {<<node.function>> \o node.arguments}
    [] node.kind = "ArrayLiteral"     -> {node.elements}
    [] node.kind = "HashLiteral"      -> Orders(node.keysAndValues)
    [] node.kind = "IfExpression"     -> {<<node.condition>>}
    [] node.kind \in {"LetStatement", "ReturnStatement"} -> {<<node.value>>}

(* What a call returns at once when it gets v for a part, or v itself.     *)
(* Infix expressions do not look for errors, hash literals at every key.   *)
Checked(v) ==
  LET key == Frame.node.kind = "HashLiteral" /\ Len(Frame.got) % 2 = 0
  IN  CASE key /\ v = Nil                                 -> Failure("nil dereference")
        [] key /\ v # Nil /\ ~IsError(v) /\ ~Hashable(v)  -> Error(Address)
        [] OTHER                                          -> v

Stops(v) == v.type = "failure" \/ (IsError(v) /\ Frame.node.kind # "InfixExpression")

EvalLeaf == Evaluating(Leaves) /\ Give(LeafResult(Frame.node, Frame.env))

EvalExpressionStatement ==
  /\ Evaluating({"ExpressionStatement"})
  /\ Become(<<Eval(Frame.node.expression, Frame.env)>>)
  /\ UNCHANGED <<value, made>>

EvalParts ==
  /\ Doing("eval")
  /\ Frame.node.kind \notin Leaves \union {"ExpressionStatement", "BlockStatement"}
  /\ \E parts \in Parts(Frame.node) :
       Become(<<[do |-> "parts", node |-> Frame.node, env |-> Frame.env, rest |-> parts, got |-> <<>>]>>)
  /\ UNCHANGED <<value, made>>

NextPart ==
  /\ Doing("parts")
  /\ Frame.rest # <<>>
  /\ Become(<<Eval(Head(Frame.rest), Frame.env), [Frame EXCEPT !.do = "part", !.rest = Tail(@)]>>)
  /\ UNCHANGED <<value, made>>

(* A part has been evaluated. *)
GotPart ==
  /\ Doing("part")
  /\ LET checked == Checked(value) IN
     \/ Stops(checked) /\ Give(checked)
     \/ /\ ~Stops(checked)
        /\ Become(<<[Frame EXCEPT !.do = "parts", !.got = Append(@, value)]>>)
        /\ UNCHANGED <<value, made>>

(* All of them have. *)
Complete(kind) == Doing("parts") /\ Frame.rest = <<>> /\ Frame.node.kind = kind

EvalPrefixExpression ==
  /\ Complete("PrefixExpression")
  /\ Give(IF Frame.node.operator = "bang" THEN BangResult(Frame.got[1]) ELSE MinusResult(Frame.got[1]))

EvalInfixExpression ==
  /\ Complete("InfixExpression")
  /\ Give(InfixResult(Frame.node.operator, Frame.got[1], Frame.got[2]))

EvalIndexExpression ==
  /\ Complete("IndexExpression")
  /\ Give(IndexResult(Frame.got[1], Frame.got[2]))

EvalArrayLiteral == Complete("ArrayLiteral") /\ Give(ArrayObject(Frame.got, Address))

EvalHashLiteral == Complete("HashLiteral") /\ Give(HashResult(Frame.got))

EvalReturnStatement == Complete("ReturnStatement") /\ Give(ReturnObject(Frame.got[1], Address))

(* Set in the innermost environment. *)
EvalLetStatement ==
  /\ Complete("LetStatement")
  /\ envs' = [envs EXCEPT ![Frame.env].store =
                [n \in DOMAIN @ \union {Frame.node.name} |->
                   IF n = Frame.node.name THEN Frame.got[1] ELSE @[n]]]
  /\ value' = Nil
  /\ calls' = Tail(calls)
  /\ UNCHANGED <<tree, made, end>>

EvalIfExpression ==
  /\ Complete("IfExpression")
  /\ LET branch == IF IsTruthy(Frame.got[1]) THEN Frame.node.consequence ELSE Frame.node.alternative IN
     \/ branch = NoBlock /\ Give(Null)
     \/ branch # NoBlock /\ Become(<<Eval(branch, Frame.env)>>) /\ UNCHANGED <<value, made>>

--------------------------------------------------------------------------------
(* applyFunction                                                           *)

Applying(types) == Complete("CallExpression") /\ Frame.got[1].type \in types

Arguments == Tail(Frame.got)

Depth == Cardinality({i \in DOMAIN calls : calls[i].do = "apply"})

(* extendFunctionEnv: an argument for every parameter is taken.  When two  *)
(* parameters have the same name, the last counts.                         *)
Bound(fn) ==
  [n \in {fn.parameters[i] : i \in DOMAIN fn.parameters} |->
     Arguments[CHOOSE i \in DOMAIN fn.parameters :
                 fn.parameters[i] = n /\ \A j \in DOMAIN fn.parameters : fn.parameters[j] = n => j <= i]]

(* Mutants: the environment of the call is outside; the new one is.        *)
CallersEnv(fn) == Environment(Bound(fn), Frame.env)
EnvInItself(fn) == Environment(Bound(fn), Len(envs) + 1)

ExtendedEnv(fn) == Environment(Bound(fn), fn.env)

(* There may be no argument to take. *)
ApplyFunction ==
  /\ Applying({"FUNCTION"})
  /\ LET fn == Frame.got[1] IN
     \/ /\ Len(Arguments) < Len(fn.parameters)
        /\ Crash("index out of range")
     \/ /\ Len(Arguments) >= Len(fn.parameters)
        /\ Depth = MaxDepth
        /\ Crash("stack exhausted")
     \/ /\ Len(Arguments) >= Len(fn.parameters)
        /\ Depth < MaxDepth
        /\ envs' = Append(envs, ExtendedEnv(fn))
        /\ calls' = <<Eval(fn.body, Len(envs) + 1), [do |-> "apply"]>> \o Tail(calls)
        /\ UNCHANGED <<tree, value, made, end>>

(* unwrapReturnValue *)
EndFunction == Doing("apply") /\ Give(Unwrapped(value))

(* Mutant: Go's nil is the value. *)
ApplyBuiltinRaw ==
  /\ Applying({"BUILTIN"})
  /\ Give(BuiltinResult(Builtins[Frame.got[1].index + 1], Arguments, Address))

ApplyBuiltin ==
  /\ Applying({"BUILTIN"})
  /\ LET result == BuiltinResult(Builtins[Frame.got[1].index + 1], Arguments, Address)
     IN  Give(IF result = Nil THEN Null ELSE result)

ApplyOther ==
  /\ Complete("CallExpression")
  /\ ~Applying({"FUNCTION", "BUILTIN"})
  /\ Give(IF Frame.got[1] = Nil THEN Failure("nil dereference") ELSE Error(Address))

--------------------------------------------------------------------------------
(* evalBlockStatement and evalProgram                                      *)

EvalBlockStatement ==
  /\ Evaluating({"BlockStatement"})
  /\ Become(<<Loop("block", Frame.node, Frame.env)>>)
  /\ value' = Nil
  /\ UNCHANGED made

InLoop == Doing("program") \/ Doing("block")

(* Mutant: only a return ends a block. *)
EndedByReturn == Frame.rest = <<>> \/ IsReturn(value)

Ended == Frame.rest = <<>> \/ IsError(value) \/ IsReturn(value)

NextStatement ==
  /\ InLoop
  /\ ~Ended
  /\ Become(<<Eval(Head(Frame.rest), Frame.env), [Frame EXCEPT !.rest = Tail(@)]>>)
  /\ UNCHANGED <<value, made>>

(* A block passes on that the function returns. *)
EndBlock == Doing("block") /\ Ended /\ Give(value)

EndProgram ==
  /\ Doing("program")
  /\ Ended
  /\ value' = Unwrapped(value)
  /\ calls' = <<>>
  /\ end' = "done"
  /\ UNCHANGED <<tree, envs, made>>

Step ==
  \/ EvalLeaf \/ EvalExpressionStatement \/ EvalParts \/ NextPart \/ GotPart
  \/ EvalPrefixExpression \/ EvalInfixExpression \/ EvalIndexExpression
  \/ EvalArrayLiteral \/ EvalHashLiteral \/ EvalReturnStatement \/ EvalLetStatement
  \/ EvalIfExpression \/ ApplyFunction \/ EndFunction \/ ApplyBuiltin \/ ApplyOther
  \/ EvalBlockStatement \/ NextStatement \/ EndBlock \/ EndProgram

Stopped == end # "running" /\ UNCHANGED evaluation

Next == Step \/ Stopped

Spec == Init /\ [][Next]_evaluation

================================================================================
