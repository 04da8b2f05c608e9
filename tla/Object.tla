--------------------------------- MODULE Object --------------------------------
(***************************************************************************)
(* The values of the virtual machine (src/object/object.go) and the        *)
(* built-in functions (src/object/builtins.go).                            *)
(*                                                                         *)
(* Go compares objects by their address.  The objects that a run allocates *)
(* carry theirs in the field at, so that two values are the same object    *)
(* when they are equal; integers carry none, they are never compared so.   *)
(* An array or a hash also says whether Inspect would meet a nil in it.    *)
(***************************************************************************)
EXTENDS Integers, Sequences

CONSTANT
  MaxInt  (* the greatest int64                                            *)

ASSUME MaxIntAssumption == MaxInt \in Nat \ {0}

(* The interface value nil of a slot that was never written. *)
Nil  == [type |-> "nil"]
Null == [type |-> "NIL"]

Integer(i)        == [type |-> "INTEGER", int |-> i]
Boolean(b)        == [type |-> "BOOLEAN", bool |-> b]
String(s, at)     == [type |-> "STRING", str |-> s, at |-> at]
Error(at)         == [type |-> "ERROR", at |-> at]
BuiltinFn(i)      == [type |-> "BUILTIN", index |-> i]
Closure(fn, free, at) ==
  [type |-> "CLOSURE", fn |-> fn, free |-> free, at |-> at]

(* Only the evaluator has these. *)
Function(ns, body, env, at) ==
  [type |-> "FUNCTION", parameters |-> ns, body |-> body, env |-> env, at |-> at]

Holed(v) == v = Nil \/ (v.type \in {"ARRAY", "HASH", "RETURN_VALUE"} /\ v.holed)

ArrayObject(es, at) ==
  [ type |-> "ARRAY", elements |-> es, at |-> at,
    holed |-> \E i \in DOMAIN es : Holed(es[i]) ]

ReturnObject(v, at) == [type |-> "RETURN_VALUE", value |-> v, at |-> at, holed |-> Holed(v)]

(* Pairs: from hash keys to the values. *)
HashObject(pairs, at) ==
  [ type |-> "HASH", pairs |-> pairs, at |-> at,
    holed |-> \E k \in DOMAIN pairs : Holed(pairs[k]) ]

(* HashKey, without the collisions of FNV. *)
Hashable(v) == v.type \in {"INTEGER", "BOOLEAN", "STRING"}
HashKey(v) ==
  <<v.type, CASE v.type = "INTEGER" -> v.int
              [] v.type = "BOOLEAN" -> v.bool
              [] v.type = "STRING"  -> v.str>>

(* What an operation returns instead of a value: an error of the machine,  *)
(* or a panic of Go.                                                       *)
Failure(why) == [type |-> "failure", why |-> why]

Errors == { "stack overflow", "wrong type", "wrong number of arguments",
            "not callable", "not a function", "unusable key" }
Panics == { "index out of range", "nil dereference", "failed type assertion",
            "division by zero" }

--------------------------------------------------------------------------------
(* int64: results wrap around; division truncates towards zero.            *)
Wrap(i) == ((i + MaxInt + 1) % (2 * MaxInt + 2)) - MaxInt - 1

Magnitude(i) == IF i < 0 THEN -i ELSE i
Quotient(i, j) ==
  LET q == Magnitude(i) \div Magnitude(j)
  IN  IF (i < 0) = (j < 0) THEN q ELSE -q

--------------------------------------------------------------------------------
(***************************************************************************)
(* Builtins: what the function of that name returns for the arguments.  An *)
(* error of a built-in is a value.  The answer Nil is Go's nil.  Type() and*)
(* Inspect() panic on nil.                                                 *)
(***************************************************************************)
LenBuiltin(v, at) ==
  CASE v.type = "ARRAY"  -> Integer(Len(v.elements))
    [] v.type = "STRING" -> Integer(Len(v.str))
    [] OTHER             -> Error(at)

OfArray(name, es, args, at) ==
  CASE name = "push"                -> ArrayObject(Append(es, args[2]), at)
    [] name # "push" /\ es = <<>>   -> Nil
    [] name = "first" /\ es # <<>>  -> es[1]
    [] name = "last" /\ es # <<>>   -> es[Len(es)]
    [] name = "rest" /\ es # <<>>   -> ArrayObject(Tail(es), at)

Arity(name) == IF name = "push" THEN 2 ELSE 1

BuiltinResult(name, args, at) ==
  CASE name = "puts" ->
         IF \E i \in DOMAIN args : Holed(args[i]) THEN Failure("nil dereference") ELSE Nil
    [] name # "puts" /\ Len(args) # Arity(name) -> Error(at)
    [] name # "puts" /\ Len(args) = Arity(name) ->
         CASE args[1] = Nil                 -> Failure("nil dereference")
           [] args[1] # Nil /\ name = "len" -> LenBuiltin(args[1], at)
           [] args[1].type = "ARRAY" /\ name # "len"
                                            -> OfArray(name, args[1].elements, args, at)
           [] OTHER                         -> Error(at)

================================================================================
