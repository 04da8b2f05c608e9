-------------------------------- MODULE VMProofs -------------------------------
(***************************************************************************)
(* Proofs about the virtual machine, for all verified code: what module    *)
(* Verifier asks of code is enough for the machine, which checks nothing,  *)
(* to keep the frames apart and control in the code.                       *)
(***************************************************************************)
EXTENDS VerifiedCode, WellOrder, SequenceTheorems

--------------------------------------------------------------------------------
(***************************************************************************)
(* What verified code promises at each of its instructions.                *)
(***************************************************************************)
(* The heights at p, when f has those at the positions before.             *)
HeightsAt(code, f, p) ==
  IF p = 0 THEN {0}
  ELSE UNION { {h - Pops(code.ins[q]) + Pushes(code.ins[q]) : h \in f[q]} :
               q \in {r \in DOMAIN code.ins : r < p /\ p \in Successors(code, r)} }

Before(code, n) == {p \in Ends(code) : p < n}

LEMMA Positions ==
  ASSUME NEW code, Written(code)
  PROVE  /\ Ends(code) \subseteq Nat
         /\ DOMAIN code.ins \subseteq Ends(code)
         /\ \A p \in Ends(code) : p < code.len + 1
BY DEF Written, Ends

(* What counts are the heights at earlier instructions.                    *)
LEMMA HeightsAtAgree ==
  ASSUME NEW code, NEW f, NEW g, NEW p,
         \A q \in DOMAIN code.ins : q < p => f[q] = g[q]
  PROVE  HeightsAt(code, f, p) = HeightsAt(code, g, p)
<1> DEFINE From(k) == {h - Pops(code.ins[k]) + Pushes(code.ins[k]) : h \in f[k]}
           To(k) == {h - Pops(code.ins[k]) + Pushes(code.ins[k]) : h \in g[k]}
           Q == {r \in DOMAIN code.ins : r < p /\ p \in Successors(code, r)}
<1>1. \A q \in Q : From(q) = To(q)
  OBVIOUS
<1>2. {From(q) : q \in Q} = {To(q) : q \in Q}
  <2> HIDE DEF From, To, Q
  <2>1. QED
    BY <1>1
<1>3. QED
  BY <1>2 DEF HeightsAt

(* The recursion in Heights ends, because only heights at earlier          *)
(* positions are used: for every n there is a function on the positions    *)
(* before n that solves it.                                                *)
LEMMA PartialHeights ==
  ASSUME NEW code, Written(code), NEW n \in Nat
  PROVE  \E f : f = [p \in Before(code, n) |-> HeightsAt(code, f, p)]
<1> DEFINE Exists(k) == \E f : f = [p \in Before(code, k) |-> HeightsAt(code, f, p)]
           Bad == {k \in Nat : ~Exists(k)}
<1>1. SUFFICES ASSUME ~Exists(n) PROVE FALSE
  OBVIOUS
<1>2. n \in Bad
  BY <1>1
<1>3. PICK k \in Bad : \A j \in Bad : k <= j
  <2> HIDE DEF Bad
  <2>1. Bad \subseteq Nat
    BY DEF Bad
  <2>2. QED
    BY <1>2, <2>1, LeastElement
<1>4. k \in Nat /\ ~Exists(k)
  OBVIOUS
<1>5. CASE k = 0
  <2>1. Before(code, 0) = {}
    BY Positions DEF Before
  <2> DEFINE f == [p \in {} |-> {0}]
  <2>2. f = [p \in {} |-> HeightsAt(code, f, p)]
    OBVIOUS
  <2>3. Exists(0)
    BY <2>1, <2>2
  <2>4. QED
    BY <2>3, <1>4, <1>5
<1>6. CASE k # 0
  <2>1. k - 1 \in Nat /\ ~(k <= k - 1)
    BY <1>4, <1>6
  <2>2. Exists(k - 1)
    BY <2>1, <1>3
  <2>3. PICK f : f = [p \in Before(code, k - 1) |-> HeightsAt(code, f, p)]
    BY <2>2
  <2> DEFINE g == [p \in Before(code, k) |-> IF p = k - 1 THEN HeightsAt(code, f, p) ELSE f[p]]
  <2>4. \A p \in Before(code, k - 1) : f[p] = HeightsAt(code, f, p)
    BY <2>3, ZenonT(20)
  <2>5. \A p \in Before(code, k) : p = k - 1 \/ (p \in Before(code, k - 1) /\ p # k - 1)
    BY <1>4, <2>1, Positions DEF Before
  <2>6. \A p \in Before(code, k) : g[p] = HeightsAt(code, f, p)
    BY <2>4, <2>5
  <2>7. \A p \in Before(code, k) : HeightsAt(code, f, p) = HeightsAt(code, g, p)
    <3>1. SUFFICES ASSUME NEW p \in Before(code, k)
                   PROVE  HeightsAt(code, f, p) = HeightsAt(code, g, p)
      OBVIOUS
    <3>2. ASSUME NEW q \in DOMAIN code.ins, q < p PROVE f[q] = g[q]
      <4>1. p \in Nat /\ q \in Nat /\ q \in Ends(code) /\ p < k
        BY Positions DEF Before
      <4>2. q \in Before(code, k) /\ q # k - 1
        BY <4>1, <3>2, <1>4 DEF Before
      <4>3. QED
        BY <4>2
    <3>3. QED
      BY <3>2, HeightsAtAgree
  <2>8. g = [p \in Before(code, k) |-> g[p]]
    OBVIOUS
  <2>9. g = [p \in Before(code, k) |-> HeightsAt(code, g, p)]
    <3> HIDE DEF g
    <3>1. QED
      BY <2>6, <2>7, <2>8
  <2>10. QED
    BY <2>9, <1>4
<1>7. QED
  BY <1>5, <1>6

(* The equation that defines Heights holds.                                *)
LEMMA HeightsEquation ==
  ASSUME NEW code, Written(code)
  PROVE  \A p \in Ends(code) : Heights(code)[p] = HeightsAt(code, Heights(code), p)
<1>1. code.len + 1 \in Nat
  BY DEF Written
<1>2. Before(code, code.len + 1) = Ends(code)
  BY Positions DEF Before
<1>3. \E f : f = [p \in Ends(code) |-> HeightsAt(code, f, p)]
  BY <1>1, <1>2, PartialHeights
<1>4. Heights(code) = CHOOSE f : f = [p \in Ends(code) |-> HeightsAt(code, f, p)]
  BY DEF Heights, HeightsAt
<1>5. Heights(code) = [p \in Ends(code) |-> HeightsAt(code, Heights(code), p)]
  BY <1>3, <1>4
<1>6. QED
  BY <1>5, Zenon

(* Control comes to the next instruction with the values that the          *)
(* instruction leaves.                                                     *)
LEMMA Flow ==
  ASSUME NEW code, Written(code), ForwardOnly(code),
         NEW p \in DOMAIN code.ins, NEW q \in Successors(code, p),
         NEW h \in Heights(code)[p]
  PROVE  /\ q \in Ends(code)
         /\ h - Pops(code.ins[p]) + Pushes(code.ins[p]) \in Heights(code)[q]
<1>1. q \in Ends(code) /\ p < q /\ p \in Nat /\ q \in Nat
  BY Positions DEF ForwardOnly
<1>2. q # 0
  BY <1>1
<1>3. Heights(code)[q] = HeightsAt(code, Heights(code), q)
  BY <1>1, HeightsEquation
<1>4. p \in {r \in DOMAIN code.ins : r < q /\ q \in Successors(code, r)}
  BY <1>1
<1>5. QED
  BY <1>1, <1>2, <1>3, <1>4 DEF HeightsAt

(* Code is entered with nothing on the stack.                              *)
LEMMA Entry ==
  ASSUME NEW code, Written(code), 0 \in Ends(code)
  PROVE  Heights(code)[0] = {0}
BY HeightsEquation DEF HeightsAt

--------------------------------------------------------------------------------

(* Code for a closure that captures numFree values: the code itself is     *)
(* verified, and so is what it makes closures of.                          *)
ClosuresOf(b) ==
  Closures(MainClosure(b.main).fn)
    \union UNION {Closures(b.constants[k]) : k \in FunctionsOf(b.constants)}

Runnable(b, fn, numFree) ==
  /\ Balanced(fn)
  /\ fn.numLocals \in Nat
  /\ fn.numParameters \in 0 .. fn.numLocals
  /\ Linked(fn, b.constants, fn.numLocals, numFree, Len(Builtins))
  /\ Closures(fn) \subseteq ClosuresOf(b)

RunnableMain(b) ==
  LET fn == MainClosure(b.main).fn IN
  /\ Runnable(b, fn, 0)
  /\ Heights(fn)[fn.len] \subseteq {0}
  /\ \A p \in DOMAIN fn.ins : fn.ins[p].op \notin Returns

RunnableFunction(b, fn, numFree) ==
  /\ Runnable(b, fn, numFree)
  /\ Heights(fn)[fn.len] = {}

--------------------------------------------------------------------------------
(* Values, with the values of S inside.                                    *)

ValueTypes ==
  { "nil", "NIL", "INTEGER", "BOOLEAN", "STRING", "ERROR", "BUILTIN", "ARRAY", "HASH", "CLOSURE" }

Sound(b, S, v) ==
  /\ v.type \in ValueTypes
  /\ v.type = "ARRAY"   => v.elements \in Seq(S)
  /\ v.type = "HASH"    => \A k \in DOMAIN v.pairs : v.pairs[k] \in S
  /\ v.type = "BUILTIN" => v.index + 1 \in DOMAIN Builtins
  /\ v.type = "CLOSURE" => v.free \in Seq(S) /\ RunnableFunction(b, v.fn, Len(v.free))

AllSound(b, S) == \A v \in S : Sound(b, S, v)

(* What an operation returns: a value, or why there is none.               *)
Reasons == (Errors \union Panics) \ {"index out of range"}

Result(b, S, r) == (r.type = "failure" /\ r.why \in Reasons) \/ Sound(b, S, r)

--------------------------------------------------------------------------------
(***************************************************************************)
(* The state of the machine.                                               *)
(***************************************************************************)
FrameSet(b, S) == [cl : S \union {MainClosure(b.main)}, pc : Nat, base : Nat]

Floor(f) == f.base + f.cl.fn.numLocals

(* Where the values that a frame works with end.                           *)
Ceiling(fs, s, d) == IF d < Len(fs) THEN fs[d + 1].base ELSE s

(* Control is where as many values as there are can be.                    *)
InCode(fs, s, d) ==
  /\ fs[d].pc \in Ends(fs[d].cl.fn)
  /\ Ceiling(fs, s, d) - Floor(fs[d]) \in Heights(fs[d].cl.fn)[fs[d].pc]

(* A frame is above the values of its caller, and above what it was called *)
(* with.                                                                   *)
Called(S, st, fs, d) ==
  /\ fs[d].cl \in S
  /\ fs[d].cl.type = "CLOSURE"
  /\ fs[d].base \in 1 .. StackSize
  /\ fs[d].base - 1 >= Floor(fs[d - 1])
  /\ \A c \in 1 .. d : fs[c].base <= fs[d].base
  /\ st[fs[d].base - 1] = fs[d].cl

(* Frames without the outcome.  callClosure moves sp beyond the end of the *)
(* stack when the locals do not fit; nothing is pushed then.               *)
SoundFrames(b, S, st, s, fs) ==
  /\ fs \in Seq(FrameSet(b, S))
  /\ Len(fs) \in 1 .. MaxFrames
  /\ fs[1].cl = MainClosure(b.main) /\ fs[1].base = 0
  /\ \A d \in 1 .. Len(fs) : InCode(fs, s, d)
  /\ \A d \in 2 .. Len(fs) : Called(S, st, fs, d)
  /\ s \in Nat
  /\ s >= Floor(fs[Len(fs)])
  /\ s <= StackSize \/ s = Floor(fs[Len(fs)])

SoundOutcome(s, fs, out) ==
  /\ out \in {"running", "done"} \union Errors \union Panics
  /\ out = "done" => s = 0 /\ Len(fs) = 1
  /\ out = "index out of range" => Len(fs) = MaxFrames \/ Floor(fs[Len(fs)]) > StackSize

SoundState(b, S, po, st, s, fs, gl, out) ==
  /\ b \in Bytecodes
  /\ po = b.constants
  /\ AllSound(b, S) /\ Null \in S
  /\ st \in [0 .. StackSize - 1 -> S]
  /\ \A g \in DOMAIN gl : gl[g] \in S
  /\ SoundFrames(b, S, st, s, fs)
  /\ SoundOutcome(s, fs, out)

IInv == \E b, S : SoundState(b, S, pool, stack, sp, frames, globals, outcome)

--------------------------------------------------------------------------------
(***************************************************************************)
(* Values.                                                                 *)
(***************************************************************************)

(* A closure of verified code runs verified code.                          *)
LEMMA VerifiedRunnable ==
  ASSUME NEW b \in Bytecodes
  PROVE  /\ RunnableMain(b)
         /\ \A k, n : <<k, n>> \in ClosuresOf(b) =>
              k \in DOMAIN b.constants /\ RunnableFunction(b, b.constants[k], n)
<1> DEFINE main == MainClosure(b.main).fn
<1>1. Verified(main, b.constants, Len(Builtins))
  BY BytecodesAssumption
<1>2. main.numLocals = 0 /\ main.numParameters = 0
  BY DEF MainClosure, Closure
<1>3. Closures(main) \subseteq ClosuresOf(b)
  BY DEF ClosuresOf
<1> HIDE DEF main
<1>4. RunnableMain(b)
  <2>1. Balanced(main) /\ Linked(main, b.constants, 0, 0, Len(Builtins))
        /\ Heights(main)[main.len] \subseteq {0}
        /\ \A p \in DOMAIN main.ins : main.ins[p].op \notin Returns
    BY <1>1 DEF Verified
  <2>2. Runnable(b, main, 0)
    BY <1>2, <1>3, <2>1 DEF Runnable
  <2>3. QED
    BY <2>1, <2>2 DEF RunnableMain, main
<1>5. ASSUME NEW k, NEW n, <<k, n>> \in ClosuresOf(b)
      PROVE  k \in DOMAIN b.constants /\ RunnableFunction(b, b.constants[k], n)
  <2> DEFINE c == <<k, n>>
  <2>1. c[1] = k /\ c[2] = n
    OBVIOUS
  <2>2. c \in Closures(main) \union UNION {Closures(b.constants[j]) : j \in FunctionsOf(b.constants)}
    BY <1>5 DEF ClosuresOf, main
  <2> HIDE DEF c
  <2>3. k \in FunctionsOf(b.constants)
        /\ Linked(b.constants[k], b.constants, b.constants[k].numLocals, n, Len(Builtins))
    BY <1>1, <2>1, <2>2 DEF Verified
  <2>4. /\ Balanced(b.constants[k])
        /\ Heights(b.constants[k])[b.constants[k].len] = {}
        /\ b.constants[k].numLocals \in Nat
        /\ b.constants[k].numParameters \in 0 .. b.constants[k].numLocals
    BY <1>1, <2>3 DEF Verified
  <2>5. Closures(b.constants[k]) \subseteq ClosuresOf(b)
    BY <2>3 DEF ClosuresOf
  <2>6. k \in DOMAIN b.constants
    BY <2>3 DEF FunctionsOf
  <2>7. QED
    BY <2>3, <2>4, <2>5, <2>6 DEF RunnableFunction, Runnable
<1>6. QED
  BY <1>4, <1>5

LEMMA SoundGrows ==
  ASSUME NEW b, NEW S, NEW T, S \subseteq T
  PROVE  \A v : Sound(b, S, v) => Sound(b, T, v)
<1>1. \A s : s \in Seq(S) => s \in Seq(T)
  BY SeqMonotonic
<1>2. QED
  BY <1>1 DEF Sound

LEMMA AtomResults ==
  ASSUME NEW b, NEW S
  PROVE  /\ \A i : Result(b, S, Integer(i))
         /\ \A x : Result(b, S, Boolean(x))
         /\ \A s, at : Result(b, S, String(s, at))
         /\ \A at : Result(b, S, Error(at))
         /\ Result(b, S, Null)
         /\ \A why \in Reasons : Result(b, S, Failure(why))
         /\ \A i : i + 1 \in DOMAIN Builtins => Result(b, S, BuiltinFn(i))
<1> USE DEF Result, Sound, ValueTypes
<1>1. \A i : Result(b, S, Integer(i))
  BY DEF Integer
<1>2. \A x : Result(b, S, Boolean(x))
  BY DEF Boolean
<1>3. \A s, at : Result(b, S, String(s, at))
  BY DEF String
<1>4. \A at : Result(b, S, Error(at))
  BY DEF Error
<1>5. Result(b, S, Null)
  BY DEF Null
<1>6. \A why \in Reasons : Result(b, S, Failure(why))
  BY DEF Failure
<1>7. \A i : i + 1 \in DOMAIN Builtins => Result(b, S, BuiltinFn(i))
  BY DEF BuiltinFn
<1>8. QED
  BY <1>1, <1>2, <1>3, <1>4, <1>5, <1>6, <1>7

LEMMA Failures ==
  \A why \in {"nil dereference", "wrong type", "unusable key", "failed type assertion",
              "division by zero", "stack overflow", "wrong number of arguments",
              "not callable", "not a function"} : why \in Reasons
BY DEF Reasons, Errors, Panics

(* A value that is in S. *)
LEMMA InnerResult ==
  ASSUME NEW b, NEW S, AllSound(b, S), NEW v \in S
  PROVE  Result(b, S, v)
BY DEF AllSound, Result

LEMMA ArrayResult ==
  ASSUME NEW b, NEW S, NEW es \in Seq(S), NEW at
  PROVE  Result(b, S, ArrayObject(es, at))
<1> DEFINE r == ArrayObject(es, at)
<1>1. r.type = "ARRAY" /\ r.elements = es
  BY DEF ArrayObject
<1> HIDE DEF r
<1>2. QED
  BY <1>1 DEF Sound, ValueTypes, Result, r

LEMMA PairsResult ==
  ASSUME NEW b, NEW S, NEW pairs, \A k \in DOMAIN pairs : pairs[k] \in S, NEW at
  PROVE  Result(b, S, HashObject(pairs, at))
<1> DEFINE r == HashObject(pairs, at)
<1>1. r.type = "HASH" /\ r.pairs = pairs
  BY DEF HashObject
<1> HIDE DEF r
<1>2. QED
  BY <1>1 DEF Sound, ValueTypes, Result, r

(* The operators and the index expression.                                 *)
LEMMA OperatorResults ==
  ASSUME NEW b, NEW S, AllSound(b, S), NEW left \in S, NEW right \in S
  PROVE  /\ \A op \in {"OpAdd", "OpSub", "OpMul", "OpDiv"} : Result(b, S, BinaryResult(op, left, right))
         /\ \A op \in {"OpEqual", "OpNotEqual", "OpGreaterThan"} :
              Result(b, S, ComparisonResult(op, left, right))
         /\ Result(b, S, MinusResult(right))
         /\ Result(b, S, BangResult(right))
<1> USE AtomResults, Failures
<1>1. ASSUME NEW op \in {"OpAdd", "OpSub", "OpMul", "OpDiv"}
      PROVE  Result(b, S, BinaryResult(op, left, right))
  <2>1. \A i, j : Result(b, S, IntegerResult(op, i, j))
    BY DEF IntegerResult
  <2>2. QED
    BY <2>1 DEF BinaryResult
<1>2. ASSUME NEW op \in {"OpEqual", "OpNotEqual", "OpGreaterThan"}
      PROVE  Result(b, S, ComparisonResult(op, left, right))
  <2>1. \A i, j : Result(b, S, IntegerComparison(op, i, j))
    BY DEF IntegerComparison
  <2>2. QED
    BY <2>1 DEF ComparisonResult
<1>3. Result(b, S, MinusResult(right)) /\ Result(b, S, BangResult(right))
  BY DEF MinusResult, BangResult
<1>4. QED
  BY <1>1, <1>2, <1>3

LEMMA IndexResults ==
  ASSUME NEW b, NEW S, AllSound(b, S), NEW left \in S, NEW index \in S
  PROVE  Result(b, S, IndexResult(left, index))
<1> USE AtomResults, Failures
<1>1. left.type = "ARRAY" => \A i \in DOMAIN left.elements : Result(b, S, left.elements[i])
  <2>1. left.type = "ARRAY" => left.elements \in Seq(S)
    BY DEF AllSound, Sound
  <2>2. left.type = "ARRAY" => \A i \in DOMAIN left.elements : left.elements[i] \in S
    BY <2>1, LenProperties, ElementOfSeq
  <2>3. QED
    BY <2>2, InnerResult
<1>2. left.type = "HASH" => \A k \in DOMAIN left.pairs : Result(b, S, left.pairs[k])
  BY InnerResult DEF AllSound, Sound
<1>3. QED
  BY <1>1, <1>2 DEF IndexResult
(* The pair that comes last is one of the pairs.                           *)
LEMMA HashResults ==
  ASSUME NEW b, NEW S, NEW args \in Seq(S), Len(args) % 2 = 0
  PROVE  Result(b, S, HashResult(args))
<1> DEFINE keys == {i \in DOMAIN args : i % 2 = 1}
           wrong == {i \in keys : ~Hashable(args[i])}
           Last(key) == CHOOSE i \in keys : /\ HashKey(args[i]) = key
                                            /\ \A j \in keys : HashKey(args[j]) = key => j <= i
           pairs == [key \in {HashKey(args[i]) : i \in keys} |-> args[Last(key) + 1]]
           why(i) == IF args[i] = Nil THEN "nil dereference" ELSE "unusable key"
<1>1. Len(args) \in Nat /\ DOMAIN args = 1 .. Len(args)
  BY LenProperties
<1>2. ASSUME NEW key \in {HashKey(args[i]) : i \in keys}
      PROVE  Last(key) \in keys
  <2> DEFINE same == {i \in keys : HashKey(args[i]) = key}
  <2>1. same \subseteq Nat /\ same # {} /\ \A i \in same : i <= Len(args)
    BY <1>1
  <2>2. \E i \in same : \A j \in same : j <= i
    <3> HIDE DEF same
    <3>1. QED
      BY <1>1, <2>1, GreatestElement
  <2>3. \E i \in keys : /\ HashKey(args[i]) = key
                        /\ \A j \in keys : HashKey(args[j]) = key => j <= i
    BY <2>2
  <2>4. QED
    BY <2>3
<1>3. \A i \in keys : i + 1 \in 1 .. Len(args)
  BY <1>1
<1>4. \A key \in DOMAIN pairs : pairs[key] \in S
  <2> HIDE DEF keys, Last
  <2>1. QED
    BY <1>2, <1>3, ElementOfSeq
<1>5. \E i : HashResult(args) = IF wrong # {} THEN Failure(why(i)) ELSE HashObject(pairs, Address)
  BY DEF HashResult
<1> HIDE DEF pairs, wrong
<1>6. Result(b, S, HashObject(pairs, Address))
  BY <1>4, PairsResult
<1>7. \A i : Result(b, S, Failure(why(i)))
  BY AtomResults, Failures
<1>8. QED
  BY <1>5, <1>6, <1>7

(* The built-in functions; Go's nil is no failure.                         *)
LEMMA BuiltinResults ==
  ASSUME NEW b, NEW S, AllSound(b, S), NEW args \in Seq(S), NEW at,
         NEW name \in {"len", "puts", "first", "last", "rest", "push"}
  PROVE  Result(b, S, BuiltinResult(name, args, at))
<1> DEFINE r == BuiltinResult(name, args, at)
<1>1. DOMAIN args = 1 .. Len(args) /\ Len(args) \in Nat /\ \A i \in 1 .. Len(args) : args[i] \in S
  BY LenProperties, ElementOfSeq
<1>2. Result(b, S, Nil) /\ Result(b, S, Failure("nil dereference")) /\ Result(b, S, Error(at))
  BY AtomResults, Failures DEF Nil, Result, Sound, ValueTypes
<1>3. CASE name = "puts"
  BY <1>2, <1>3 DEF BuiltinResult
<1>4. CASE name # "puts" /\ Len(args) # Arity(name)
  BY <1>2, <1>4 DEF BuiltinResult
<1>5. CASE name # "puts" /\ Len(args) = Arity(name)
  <2> DEFINE v == args[1]
  <2>1. v \in S /\ (name = "push" => args[2] \in S)
    BY <1>1, <1>5 DEF Arity
  <2>2. Sound(b, S, v)
    BY <2>1 DEF AllSound
  <2>3. r = CASE v = Nil                 -> Failure("nil dereference")
              [] v # Nil /\ name = "len" -> LenBuiltin(v, at)
              [] v.type = "ARRAY" /\ name # "len"
                                         -> OfArray(name, v.elements, args, at)
              [] OTHER                   -> Error(at)
    BY <1>5 DEF BuiltinResult
  <2> HIDE DEF v, r
  <2>4. CASE v = Nil
    <3>1. r = Failure("nil dereference")
      BY <2>3, <2>4 DEF Nil
    <3>2. QED
      BY <3>1, <1>2 DEF r
  <2>5. CASE v # Nil /\ name = "len"
    <3>1. Result(b, S, LenBuiltin(v, at))
      BY AtomResults DEF LenBuiltin
    <3>2. r = LenBuiltin(v, at)
      BY <2>3, <2>5
    <3>3. QED
      BY <3>1, <3>2 DEF r
  <2>6. CASE v.type = "ARRAY" /\ name # "len"
    <3> DEFINE es == v.elements
    <3>1. v # Nil /\ es \in Seq(S)
      BY <2>2, <2>6 DEF Nil, Sound
    <3>2. r = OfArray(name, es, args, at)
      BY <2>3, <2>6, <3>1
    <3> HIDE DEF es
    <3>3. CASE name = "push"
      <4>1. Append(es, args[2]) \in Seq(S)
        BY <3>1, <2>1, <3>3
      <4>2. r = ArrayObject(Append(es, args[2]), at)
        BY <3>2, <3>3 DEF OfArray
      <4>3. QED
        BY <4>1, <4>2, ArrayResult DEF r
    <3>4. CASE name # "push" /\ es = <<>>
      <4>1. r = Nil
        BY <3>2, <3>4 DEF OfArray
      <4>2. QED
        BY <4>1, <1>2 DEF r
    <3>5. CASE name \in {"first", "last"} /\ es # <<>>
      <4>1. es[1] \in S /\ es[Len(es)] \in S
        <5>1. Len(es) \in Nat \ {0}
          BY <3>1, <3>5, EmptySeq
        <5>2. QED
          BY <3>1, <5>1, ElementOfSeq
      <4>2. r = es[1] \/ r = es[Len(es)]
        BY <3>2, <3>5 DEF OfArray
      <4>3. QED
        BY <4>1, <4>2, InnerResult DEF r
    <3>6. CASE name = "rest" /\ es # <<>>
      <4>1. Tail(es) \in Seq(S)
        BY <3>1, <3>6
      <4>2. r = ArrayObject(Tail(es), at)
        BY <3>2, <3>6 DEF OfArray
      <4>3. QED
        BY <4>1, <4>2, ArrayResult DEF r
    <3>7. QED
      BY <1>5, <2>6, <3>3, <3>4, <3>5, <3>6
  <2>7. CASE v # Nil /\ name # "len" /\ v.type # "ARRAY"
    <3>1. r = Error(at)
      BY <2>3, <2>7
    <3>2. QED
      BY <3>1, <1>2 DEF r
  <2>8. QED
    BY <2>4, <2>5, <2>6, <2>7
<1>6. QED
  BY <1>3, <1>4, <1>5

(* The constants that code names, and the closures that it makes.          *)
LEMMA ConstantResult ==
  ASSUME NEW b, NEW S, NEW k \in DOMAIN pool, pool[k].type \in {"INTEGER", "STRING"}
  PROVE  Result(b, S, ConstantObject(k))
<1>1. CASE pool[k].type = "STRING"
  <2>1. ConstantObject(k) = String(pool[k].str, <<"pool", k>>)
    BY <1>1 DEF ConstantObject
  <2>2. QED
    BY <2>1, AtomResults
<1>2. CASE pool[k].type = "INTEGER"
  <2>1. ConstantObject(k) = pool[k]
    BY <1>2 DEF ConstantObject
  <2>2. QED
    BY <2>1, <1>2 DEF Result, Sound, ValueTypes
<1>3. QED
  BY <1>1, <1>2

LEMMA ClosureResults ==
  ASSUME NEW b \in Bytecodes, pool = b.constants, NEW S, NEW args \in Seq(S),
         NEW k, <<k, Len(args)>> \in ClosuresOf(b)
  PROVE  Result(b, S, ClosureResult(k, args))
<1>1. k \in DOMAIN pool /\ RunnableFunction(b, pool[k], Len(args))
  BY VerifiedRunnable
<1>2. ClosureResult(k, args) = Closure(pool[k], args, Address) \/ ClosureResult(k, args) = Failure("not a function")
  BY <1>1 DEF ClosureResult
<1> DEFINE r == Closure(pool[k], args, Address)
<1>3. r.type = "CLOSURE" /\ r.fn = pool[k] /\ r.free = args
  BY DEF Closure
<1> HIDE DEF r
<1>4. Result(b, S, r)
  BY <1>1, <1>3 DEF Result, Sound, ValueTypes
<1>5. QED
  BY <1>2, <1>4, AtomResults, Failures DEF r

--------------------------------------------------------------------------------
(***************************************************************************)
(* Frames.                                                                 *)
(***************************************************************************)

(* Whatever a frame executes is verified code.                             *)
LEMMA FrameRunnable ==
  ASSUME NEW b \in Bytecodes, NEW S, AllSound(b, S), NEW st, NEW s, NEW fs,
         SoundFrames(b, S, st, s, fs), NEW d \in 1 .. Len(fs)
  PROVE  /\ fs[d] \in FrameSet(b, S)
         /\ fs[d].cl.free \in Seq(S)
         /\ Runnable(b, fs[d].cl.fn, Len(fs[d].cl.free))
         /\ d = 1 => RunnableMain(b) /\ fs[d].cl.fn = MainClosure(b.main).fn
         /\ d > 1 => RunnableFunction(b, fs[d].cl.fn, Len(fs[d].cl.free))
         /\ Floor(fs[d]) \in Nat
<1>1. fs[d] \in FrameSet(b, S)
  BY ElementOfSeq DEF SoundFrames
<1>2. CASE d = 1
  <2>1. fs[d].cl = MainClosure(b.main) /\ fs[d].base = 0
    BY <1>2 DEF SoundFrames
  <2>2. MainClosure(b.main).free = <<>> /\ <<>> \in Seq(S) /\ Len(<<>>) = 0
    BY DEF MainClosure, Closure
  <2>3. RunnableMain(b)
    BY VerifiedRunnable
  <2>4. Runnable(b, fs[d].cl.fn, 0)
    BY <2>1, <2>3 DEF RunnableMain
  <2>5. fs[d].cl.fn.numLocals \in Nat
    BY <2>4 DEF Runnable
  <2>6. QED
    BY <1>1, <1>2, <2>1, <2>2, <2>3, <2>4, <2>5 DEF Floor
<1>3. CASE d # 1
  <2>1. Len(fs) \in Nat
    BY LenProperties DEF SoundFrames
  <2>2. d \in 2 .. Len(fs)
    BY <1>3, <2>1
  <2>3. fs[d].cl \in S /\ fs[d].cl.type = "CLOSURE" /\ fs[d].base \in 1 .. StackSize
    BY <2>2 DEF SoundFrames, Called
  <2>4. fs[d].cl.free \in Seq(S) /\ RunnableFunction(b, fs[d].cl.fn, Len(fs[d].cl.free))
    BY <2>3 DEF AllSound, Sound
  <2>5. Runnable(b, fs[d].cl.fn, Len(fs[d].cl.free))
    BY <2>4 DEF RunnableFunction
  <2>6. fs[d].cl.fn.numLocals \in Nat
    BY <2>5 DEF Runnable
  <2>7. QED
    BY <1>1, <1>3, <2>3, <2>4, <2>5, <2>6, SizesAssumption DEF Floor
<1>4. QED
  BY <1>2, <1>3

(* The number of values that the running frame works with. *)
Height == sp - Floor(Frame)

Assumed(b, S) == SoundState(b, S, pool, stack, sp, frames, globals, outcome)

(* An instruction finds the values that it pops.                           *)
LEMMA Here ==
  ASSUME NEW b, NEW S, Assumed(b, S), Running
  PROVE  /\ b \in Bytecodes /\ AllSound(b, S) /\ pool = b.constants
         /\ Len(frames) \in 1 .. MaxFrames /\ Len(frames) \in Nat /\ frames \in Seq(FrameSet(b, S))
         /\ Frame \in FrameSet(b, S)
         /\ Frame.cl.free \in Seq(S)
         /\ Runnable(b, Frame.cl.fn, Len(Frame.cl.free))
         /\ Frame.pc \in DOMAIN Frame.cl.fn.ins
         /\ IsInstruction(Instruction)
         /\ Floor(Frame) \in Nat /\ sp \in Nat
         /\ Height \in Heights(Frame.cl.fn)[Frame.pc]
         /\ Height \in Nat /\ Height >= Pops(Instruction)
         /\ Height # 0 => sp <= StackSize
         /\ outcome = "running"
<1> DEFINE fn == Frame.cl.fn
           n == Len(frames)
<1>1. SoundFrames(b, S, stack, sp, frames) /\ b \in Bytecodes /\ AllSound(b, S) /\ pool = b.constants
  BY DEF Assumed, SoundState
<1>2. n \in 1 .. MaxFrames /\ n \in Nat /\ frames \in Seq(FrameSet(b, S)) /\ n \in 1 .. n
  BY <1>1, SizesAssumption DEF SoundFrames
<1>3. /\ Frame \in FrameSet(b, S)
      /\ Frame.cl.free \in Seq(S)
      /\ Runnable(b, fn, Len(Frame.cl.free))
      /\ Floor(Frame) \in Nat
  BY <1>1, <1>2, FrameRunnable DEF Frame
<1>4. Frame.pc \in Ends(fn) /\ Height \in Heights(fn)[Frame.pc]
  <2>1. InCode(frames, sp, n)
    BY <1>1, <1>2 DEF SoundFrames
  <2>2. Ceiling(frames, sp, n) = sp
    BY <1>2 DEF Ceiling
  <2>3. QED
    BY <2>1, <2>2 DEF InCode, Frame, Height
<1>5. Frame.pc < fn.len /\ outcome = "running"
  BY DEF Running
<1>6. Balanced(fn)
  BY <1>3 DEF Runnable
<1>7. Written(fn)
  BY <1>6 DEF Balanced
<1>8. Frame.pc \in DOMAIN fn.ins
  BY <1>4, <1>5, <1>7 DEF Ends, Written
<1>9. IsInstruction(fn.ins[Frame.pc])
  BY <1>7, <1>8 DEF Written
<1>10. Height >= Pops(fn.ins[Frame.pc])
  BY <1>4, <1>6, <1>8 DEF Balanced
<1>11. sp \in Nat /\ sp >= Floor(Frame) /\ (sp <= StackSize \/ sp = Floor(Frame))
  BY <1>1 DEF SoundFrames, Frame
<1>12. Height \in Nat /\ (Height # 0 => sp <= StackSize)
  BY <1>3, <1>11 DEF Height
<1>13. QED
  BY <1>1, <1>2, <1>3, <1>4, <1>5, <1>8, <1>9, <1>10, <1>11, <1>12 DEF Instruction

LEMMA Operands ==
  ASSUME NEW i, IsInstruction(i)
  PROVE  /\ i.op \in Opcodes
         /\ i.op \in OneByteOperand \union TwoByteOperand => i.args[1] \in Nat
         /\ i.op = "OpClosure" => i.args[1] \in Nat /\ i.args[2] \in Nat
<1>1. i.op \in Opcodes /\ DOMAIN i.args = DOMAIN OperandWidth(i.op)
      /\ \A k \in DOMAIN i.args : i.args[k] \in 0 .. Capacity(OperandWidth(i.op)[k]) - 1
  BY DEF IsInstruction
<1>2. \A w : Capacity(w) \in Nat
  <2>1. \A m \in Nat : m * m \in Nat
    OBVIOUS
  <2>2. QED
    BY <2>1, ByteAssumption DEF Capacity
<1>3. \A k \in DOMAIN OperandWidth(i.op) : i.args[k] \in Nat
  BY <1>1, <1>2
<1>4. i.op \in OneByteOperand \union TwoByteOperand => 1 \in DOMAIN OperandWidth(i.op)
  <2>1. i.op \in OneByteOperand => OperandWidth(i.op) = <<1>>
    <3>1. i.op \in OneByteOperand => i.op \notin NoOperand /\ i.op \notin TwoByteOperand /\ i.op # "OpClosure"
      BY DEF NoOperand, OneByteOperand, TwoByteOperand
    <3>2. QED
      BY <3>1, Zenon DEF OperandWidth
  <2>2. i.op \in TwoByteOperand => OperandWidth(i.op) = <<2>>
    <3>1. i.op \in TwoByteOperand => i.op \notin NoOperand /\ i.op \notin OneByteOperand /\ i.op # "OpClosure"
      BY DEF NoOperand, OneByteOperand, TwoByteOperand
    <3>2. QED
      BY <3>1, Zenon DEF OperandWidth
  <2>3. 1 \in DOMAIN <<1>> /\ 1 \in DOMAIN <<2>>
    OBVIOUS
  <2>4. QED
    BY <2>1, <2>2, <2>3, Zenon
<1>5. i.op = "OpClosure" => 1 \in DOMAIN OperandWidth(i.op) /\ 2 \in DOMAIN OperandWidth(i.op)
  <2>1. i.op = "OpClosure" => OperandWidth(i.op) = <<2, 1>>
    BY DEF OperandWidth, NoOperand, OneByteOperand, TwoByteOperand
  <2>2. 1 \in DOMAIN <<2, 1>> /\ 2 \in DOMAIN <<2, 1>>
    OBVIOUS
  <2>3. QED
    BY <2>1, <2>2, Zenon
<1>6. QED
  BY <1>1, <1>3, <1>4, <1>5

(* Control in the running frame moves, and nothing else in the frames.     *)
LEMMA Moved ==
  ASSUME NEW b, NEW S, frames \in Seq(FrameSet(b, S)), Len(frames) \in Nat \ {0}, NEW q \in Nat
  PROVE  /\ FramesAt(q) \in Seq(FrameSet(b, S))
         /\ Len(FramesAt(q)) = Len(frames)
         /\ \A d \in 1 .. Len(frames) :
              /\ FramesAt(q)[d].cl = frames[d].cl /\ FramesAt(q)[d].base = frames[d].base
              /\ FramesAt(q)[d].pc = IF d = Len(frames) THEN q ELSE frames[d].pc
<1> DEFINE n == Len(frames)
           f == [frames[n] EXCEPT !.pc = q]
<1>1. n \in 1 .. n
  OBVIOUS
<1>2. frames[n] \in FrameSet(b, S)
  BY <1>1, ElementOfSeq
<1>3. f \in FrameSet(b, S) /\ f.cl = frames[n].cl /\ f.base = frames[n].base /\ f.pc = q
  BY <1>2 DEF FrameSet
<1> HIDE DEF f
<1>4. FramesAt(q) = [frames EXCEPT ![n] = f]
  BY DEF FramesAt, f
<1>5. /\ [frames EXCEPT ![n] = f] \in Seq(FrameSet(b, S))
      /\ Len([frames EXCEPT ![n] = f]) = n
      /\ \A d \in 1 .. n : [frames EXCEPT ![n] = f][d] = IF d = n THEN f ELSE frames[d]
  BY <1>1, <1>3, ExceptSeq
<1> HIDE DEF n
<1>6. QED
  BY <1>3, <1>4, <1>5 DEF n

LEMMA PopsAndPushes ==
  ASSUME NEW i, IsInstruction(i)
  PROVE  Pops(i) \in Nat /\ Pushes(i) \in {0, 1}
<1>1. i.op \in {"OpArray", "OpHash", "OpCall"} => i.args[1] \in Nat
  BY Operands DEF OneByteOperand, TwoByteOperand
<1>2. i.op = "OpClosure" => i.args[2] \in Nat
  BY Operands
<1>3. Pops(i) \in Nat
  BY <1>1, <1>2 DEF Pops
<1>4. Pushes(i) \in {0, 1}
  BY DEF Pushes
<1>5. QED
  BY <1>3, <1>4

(* A step within the running frame that leaves what is below the frame as  *)
(* it is.  T has the values that the step makes, too.                      *)
LEMMA Advanced ==
  ASSUME NEW b, NEW S, Assumed(b, S), Running,
         NEW T, S \subseteq T, AllSound(b, T),
         NEW q \in Successors(Frame.cl.fn, Frame.pc),
         NEW st \in [0 .. StackSize - 1 -> T],
         \A i \in 0 .. StackSize - 1 : i < Frame.base => st[i] = stack[i],
         NEW s, s = sp - Pops(Instruction) + Pushes(Instruction),
         s <= StackSize \/ s = Floor(Frame),
         NEW gl, \A g \in DOMAIN gl : gl[g] \in T
  PROVE  SoundState(b, T, pool, st, s, FramesAt(q), gl, "running")
<1> DEFINE fn == Frame.cl.fn
           n == Len(frames)
           fs == FramesAt(q)
<1>1. SoundFrames(b, S, stack, sp, frames) /\ b \in Bytecodes /\ Null \in S /\ pool = b.constants
  BY DEF Assumed, SoundState
<1>2. n \in 1 .. MaxFrames /\ n \in Nat \ {0} /\ frames \in Seq(FrameSet(b, S))
  BY Here
<1>3. frames \in Seq(FrameSet(b, T))
  <2>1. FrameSet(b, S) \subseteq FrameSet(b, T)
    BY DEF FrameSet
  <2>2. QED
    BY <1>2, <2>1, SeqMonotonic
<1>4. Written(fn) /\ ForwardOnly(fn)
  BY Here DEF Runnable, Balanced
<1>5. q \in Ends(fn) /\ Height - Pops(Instruction) + Pushes(Instruction) \in Heights(fn)[q]
  <2>1. Frame.pc \in DOMAIN fn.ins /\ Height \in Heights(fn)[Frame.pc]
    BY Here
  <2>2. QED
    BY <1>4, <2>1, Flow DEF Instruction
<1>6. q \in Nat
  BY <1>4, <1>5, Positions
<1>7. /\ Height = sp - Floor(Frame) /\ sp \in Nat /\ Floor(Frame) \in Nat
      /\ Height >= Pops(Instruction)
      /\ Pops(Instruction) \in Nat /\ Pushes(Instruction) \in {0, 1}
  BY Here, PopsAndPushes DEF Height
<1>8. s \in Nat /\ s >= Floor(Frame) /\ s - Floor(Frame) \in Heights(fn)[q]
  <2>1. s - Floor(Frame) = Height - Pops(Instruction) + Pushes(Instruction)
    BY <1>7
  <2>2. s \in Nat /\ s >= Floor(Frame)
    BY <1>7
  <2>3. QED
    BY <1>5, <2>1, <2>2
<1>9. /\ fs \in Seq(FrameSet(b, T)) /\ Len(fs) = n
      /\ \A d \in 1 .. n : /\ fs[d].cl = frames[d].cl /\ fs[d].base = frames[d].base
                           /\ fs[d].pc = IF d = n THEN q ELSE frames[d].pc
  BY <1>2, <1>3, <1>6, Moved
<1> HIDE DEF fs
<1>10. \A d \in 1 .. n : Floor(fs[d]) = Floor(frames[d])
  BY <1>9 DEF Floor
<1>11. ASSUME NEW d \in 1 .. n PROVE InCode(fs, s, d)
  <2>1. CASE d = n
    <3>1. fs[d].cl.fn = fn /\ fs[d].pc = q /\ Floor(fs[d]) = Floor(Frame)
      BY <1>9, <1>10, <2>1 DEF Frame
    <3>2. Ceiling(fs, s, d) = s
      BY <1>2, <1>9, <2>1 DEF Ceiling
    <3>3. QED
      BY <3>1, <3>2, <1>5, <1>8 DEF InCode
  <2>2. CASE d # n
    <3>1. InCode(frames, sp, d)
      BY <1>1 DEF SoundFrames
    <3>2. d + 1 \in 1 .. n /\ d < n
      BY <1>2, <2>2
    <3>3. Ceiling(fs, s, d) = Ceiling(frames, sp, d)
      BY <1>9, <3>2 DEF Ceiling
    <3>4. fs[d].cl.fn = frames[d].cl.fn /\ fs[d].pc = frames[d].pc
      BY <1>9, <2>2
    <3>5. QED
      BY <3>1, <3>3, <3>4, <1>10 DEF InCode
  <2>3. QED
    BY <2>1, <2>2
<1>12. ASSUME NEW d \in 2 .. n PROVE Called(T, st, fs, d)
  <2>1. Called(S, stack, frames, d)
    BY <1>1 DEF SoundFrames
  <2>2. d \in 1 .. n /\ d - 1 \in 1 .. n /\ n \in 1 .. n
    BY <1>2
  <2>3. frames[d].base <= Frame.base
    <3>1. CASE n = 1
      BY <1>2, <3>1
    <3>2. CASE n # 1
      <4>1. n \in 2 .. n
        BY <1>2, <3>2
      <4>2. Called(S, stack, frames, n)
        BY <1>1, <4>1 DEF SoundFrames
      <4>3. QED
        BY <4>2, <2>2 DEF Called, Frame
    <3>3. QED
      BY <3>1, <3>2
  <2>4. frames[d].base \in 1 .. StackSize /\ Frame.base \in Nat
    BY <2>1, Here DEF Called, FrameSet
  <2>5. frames[d].base - 1 \in 0 .. StackSize - 1 /\ frames[d].base - 1 < Frame.base
    BY <2>3, <2>4, SizesAssumption
  <2>6. st[frames[d].base - 1] = stack[frames[d].base - 1]
    BY <2>5
  <2>7. \A c \in 1 .. d : fs[c].base = frames[c].base
    BY <1>2, <1>9
  <2>8. QED
    BY <1>9, <1>10, <2>1, <2>2, <2>6, <2>7 DEF Called
<1>13. fs[1].cl = MainClosure(b.main) /\ fs[1].base = 0
  BY <1>1, <1>2, <1>9 DEF SoundFrames
<1>14. Floor(fs[Len(fs)]) = Floor(Frame)
  BY <1>2, <1>9, <1>10 DEF Frame
<1>15. SoundFrames(b, T, st, s, fs)
  <2> HIDE DEF n
  <2>1. QED
    BY <1>2, <1>8, <1>9, <1>11, <1>12, <1>13, <1>14 DEF SoundFrames
<1>16. SoundOutcome(s, fs, "running")
  BY DEF SoundOutcome
<1>17. QED
  BY <1>1, <1>15, <1>16 DEF SoundState, fs

(* A run that fails leaves everything else as it is.                       *)
LEMMA Failed ==
  ASSUME NEW b, NEW S, Assumed(b, S), Running, NEW why, Fail(why),
         why \in Reasons \/ (why = "index out of range" /\
                             (Len(frames) = MaxFrames \/ Floor(Frame) > StackSize))
  PROVE  SoundState(b, S, pool', stack', sp', frames', globals', outcome')
<1>1. /\ outcome' = why
      /\ pool' = pool /\ stack' = stack /\ sp' = sp /\ frames' = frames /\ globals' = globals
  BY DEF Fail
<1>2. SoundOutcome(sp, frames, why)
  BY DEF SoundOutcome, Reasons, Errors, Panics, Frame
<1>3. QED
  BY <1>1, <1>2 DEF Assumed, SoundState

(* What is popped is there.                                                *)
LEMMA Readables ==
  ASSUME NEW b, NEW S, Assumed(b, S), Running, NEW n \in Nat, n <= Height
  PROVE  /\ Readable(n)
         /\ \A k \in 1 .. n : sp - k \in 0 .. StackSize - 1 /\ Top(k) \in S
         /\ Args(n) \in Seq(S) /\ Len(Args(n)) = n
<1>1. Height = sp - Floor(Frame) /\ sp \in Nat /\ Floor(Frame) \in Nat /\ (Height # 0 => sp <= StackSize)
  BY Here DEF Height
<1>2. stack \in [0 .. StackSize - 1 -> S]
  BY DEF Assumed, SoundState
<1>3. \A k \in 1 .. n : sp - k \in 0 .. StackSize - 1
  BY <1>1, SizesAssumption
<1>4. Readable(n) /\ \A k \in 1 .. n : Top(k) \in S
  BY <1>2, <1>3 DEF Readable, Top
<1>5. \A i \in 1 .. n : stack[sp - n + i - 1] \in S
  <2>1. SUFFICES ASSUME NEW i \in 1 .. n PROVE stack[sp - n + i - 1] \in S
    OBVIOUS
  <2>2. n - i + 1 \in 1 .. n /\ sp - n + i - 1 = sp - (n - i + 1)
    BY <1>1
  <2>3. QED
    BY <1>2, <1>3, <2>2
<1>6. Args(n) \in Seq(S) /\ Len(Args(n)) = n
  BY <1>5, IsASeq DEF Args
<1>7. QED
  BY <1>3, <1>4, <1>6

LEMMA AboveBase ==
  ASSUME NEW b, NEW S, Assumed(b, S), Running
  PROVE  Frame.base \in Nat /\ Frame.base <= Floor(Frame) /\ sp >= Floor(Frame)
<1>1. Frame.base \in Nat
  BY Here DEF FrameSet
<1>2. Frame.cl.fn.numLocals \in Nat
  BY Here DEF Runnable
<1>3. Height \in Nat /\ sp \in Nat /\ Floor(Frame) \in Nat
  BY Here
<1>4. QED
  BY <1>1, <1>2, <1>3 DEF Floor, Height

(* The position after the instruction.                                     *)
FollowingPc == Frame.pc + InstrLen(Instruction.op)

(* A local that does not fit on the stack is read.                         *)
Overrun(r) == r = Failure("index out of range") /\ Floor(Frame) > StackSize

(* Some values are popped and a result is pushed, or the run fails.        *)
LEMMA Replaced ==
  ASSUME NEW b, NEW S, Assumed(b, S), Running,
         NEW r, Replace(Pops(Instruction), r), Pushes(Instruction) = 1,
         FollowingPc \in Successors(Frame.cl.fn, Frame.pc),
         Result(b, S, r) \/ Overrun(r)
  PROVE  IInv'
<1> DEFINE n == Pops(Instruction)
           obstacle == Obstacle(n, r)
<1>1. n \in Nat /\ n <= Height /\ Height \in Nat
  BY Here, PopsAndPushes
<1>2. Replace(n, r) /\ \A s : s = sp - n + 1 => s = sp - Pops(Instruction) + Pushes(Instruction)
  OBVIOUS
<1> HIDE DEF n
<1>3. Readable(n)
  BY <1>1, Readables
<1>4. sp \in Nat /\ sp - n \in Nat /\ sp - n >= Floor(Frame) /\ Floor(Frame) \in Nat
  <2>1. sp \in Nat /\ Floor(Frame) \in Nat /\ Height = sp - Floor(Frame)
    BY Here DEF Height
  <2>2. QED
    BY <1>1, <2>1
<1>5. r.type = "failure" =>
        r.why \in Reasons \/ (r.why = "index out of range" /\ Floor(Frame) > StackSize)
  <2>1. Failure("index out of range").why = "index out of range"
    BY DEF Failure
  <2>2. Sound(b, S, r) => r.type # "failure"
    BY DEF Sound, ValueTypes
  <2>3. QED
    BY <2>1, <2>2 DEF Result, Overrun
<1>6. /\ r.type = "failure" => obstacle = r.why
      /\ r.type # "failure" /\ sp - n >= StackSize => obstacle = "stack overflow"
      /\ r.type # "failure" /\ ~(sp - n >= StackSize) => obstacle = "none"
  <2>1. r.type = "failure" => obstacle = r.why
    BY <1>3 DEF Obstacle
  <2>2. r.type # "failure" /\ sp - n >= StackSize => obstacle = "stack overflow"
    BY <1>3 DEF Obstacle
  <2>3. r.type # "failure" /\ ~(sp - n >= StackSize) => obstacle = "none"
    BY <1>3 DEF Obstacle
  <2>4. QED
    BY <2>1, <2>2, <2>3
<1>7. "none" \notin Reasons /\ "stack overflow" \in Reasons
  BY DEF Reasons, Errors, Panics
<1>8. CASE obstacle # "none"
  <2>1. Fail(obstacle)
    BY <1>2, <1>8 DEF Replace
  <2> HIDE DEF obstacle
  <2>2. obstacle \in Reasons \/ (obstacle = "index out of range" /\ Floor(Frame) > StackSize)
    BY <1>5, <1>6, <1>7, <1>8
  <2>3. SoundState(b, S, pool', stack', sp', frames', globals', outcome')
    BY <2>1, <2>2, Failed
  <2>4. QED
    BY <2>3 DEF IInv
<1>9. CASE obstacle = "none"
  <2> DEFINE T == S \union {r}
             st == [stack EXCEPT ![sp - n] = r]
  <2>1. r.type # "failure" /\ sp - n < StackSize
    <3>1. StackSize \in Nat
      BY SizesAssumption
    <3> HIDE DEF obstacle
    <3>2. r.type # "failure"
      BY <1>5, <1>6, <1>7, <1>9
    <3>3. ~(sp - n >= StackSize)
      BY <1>6, <1>9, <3>2
    <3>4. QED
      BY <1>4, <3>1, <3>2, <3>3
  <2>2. /\ stack' = st /\ sp' = sp - n + 1 /\ frames' = FramesAdvanced
        /\ pool' = pool /\ globals' = globals /\ outcome' = outcome
    BY <1>2, <1>9 DEF Replace
  <2>3. Sound(b, S, r) /\ AllSound(b, S)
    <3>1. Failure("index out of range").type = "failure"
      BY DEF Failure
    <3>2. AllSound(b, S)
      BY Here
    <3>3. QED
      BY <2>1, <3>1, <3>2 DEF Result, Overrun
  <2>4. AllSound(b, T) /\ S \subseteq T
    BY <2>3, SoundGrows DEF AllSound
  <2>5. stack \in [0 .. StackSize - 1 -> S] /\ \A g \in DOMAIN globals : globals[g] \in S
    BY DEF Assumed, SoundState
  <2>6. st \in [0 .. StackSize - 1 -> T]
    BY <2>5
  <2>7. \A i \in 0 .. StackSize - 1 : i < Frame.base => st[i] = stack[i]
    <3>1. Frame.base \in Nat /\ Frame.base <= Floor(Frame)
      BY AboveBase
    <3>2. \A i \in 0 .. StackSize - 1 : i < Frame.base => i # sp - n
      BY <1>4, <3>1, SizesAssumption
    <3>3. QED
      BY <2>5, <3>2
  <2>8. sp' = sp - Pops(Instruction) + Pushes(Instruction) /\ sp' <= StackSize
    <3>1. StackSize \in Nat
      BY SizesAssumption
    <3>2. sp' = sp - n + 1
      BY <2>2
    <3>3. QED
      BY <1>1, <1>2, <1>4, <2>1, <3>1, <3>2
  <2>9. \A g \in DOMAIN globals : globals[g] \in T
    BY <2>5
  <2> HIDE DEF T, st
  <2> DEFINE s == sp'
  <2>10. s = sp - Pops(Instruction) + Pushes(Instruction) /\ s <= StackSize
    BY <2>8
  <2> HIDE DEF s
  <2>11. SoundState(b, T, pool, st, s, FramesAdvanced, globals, "running")
    BY <2>4, <2>6, <2>7, <2>9, <2>10, Advanced DEF FramesAdvanced, FollowingPc
  <2>12. SoundState(b, T, pool, st, sp', FramesAdvanced, globals, "running")
    BY <2>11 DEF s
  <2>13. outcome = "running"
    BY DEF Running
  <2>14. QED
    BY <2>2, <2>12, <2>13 DEF IInv
<1>10. QED
  BY <1>8, <1>9

--------------------------------------------------------------------------------
(***************************************************************************)
(* The actions, first those that replace values.                           *)
(***************************************************************************)
LEMMA Onward ==
  ASSUME Instruction.op \notin Returns \union {"OpJump"}
  PROVE  FollowingPc \in Successors(Frame.cl.fn, Frame.pc)
BY DEF Successors, Instruction, FollowingPc, Returns

(* What the instruction of the running frame leads to.                     *)
LEMMA LinkedHere ==
  ASSUME NEW b, NEW S, Assumed(b, S), Running
  PROVE  LET op == Instruction.op
             args == Instruction.args
         IN  /\ op = "OpConstant" => /\ args[1] + 1 \in DOMAIN pool
                                     /\ pool[args[1] + 1].type \in {"INTEGER", "STRING"}
             /\ op = "OpHash" => args[1] % 2 = 0
             /\ op \in {"OpGetLocal", "OpSetLocal"} => args[1] < Frame.cl.fn.numLocals
             /\ op = "OpGetFree" => args[1] < Len(Frame.cl.free)
             /\ op = "OpGetBuiltin" => args[1] < Len(Builtins)
             /\ op = "OpClosure" => <<args[1] + 1, args[2]>> \in ClosuresOf(b)
<1>1. pool = b.constants /\ Frame.pc \in DOMAIN Frame.cl.fn.ins /\ Runnable(b, Frame.cl.fn, Len(Frame.cl.free))
  BY Here
<1>2. Linked(Frame.cl.fn, pool, Frame.cl.fn.numLocals, Len(Frame.cl.free), Len(Builtins))
      /\ Closures(Frame.cl.fn) \subseteq ClosuresOf(b)
  BY <1>1 DEF Runnable
<1>3. Instruction.op = "OpClosure" =>
        <<Instruction.args[1] + 1, Instruction.args[2]>> \in Closures(Frame.cl.fn)
  BY <1>1 DEF Closures, Instruction
<1>4. QED
  BY <1>1, <1>2, <1>3 DEF Linked, Instruction

LEMMA ConstantStep ==
  ASSUME NEW b, NEW S, Assumed(b, S), Constant
  PROVE  IInv'
<1>1. Running /\ Instruction.op = "OpConstant" /\ Replace(0, ConstantObject(Operand(1) + 1))
  BY DEF Constant, Executing, Push
<1>2. Operand(1) + 1 \in DOMAIN pool /\ pool[Operand(1) + 1].type \in {"INTEGER", "STRING"}
  BY <1>1, LinkedHere DEF Operand
<1>3. Result(b, S, ConstantObject(Operand(1) + 1))
  BY <1>2, ConstantResult
<1>4. Pops(Instruction) = 0 /\ Pushes(Instruction) = 1
  BY <1>1 DEF Pops, Pushes
<1>5. FollowingPc \in Successors(Frame.cl.fn, Frame.pc)
  BY <1>1, Onward DEF Returns
<1>6. QED
  BY <1>1, <1>3, <1>4, <1>5, Replaced

LEMMA BinaryOperationStep ==
  ASSUME NEW b, NEW S, Assumed(b, S), BinaryOperation
  PROVE  IInv'
<1>1. Running /\ Instruction.op \in {"OpAdd", "OpSub", "OpMul", "OpDiv"}
      /\ Replace(2, BinaryResult(Instruction.op, Top(2), Top(1)))
  BY DEF BinaryOperation, Executing
<1>2. Pops(Instruction) = 2 /\ Pushes(Instruction) = 1
  BY <1>1 DEF Pops, Pushes
<1>3. 2 <= Height /\ AllSound(b, S)
  BY <1>1, <1>2, Here
<1>4. Top(1) \in S /\ Top(2) \in S
  BY <1>1, <1>3, Readables
<1>5. Result(b, S, BinaryResult(Instruction.op, Top(2), Top(1)))
  BY <1>1, <1>3, <1>4, OperatorResults
<1>6. FollowingPc \in Successors(Frame.cl.fn, Frame.pc)
  BY <1>1, Onward DEF Returns
<1>7. QED
  BY <1>1, <1>2, <1>5, <1>6, Replaced

LEMMA SingletonStep ==
  ASSUME NEW b, NEW S, Assumed(b, S), Singleton
  PROVE  IInv'
<1> DEFINE r == IF Instruction.op = "OpNull" THEN Null ELSE Boolean(Instruction.op = "OpTrue")
<1>1. Running /\ Instruction.op \in {"OpTrue", "OpFalse", "OpNull"} /\ Replace(0, r)
  BY DEF Singleton, Executing, Push
<1>2. Result(b, S, r)
  BY AtomResults
<1> HIDE DEF r
<1>3. Pops(Instruction) = 0 /\ Pushes(Instruction) = 1
  BY <1>1 DEF Pops, Pushes
<1>4. FollowingPc \in Successors(Frame.cl.fn, Frame.pc)
  BY <1>1, Onward DEF Returns
<1>5. QED
  BY <1>1, <1>2, <1>3, <1>4, Replaced

LEMMA ComparisonStep ==
  ASSUME NEW b, NEW S, Assumed(b, S), Comparison
  PROVE  IInv'
<1>1. Running /\ Instruction.op \in {"OpEqual", "OpNotEqual", "OpGreaterThan"}
      /\ Replace(2, ComparisonResult(Instruction.op, Top(2), Top(1)))
  BY DEF Comparison, Executing
<1>2. Pops(Instruction) = 2 /\ Pushes(Instruction) = 1
  BY <1>1 DEF Pops, Pushes
<1>3. 2 <= Height /\ AllSound(b, S)
  BY <1>1, <1>2, Here
<1>4. Top(1) \in S /\ Top(2) \in S
  BY <1>1, <1>3, Readables
<1>5. Result(b, S, ComparisonResult(Instruction.op, Top(2), Top(1)))
  BY <1>1, <1>3, <1>4, OperatorResults
<1>6. FollowingPc \in Successors(Frame.cl.fn, Frame.pc)
  BY <1>1, Onward DEF Returns
<1>7. QED
  BY <1>1, <1>2, <1>5, <1>6, Replaced

LEMMA PrefixStep ==
  ASSUME NEW b, NEW S, Assumed(b, S), Bang \/ PrefixMinus
  PROVE  IInv'
<1>1. PICK r \in {BangResult(Top(1)), MinusResult(Top(1))} :
        Running /\ Instruction.op \in {"OpBang", "OpPrefixMinus"} /\ Replace(1, r)
  BY DEF Bang, PrefixMinus, Executing
<1>2. Pops(Instruction) = 1 /\ Pushes(Instruction) = 1
  BY <1>1 DEF Pops, Pushes
<1>3. 1 <= Height /\ AllSound(b, S)
  BY <1>1, <1>2, Here
<1>4. Top(1) \in S
  BY <1>1, <1>3, Readables
<1>5. Result(b, S, r)
  BY <1>1, <1>3, <1>4, OperatorResults
<1>6. FollowingPc \in Successors(Frame.cl.fn, Frame.pc)
  BY <1>1, Onward DEF Returns
<1>7. QED
  BY <1>1, <1>2, <1>5, <1>6, Replaced

LEMMA IndexExpressionStep ==
  ASSUME NEW b, NEW S, Assumed(b, S), IndexExpression
  PROVE  IInv'
<1>1. Running /\ Instruction.op = "OpIndex" /\ Replace(2, IndexResult(Top(2), Top(1)))
  BY DEF IndexExpression, Executing
<1>2. Pops(Instruction) = 2 /\ Pushes(Instruction) = 1
  BY <1>1 DEF Pops, Pushes
<1>3. 2 <= Height /\ AllSound(b, S)
  BY <1>1, <1>2, Here
<1>4. Top(1) \in S /\ Top(2) \in S
  BY <1>1, <1>3, Readables
<1>5. Result(b, S, IndexResult(Top(2), Top(1)))
  BY <1>3, <1>4, IndexResults
<1>6. FollowingPc \in Successors(Frame.cl.fn, Frame.pc)
  BY <1>1, Onward DEF Returns
<1>7. QED
  BY <1>1, <1>2, <1>5, <1>6, Replaced

(* What is built of the topmost values.                                    *)
LEMMA BuildStep ==
  ASSUME NEW b, NEW S, Assumed(b, S), BuildArray \/ BuildHash
  PROVE  IInv'
<1> DEFINE n == Operand(1)
<1>1. PICK r \in {ArrayObject(Args(n), Address), HashResult(Args(n))} :
        /\ Running /\ Instruction.op \in {"OpArray", "OpHash"} /\ Replace(n, r)
        /\ r = ArrayObject(Args(n), Address) \/ Instruction.op = "OpHash"
  BY DEF BuildArray, BuildHash, Executing
<1>2. Pops(Instruction) = n /\ Pushes(Instruction) = 1
  BY <1>1 DEF Pops, Pushes, Operand
<1>3. n \in Nat /\ n <= Height
  BY <1>1, <1>2, Here, PopsAndPushes
<1>4. Instruction.op = "OpHash" => n % 2 = 0
  BY <1>1, LinkedHere DEF Operand
<1> HIDE DEF n
<1>5. Args(n) \in Seq(S) /\ Len(Args(n)) = n
  BY <1>1, <1>3, Readables
<1>6. Result(b, S, ArrayObject(Args(n), Address))
  BY <1>5, ArrayResult
<1>7. Instruction.op = "OpHash" => Result(b, S, HashResult(Args(n)))
  BY <1>4, <1>5, HashResults
<1>8. Result(b, S, r)
  BY <1>1, <1>6, <1>7
<1>9. FollowingPc \in Successors(Frame.cl.fn, Frame.pc)
  BY <1>1, Onward DEF Returns
<1>10. QED
  BY <1>1, <1>2, <1>8, <1>9, Replaced

LEMMA GetGlobalStep ==
  ASSUME NEW b, NEW S, Assumed(b, S), GetGlobal
  PROVE  IInv'
<1> DEFINE r == IF Operand(1) \in DOMAIN globals THEN globals[Operand(1)] ELSE Nil
<1>1. Running /\ Instruction.op = "OpGetGlobal" /\ Replace(0, r)
  BY DEF GetGlobal, Executing, Push
<1>2. Result(b, S, r)
  <2>1. \A g \in DOMAIN globals : globals[g] \in S
    BY DEF Assumed, SoundState
  <2>2. Result(b, S, Nil)
    BY DEF Nil, Result, Sound, ValueTypes
  <2>3. AllSound(b, S)
    BY <1>1, Here
  <2>4. QED
    BY <2>1, <2>2, <2>3, InnerResult
<1> HIDE DEF r
<1>3. Pops(Instruction) = 0 /\ Pushes(Instruction) = 1
  BY <1>1 DEF Pops, Pushes
<1>4. FollowingPc \in Successors(Frame.cl.fn, Frame.pc)
  BY <1>1, Onward DEF Returns
<1>5. QED
  BY <1>1, <1>2, <1>3, <1>4, Replaced

(* Beyond the end of the stack there are locals that no frame can have.    *)
LEMMA GetLocalStep ==
  ASSUME NEW b, NEW S, Assumed(b, S), GetLocal
  PROVE  IInv'
<1> DEFINE slot == Frame.base + Operand(1)
           r == IF slot \in DOMAIN stack THEN stack[slot] ELSE Failure("index out of range")
<1>1. Running /\ Instruction.op = "OpGetLocal" /\ Replace(0, r)
  BY DEF GetLocal, Executing, Push
<1>2. Result(b, S, r) \/ Overrun(r)
  <2>1. stack \in [0 .. StackSize - 1 -> S]
    BY DEF Assumed, SoundState
  <2>2. CASE slot \in DOMAIN stack
    <3>1. r \in S
      BY <2>1, <2>2
    <3>2. AllSound(b, S)
      BY <1>1, Here
    <3>3. QED
      BY <3>1, <3>2, InnerResult
  <2>3. CASE slot \notin DOMAIN stack
    <3>1. Operand(1) \in Nat /\ Operand(1) < Frame.cl.fn.numLocals
      <4>1. IsInstruction(Instruction) /\ Instruction.args[1] < Frame.cl.fn.numLocals
        BY <1>1, Here, LinkedHere
      <4>2. Instruction.args[1] \in Nat
        BY <1>1, <4>1, Operands DEF OneByteOperand
      <4>3. QED
        BY <4>1, <4>2 DEF Operand
    <3>2. Frame.base \in Nat /\ Frame.cl.fn.numLocals \in Nat
      BY <1>1, Here DEF FrameSet, Runnable
    <3>3. slot \notin 0 .. StackSize - 1
      BY <2>1, <2>3
    <3>4. Frame.base + Frame.cl.fn.numLocals > StackSize
      BY <3>1, <3>2, <3>3, SizesAssumption
    <3>5. r = Failure("index out of range")
      BY <2>3
    <3>6. QED
      BY <3>4, <3>5 DEF Overrun, Floor
  <2>4. QED
    BY <2>2, <2>3
<1> HIDE DEF r
<1>3. Pops(Instruction) = 0 /\ Pushes(Instruction) = 1
  BY <1>1 DEF Pops, Pushes
<1>4. FollowingPc \in Successors(Frame.cl.fn, Frame.pc)
  BY <1>1, Onward DEF Returns
<1>5. QED
  BY <1>1, <1>2, <1>3, <1>4, Replaced

LEMMA GetBuiltinStep ==
  ASSUME NEW b, NEW S, Assumed(b, S), GetBuiltin
  PROVE  IInv'
<1> DEFINE r == IF Operand(1) + 1 \in DOMAIN Builtins
                THEN BuiltinFn(Operand(1)) ELSE Failure("index out of range")
<1>1. Running /\ Instruction.op = "OpGetBuiltin" /\ Replace(0, r)
  BY DEF GetBuiltin, Executing, Push
<1>2. Operand(1) + 1 \in DOMAIN Builtins
  <2>1. IsInstruction(Instruction) /\ Instruction.args[1] < Len(Builtins)
    BY <1>1, Here, LinkedHere
  <2>2. Instruction.args[1] \in Nat
    BY <1>1, <2>1, Operands DEF OneByteOperand
  <2>3. Len(Builtins) \in Nat /\ DOMAIN Builtins = 1 .. Len(Builtins)
    BY BuiltinsAssumption, LenProperties
  <2>4. QED
    BY <2>1, <2>2, <2>3 DEF Operand
<1>3. Result(b, S, r)
  <2>1. r = BuiltinFn(Operand(1))
    BY <1>2
  <2>2. Result(b, S, BuiltinFn(Operand(1)))
    BY <1>2, AtomResults
  <2>3. QED
    BY <2>1, <2>2
<1> HIDE DEF r
<1>4. Pops(Instruction) = 0 /\ Pushes(Instruction) = 1
  BY <1>1 DEF Pops, Pushes
<1>5. FollowingPc \in Successors(Frame.cl.fn, Frame.pc)
  BY <1>1, Onward DEF Returns
<1>6. QED
  BY <1>1, <1>3, <1>4, <1>5, Replaced

LEMMA MakeClosureStep ==
  ASSUME NEW b, NEW S, Assumed(b, S), MakeClosure
  PROVE  IInv'
<1> DEFINE n == Operand(2)
           k == Operand(1) + 1
<1>1. Running /\ Instruction.op = "OpClosure" /\ Replace(n, ClosureResult(k, Args(n)))
  BY DEF MakeClosure, Executing
<1>2. Pops(Instruction) = n /\ Pushes(Instruction) = 1
  BY <1>1 DEF Pops, Pushes, Operand
<1>3. n \in Nat /\ n <= Height
  BY <1>1, <1>2, Here, PopsAndPushes
<1>4. <<k, n>> \in ClosuresOf(b)
  BY <1>1, LinkedHere DEF Operand
<1> HIDE DEF n, k
<1>5. Args(n) \in Seq(S) /\ Len(Args(n)) = n
  BY <1>1, <1>3, Readables
<1>6. b \in Bytecodes /\ pool = b.constants
  BY <1>1, Here
<1>7. Result(b, S, ClosureResult(k, Args(n)))
  BY <1>4, <1>5, <1>6, ClosureResults
<1>8. FollowingPc \in Successors(Frame.cl.fn, Frame.pc)
  BY <1>1, Onward DEF Returns
<1>9. QED
  BY <1>1, <1>2, <1>7, <1>8, Replaced

LEMMA GetFreeStep ==
  ASSUME NEW b, NEW S, Assumed(b, S), GetFree
  PROVE  IInv'
<1> DEFINE free == Frame.cl.free
           r == IF Operand(1) + 1 \in DOMAIN free THEN free[Operand(1) + 1]
                ELSE Failure("index out of range")
<1>1. Running /\ Instruction.op = "OpGetFree" /\ Replace(0, r)
  BY DEF GetFree, Executing, Push
<1>2. r \in S
  <2>1. IsInstruction(Instruction) /\ Instruction.args[1] < Len(free) /\ free \in Seq(S)
    BY <1>1, Here, LinkedHere
  <2>2. Instruction.args[1] \in Nat
    BY <1>1, <2>1, Operands DEF OneByteOperand
  <2>3. Len(free) \in Nat /\ DOMAIN free = 1 .. Len(free)
    BY <2>1, LenProperties
  <2>4. Operand(1) + 1 \in 1 .. Len(free)
    BY <2>1, <2>2, <2>3 DEF Operand
  <2>5. QED
    BY <2>1, <2>3, <2>4, ElementOfSeq
<1> HIDE DEF r
<1>3. Result(b, S, r)
  BY <1>1, <1>2, Here, InnerResult
<1>4. Pops(Instruction) = 0 /\ Pushes(Instruction) = 1
  BY <1>1 DEF Pops, Pushes
<1>5. FollowingPc \in Successors(Frame.cl.fn, Frame.pc)
  BY <1>1, Onward DEF Returns
<1>6. QED
  BY <1>1, <1>3, <1>4, <1>5, Replaced

(* A built-in function in place of itself and its arguments.               *)
LEMMA CallBuiltinStep ==
  ASSUME NEW b, NEW S, Assumed(b, S), CallBuiltin
  PROVE  IInv'
<1> DEFINE n == Operand(1)
           fn == Top(n + 1)
           name == Builtins[fn.index + 1]
           result == BuiltinResult(name, Args(n), Address)
           r == IF result = Nil THEN Null ELSE result
<1>1. Running /\ Instruction.op = "OpCall" /\ fn.type = "BUILTIN" /\ Replace(n + 1, r)
  BY DEF CallBuiltin, Calling, Executing
<1>2. Pops(Instruction) = n + 1 /\ Pushes(Instruction) = 1
  BY <1>1 DEF Pops, Pushes, Operand
<1>3. n \in Nat
  BY <1>1, Here, Operands DEF Operand, OneByteOperand
<1>4. n + 1 <= Height /\ Height \in Nat /\ AllSound(b, S)
  BY <1>1, <1>2, Here
<1>5. Args(n) \in Seq(S) /\ fn \in S
  <2> HIDE DEF n
  <2>1. n <= Height /\ n + 1 \in Nat
    BY <1>3, <1>4
  <2>2. QED
    BY <1>1, <1>3, <1>4, <2>1, Readables
<1>6. name \in {"len", "puts", "first", "last", "rest", "push"}
  <2>1. fn.index + 1 \in DOMAIN Builtins
    BY <1>1, <1>4, <1>5 DEF AllSound, Sound
  <2>2. QED
    BY <2>1, BuiltinsAssumption, LenProperties, ElementOfSeq
<1> HIDE DEF n, fn, name
<1>7. Result(b, S, r)
  BY <1>4, <1>5, <1>6, BuiltinResults, AtomResults
<1> HIDE DEF r
<1>8. FollowingPc \in Successors(Frame.cl.fn, Frame.pc)
  BY <1>1, Onward DEF Returns
<1>9. QED
  BY <1>1, <1>2, <1>7, <1>8, Replaced

(* The topmost value is popped and what is below the frame stays; q is     *)
(* where control goes.                                                     *)
LEMMA Dropped ==
  ASSUME NEW b, NEW S, Assumed(b, S), Running,
         Pops(Instruction) = 1, Pushes(Instruction) = 0,
         NEW q \in Successors(Frame.cl.fn, Frame.pc),
         NEW st \in [0 .. StackSize - 1 -> S],
         \A i \in 0 .. StackSize - 1 : i < Frame.base => st[i] = stack[i],
         NEW gl, \A g \in DOMAIN gl : gl[g] \in S
  PROVE  SoundState(b, S, pool, st, sp - 1, FramesAt(q), gl, "running")
<1> DEFINE s == sp - 1
<1>1. 1 <= Height /\ Height \in Nat /\ AllSound(b, S) /\ sp \in Nat /\ (Height # 0 => sp <= StackSize)
  BY Here
<1>2. s = sp - Pops(Instruction) + Pushes(Instruction)
  BY <1>1
<1>3. s <= StackSize
  BY <1>1, SizesAssumption
<1> HIDE DEF s
<1>4. SoundState(b, S, pool, st, s, FramesAt(q), gl, "running")
  BY <1>1, <1>2, <1>3, Advanced
<1>5. QED
  BY <1>4 DEF s

LEMMA PopStep ==
  ASSUME NEW b, NEW S, Assumed(b, S), Pop
  PROVE  IInv'
<1>1. Running /\ Instruction.op = "OpPop"
  BY DEF Pop, Executing
<1>2. Pops(Instruction) = 1 /\ Pushes(Instruction) = 0
  BY <1>1 DEF Pops, Pushes
<1>3. 1 <= Height
  BY <1>1, <1>2, Here
<1>4. Readable(1)
  BY <1>1, <1>3, Readables
<1>5. /\ sp' = sp - 1 /\ frames' = FramesAt(FollowingPc) /\ pool' = pool /\ stack' = stack
      /\ globals' = globals /\ outcome' = outcome /\ outcome = "running"
  BY <1>1, <1>4 DEF Pop, FramesAdvanced, FollowingPc, Running
<1>6. FollowingPc \in Successors(Frame.cl.fn, Frame.pc)
  BY <1>1, Onward DEF Returns
<1>7. stack \in [0 .. StackSize - 1 -> S] /\ \A g \in DOMAIN globals : globals[g] \in S
  BY DEF Assumed, SoundState
<1>8. SoundState(b, S, pool, stack, sp - 1, FramesAt(FollowingPc), globals, "running")
  BY <1>1, <1>2, <1>6, <1>7, Dropped
<1>9. QED
  BY <1>5, <1>8 DEF IInv

LEMMA JumpStep ==
  ASSUME NEW b, NEW S, Assumed(b, S), Jump
  PROVE  IInv'
<1> DEFINE q == Operand(1)
<1>1. /\ Running /\ Instruction.op = "OpJump" /\ frames' = FramesAt(q) /\ outcome = "running"
      /\ pool' = pool /\ stack' = stack /\ sp' = sp /\ globals' = globals /\ outcome' = outcome
  BY DEF Jump, Executing, Running
<1>2. Pops(Instruction) = 0 /\ Pushes(Instruction) = 0
  BY <1>1 DEF Pops, Pushes
<1>3. q \in Successors(Frame.cl.fn, Frame.pc)
  BY <1>1 DEF Successors, Instruction, Operand, Returns
<1>4. stack \in [0 .. StackSize - 1 -> S] /\ \A g \in DOMAIN globals : globals[g] \in S
  BY DEF Assumed, SoundState
<1>5. sp <= StackSize \/ sp = Floor(Frame)
  BY DEF Assumed, SoundState, SoundFrames, Frame
<1>6. sp = sp - Pops(Instruction) + Pushes(Instruction) /\ AllSound(b, S)
  BY <1>1, <1>2, Here
<1> HIDE DEF q
<1>7. SoundState(b, S, pool, stack, sp, FramesAt(q), globals, "running")
  BY <1>1, <1>3, <1>4, <1>5, <1>6, Advanced
<1>8. QED
  BY <1>1, <1>7 DEF IInv

LEMMA JumpNotTruthyStep ==
  ASSUME NEW b, NEW S, Assumed(b, S), JumpNotTruthy
  PROVE  IInv'
<1> DEFINE q == IF IsTruthy(Top(1)) THEN FollowingPc ELSE Operand(1)
<1>1. Running /\ Instruction.op = "OpJumpNotTruthy"
  BY DEF JumpNotTruthy, Executing
<1>2. Pops(Instruction) = 1 /\ Pushes(Instruction) = 0
  BY <1>1 DEF Pops, Pushes
<1>3. 1 <= Height
  BY <1>1, <1>2, Here
<1>4. Readable(1)
  BY <1>1, <1>3, Readables
<1>5. /\ sp' = sp - 1 /\ frames' = FramesAt(q) /\ pool' = pool /\ stack' = stack
      /\ globals' = globals /\ outcome' = outcome /\ outcome = "running"
  BY <1>1, <1>4 DEF JumpNotTruthy, FramesAdvanced, FollowingPc, Running
<1>6. q \in Successors(Frame.cl.fn, Frame.pc)
  <2>1. Operand(1) \in Successors(Frame.cl.fn, Frame.pc)
    BY <1>1 DEF Successors, Instruction, Operand, Returns
  <2>2. FollowingPc \in Successors(Frame.cl.fn, Frame.pc)
    BY <1>1, Onward DEF Returns
  <2>3. QED
    BY <2>1, <2>2
<1>7. stack \in [0 .. StackSize - 1 -> S] /\ \A g \in DOMAIN globals : globals[g] \in S
  BY DEF Assumed, SoundState
<1> HIDE DEF q
<1>8. SoundState(b, S, pool, stack, sp - 1, FramesAt(q), globals, "running")
  BY <1>1, <1>2, <1>6, <1>7, Dropped
<1>9. QED
  BY <1>5, <1>8 DEF IInv

LEMMA SetGlobalStep ==
  ASSUME NEW b, NEW S, Assumed(b, S), SetGlobal
  PROVE  IInv'
<1> DEFINE gl == [g \in DOMAIN globals \union {Operand(1)} |->
                    IF g = Operand(1) THEN Top(1) ELSE globals[g]]
<1>1. Running /\ Instruction.op = "OpSetGlobal"
  BY DEF SetGlobal, Executing
<1>2. Pops(Instruction) = 1 /\ Pushes(Instruction) = 0
  BY <1>1 DEF Pops, Pushes
<1>3. 1 <= Height
  BY <1>1, <1>2, Here
<1>4. Readable(1) /\ Top(1) \in S
  BY <1>1, <1>3, Readables
<1>5. /\ sp' = sp - 1 /\ frames' = FramesAt(FollowingPc) /\ pool' = pool /\ stack' = stack
      /\ globals' = gl /\ outcome' = outcome /\ outcome = "running"
  BY <1>1, <1>4 DEF SetGlobal, FramesAdvanced, FollowingPc, Running
<1>6. FollowingPc \in Successors(Frame.cl.fn, Frame.pc)
  BY <1>1, Onward DEF Returns
<1>7. stack \in [0 .. StackSize - 1 -> S] /\ \A g \in DOMAIN gl : gl[g] \in S
  BY <1>4 DEF Assumed, SoundState
<1> HIDE DEF gl
<1>8. SoundState(b, S, pool, stack, sp - 1, FramesAt(FollowingPc), gl, "running")
  BY <1>1, <1>2, <1>6, <1>7, Dropped
<1>9. QED
  BY <1>5, <1>8 DEF IInv

(* The slot is one of the running frame's, and below what it pops.         *)
LEMMA SetLocalStep ==
  ASSUME NEW b, NEW S, Assumed(b, S), SetLocal
  PROVE  IInv'
<1> DEFINE slot == Frame.base + Operand(1)
           st == [stack EXCEPT ![slot] = Top(1)]
<1>1. Running /\ Instruction.op = "OpSetLocal"
  BY DEF SetLocal, Executing
<1>2. Pops(Instruction) = 1 /\ Pushes(Instruction) = 0
  BY <1>1 DEF Pops, Pushes
<1>3. 1 <= Height
  BY <1>1, <1>2, Here
<1>4. Readable(1) /\ Top(1) \in S
  BY <1>1, <1>3, Readables
<1>5. stack \in [0 .. StackSize - 1 -> S] /\ \A g \in DOMAIN globals : globals[g] \in S
  BY DEF Assumed, SoundState
<1>6. Operand(1) \in Nat /\ Operand(1) < Frame.cl.fn.numLocals
  <2>1. IsInstruction(Instruction) /\ Instruction.args[1] < Frame.cl.fn.numLocals
    BY <1>1, Here, LinkedHere
  <2>2. Instruction.args[1] \in Nat
    BY <1>1, <2>1, Operands DEF OneByteOperand
  <2>3. QED
    BY <2>1, <2>2 DEF Operand
<1>7. slot \in 0 .. StackSize - 1 /\ Frame.base \in Nat /\ slot >= Frame.base
  <2>1. Frame.base \in Nat /\ Frame.cl.fn.numLocals \in Nat
    BY <1>1, Here DEF FrameSet, Runnable
  <2>2. sp \in Nat /\ sp <= StackSize /\ Height = sp - (Frame.base + Frame.cl.fn.numLocals)
    BY <1>1, <1>3, Here DEF Height, Floor
  <2>3. QED
    BY <1>3, <1>6, <2>1, <2>2, SizesAssumption
<1>8. /\ sp' = sp - 1 /\ frames' = FramesAt(FollowingPc) /\ pool' = pool /\ stack' = st
      /\ globals' = globals /\ outcome' = outcome /\ outcome = "running"
  <2>1. slot \in DOMAIN stack
    BY <1>5, <1>7
  <2>2. QED
    BY <1>1, <1>4, <2>1 DEF SetLocal, FramesAdvanced, FollowingPc, Running
<1>9. FollowingPc \in Successors(Frame.cl.fn, Frame.pc)
  BY <1>1, Onward DEF Returns
<1>10. st \in [0 .. StackSize - 1 -> S]
       /\ \A i \in 0 .. StackSize - 1 : i < Frame.base => st[i] = stack[i]
  BY <1>4, <1>5, <1>7
<1> HIDE DEF st
<1>11. SoundState(b, S, pool, st, sp - 1, FramesAt(FollowingPc), globals, "running")
  BY <1>1, <1>2, <1>5, <1>9, <1>10, Dropped
<1>12. QED
  BY <1>8, <1>11 DEF IInv

(* What is called is below its arguments.                                  *)
LEMMA Callee ==
  ASSUME NEW b, NEW S, Assumed(b, S), Running, Instruction.op = "OpCall"
  PROVE  /\ Operand(1) \in Nat /\ Operand(1) + 1 <= Height
         /\ Top(Operand(1) + 1) \in S
         /\ sp - Operand(1) - 1 \in 0 .. StackSize - 1
         /\ sp - 1 - Operand(1) \in DOMAIN stack
<1> DEFINE n == Operand(1)
<1>1. Pops(Instruction) = n + 1
  BY DEF Pops, Operand
<1>2. n \in Nat
  BY Here, Operands DEF Operand, OneByteOperand
<1>3. n + 1 <= Height /\ sp \in Nat
  BY <1>1, Here
<1> HIDE DEF n
<1>4. Top(n + 1) \in S /\ sp - (n + 1) \in 0 .. StackSize - 1
  <2>1. n + 1 \in Nat /\ n + 1 \in 1 .. n + 1
    BY <1>2
  <2>2. QED
    BY <1>3, <2>1, Readables
<1>5. sp - n - 1 \in 0 .. StackSize - 1 /\ sp - 1 - n \in 0 .. StackSize - 1
  BY <1>2, <1>3, <1>4
<1>6. DOMAIN stack = 0 .. StackSize - 1
  BY DEF Assumed, SoundState
<1>7. QED
  BY <1>2, <1>3, <1>4, <1>5, <1>6 DEF n

LEMMA CallOtherStep ==
  ASSUME NEW b, NEW S, Assumed(b, S), CallOther
  PROVE  IInv'
<1>1. Running /\ Instruction.op = "OpCall"
  BY DEF CallOther, Executing
<1>2. sp - 1 - Operand(1) \in DOMAIN stack
  BY <1>1, Callee
<1>3. Fail("not callable")
  BY <1>2 DEF CallOther
<1>4. SoundState(b, S, pool', stack', sp', frames', globals', outcome')
  BY <1>1, <1>3, Failed, Failures
<1>5. QED
  BY <1>4 DEF IInv

(* A new frame above the others, with the locals above it.                 *)
LEMMA FramePushed ==
  ASSUME NEW b \in Bytecodes, NEW S, AllSound(b, S), NEW st, NEW base, NEW fs,
         SoundFrames(b, S, st, base, fs), Len(fs) < MaxFrames,
         NEW cl \in S, cl.type = "CLOSURE",
         base \in 1 .. StackSize, base - 1 >= Floor(fs[Len(fs)]), st[base - 1] = cl
  PROVE  SoundFrames(b, S, st, base + cl.fn.numLocals, Append(fs, NewFrame(cl, base)))
<1> DEFINE n == Len(fs)
           f == NewFrame(cl, base)
           gs == Append(fs, f)
           s == base + cl.fn.numLocals
<1>1. n \in Nat \ {0} /\ fs \in Seq(FrameSet(b, S)) /\ n \in 1 .. n /\ base \in Nat
  BY LenProperties, SizesAssumption DEF SoundFrames
<1>2. f.cl = cl /\ f.pc = 0 /\ f.base = base /\ f \in FrameSet(b, S)
  BY <1>1 DEF NewFrame, FrameSet
<1> HIDE DEF f
<1>3. gs \in Seq(FrameSet(b, S)) /\ Len(gs) = n + 1
      /\ gs[n + 1] = f /\ \A d \in 1 .. n : gs[d] = fs[d]
  BY <1>1, <1>2, AppendProperties
<1> HIDE DEF gs
<1>4. RunnableFunction(b, cl.fn, Len(cl.free))
  BY DEF AllSound, Sound
<1>5. Balanced(cl.fn) /\ cl.fn.numLocals \in Nat
  BY <1>4 DEF RunnableFunction, Runnable
<1>6. 0 \in Ends(cl.fn) /\ Heights(cl.fn)[0] = {0}
  BY <1>5, Entry DEF Balanced
<1>7. s \in Nat /\ Floor(f) = s
  BY <1>1, <1>2, <1>5 DEF Floor
<1> HIDE DEF s
<1>8. ASSUME NEW d \in 1 .. n + 1 PROVE InCode(gs, s, d)
  <2>1. CASE d = n + 1
    <3>1. Ceiling(gs, s, d) = s /\ gs[d] = f
      BY <1>1, <1>3, <2>1 DEF Ceiling
    <3>2. s - Floor(f) = 0
      BY <1>7
    <3>3. QED
      BY <1>2, <1>6, <3>1, <3>2 DEF InCode
  <2>2. CASE d # n + 1
    <3>1. d \in 1 .. n
      BY <1>1, <2>2
    <3>2. InCode(fs, base, d)
      BY <3>1 DEF SoundFrames
    <3>3. gs[d] = fs[d]
      BY <1>3, <3>1
    <3>4. Ceiling(gs, s, d) = Ceiling(fs, base, d)
      <4>1. CASE d = n
        <5>1. Ceiling(gs, s, d) = f.base
          BY <1>1, <1>3, <4>1 DEF Ceiling
        <5>2. Ceiling(fs, base, d) = base
          BY <1>1, <4>1 DEF Ceiling
        <5>3. QED
          BY <5>1, <5>2, <1>2
      <4>2. CASE d # n
        <5>1. d + 1 \in 1 .. n /\ d < n /\ d < n + 1
          BY <1>1, <3>1, <4>2
        <5>2. QED
          BY <1>3, <5>1 DEF Ceiling
      <4>3. QED
        BY <4>1, <4>2
    <3>5. QED
      BY <3>2, <3>3, <3>4 DEF InCode
  <2>3. QED
    BY <2>1, <2>2
<1>9. ASSUME NEW d \in 2 .. n + 1 PROVE Called(S, st, gs, d)
  <2>1. CASE d = n + 1
    <3>1. d - 1 = n /\ gs[d - 1] = fs[n] /\ gs[d] = f
      BY <1>1, <1>3, <2>1
    <3>2. ASSUME NEW c \in 1 .. d PROVE gs[c].base <= f.base
      <4>1. CASE c = d
        BY <1>1, <1>2, <3>1, <4>1
      <4>2. CASE c # d
        <5>1. c \in 1 .. n /\ gs[c] = fs[c]
          BY <1>1, <1>3, <2>1, <4>2
        <5>2. fs[c].base <= fs[n].base
          <6>1. CASE n = 1
            <7>1. c = 1 /\ fs[1].base = 0
              BY <5>1, <6>1 DEF SoundFrames
            <7>2. QED
              BY <6>1, <7>1
          <6>2. CASE n # 1
            <7>1. n \in 2 .. n
              <8> HIDE DEF n
              <8>1. QED
                BY <1>1, <6>2
            <7>2. QED
              BY <5>1, <7>1 DEF SoundFrames, Called
          <6>3. QED
            BY <6>1, <6>2
        <5>3. fs[n] \in FrameSet(b, S) /\ fs[c] \in FrameSet(b, S) /\ fs[n].cl.fn.numLocals \in Nat
          BY <1>1, <5>1, FrameRunnable DEF Runnable
        <5>4. fs[n].base \in Nat /\ fs[c].base \in Nat
          BY <5>3 DEF FrameSet
        <5>5. base - 1 >= fs[n].base + fs[n].cl.fn.numLocals
          BY DEF Floor
        <5>6. fs[c].base <= base
          <6> HIDE DEF n
          <6>1. \A i, j, k, m \in Nat : i <= j /\ m - 1 >= j + k => i <= m
            OBVIOUS
          <6>2. QED
            BY <5>2, <5>3, <5>4, <5>5, <6>1, <1>1
        <5>7. QED
          BY <5>1, <5>6, <1>2
      <4>3. QED
        BY <4>1, <4>2
    <3>3. QED
      BY <3>1, <3>2, <1>2 DEF Called
  <2>2. CASE d # n + 1
    <3>1. d \in 2 .. n /\ d \in 1 .. n /\ d - 1 \in 1 .. n
      BY <1>1, <2>2
    <3>2. Called(S, st, fs, d)
      BY <3>1 DEF SoundFrames
    <3>3. gs[d] = fs[d] /\ gs[d - 1] = fs[d - 1] /\ \A c \in 1 .. d : gs[c] = fs[c]
      BY <1>1, <1>3, <3>1
    <3>4. QED
      BY <3>2, <3>3 DEF Called
  <2>3. QED
    BY <2>1, <2>2
<1>10. gs[1].cl = MainClosure(b.main) /\ gs[1].base = 0
  BY <1>1, <1>3 DEF SoundFrames
<1>11. Len(gs) \in 1 .. MaxFrames
  BY <1>1, <1>3, SizesAssumption
<1>12. Floor(gs[Len(gs)]) = s
  BY <1>3, <1>7
<1>13. SoundFrames(b, S, st, s, gs)
  <2> HIDE DEF n
  <2>1. QED
    BY <1>3, <1>7, <1>8, <1>9, <1>10, <1>11, <1>12 DEF SoundFrames
<1>14. QED
  BY <1>13 DEF s, gs, f

LEMMA CallClosureStep ==
  ASSUME NEW b, NEW S, Assumed(b, S), CallClosure
  PROVE  IInv'
<1> DEFINE n == Operand(1)
           cl == Top(n + 1)
           base == sp - n
<1>1. Running /\ Instruction.op = "OpCall" /\ cl.type = "CLOSURE"
  BY DEF CallClosure, Calling, Executing
<1>2. n \in Nat /\ n + 1 <= Height /\ cl \in S /\ base - 1 \in 0 .. StackSize - 1
  BY <1>1, Callee
<1>3. sp \in Nat /\ Floor(Frame) \in Nat /\ Height = sp - Floor(Frame) /\ Height \in Nat
      /\ AllSound(b, S) /\ b \in Bytecodes /\ Len(frames) \in 1 .. MaxFrames
  BY <1>1, Here DEF Height
<1>4. CASE Fail("wrong number of arguments")
  <2>1. SoundState(b, S, pool', stack', sp', frames', globals', outcome')
    BY <1>1, <1>4, Failed, Failures
  <2>2. QED
    BY <2>1 DEF IInv
<1>5. CASE Len(frames) = MaxFrames /\ Fail("index out of range")
  <2>1. SoundState(b, S, pool', stack', sp', frames', globals', outcome')
    BY <1>1, <1>5, Failed
  <2>2. QED
    BY <2>1 DEF IInv
<1>6. CASE /\ Len(frames) < MaxFrames
           /\ frames' = Append(FramesAdvanced, NewFrame(cl, base))
           /\ sp' = base + cl.fn.numLocals
           /\ UNCHANGED <<pool, stack, globals, allocated, outcome>>
  <2> DEFINE fs == FramesAt(FollowingPc)
  <2>1. FollowingPc \in Successors(Frame.cl.fn, Frame.pc)
    BY <1>1, Onward DEF Returns
  <2>2. Pops(Instruction) = n + 1 /\ Pushes(Instruction) = 1
    BY <1>1 DEF Pops, Pushes, Operand
  <2>3. stack \in [0 .. StackSize - 1 -> S] /\ \A g \in DOMAIN globals : globals[g] \in S
    BY DEF Assumed, SoundState
  <2>4. cl = stack[sp - (n + 1)]
    BY DEF Top
  <2> HIDE DEF cl, n
  <2>5. base = sp - Pops(Instruction) + Pushes(Instruction) /\ base <= StackSize
        /\ base \in 1 .. StackSize /\ base - 1 >= Floor(Frame) /\ base - 1 = sp - (n + 1)
    BY <1>2, <1>3, <2>2, SizesAssumption
  <2> HIDE DEF base, fs
  <2>6. SoundState(b, S, pool, stack, base, fs, globals, "running")
    BY <1>1, <1>3, <2>1, <2>3, <2>5, Advanced DEF fs
  <2>7. SoundFrames(b, S, stack, base, fs)
    BY <2>6 DEF SoundState
  <2>8. Len(fs) = Len(frames) /\ fs[Len(frames)].cl = Frame.cl /\ fs[Len(frames)].base = Frame.base
    <3>1. FollowingPc \in Nat
      <4>1. FollowingPc \in Ends(Frame.cl.fn) /\ Written(Frame.cl.fn)
        BY <1>1, <2>1, Here, Flow DEF Runnable, Balanced
      <4>2. QED
        BY <4>1, Positions
    <3>2. frames \in Seq(FrameSet(b, S)) /\ Len(frames) \in Nat \ {0} /\ Len(frames) \in 1 .. Len(frames)
      BY <1>1, Here
    <3>3. QED
      BY <3>1, <3>2, Moved DEF fs, Frame
  <2>9. Floor(fs[Len(fs)]) = Floor(Frame)
    BY <2>8 DEF Floor
  <2>10. SoundFrames(b, S, stack, base + cl.fn.numLocals, Append(fs, NewFrame(cl, base)))
    BY <1>1, <1>2, <1>3, <1>6, <2>4, <2>5, <2>7, <2>8, <2>9, FramePushed
  <2>11. SoundFrames(b, S, stack', sp', frames') /\ outcome' = "running"
    BY <1>1, <1>6, <2>10 DEF FramesAdvanced, FollowingPc, fs, Running
  <2>12. SoundOutcome(sp', frames', outcome')
    BY <2>11 DEF SoundOutcome
  <2>13. pool' = pool /\ stack' = stack /\ globals' = globals
    BY <1>6
  <2>14. SoundState(b, S, pool', stack', sp', frames', globals', outcome')
    BY <2>6, <2>11, <2>12, <2>13 DEF SoundState
  <2>15. QED
    BY <2>14 DEF IInv
<1>7. QED
  BY <1>4, <1>5, <1>6 DEF CallClosure

(* The topmost frame ends, with a value in place of what was called.       *)
LEMMA FramePopped ==
  ASSUME NEW b \in Bytecodes, NEW S, AllSound(b, S), NEW st \in [0 .. StackSize - 1 -> S],
         NEW s, NEW fs, SoundFrames(b, S, st, s, fs), Len(fs) > 1, NEW v \in S
  PROVE  LET base == fs[Len(fs)].base
         IN  /\ [st EXCEPT ![base - 1] = v] \in [0 .. StackSize - 1 -> S]
             /\ SoundFrames(b, S, [st EXCEPT ![base - 1] = v], base, SubSeq(fs, 1, Len(fs) - 1))
<1> DEFINE n == Len(fs)
           base == fs[n].base
           m == n - 1
           gs == SubSeq(fs, 1, m)
           tt == [st EXCEPT ![base - 1] = v]
<1>1. n \in Nat /\ n \in 2 .. n /\ n \in 1 .. MaxFrames /\ fs \in Seq(FrameSet(b, S))
  BY LenProperties, SizesAssumption DEF SoundFrames
<1>2. Called(S, st, fs, n)
  BY <1>1 DEF SoundFrames
<1>3. base \in 1 .. StackSize /\ base - 1 \in 0 .. StackSize - 1 /\ base \in Nat
  BY <1>2, SizesAssumption DEF Called
<1>4. m \in Nat \ {0} /\ m \in 1 .. m /\ m + 1 = n /\ m < n /\ m \in 1 .. n /\ m \in 1 .. MaxFrames
  BY <1>1, SizesAssumption
<1> HIDE DEF m
<1>5. gs \in Seq(FrameSet(b, S)) /\ Len(gs) = m /\ \A d \in 1 .. m : gs[d] = fs[d]
  <2>1. \A i \in 1 .. m : fs[i] \in FrameSet(b, S)
    BY <1>1, <1>4, ElementOfSeq
  <2>2. /\ SubSeq(fs, 1, m) \in Seq(FrameSet(b, S))
        /\ Len(SubSeq(fs, 1, m)) = IF 1 <= m THEN m - 1 + 1 ELSE 0
        /\ \A i \in 1 .. m - 1 + 1 : SubSeq(fs, 1, m)[i] = fs[1 + i - 1]
    BY <1>4, <2>1, SubSeqProperties
  <2>3. m - 1 + 1 = m /\ 1 <= m /\ \A i \in 1 .. m : 1 + i - 1 = i
    BY <1>4
  <2>4. QED
    BY <2>2, <2>3
<1> HIDE DEF gs
<1>6. base - 1 >= Floor(fs[m])
  <2>1. n - 1 = m
    BY DEF m
  <2>2. QED
    BY <1>2, <2>1 DEF Called
<1> HIDE DEF n
<1>7. /\ fs[m] \in FrameSet(b, S) /\ fs[m].cl.fn.numLocals \in Nat /\ Floor(fs[m]) \in Nat
      /\ fs[m].base \in Nat /\ fs[m].base <= Floor(fs[m])
  <2>1. fs[m] \in FrameSet(b, S) /\ fs[m].cl.fn.numLocals \in Nat /\ Floor(fs[m]) \in Nat
    BY <1>4, FrameRunnable DEF Runnable, n
  <2>2. fs[m].base \in Nat
    BY <2>1 DEF FrameSet
  <2>3. QED
    BY <2>1, <2>2 DEF Floor
<1>8. ASSUME NEW d \in 1 .. m PROVE InCode(gs, base, d)
  <2>1. InCode(fs, s, d) /\ gs[d] = fs[d]
    BY <1>1, <1>4, <1>5 DEF SoundFrames, n
  <2>2. Ceiling(gs, base, d) = Ceiling(fs, s, d)
    <3>1. CASE d = m
      <4>1. Ceiling(gs, base, d) = base
        BY <1>4, <1>5, <3>1 DEF Ceiling
      <4>2. Ceiling(fs, s, d) = fs[d + 1].base
        BY <1>4, <3>1, Zenon DEF Ceiling, n
      <4>3. d + 1 = n
        BY <1>4, <3>1
      <4>4. QED
        BY <4>1, <4>2, <4>3
    <3>2. CASE d # m
      <4>1. d + 1 \in 1 .. m /\ d < m /\ d < n
        BY <1>1, <1>4, <3>2
      <4>2. gs[d + 1] = fs[d + 1]
        BY <1>5, <4>1
      <4>3. Ceiling(gs, base, d) = gs[d + 1].base
        BY <1>5, <4>1 DEF Ceiling
      <4>4. Ceiling(fs, s, d) = fs[d + 1].base
        BY <4>1, Zenon DEF Ceiling, n
      <4>5. QED
        BY <4>2, <4>3, <4>4
    <3>3. QED
      BY <3>1, <3>2
  <2>3. QED
    BY <2>1, <2>2 DEF InCode
<1>9. ASSUME NEW d \in 2 .. m PROVE Called(S, tt, gs, d)
  <2>1. d \in 2 .. n /\ d - 1 \in 1 .. m /\ d \in 1 .. m /\ \A c \in 1 .. d : c \in 1 .. m
    BY <1>1, <1>4
  <2>2. Called(S, st, fs, d)
    BY <2>1 DEF SoundFrames, n
  <2>3. gs[d] = fs[d] /\ gs[d - 1] = fs[d - 1] /\ \A c \in 1 .. d : gs[c] = fs[c]
    BY <1>5, <2>1
  <2>4. fs[d].base <= fs[m].base
    <3>1. m \in 2 .. n
      BY <1>1, <1>4, <2>1
    <3>2. Called(S, st, fs, m)
      BY <3>1 DEF SoundFrames, n
    <3>3. QED
      BY <3>2, <2>1 DEF Called
  <2>5. fs[d].base \in 1 .. StackSize
    BY <2>2 DEF Called
  <2>6. fs[d].base - 1 \in 0 .. StackSize - 1 /\ fs[d].base - 1 # base - 1
    <3>1. \A i, j, k, l \in Nat : i <= j /\ j <= k /\ l - 1 >= k => i - 1 # l - 1
      OBVIOUS
    <3>2. fs[d].base \in Nat /\ fs[d].base - 1 \in 0 .. StackSize - 1
      BY <2>5, SizesAssumption
    <3>3. QED
      BY <3>1, <3>2, <1>3, <1>6, <1>7, <2>4
  <2>7. tt[fs[d].base - 1] = st[fs[d].base - 1]
    BY <2>6
  <2> HIDE DEF tt
  <2>8. QED
    BY <2>2, <2>3, <2>7 DEF Called
<1>10. gs[1].cl = MainClosure(b.main) /\ gs[1].base = 0
  BY <1>4, <1>5 DEF SoundFrames
<1>11. tt \in [0 .. StackSize - 1 -> S]
  BY <1>3
<1>12. base >= Floor(gs[Len(gs)]) /\ base <= StackSize
  <2>1. gs[Len(gs)] = fs[m]
    BY <1>4, <1>5
  <2>2. base >= Floor(fs[m]) /\ base <= StackSize
    BY <1>3, <1>6, <1>7, SizesAssumption
  <2>3. QED
    BY <2>1, <2>2
<1>13. SoundFrames(b, S, tt, base, gs)
  <2> HIDE DEF base, tt
  <2>1. QED
    BY <1>3, <1>4, <1>5, <1>8, <1>9, <1>10, <1>12 DEF SoundFrames
<1>14. QED
  BY <1>11, <1>13 DEF gs, m, n

LEMMA ReturnToStep ==
  ASSUME NEW b, NEW S, Assumed(b, S), Running, Instruction.op \in Returns,
         NEW v \in S, ReturnTo(v)
  PROVE  IInv'
<1> DEFINE n == Len(frames)
<1>1. b \in Bytecodes /\ AllSound(b, S) /\ n \in 1 .. MaxFrames /\ n \in Nat /\ n \in 1 .. n
      /\ Frame.pc \in DOMAIN Frame.cl.fn.ins
  BY Here
<1>2. SoundFrames(b, S, stack, sp, frames) /\ stack \in [0 .. StackSize - 1 -> S]
  BY DEF Assumed, SoundState
<1>3. n # 1
  <2>1. SUFFICES ASSUME n = 1 PROVE FALSE
    OBVIOUS
  <2>2. RunnableMain(b) /\ Frame.cl.fn = MainClosure(b.main).fn
    BY <1>1, <1>2, <2>1, FrameRunnable DEF Frame
  <2>3. Instruction.op \notin Returns
    BY <1>1, <2>2 DEF RunnableMain, Instruction
  <2>4. QED
    BY <2>3
<1>4. n > 1 /\ n \in 2 .. n
  <2> HIDE DEF n
  <2>1. QED
    BY <1>1, <1>3
<1>5. Frame.base > 0
  <2>1. Called(S, stack, frames, n)
    BY <1>2, <1>4 DEF SoundFrames
  <2>2. frames[n].base \in 1 .. StackSize
    BY <2>1 DEF Called
  <2>3. QED
    BY <2>2, SizesAssumption DEF Frame
<1>6. /\ frames' = SubSeq(frames, 1, n - 1)
      /\ stack' = [stack EXCEPT ![Frame.base - 1] = v]
      /\ sp' = Frame.base
      /\ pool' = pool /\ globals' = globals /\ outcome' = outcome /\ outcome = "running"
  <2>1. Frame.base \in Nat
    BY Here DEF FrameSet
  <2>2. ~(Frame.base = 0)
    BY <1>5, <2>1
  <2>3. QED
    BY <2>2 DEF ReturnTo, Running
<1>7. stack' \in [0 .. StackSize - 1 -> S] /\ SoundFrames(b, S, stack', sp', frames')
  <2>1. /\ [stack EXCEPT ![Frame.base - 1] = v] \in [0 .. StackSize - 1 -> S]
        /\ SoundFrames(b, S, [stack EXCEPT ![Frame.base - 1] = v], Frame.base, SubSeq(frames, 1, n - 1))
    BY <1>1, <1>2, <1>4, FramePopped DEF Frame
  <2>2. QED
    BY <1>6, <2>1
<1>8. SoundOutcome(sp', frames', outcome')
  BY <1>6 DEF SoundOutcome
<1>9. SoundState(b, S, pool', stack', sp', frames', globals', outcome')
  BY <1>6, <1>7, <1>8 DEF Assumed, SoundState
<1>10. QED
  BY <1>9 DEF IInv

LEMMA ReturnStep ==
  ASSUME NEW b, NEW S, Assumed(b, S), ReturnValue \/ Return
  PROVE  IInv'
<1>1. CASE ReturnValue
  <2>1. Running /\ Instruction.op = "OpReturnValue" /\ Instruction.op \in Returns
    BY <1>1 DEF ReturnValue, Executing, Returns
  <2>2. Pops(Instruction) = 1
    BY <2>1 DEF Pops
  <2>3. 1 <= Height
    BY <2>1, <2>2, Here
  <2>4. Readable(1) /\ Top(1) \in S
    BY <2>1, <2>3, Readables
  <2>5. ReturnTo(Top(1))
    BY <1>1, <2>4 DEF ReturnValue
  <2>6. QED
    BY <2>1, <2>4, <2>5, ReturnToStep
<1>2. CASE Return
  <2>1. Running /\ Instruction.op \in Returns /\ ReturnTo(Null)
    BY <1>2 DEF Return, Executing, Returns
  <2>2. Null \in S
    BY DEF Assumed, SoundState
  <2>3. QED
    BY <2>1, <2>2, ReturnToStep
<1>3. QED
  BY <1>1, <1>2

(* Code ends in the main frame, with nothing on the stack.                 *)
LEMMA DoneStep ==
  ASSUME NEW b, NEW S, Assumed(b, S), Done
  PROVE  IInv'
<1> DEFINE n == Len(frames)
           fn == frames[n].cl.fn
<1>1. /\ pool' = pool /\ stack' = stack /\ sp' = sp /\ frames' = frames /\ globals' = globals
      /\ outcome' = "done" /\ frames[n].pc >= fn.len
  BY DEF Done, Frame
<1>2. SoundFrames(b, S, stack, sp, frames) /\ b \in Bytecodes /\ AllSound(b, S)
  BY DEF Assumed, SoundState
<1>3. n \in Nat /\ n \in 1 .. n /\ n \in 1 .. MaxFrames
  BY <1>2, LenProperties, SizesAssumption DEF SoundFrames
<1>4. Runnable(b, fn, Len(frames[n].cl.free)) /\ Floor(frames[n]) \in Nat
      /\ (n = 1 => RunnableMain(b) /\ fn = MainClosure(b.main).fn)
      /\ (n > 1 => RunnableFunction(b, fn, Len(frames[n].cl.free)))
  BY <1>2, <1>3, FrameRunnable
<1>5. Written(fn)
  BY <1>4 DEF Runnable, Balanced
<1>6. frames[n].pc \in Ends(fn) /\ sp - Floor(frames[n]) \in Heights(fn)[frames[n].pc]
  BY <1>2, <1>3 DEF SoundFrames, InCode, Ceiling
<1>7. frames[n].pc = fn.len
  BY <1>1, <1>5, <1>6 DEF Written, Ends
<1>8. n = 1
  <2>1. ~(n > 1)
    BY <1>4, <1>6, <1>7 DEF RunnableFunction
  <2> HIDE DEF n
  <2>2. QED
    BY <1>3, <2>1
<1>9. sp = 0
  <2>1. sp - Floor(frames[1]) \in {0}
    BY <1>4, <1>6, <1>7, <1>8 DEF RunnableMain
  <2>2. Floor(frames[1]) = 0
    <3>1. frames[1].cl = MainClosure(b.main) /\ frames[1].base = 0
      BY <1>2 DEF SoundFrames
    <3>2. MainClosure(b.main).fn.numLocals = 0
      BY DEF MainClosure, Closure
    <3>3. QED
      BY <3>1, <3>2 DEF Floor
  <2>3. sp \in Nat
    BY <1>2 DEF SoundFrames
  <2>4. QED
    BY <2>1, <2>2, <2>3
<1>10. SoundOutcome(sp, frames, "done")
  BY <1>8, <1>9 DEF SoundOutcome
<1>11. SoundState(b, S, pool', stack', sp', frames', globals', outcome')
  BY <1>1, <1>10 DEF Assumed, SoundState
<1>12. QED
  BY <1>11 DEF IInv

--------------------------------------------------------------------------------
(***************************************************************************)
(* The invariant, and what follows from it.                                *)
(***************************************************************************)
LEMMA InitHolds ==
  ASSUME Init
  PROVE  IInv
<1>1. PICK b \in Bytecodes :
        /\ pool = b.constants /\ stack = EmptyStack /\ sp = 0
        /\ frames = <<NewFrame(MainClosure(b.main), 0)>>
        /\ globals = [g \in {} |-> g]
        /\ outcome = "running"
  BY DEF Init
<1> DEFINE S == {Nil, Null}
           main == MainClosure(b.main)
           f == NewFrame(main, 0)
<1>2. AllSound(b, S) /\ Null \in S
  BY DEF AllSound, Sound, ValueTypes, Nil, Null
<1>3. stack \in [0 .. StackSize - 1 -> S]
  BY <1>1 DEF EmptyStack
<1>4. f.cl = main /\ f.pc = 0 /\ f.base = 0 /\ f \in FrameSet(b, S)
  BY DEF NewFrame, FrameSet
<1>5. main.fn.numLocals = 0
  BY DEF MainClosure, Closure
<1>6. Balanced(main.fn)
  BY VerifiedRunnable DEF RunnableMain, Runnable
<1>7. 0 \in Ends(main.fn) /\ Heights(main.fn)[0] = {0}
  BY <1>6, Entry DEF Balanced
<1> HIDE DEF main
<1>8. Floor(f) = 0
  BY <1>4, <1>5 DEF Floor
<1> HIDE DEF f
<1>9. frames \in Seq(FrameSet(b, S)) /\ Len(frames) = 1 /\ frames[1] = f
  <2>1. <<f>> \in Seq(FrameSet(b, S)) /\ Len(<<f>>) = 1 /\ <<f>>[1] = f
    BY <1>4
  <2>2. frames = <<f>>
    BY <1>1 DEF f, main
  <2>3. QED
    BY <2>1, <2>2
<1>10. InCode(frames, sp, 1)
  BY <1>1, <1>4, <1>7, <1>8, <1>9 DEF InCode, Ceiling
<1>11. SoundFrames(b, S, stack, sp, frames)
  <2>1. 1 .. Len(frames) = {1} /\ 2 .. Len(frames) = {} /\ Len(frames) \in 1 .. MaxFrames
    BY <1>9, SizesAssumption
  <2>2. sp \in Nat /\ sp >= Floor(f) /\ sp <= StackSize
    BY <1>1, <1>8, SizesAssumption
  <2> HIDE DEF S
  <2>3. QED
    BY <1>4, <1>9, <1>10, <2>1, <2>2 DEF SoundFrames, main
<1>12. SoundOutcome(sp, frames, outcome)
  BY <1>1 DEF SoundOutcome
<1>13. \A g \in DOMAIN globals : globals[g] \in S
  BY <1>1
<1> HIDE DEF S
<1>14. SoundState(b, S, pool, stack, sp, frames, globals, outcome)
  BY <1>1, <1>2, <1>3, <1>11, <1>12, <1>13 DEF SoundState
<1>15. QED
  BY <1>14 DEF IInv

LEMMA NextHolds ==
  ASSUME IInv, [Next \/ Returned]_machine
  PROVE  IInv'
<1>1. PICK b, S : Assumed(b, S)
  BY DEF IInv, Assumed
<1>2. CASE Next
  BY <1>1, <1>2, ConstantStep, BinaryOperationStep, PopStep, SingletonStep, ComparisonStep,
     PrefixStep, JumpStep, JumpNotTruthyStep, SetGlobalStep, GetGlobalStep, BuildStep,
     IndexExpressionStep, CallClosureStep, CallBuiltinStep, CallOtherStep, ReturnStep,
     SetLocalStep, GetLocalStep, GetBuiltinStep, MakeClosureStep, GetFreeStep, DoneStep
     DEF Next
<1>3. CASE UNCHANGED machine
  BY <1>3 DEF IInv, machine
<1>4. QED
  BY <1>2, <1>3 DEF Returned

(* The machine keeps the invariant on all verified code, with stacks and   *)
(* frames of any size.                                                     *)
THEOREM Invariance == Spec => []IInv
<1>1. Init => IInv
  BY InitHolds
<1>2. IInv /\ [Next \/ Returned]_machine => IInv'
  BY NextHolds
<1>3. QED
  BY <1>1, <1>2, PTL DEF Spec

LEMMA InvariantMeans ==
  ASSUME IInv
  PROVE  TypeOK /\ FramesNest /\ StackEmptied /\ ControlAtInstruction /\ IndicesInRange
<1>1. PICK b, S : SoundState(b, S, pool, stack, sp, frames, globals, outcome)
  BY DEF IInv
<1>2. /\ b \in Bytecodes /\ AllSound(b, S)
      /\ stack \in [0 .. StackSize - 1 -> S]
      /\ SoundFrames(b, S, stack, sp, frames)
      /\ SoundOutcome(sp, frames, outcome)
  BY <1>1 DEF SoundState
<1>3. frames \in Seq(FrameSet(b, S)) /\ Len(frames) \in 1 .. MaxFrames /\ Len(frames) \in Nat
      /\ DOMAIN frames = 1 .. Len(frames)
  BY <1>2, LenProperties DEF SoundFrames
<1>4. \A d : Ground(d) = Floor(frames[d])
  BY DEF Ground, Floor
<1>5. TypeOK
  BY <1>2, <1>3 DEF SoundFrames, SoundOutcome, TypeOK
<1>6. FramesNest
  <2>1. sp >= Ground(Len(frames))
    BY <1>2, <1>4 DEF SoundFrames
  <2>2. ASSUME NEW d \in Depths, d > 1
        PROVE  frames[d].base - 1 >= Ground(d - 1) /\ stack[frames[d].base - 1] = frames[d].cl
    <3>1. d \in 2 .. Len(frames)
      BY <1>3, <2>2 DEF Depths
    <3>2. Called(S, stack, frames, d)
      BY <1>2, <3>1 DEF SoundFrames
    <3>3. QED
      BY <3>2, <1>4 DEF Called
  <2>3. QED
    BY <2>1, <2>2 DEF FramesNest
<1>7. StackEmptied
  BY <1>2 DEF SoundOutcome, StackEmptied
<1>8. ControlAtInstruction
  <2>1. SUFFICES ASSUME NEW d \in 1 .. Len(frames)
                 PROVE  \/ frames[d].pc \in DOMAIN frames[d].cl.fn.ins
                        \/ d = 1 /\ frames[d].pc = frames[d].cl.fn.len
    BY <1>3 DEF ControlAtInstruction, Depths
  <2>2. InCode(frames, sp, d)
    BY <1>2 DEF SoundFrames
  <2>3. CASE frames[d].pc \in DOMAIN frames[d].cl.fn.ins
    BY <2>3
  <2>4. CASE frames[d].pc = frames[d].cl.fn.len
    <3>1. Heights(frames[d].cl.fn)[frames[d].cl.fn.len] # {}
      BY <2>2, <2>4 DEF InCode
    <3>2. ~(d > 1)
      BY <1>2, <3>1, FrameRunnable DEF RunnableFunction
    <3>3. d = 1
      BY <1>3, <3>2
    <3>4. QED
      BY <2>4, <3>3
  <2>5. QED
    BY <2>2, <2>3, <2>4 DEF InCode, Ends
<1>9. IndicesInRange
  BY <1>2, <1>4 DEF SoundOutcome, IndicesInRange
<1>10. QED
  BY <1>5, <1>6, <1>7, <1>8, <1>9

(* The machine has its stack, at least the main frame and at most as many  *)
(* as the limit allows, and a run ends or fails in one of the known ways.  *)
THEOREM TypesCorrect == Spec => []TypeOK
<1>1. IInv => TypeOK
  BY InvariantMeans
<1>2. QED
  BY <1>1, Invariance, PTL

(* pop, callClosure and the returns, which never look where a frame begins,*)
(* keep the frames apart.                                                  *)
THEOREM FramesStayApart == Spec => []FramesNest
<1>1. IInv => FramesNest
  BY InvariantMeans
<1>2. QED
  BY <1>1, Invariance, PTL

(* Run leaves no frame and no value behind.                                *)
THEOREM StackLeftEmpty == Spec => []StackEmptied
<1>1. IInv => StackEmptied
  BY InvariantMeans
<1>2. QED
  BY <1>1, Invariance, PTL

(* Run never reads an operand as an opcode, nor runs past the code of a    *)
(* function.                                                               *)
THEOREM ControlInCode == Spec => []ControlAtInstruction
<1>1. IInv => ControlAtInstruction
  BY InvariantMeans
<1>2. QED
  BY <1>1, Invariance, PTL

(* Go's bounds check only ever fails in callClosure and in the instruction *)
(* that reads a local.                                                     *)
THEOREM IndicesExplained == Spec => []IndicesInRange
<1>1. IInv => IndicesInRange
  BY InvariantMeans
<1>2. QED
  BY <1>1, Invariance, PTL

================================================================================
