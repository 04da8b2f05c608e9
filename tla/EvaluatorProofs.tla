----------------------------- MODULE EvaluatorProofs ---------------------------
(***************************************************************************)
(* Proofs about the evaluator, for all trees that the parser can make.     *)
(*                                                                         *)
(* Values are nested, and the properties ask what is inside of them.  The  *)
(* invariant avoids a recursive definition: it says that there is a set S  *)
(* of values that contains what the environments, the calls and the values *)
(* in S hold.  Only an evaluated part enters this set, so what is true of  *)
(* every part is true of everything inside.                                *)
(***************************************************************************)
EXTENDS Evaluation, WellOrder, SequenceTheorems, FiniteSetTheorems

ValueTypes ==
  { "nil", "NIL", "INTEGER", "BOOLEAN", "STRING", "ERROR", "BUILTIN", "ARRAY", "HASH",
    "RETURN_VALUE", "FUNCTION" }

(* A value with the values of S inside and one of n environments. *)
Sound(S, n, v) ==
  /\ v.type \in ValueTypes
  /\ v.type = "nil"          => v = Nil
  /\ v.type = "ARRAY"        => v.elements \in Seq(S)
  /\ v.type = "HASH"         => \A k \in DOMAIN v.pairs : v.pairs[k] \in S
  /\ v.type = "RETURN_VALUE" => v.value \in S
  /\ v.type = "BUILTIN"      => v.index + 1 \in DOMAIN Builtins
  /\ v.type = "FUNCTION"     => /\ v.env \in 1 .. n
                                /\ v.body \in Blocks
                                /\ DOMAIN v.parameters = 1 .. Len(v.parameters)
                                /\ Len(v.parameters) \in Nat

IsSequence(s) == \E T : s \in Seq(T)

SoundEnvs(S, es) ==
  /\ IsSequence(es)
  /\ \A e \in 1 .. Len(es) :
       /\ es[e] = Environment(es[e].store, es[e].outer)
       /\ es[e].outer \in 0 .. e - 1
       /\ \A x \in DOMAIN es[e].store : es[e].store[x] \in S

--------------------------------------------------------------------------------
(* Calls.  The parts that a call has got, gets and will get add up.        *)

Composites ==
  (ExpressionKinds \union {"LetStatement", "ReturnStatement"}) \ Leaves

Count(f) == Len(f.got) + Len(f.rest) + (IF f.do = "part" THEN 1 ELSE 0)

Counted(f) ==
  /\ f.node.kind \in Composites
  /\ f.node.kind \in {"PrefixExpression", "IfExpression", "LetStatement", "ReturnStatement"}
       => Count(f) = 1
  /\ f.node.kind \in {"InfixExpression", "IndexExpression"} => Count(f) = 2
  /\ f.node.kind = "CallExpression" => Count(f) >= 1
  /\ f.node.kind = "HashLiteral" => Count(f) % 2 = 0

EvalFrames(n) == [do : {"eval"}, node : Nodes, env : 1 .. n]
PartFrames(S, n) ==
  { f \in [do : {"parts", "part"}, node : Nodes, env : 1 .. n, rest : Seq(Expressions), got : Seq(S)] :
      Counted(f) }
LoopFrames(n) == [do : {"program", "block"}, rest : Seq(Statements), env : 1 .. n]
ApplyFrames == [do : {"apply"}]

Frames(S, n) == EvalFrames(n) \union PartFrames(S, n) \union LoopFrames(n) \union ApplyFrames

(* A call that evaluates a statement. *)
OfStatement(f) == f.do \in {"eval", "parts", "part"} /\ f.node.kind \in StatementKinds

(* The program is the outermost call, and only the innermost can be        *)
(* between two of its parts.  A statement is evaluated by a block or the   *)
(* program.                                                                *)
Nested(cs) ==
  /\ Len(cs) >= 1
  /\ cs[Len(cs)].do = "program"
  /\ \A i \in 1 .. Len(cs) - 1 : cs[i].do # "program"
  /\ \A i \in 2 .. Len(cs) : cs[i].do \in {"part", "program", "block", "apply"}
  /\ \A i \in 1 .. Len(cs) - 1 : OfStatement(cs[i]) => cs[i + 1].do \in {"program", "block"}

(* How many statements of the program have been taken up, and the last.    *)
Begun(tr, cs) == Len(tr.statements) - Len(cs[Len(cs)].rest)
LastBegun(tr, cs) == tr.statements[Begun(tr, cs)]

InProgram(tr, cs) ==
  /\ Begun(tr, cs) \in Nat
  /\ \A k \in 1 .. Len(cs[Len(cs)].rest) :
       cs[Len(cs)].rest[k] = tr.statements[Begun(tr, cs) + k]
  /\ Len(cs) >= 2 => /\ Begun(tr, cs) >= 1
                     /\ OfStatement(cs[Len(cs) - 1]) /\ cs[Len(cs) - 1].node.kind = "LetStatement"
                          => LastBegun(tr, cs).kind = "LetStatement"

SoundState(S, tr, cs, v, es, en) ==
  /\ tr \in Programs
  /\ \A x \in S : Sound(S, Len(es), x)
  /\ Sound(S, Len(es), v)
  /\ SoundEnvs(S, es)
  /\ cs \in Seq(Frames(S, Len(es)))
  /\ en = "running" => Nested(cs) /\ InProgram(tr, cs)
  /\ en \in {"running", "done", "stack exhausted"} \union Panics

--------------------------------------------------------------------------------
(* What is true of the values until an oddity is met.                      *)

(* A nil is the value only between two statements, and there because of a  *)
(* let statement or because there was no statement yet.                    *)
NilFree(S, tr, cs, v, en, odd) ==
  "no value" \notin odd =>
    /\ \A x \in S : ~Holed(x)
    /\ v = Nil \/ ~Holed(v)
    /\ en = "running" /\ v = Nil =>
         /\ cs[1].do \notin {"part", "apply"}
         /\ Len(cs) < 2 /\ Begun(tr, cs) >= 1 => LastBegun(tr, cs).kind = "LetStatement"
    /\ en # "nil dereference"
    /\ en = "done" => ~Holed(v)

ReturnFree(S, v, en, odd) ==
  "early return" \notin odd =>
    /\ \A x \in S : ~IsReturn(x)
    /\ en = "done" => ~IsReturn(v)

(* The one error is passed on from call to call. *)
ErrorFree(S, cs, v, en, odd, rai) ==
  "unchecked error" \notin odd =>
    /\ \A x \in S : ~IsError(x)
    /\ \A x \in rai : x = v /\ IsError(x)
    /\ IsError(v) => v \in rai
    /\ en = "running" /\ rai # {} => cs[1].do \in {"part", "program", "block", "apply"}

Holds(S) ==
  /\ SoundState(S, tree, calls, value, envs, end)
  /\ NilFree(S, tree, calls, value, end, oddities)
  /\ ReturnFree(S, value, end, oddities)
  /\ ErrorFree(S, calls, value, end, oddities, raised)

IInv == \E S : Holds(S)

--------------------------------------------------------------------------------
(***************************************************************************)
(* Sequences.                                                              *)
(***************************************************************************)

LEMMA Popped ==
  ASSUME NEW T, NEW s \in Seq(T), s # <<>>
  PROVE  /\ Head(s) = s[1] /\ s[1] \in T
         /\ Tail(s) \in Seq(T)
         /\ <<>> \o Tail(s) = Tail(s)
         /\ Len(s) \in Nat \ {0}
         /\ Len(Tail(s)) = Len(s) - 1
         /\ \A i \in 1 .. Len(s) - 1 : Tail(s)[i] = s[i + 1]
<1>1. Len(s) \in Nat \ {0} /\ Head(s) = s[1] /\ Head(s) \in T
  BY EmptySeq, HeadTailProperties
<1>2. Tail(s) \in Seq(T) /\ Len(Tail(s)) = Len(s) - 1
      /\ \A i \in 1 .. Len(Tail(s)) : Tail(s)[i] = s[i + 1]
  BY HeadTailProperties
<1>3. <<>> \o Tail(s) = Tail(s)
  BY <1>2, ConcatEmptySeq
<1>4. QED
  BY <1>1, <1>2, <1>3

LEMMA Replaced ==
  ASSUME NEW T, NEW s \in Seq(T), s # <<>>, NEW f \in T
  PROVE  /\ <<f>> \o Tail(s) \in Seq(T)
         /\ Len(<<f>> \o Tail(s)) = Len(s)
         /\ (<<f>> \o Tail(s))[1] = f
         /\ \A i \in 2 .. Len(s) : (<<f>> \o Tail(s))[i] = s[i]
<1> DEFINE r == <<f>> \o Tail(s)
<1>1. <<f>> \in Seq(T) /\ Len(<<f>>) = 1 /\ <<f>>[1] = f
  OBVIOUS
<1>2. Tail(s) \in Seq(T) /\ Len(Tail(s)) = Len(s) - 1 /\ Len(s) \in Nat \ {0}
      /\ \A i \in 1 .. Len(s) - 1 : Tail(s)[i] = s[i + 1]
  BY Popped
<1>3. /\ r \in Seq(T)
      /\ Len(r) = 1 + Len(Tail(s))
      /\ \A i \in 1 .. 1 + Len(Tail(s)) : r[i] = IF i <= 1 THEN <<f>>[i] ELSE Tail(s)[i - 1]
  <2> HIDE DEF r
  <2>1. /\ <<f>> \o Tail(s) \in Seq(T)
        /\ Len(<<f>> \o Tail(s)) = Len(<<f>>) + Len(Tail(s))
        /\ \A i \in 1 .. Len(<<f>>) + Len(Tail(s)) : (<<f>> \o Tail(s))[i] =
                 IF i <= Len(<<f>>) THEN <<f>>[i] ELSE Tail(s)[i - Len(<<f>>)]
    BY <1>1, <1>2, ConcatProperties
  <2>2. QED
    BY <2>1, <1>1 DEF r
<1> HIDE DEF r
<1>4. Len(r) = Len(s) /\ r[1] = f /\ \A i \in 2 .. Len(s) : r[i] = s[i]
  BY <1>1, <1>2, <1>3
<1>5. QED
  BY <1>3, <1>4 DEF r

LEMMA Pushed ==
  ASSUME NEW T, NEW s \in Seq(T), s # <<>>, NEW f \in T, NEW g \in T
  PROVE  /\ <<f, g>> \o Tail(s) \in Seq(T)
         /\ Len(<<f, g>> \o Tail(s)) = Len(s) + 1
         /\ (<<f, g>> \o Tail(s))[1] = f
         /\ (<<f, g>> \o Tail(s))[2] = g
         /\ \A i \in 3 .. Len(s) + 1 : (<<f, g>> \o Tail(s))[i] = s[i - 1]
<1> DEFINE r == <<f, g>> \o Tail(s)
<1>1. <<f, g>> \in Seq(T) /\ Len(<<f, g>>) = 2 /\ <<f, g>>[1] = f /\ <<f, g>>[2] = g
  OBVIOUS
<1>2. Tail(s) \in Seq(T) /\ Len(Tail(s)) = Len(s) - 1 /\ Len(s) \in Nat \ {0}
      /\ \A i \in 1 .. Len(s) - 1 : Tail(s)[i] = s[i + 1]
  BY Popped
<1>3. /\ r \in Seq(T)
      /\ Len(r) = 2 + Len(Tail(s))
      /\ \A i \in 1 .. 2 + Len(Tail(s)) : r[i] = IF i <= 2 THEN <<f, g>>[i] ELSE Tail(s)[i - 2]
  <2> HIDE DEF r
  <2>1. /\ <<f, g>> \o Tail(s) \in Seq(T)
        /\ Len(<<f, g>> \o Tail(s)) = Len(<<f, g>>) + Len(Tail(s))
        /\ \A i \in 1 .. Len(<<f, g>>) + Len(Tail(s)) : (<<f, g>> \o Tail(s))[i] =
                 IF i <= Len(<<f, g>>) THEN <<f, g>>[i] ELSE Tail(s)[i - Len(<<f, g>>)]
    BY <1>1, <1>2, ConcatProperties
  <2>2. QED
    BY <2>1, <1>1 DEF r
<1> HIDE DEF r
<1>4. Len(r) = Len(s) + 1 /\ r[1] = f /\ r[2] = g
      /\ \A i \in 3 .. Len(s) + 1 : r[i] = s[i - 1]
  BY <1>1, <1>2, <1>3
<1>5. QED
  BY <1>3, <1>4 DEF r

(* Appending keeps a sequence one, of a larger set when need be; so does   *)
(* changing an element.                                                    *)
LEMMA Appended ==
  ASSUME NEW s, IsSequence(s), NEW x
  PROVE  /\ IsSequence(Append(s, x))
         /\ Len(s) \in Nat
         /\ Len(Append(s, x)) = Len(s) + 1
         /\ \A i \in 1 .. Len(s) : Append(s, x)[i] = s[i]
         /\ Append(s, x)[Len(s) + 1] = x
<1>1. PICK T : s \in Seq(T)
  BY DEF IsSequence
<1>2. s \in Seq(T \union {x})
  BY <1>1, SeqMonotonic
<1>3. Append(s, x) \in Seq(T \union {x})
  BY <1>2
<1>4. QED
  BY <1>2, <1>3 DEF IsSequence

LEMMA Changed ==
  ASSUME NEW s, IsSequence(s), NEW k \in 1 .. Len(s), NEW x
  PROVE  /\ IsSequence([s EXCEPT ![k] = x])
         /\ Len([s EXCEPT ![k] = x]) = Len(s)
         /\ \A i \in 1 .. Len(s) : [s EXCEPT ![k] = x][i] = IF i = k THEN x ELSE s[i]
<1>1. PICK T : s \in Seq(T)
  BY DEF IsSequence
<1>2. s \in Seq(T \union {x})
  BY <1>1, SeqMonotonic
<1>3. QED
  BY <1>2, ExceptSeq DEF IsSequence

--------------------------------------------------------------------------------
(***************************************************************************)
(* Names.  The function that Visible chooses exists, because environments  *)
(* are inside of older ones.                                               *)
(***************************************************************************)

Seen(f, e) ==
  IF e = 0 THEN NoNames
  ELSE LET outer == f[envs[e].outer]
       IN  [n \in DOMAIN envs[e].store \union DOMAIN outer |->
              IF n \in DOMAIN envs[e].store THEN envs[e].store[n] ELSE outer[n]]

LEMMA VisibleExists ==
  ASSUME NEW n \in Nat, \A e \in 1 .. n : envs[e].outer \in 0 .. e - 1
  PROVE  \E f : f = [e \in 0 .. n |-> Seen(f, e)]
<1> DEFINE Exists(k) == \E f : f = [e \in 0 .. k |-> Seen(f, e)]
           Bad == {k \in 0 .. n : ~Exists(k)}
<1>1. SUFFICES ASSUME ~Exists(n) PROVE FALSE
  OBVIOUS
<1>2. n \in Bad
  BY <1>1
<1>3. PICK k \in Bad : \A j \in Bad : k <= j
  <2> HIDE DEF Bad
  <2>1. Bad \subseteq Nat
    BY DEF Bad
  <2>2. QED
    BY <1>2, <2>1, LeastElement
<1>4. k \in 0 .. n /\ ~Exists(k)
  OBVIOUS
<1>5. CASE k = 0
  <2> DEFINE f == [e \in 0 .. 0 |-> NoNames]
  <2>1. \A e \in 0 .. 0 : Seen(f, e) = NoNames
    BY DEF Seen
  <2>2. f = [e \in 0 .. 0 |-> Seen(f, e)]
    BY <2>1
  <2>3. Exists(0)
    BY <2>2
  <2>4. QED
    BY <2>3, <1>4, <1>5
<1>6. CASE k # 0
  <2>1. k - 1 \in 0 .. n /\ ~(k <= k - 1)
    BY <1>4, <1>6
  <2>2. Exists(k - 1)
    BY <2>1, <1>3
  <2>3. PICK f : f = [e \in 0 .. k - 1 |-> Seen(f, e)]
    BY <2>2
  <2> DEFINE g == [e \in 0 .. k |-> IF e = k THEN Seen(f, k) ELSE f[e]]
  <2>4. \A e \in 0 .. k - 1 : f[e] = Seen(f, e) /\ g[e] = f[e]
    <3>1. \A e \in 0 .. k - 1 : f[e] = Seen(f, e)
      BY <2>3, ZenonT(20)
    <3>2. QED
      BY <3>1, <1>4
  <2>5. g[k] = Seen(f, k) /\ DOMAIN g = 0 .. k
    BY <1>4
  <2> HIDE DEF g
  <2>6. \A e \in 0 .. k : Seen(g, e) = Seen(f, e)
    <3>1. SUFFICES ASSUME NEW e \in 0 .. k, e # 0 PROVE Seen(g, e) = Seen(f, e)
      BY DEF Seen
    <3>2. envs[e].outer \in 0 .. k - 1
      BY <3>1, <1>4
    <3>3. g[envs[e].outer] = f[envs[e].outer]
      BY <3>2, <2>4
    <3>4. QED
      BY <3>3 DEF Seen
  <2>7. \A e \in 0 .. k : g[e] = Seen(g, e)
    BY <2>4, <2>5, <2>6, <1>4
  <2>8. g = [e \in 0 .. k |-> g[e]]
    BY DEF g
  <2>9. g = [e \in 0 .. k |-> Seen(g, e)]
    BY <2>7, <2>8
  <2>10. QED
    BY <2>9, <1>4
<1>7. QED
  BY <1>5, <1>6

LEMMA VisibleSound ==
  ASSUME NEW S, NEW env \in 1 .. Len(envs), SoundEnvs(S, envs)
  PROVE  \A x \in DOMAIN Visible(env) : Visible(env)[x] \in S
<1> DEFINE n == Len(envs)
           names == CHOOSE f : f = [e \in 0 .. n |-> Seen(f, e)]
<1>1. n \in Nat /\ \A e \in 1 .. n : envs[e].outer \in 0 .. e - 1
  BY Appended DEF SoundEnvs
<1>2. names = [e \in 0 .. n |-> Seen(names, e)]
  BY <1>1, VisibleExists
<1>3. Visible(env) = names[env]
  BY DEF Visible, Seen
<1> HIDE DEF names
<1> DEFINE Bad == {e \in 0 .. n : \E x \in DOMAIN names[e] : names[e][x] \notin S}
<1>4. SUFFICES ASSUME Bad # {} PROVE FALSE
  BY <1>1, <1>3
<1>5. PICK e \in Bad : \A d \in Bad : e <= d
  <2> HIDE DEF Bad
  <2>1. Bad \subseteq Nat
    BY <1>1 DEF Bad
  <2>2. QED
    BY <1>4, <2>1, LeastElement
<1>6. names[e] = Seen(names, e)
  BY <1>2
<1>7. CASE e = 0
  BY <1>6, <1>7 DEF Seen, NoNames
<1>8. CASE e # 0
  <2>1. e \in 1 .. n /\ envs[e].outer \in 0 .. n /\ envs[e].outer < e
    BY <1>1, <1>8
  <2>2. envs[e].outer \notin Bad
    BY <2>1, <1>5, <1>1
  <2>3. \A x \in DOMAIN names[envs[e].outer] : names[envs[e].outer][x] \in S
    BY <2>1, <2>2
  <2>4. \A x \in DOMAIN envs[e].store : envs[e].store[x] \in S
    BY <2>1 DEF SoundEnvs
  <2>5. QED
    BY <2>3, <2>4, <1>6, <1>8 DEF Seen
<1>9. QED
  BY <1>7, <1>8

--------------------------------------------------------------------------------
(***************************************************************************)
(* What the operations return.                                             *)
(***************************************************************************)

(* A panic or a value; when there is no nil in S, no nil is used and there *)
(* is none in the value.                                                   *)
Result(S, n, r) ==
  /\ (r.type = "failure" /\ r.why \in Panics) \/ Sound(S, n, r)
  /\ (\A x \in S : ~Holed(x)) =>
       IF r.type = "failure" THEN r.why # "nil dereference" ELSE ~Holed(r)

AllSound(S, n) == \A x \in S : Sound(S, n, x)

(* Values without others inside. *)
LEMMA AtomResults ==
  ASSUME NEW S, NEW n
  PROVE  /\ \A i : Result(S, n, Integer(i))
         /\ \A b : Result(S, n, Boolean(b))
         /\ \A s, at : Result(S, n, String(s, at))
         /\ \A at : Result(S, n, Error(at))
         /\ Result(S, n, Null)
         /\ \A why \in Panics \ {"nil dereference"} : Result(S, n, Failure(why))
<1> USE DEF Result, Sound, ValueTypes, Holed, Nil
<1>1. \A i : Result(S, n, Integer(i))
  BY DEF Integer
<1>2. \A b : Result(S, n, Boolean(b))
  BY DEF Boolean
<1>3. \A s, at : Result(S, n, String(s, at))
  BY DEF String
<1>4. \A at : Result(S, n, Error(at))
  BY DEF Error
<1>5. Result(S, n, Null)
  BY DEF Null
<1>6. \A why \in Panics \ {"nil dereference"} : Result(S, n, Failure(why))
  BY DEF Failure
<1>7. QED
  BY <1>1, <1>2, <1>3, <1>4, <1>5, <1>6

(* A value that is in S. *)
LEMMA InnerResult ==
  ASSUME NEW S, NEW n, AllSound(S, n), NEW v \in S
  PROVE  Result(S, n, v) /\ v.type # "failure"
BY DEF AllSound, Result, Sound, ValueTypes

(* An operation on a nil, or a print of a value with a nil inside. *)
LEMMA HoledResult ==
  ASSUME NEW S, NEW n, NEW v \in S, Holed(v)
  PROVE  Result(S, n, Failure("nil dereference"))
BY DEF Result, Failure, Panics

LEMMA NilResult ==
  ASSUME NEW S, NEW n, Nil \in S
  PROVE  Result(S, n, Failure("nil dereference"))
BY HoledResult DEF Holed

(* Values made of others. *)
LEMMA ArrayResult ==
  ASSUME NEW S, NEW n, NEW es \in Seq(S), NEW at
  PROVE  Result(S, n, ArrayObject(es, at))
<1> DEFINE r == ArrayObject(es, at)
<1>1. r.type = "ARRAY" /\ r.elements = es /\ r.holed = (\E i \in DOMAIN es : Holed(es[i]))
  BY DEF ArrayObject
<1> HIDE DEF r
<1>2. Sound(S, n, r)
  BY <1>1 DEF Sound, ValueTypes
<1>3. (\A x \in S : ~Holed(x)) => ~r.holed
  BY <1>1
<1>4. r # Nil
  BY <1>1 DEF Nil
<1>5. QED
  BY <1>1, <1>2, <1>3, <1>4 DEF Result, Holed, r

LEMMA ReturnResult ==
  ASSUME NEW S, NEW n, NEW v \in S, NEW at
  PROVE  Result(S, n, ReturnObject(v, at))
<1> DEFINE r == ReturnObject(v, at)
<1>1. r.type = "RETURN_VALUE" /\ r.value = v /\ r.holed = Holed(v)
  BY DEF ReturnObject
<1> HIDE DEF r
<1>2. Sound(S, n, r)
  BY <1>1 DEF Sound, ValueTypes
<1>3. r # Nil
  BY <1>1 DEF Nil
<1>4. QED
  BY <1>1, <1>2, <1>3 DEF Result, Holed, r

LEMMA PairsResult ==
  ASSUME NEW S, NEW n, NEW pairs, \A k \in DOMAIN pairs : pairs[k] \in S, NEW at
  PROVE  Result(S, n, HashObject(pairs, at))
<1> DEFINE r == HashObject(pairs, at)
<1>1. r.type = "HASH" /\ r.pairs = pairs /\ r.holed = (\E k \in DOMAIN pairs : Holed(pairs[k]))
  BY DEF HashObject
<1> HIDE DEF r
<1>2. Sound(S, n, r)
  BY <1>1 DEF Sound, ValueTypes
<1>3. (\A x \in S : ~Holed(x)) => ~r.holed
  BY <1>1
<1>4. r # Nil
  BY <1>1 DEF Nil
<1>5. QED
  BY <1>1, <1>2, <1>3, <1>4 DEF Result, Holed, r

LEMMA PrefixResults ==
  ASSUME NEW S, NEW n, AllSound(S, n), NEW v \in S
  PROVE  Result(S, n, BangResult(v)) /\ Result(S, n, MinusResult(v))
BY AtomResults, NilResult DEF BangResult, MinusResult

LEMMA InfixResults ==
  ASSUME NEW S, NEW n, AllSound(S, n), NEW left \in S, NEW right \in S,
         NEW operator \in InfixOperators
  PROVE  Result(S, n, InfixResult(operator, left, right))
<1> USE AtomResults
<1>1. \A i, j : Result(S, n, IntegerResult(operator, i, j))
  BY DEF IntegerResult, InfixOperators, Panics
<1>2. \A s, t : Result(S, n, StringResult(operator, s, t))
  BY DEF StringResult
<1>3. QED
  BY <1>1, <1>2, NilResult DEF InfixResult

LEMMA IndexResults ==
  ASSUME NEW S, NEW n, AllSound(S, n), NEW left \in S, NEW index \in S
  PROVE  Result(S, n, IndexResult(left, index))
<1> USE AtomResults
<1>1. left.type = "ARRAY" => \A i \in DOMAIN left.elements : Result(S, n, left.elements[i])
  <2>1. left.type = "ARRAY" => left.elements \in Seq(S)
    BY DEF AllSound, Sound
  <2>2. left.type = "ARRAY" => \A i \in DOMAIN left.elements : left.elements[i] \in S
    BY <2>1, LenProperties, ElementOfSeq
  <2>3. QED
    BY <2>2, InnerResult
<1>2. left.type = "HASH" => Result(S, n, HashIndexResult(left.pairs, index))
  BY InnerResult DEF AllSound, Sound, HashIndexResult
<1>3. QED
  BY <1>1, <1>2, NilResult DEF IndexResult

(* The pair that comes last is one of the pairs.                           *)
LEMMA HashResults ==
  ASSUME NEW S, NEW n, NEW got \in Seq(S), Len(got) % 2 = 0
  PROVE  Result(S, n, HashResult(got))
<1> DEFINE keys == {i \in DOMAIN got : i % 2 = 1}
           Last(key) == CHOOSE i \in keys : /\ HashKey(got[i]) = key
                                            /\ \A j \in keys : HashKey(got[j]) = key => j <= i
           pairs == [key \in {HashKey(got[i]) : i \in keys} |-> got[Last(key) + 1]]
<1>1. Len(got) \in Nat /\ DOMAIN got = 1 .. Len(got)
  BY LenProperties
<1>2. ASSUME NEW key \in {HashKey(got[i]) : i \in keys}
      PROVE  Last(key) \in keys
  <2> DEFINE same == {i \in keys : HashKey(got[i]) = key}
  <2>1. same \subseteq Nat /\ same # {} /\ \A i \in same : i <= Len(got)
    BY <1>1
  <2>2. \E i \in same : \A j \in same : j <= i
    <3> HIDE DEF same
    <3>1. QED
      BY <1>1, <2>1, GreatestElement
  <2>3. \E i \in keys : /\ HashKey(got[i]) = key
                        /\ \A j \in keys : HashKey(got[j]) = key => j <= i
    BY <2>2
  <2>4. QED
    BY <2>3
<1>3. \A i \in keys : i + 1 \in 1 .. Len(got)
  BY <1>1
<1>4. \A key \in DOMAIN pairs : pairs[key] \in S
  <2> HIDE DEF keys, Last
  <2>1. QED
    BY <1>2, <1>3, ElementOfSeq
<1> HIDE DEF pairs
<1>5. Result(S, n, HashObject(pairs, Address))
  BY <1>4, PairsResult
<1>6. HashResult(got) = HashObject(pairs, Address)
  BY DEF HashResult, pairs
<1>7. QED
  BY <1>5, <1>6

(* The built-in functions, of which some have no answer.                   *)
LEMMA BuiltinResults ==
  ASSUME NEW S, NEW n, AllSound(S, n), NEW args \in Seq(S), NEW at,
         NEW name \in {"len", "puts", "first", "last", "rest", "push"},
         NEW r, r = BuiltinResult(name, args, at)
  PROVE  Result(S, n, IF r = Nil THEN Null ELSE r)
<1> DEFINE Fine(v) == Result(S, n, IF v = Nil THEN Null ELSE v)
<1>1. \A v : Result(S, n, v) => Fine(v)
  BY AtomResults
<1>2. Fine(Nil)
  BY AtomResults
<1>3. DOMAIN args = 1 .. Len(args) /\ Len(args) \in Nat /\ \A i \in 1 .. Len(args) : args[i] \in S
  BY LenProperties, ElementOfSeq
<1>4. CASE name = "puts"
  <2>1. CASE \E i \in DOMAIN args : Holed(args[i])
    <3>1. r = Failure("nil dereference")
      BY <1>4, <2>1 DEF BuiltinResult
    <3>2. Result(S, n, Failure("nil dereference"))
      BY <2>1, <1>3, HoledResult
    <3>3. QED
      BY <3>1, <3>2, <1>1
  <2>2. CASE ~ \E i \in DOMAIN args : Holed(args[i])
    <3>1. r = Nil
      BY <1>4, <2>2 DEF BuiltinResult
    <3>2. QED
      BY <3>1, <1>2
  <2>3. QED
    BY <2>1, <2>2
<1>5. CASE name # "puts" /\ Len(args) # Arity(name)
  <2>1. r = Error(at)
    BY <1>5 DEF BuiltinResult
  <2>2. QED
    BY <2>1, <1>1, AtomResults
<1>6. CASE name # "puts" /\ Len(args) = Arity(name)
  <2> DEFINE v == args[1]
  <2>1. v \in S /\ (name = "push" => args[2] \in S)
    BY <1>3, <1>6 DEF Arity
  <2>2. Sound(S, n, v)
    BY <2>1 DEF AllSound
  <2>3. r = CASE v = Nil                 -> Failure("nil dereference")
              [] v # Nil /\ name = "len" -> LenBuiltin(v, at)
              [] v.type = "ARRAY" /\ name # "len"
                                         -> OfArray(name, v.elements, args, at)
              [] OTHER                   -> Error(at)
    BY <1>6 DEF BuiltinResult
  <2> HIDE DEF v
  <2>4. CASE v = Nil
    <3>1. r = Failure("nil dereference")
      BY <2>3, <2>4 DEF Nil
    <3>2. Result(S, n, r)
      BY <2>1, <2>4, <3>1, NilResult
    <3>3. QED
      BY <3>2, <1>1
  <2>5. CASE v # Nil /\ name = "len"
    <3>1. Result(S, n, LenBuiltin(v, at))
      BY AtomResults DEF LenBuiltin
    <3>2. r = LenBuiltin(v, at)
      BY <2>3, <2>5
    <3>3. QED
      BY <3>1, <3>2, <1>1
  <2>6. CASE v.type = "ARRAY" /\ name # "len"
    <3> DEFINE es == v.elements
    <3>1. v # Nil /\ es \in Seq(S)
      BY <2>2, <2>6 DEF Nil, Sound
    <3>2. r = OfArray(name, es, args, at)
      BY <2>3, <2>6, <3>1
    <3> HIDE DEF es
    <3>3. CASE name = "push"
      <4>1. Append(es, args[2]) \in Seq(S)
        BY <3>1, <2>1, <3>3
      <4>2. r = ArrayObject(Append(es, args[2]), at)
        BY <3>2, <3>3 DEF OfArray
      <4>3. QED
        BY <4>1, <4>2, ArrayResult, <1>1
    <3>4. CASE name # "push" /\ es = <<>>
      <4>1. r = Nil
        BY <3>2, <3>4 DEF OfArray
      <4>2. QED
        BY <4>1, <1>2
    <3>5. CASE name \in {"first", "last"} /\ es # <<>>
      <4>1. es[1] \in S /\ es[Len(es)] \in S
        <5>1. Len(es) \in Nat \ {0}
          BY <3>1, <3>5, EmptySeq
        <5>2. QED
          BY <3>1, <5>1, ElementOfSeq
      <4>2. r = es[1] \/ r = es[Len(es)]
        BY <3>2, <3>5 DEF OfArray
      <4>3. QED
        BY <4>1, <4>2, InnerResult, <1>1
    <3>6. CASE name = "rest" /\ es # <<>>
      <4>1. Tail(es) \in Seq(S)
        BY <3>1, <3>6
      <4>2. r = ArrayObject(Tail(es), at)
        BY <3>2, <3>6 DEF OfArray
      <4>3. QED
        BY <4>1, <4>2, ArrayResult, <1>1
    <3>7. QED
      BY <1>6, <2>6, <3>3, <3>4, <3>5, <3>6
  <2>7. CASE v # Nil /\ name # "len" /\ v.type # "ARRAY"
    BY <2>3, <2>7, AtomResults, <1>1
  <2>8. QED
    BY <2>4, <2>5, <2>6, <2>7
<1>7. QED
  BY <1>4, <1>5, <1>6

--------------------------------------------------------------------------------
(***************************************************************************)
(* What the operations on nodes return.                                    *)
(***************************************************************************)

(* The nodes of a tree are where the types of ast.go want them.            *)
LEMMA NodesWellFormed ==
  /\ \A node \in Nodes : WellFormed(node, Expressions, Statements, Blocks)
  /\ Programs \subseteq Blocks
  /\ Expressions \subseteq Nodes /\ Statements \subseteq Nodes /\ Blocks \subseteq Nodes
  /\ \A x \in Expressions : x.kind \in ExpressionKinds
  /\ \A x \in Statements : x.kind \in StatementKinds
  /\ \A x \in Blocks : x.kind = "BlockStatement" /\ x.statements \in Seq(Statements)
<1>1. \A node \in Nodes : WellFormed(node, Expressions, Statements, Blocks)
  BY TreesAssumption DEF Grammatical, Expressions, Statements, Blocks
<1>2. /\ Expressions \subseteq Nodes /\ Statements \subseteq Nodes /\ Blocks \subseteq Nodes
      /\ \A x \in Expressions : x.kind \in ExpressionKinds
      /\ \A x \in Statements : x.kind \in StatementKinds
      /\ \A x \in Blocks : x.kind = "BlockStatement"
  BY DEF Expressions, Statements, Blocks, ExpressionsIn, StatementsIn, BlocksIn
<1>3. \A x \in Blocks : x.statements \in Seq(Statements)
  BY <1>1, <1>2 DEF WellFormed
<1>4. QED
  BY <1>1, <1>2, <1>3, TreesAssumption DEF Blocks

LEMMA IdentifierResults ==
  ASSUME NEW S, AllSound(S, Len(envs)), SoundEnvs(S, envs),
         NEW name, NEW env \in 1 .. Len(envs)
  PROVE  Result(S, Len(envs), IdentifierResult(name, env))
<1> DEFINE visible == Visible(env)
           known == {i \in DOMAIN Builtins : Builtins[i] = name}
           n == Len(envs)
<1>1. \A x \in DOMAIN visible : Result(S, n, visible[x])
  BY VisibleSound, InnerResult
<1>2. known # {} => Result(S, n, BuiltinFn((CHOOSE i \in known : TRUE) - 1))
  <2>1. SUFFICES ASSUME NEW i \in DOMAIN Builtins PROVE Result(S, n, BuiltinFn(i - 1))
    BY DEF known
  <2>2. i \in Int
    BY BuiltinsAssumption, LenProperties
  <2>3. (i - 1) + 1 \in DOMAIN Builtins
    BY <2>2
  <2> DEFINE j == i - 1
  <2> HIDE DEF j
  <2>4. BuiltinFn(j).type = "BUILTIN" /\ BuiltinFn(j).index + 1 \in DOMAIN Builtins
    BY <2>3 DEF BuiltinFn, j
  <2>5. Result(S, n, BuiltinFn(j))
    BY <2>4 DEF Result, Sound, ValueTypes, Holed, Nil
  <2>6. QED
    BY <2>5 DEF j
<1>3. IdentifierResult(name, env) =
        CASE name \in DOMAIN visible -> visible[name]
          [] name \notin DOMAIN visible /\ known # {} -> BuiltinFn((CHOOSE i \in known : TRUE) - 1)
          [] OTHER -> Error(Address)
  BY DEF IdentifierResult
<1> HIDE DEF visible, known
<1>4. QED
  BY <1>1, <1>2, <1>3, AtomResults

LEMMA LeafResults ==
  ASSUME NEW S, AllSound(S, Len(envs)), SoundEnvs(S, envs),
         NEW node \in Nodes, node.kind \in Leaves, NEW env \in 1 .. Len(envs)
  PROVE  Result(S, Len(envs), LeafResult(node, env))
<1> DEFINE n == Len(envs)
           r == LeafResult(node, env)
<1>1. WellFormed(node, Expressions, Statements, Blocks)
  BY NodesWellFormed
<1>2. CASE node.kind = "IntegerLiteral"
  <2>1. r = node.object /\ r.type = "INTEGER"
    BY <1>1, <1>2 DEF LeafResult, WellFormed
  <2>2. QED
    BY <2>1 DEF Result, Sound, ValueTypes, Holed, Nil
<1>3. CASE node.kind = "StringLiteral"
  BY <1>3, AtomResults DEF LeafResult
<1>4. CASE node.kind = "Boolean"
  BY <1>4, AtomResults DEF LeafResult
<1>5. CASE node.kind = "Identifier"
  <2>1. r = IdentifierResult(node.name, env)
    BY <1>5 DEF LeafResult
  <2>2. QED
    BY <2>1, IdentifierResults
<1>6. CASE node.kind = "FunctionLiteral"
  <2> DEFINE fn == Function(node.parameters, node.body, env, Address)
  <2>1. r = fn
    BY <1>6 DEF LeafResult
  <2>2. fn.type = "FUNCTION" /\ fn.parameters = node.parameters /\ fn.body = node.body /\ fn.env = env
    BY DEF Function
  <2>3. /\ node.body \in Blocks
        /\ DOMAIN node.parameters = 1 .. Len(node.parameters)
        /\ Len(node.parameters) \in Nat
    BY <1>1, <1>6 DEF WellFormed
  <2> HIDE DEF fn
  <2>4. Sound(S, n, fn)
    BY <2>2, <2>3 DEF Sound, ValueTypes
  <2>5. QED
    BY <2>1, <2>2, <2>4 DEF Result, Holed, Nil
<1>7. QED
  BY <1>2, <1>3, <1>4, <1>5, <1>6 DEF Leaves

(* Every parameter is bound to an argument.                                *)
LEMMA BoundSound ==
  ASSUME NEW S, NEW n, NEW fn, Sound(S, n, fn), fn.type = "FUNCTION",
         Frame.got \in Seq(S), Frame.got # <<>>, Len(Arguments) >= Len(fn.parameters)
  PROVE  \A x \in DOMAIN Bound(fn) : Bound(fn)[x] \in S
<1> DEFINE ps == fn.parameters
           args == Arguments
           Last(x) == CHOOSE i \in DOMAIN ps : ps[i] = x /\ \A j \in DOMAIN ps : ps[j] = x => j <= i
<1>1. DOMAIN ps = 1 .. Len(ps) /\ Len(ps) \in Nat
  BY DEF Sound
<1>2. args \in Seq(S) /\ Len(args) \in Nat
  BY HeadTailProperties, LenProperties DEF Arguments
<1>3. Bound(fn) = [x \in {ps[i] : i \in DOMAIN ps} |-> args[Last(x)]]
  BY DEF Bound
<1>4. ASSUME NEW x \in {ps[i] : i \in DOMAIN ps} PROVE Last(x) \in DOMAIN ps
  <2> DEFINE same == {i \in DOMAIN ps : ps[i] = x}
  <2>1. same \subseteq Nat /\ same # {} /\ \A i \in same : i <= Len(ps)
    BY <1>1
  <2>2. \E i \in same : \A j \in same : j <= i
    <3> HIDE DEF same, ps
    <3>1. QED
      BY <1>1, <2>1, GreatestElement
  <2>3. \E i \in DOMAIN ps : ps[i] = x /\ \A j \in DOMAIN ps : ps[j] = x => j <= i
    BY <2>2
  <2>4. QED
    BY <2>3
<1> HIDE DEF ps, args, Last
<1>5. Len(args) >= Len(ps)
  BY DEF args, ps
<1>6. QED
  BY <1>1, <1>2, <1>3, <1>4, <1>5, ElementOfSeq

(* The pairs of a hash in another order.                                   *)
LEMMA OrdersType ==
  ASSUME NEW T, NEW es \in Seq(T), Len(es) % 2 = 0, NEW parts \in Orders(es)
  PROVE  parts \in Seq(T) /\ Len(parts) = Len(es)
<1> DEFINE n == Len(es) \div 2
<1>1. Len(es) \in Nat /\ n \in Nat /\ 2 * n = Len(es)
  BY LenProperties
<1>2. PICK p \in [1 .. n -> 1 .. n] :
        parts = [i \in 1 .. 2 * n |-> es[2 * p[(i + 1) \div 2] - (i % 2)]]
  BY DEF Orders
<1> HIDE DEF n
<1>3. ASSUME NEW i \in 1 .. 2 * n PROVE es[2 * p[(i + 1) \div 2] - (i % 2)] \in T
  <2>1. (i + 1) \div 2 \in 1 .. n /\ i % 2 \in {0, 1}
    BY <1>1
  <2>2. p[(i + 1) \div 2] \in 1 .. n
    BY <2>1
  <2>3. \A x \in 1 .. n, y \in {0, 1} : 2 * x - y \in 1 .. Len(es)
    BY <1>1
  <2>4. 2 * p[(i + 1) \div 2] - (i % 2) \in 1 .. Len(es)
    BY <2>1, <2>2, <2>3
  <2>5. QED
    BY <2>4, ElementOfSeq
<1> DEFINE ordered == [i \in 1 .. 2 * n |-> es[2 * p[(i + 1) \div 2] - (i % 2)]]
<1>4. ordered \in Seq(T) /\ Len(ordered) = 2 * n
  BY <1>1, <1>3
<1>5. QED
  BY <1>1, <1>2, <1>4

LEMMA PartsFrames ==
  ASSUME NEW S, NEW n, NEW node \in Nodes, node.kind \in Composites, NEW env \in 1 .. n,
         NEW parts \in Parts(node)
  PROVE  [do |-> "parts", node |-> node, env |-> env, rest |-> parts, got |-> <<>>] \in PartFrames(S, n)
<1>1. WellFormed(node, Expressions, Statements, Blocks)
  BY NodesWellFormed
<1> DEFINE f == [do |-> "parts", node |-> node, env |-> env, rest |-> parts, got |-> <<>>]
<1>2. ASSUME parts \in Seq(Expressions),
             Counted(f)
      PROVE  f \in PartFrames(S, n)
  BY <1>2 DEF PartFrames
<1>3. f.do = "parts" /\ f.node = node /\ f.rest = parts /\ f.got = <<>> /\ Len(f.got) = 0
  OBVIOUS
<1> SUFFICES f \in PartFrames(S, n)
  OBVIOUS
<1> HIDE DEF f
<1>4. CASE node.kind \in {"PrefixExpression", "IfExpression", "LetStatement", "ReturnStatement"}
  <2>1. PICK x \in Expressions : parts = <<x>>
    BY <1>1, <1>4 DEF Parts, WellFormed
  <2>2. parts \in Seq(Expressions) /\ Len(parts) = 1
    BY <2>1
  <2>3. QED
    BY <1>2, <1>3, <1>4, <2>2 DEF Counted, Count
<1>5. CASE node.kind \in {"InfixExpression", "IndexExpression"}
  <2>1. PICK x \in Expressions, y \in Expressions : parts = <<x, y>>
    BY <1>1, <1>5 DEF Parts, WellFormed
  <2>2. parts \in Seq(Expressions) /\ Len(parts) = 2
    BY <2>1
  <2>3. QED
    BY <1>2, <1>3, <1>5, <2>2 DEF Counted, Count
<1>6. CASE node.kind = "CallExpression"
  <2>1. <<node.function>> \in Seq(Expressions) /\ node.arguments \in Seq(Expressions)
        /\ parts = <<node.function>> \o node.arguments
    BY <1>1, <1>6 DEF Parts, WellFormed
  <2>2. parts \in Seq(Expressions) /\ Len(parts) = Len(<<node.function>>) + Len(node.arguments)
    BY <2>1, ConcatProperties
  <2>3. Len(parts) >= 1 /\ Len(parts) \in Nat
    BY <2>1, <2>2, LenProperties
  <2>4. QED
    BY <1>2, <1>3, <1>6, <2>2, <2>3 DEF Counted, Count
<1>7. CASE node.kind = "ArrayLiteral"
  <2>1. parts \in Seq(Expressions)
    BY <1>1, <1>7 DEF Parts, WellFormed
  <2>2. QED
    BY <1>2, <1>3, <1>7, <2>1 DEF Counted, Count
<1>8. CASE node.kind = "HashLiteral"
  <2>1. node.keysAndValues \in Seq(Expressions) /\ Len(node.keysAndValues) % 2 = 0
        /\ parts \in Orders(node.keysAndValues)
    BY <1>1, <1>8 DEF Parts, WellFormed
  <2>2. parts \in Seq(Expressions) /\ Len(parts) % 2 = 0 /\ Len(parts) \in Nat
    BY <2>1, OrdersType, LenProperties
  <2>3. QED
    BY <1>2, <1>3, <1>8, <2>2 DEF Counted, Count
<1>9. QED
  BY <1>4, <1>5, <1>6, <1>7, <1>8 DEF Composites, ExpressionKinds, Leaves

--------------------------------------------------------------------------------
(***************************************************************************)
(* The stack of calls.                                                     *)
(***************************************************************************)

(* More values and more environments harm no value and no call.            *)
LEMMA Grow ==
  ASSUME NEW S, NEW U, S \subseteq U, NEW n \in Nat, NEW m \in Nat, n <= m
  PROVE  /\ \A v : Sound(S, n, v) => Sound(U, m, v)
         /\ Frames(S, n) \subseteq Frames(U, m)
<1>1. Seq(S) \subseteq Seq(U)
  BY SeqMonotonic
<1>2. 1 .. n \subseteq 1 .. m
  OBVIOUS
<1>3. \A v : Sound(S, n, v) => Sound(U, m, v)
  BY <1>1, <1>2 DEF Sound
<1>4. EvalFrames(n) \subseteq EvalFrames(m)
  BY <1>2 DEF EvalFrames
<1>5. PartFrames(S, n) \subseteq PartFrames(U, m)
  BY <1>1, <1>2 DEF PartFrames
<1>6. LoopFrames(n) \subseteq LoopFrames(m)
  BY <1>2 DEF LoopFrames
<1>7. QED
  BY <1>3, <1>4, <1>5, <1>6 DEF Frames

(* The innermost call returns.                                             *)
AfterLet(tr, cs, ds) ==
  Len(ds) < 2 /\ OfStatement(cs[1]) /\ cs[1].node.kind = "LetStatement"
    => LastBegun(tr, ds).kind = "LetStatement"

LEMMA PopNested ==
  ASSUME NEW T, NEW cs \in Seq(T), NEW tr, cs # <<>>,
         Nested(cs), InProgram(tr, cs), cs[1].do # "program",
         NEW ds, ds = Tail(cs)
  PROVE  /\ ds \in Seq(T) /\ Nested(ds) /\ InProgram(tr, ds)
         /\ ds[1] = cs[2] /\ Len(ds) = Len(cs) - 1
         /\ ds[1].do \in {"part", "program", "block", "apply"}
         /\ OfStatement(cs[1]) => ds[1].do \in {"program", "block"}
         /\ AfterLet(tr, cs, ds)
<1>1. /\ ds \in Seq(T)
      /\ Len(cs) \in Nat \ {0}
      /\ Len(ds) = Len(cs) - 1
      /\ \A i \in 1 .. Len(cs) - 1 : ds[i] = cs[i + 1]
  BY Popped
<1>2. Len(cs) >= 2
  BY <1>1 DEF Nested
<1>3. Nested(ds)
  BY <1>1, <1>2 DEF Nested
<1>4. ds[Len(ds)] = cs[Len(cs)]
  BY <1>1, <1>2
<1>5. Begun(tr, ds) = Begun(tr, cs) /\ LastBegun(tr, ds) = LastBegun(tr, cs)
  BY <1>4 DEF Begun, LastBegun
<1>6. Len(ds) >= 2 => ds[Len(ds) - 1] = cs[Len(cs) - 1]
  BY <1>1, <1>2
<1>7. InProgram(tr, ds)
  BY <1>2, <1>4, <1>5, <1>6 DEF InProgram
<1>8. ds[1] = cs[2] /\ ds[1].do \in {"part", "program", "block", "apply"}
  BY <1>1, <1>2 DEF Nested
<1>9. OfStatement(cs[1]) => cs[2].do \in {"program", "block"}
  BY <1>1, <1>2 DEF Nested
<1>10. AfterLet(tr, cs, ds)
  <2>1. Len(ds) < 2 => Len(cs) - 1 = 1
    BY ONLY <1>1, <1>2
  <2>2. QED
    BY <2>1, <1>2, <1>5 DEF InProgram, AfterLet
<1>11. QED
  BY <1>1, <1>3, <1>7, <1>8, <1>9, <1>10

(* The innermost call goes on.                                             *)
Becoming(cs, f) == <<f>> \o Tail(cs)

MayBecome(tr, cs, f) ==
  /\ cs # <<>> /\ Nested(cs) /\ InProgram(tr, cs)
  /\ cs[1].do # "program" /\ f.do # "program"
  /\ OfStatement(f) => OfStatement(cs[1]) /\ f.node = cs[1].node

LEMMA ReplaceNested ==
  ASSUME NEW T, NEW cs \in Seq(T), NEW tr, NEW f \in T, MayBecome(tr, cs, f),
         NEW ds, ds = Becoming(cs, f)
  PROVE  ds \in Seq(T) /\ Nested(ds) /\ InProgram(tr, ds) /\ ds[1] = f /\ Len(ds) >= 2
<1>1. /\ ds \in Seq(T)
      /\ Len(cs) \in Nat \ {0}
      /\ Len(ds) = Len(cs)
      /\ ds[1] = f
      /\ \A i \in 2 .. Len(cs) : ds[i] = cs[i]
  BY Replaced, Popped DEF MayBecome, Becoming
<1> USE DEF MayBecome
<1>2. Len(cs) >= 2
  BY <1>1 DEF Nested
<1>3. Nested(ds)
  BY <1>1, <1>2 DEF Nested
<1>4. ds[Len(ds)] = cs[Len(cs)]
  BY <1>1, <1>2
<1>5. Begun(tr, ds) = Begun(tr, cs) /\ LastBegun(tr, ds) = LastBegun(tr, cs)
  BY <1>4 DEF Begun, LastBegun
<1>6. Len(cs) > 2 => ds[Len(ds) - 1] = cs[Len(cs) - 1]
  BY <1>1, <1>2
<1>7. ~(Len(cs) > 2) => ds[Len(ds) - 1] = f /\ cs[Len(cs) - 1] = cs[1]
  BY ONLY <1>1, <1>2
<1>8. InProgram(tr, ds)
  <2>1. /\ Begun(tr, ds) \in Nat
        /\ \A k \in 1 .. Len(ds[Len(ds)].rest) : ds[Len(ds)].rest[k] = tr.statements[Begun(tr, ds) + k]
    BY <1>4, <1>5 DEF InProgram
  <2>2. Begun(tr, ds) >= 1
    BY <1>2, <1>5 DEF InProgram
  <2>3. OfStatement(ds[Len(ds) - 1]) /\ ds[Len(ds) - 1].node.kind = "LetStatement"
          => LastBegun(tr, ds).kind = "LetStatement"
    <3>1. OfStatement(cs[Len(cs) - 1]) /\ cs[Len(cs) - 1].node.kind = "LetStatement"
            => LastBegun(tr, cs).kind = "LetStatement"
      BY <1>2 DEF InProgram
    <3>2. CASE ~(Len(cs) > 2)
      BY <1>5, <1>7, <3>1, <3>2
    <3>3. CASE Len(cs) > 2
      BY <1>5, <1>6, <3>1, <3>3
    <3>4. QED
      BY <3>2, <3>3
  <2>4. QED
    BY <2>1, <2>2, <2>3 DEF InProgram
<1>9. QED
  BY <1>1, <1>2, <1>3, <1>8

(* The innermost call, which is not the program, calls.                    *)
Calling(cs, f, g) == <<f, g>> \o Tail(cs)

MayPush(tr, cs, f, g) ==
  /\ cs # <<>> /\ Nested(cs) /\ InProgram(tr, cs)
  /\ cs[1].do # "program" /\ f.do # "program" /\ g.do \in {"part", "block", "apply"}
  /\ OfStatement(f) => g.do = "block"
  /\ OfStatement(g) => OfStatement(cs[1]) /\ g.node = cs[1].node

LEMMA PushNested ==
  ASSUME NEW T, NEW cs \in Seq(T), NEW tr, NEW f \in T, NEW g \in T, MayPush(tr, cs, f, g),
         NEW ds, ds = Calling(cs, f, g)
  PROVE  ds \in Seq(T) /\ Nested(ds) /\ InProgram(tr, ds) /\ ds[1] = f /\ Len(ds) >= 2
<1>1. /\ ds \in Seq(T)
      /\ Len(cs) \in Nat \ {0}
      /\ Len(ds) = Len(cs) + 1
      /\ ds[1] = f /\ ds[2] = g
      /\ \A i \in 3 .. Len(cs) + 1 : ds[i] = cs[i - 1]
  BY Pushed, Popped DEF MayPush, Calling
<1> USE DEF MayPush
<1>2. Len(cs) >= 2
  BY <1>1 DEF Nested
<1>3. Nested(ds)
  <2>1. ds[Len(ds)].do = "program"
    BY <1>1, <1>2 DEF Nested
  <2>2. \A i \in 1 .. Len(ds) - 1 : ds[i].do # "program"
    BY <1>1, <1>2 DEF Nested
  <2>3. \A i \in 2 .. Len(ds) : ds[i].do \in {"part", "program", "block", "apply"}
    BY <1>1, <1>2 DEF Nested
  <2>4. ASSUME NEW i \in 1 .. Len(ds) - 1, OfStatement(ds[i])
        PROVE  ds[i + 1].do \in {"program", "block"}
    <3>1. CASE i = 1
      BY <1>1, <2>4, <3>1
    <3>2. CASE i = 2
      BY <1>1, <1>2, <2>4, <3>2 DEF Nested
    <3>3. CASE i > 2
      <4>1. i - 1 \in 1 .. Len(cs) - 1 /\ ds[i] = cs[i - 1] /\ ds[i + 1] = cs[(i - 1) + 1]
        BY ONLY <1>1, <2>4, <3>3
      <4>2. QED
        BY <4>1, <2>4 DEF Nested
    <3>4. QED
      BY <3>1, <3>2, <3>3
  <2>5. QED
    BY <1>1, <2>1, <2>2, <2>3, <2>4 DEF Nested
<1>4. ds[Len(ds)] = cs[Len(cs)]
  BY <1>1, <1>2
<1>5. Begun(tr, ds) = Begun(tr, cs) /\ LastBegun(tr, ds) = LastBegun(tr, cs)
  BY <1>4 DEF Begun, LastBegun
<1>6. Len(cs) > 2 => ds[Len(ds) - 1] = cs[Len(cs) - 1]
  BY <1>1, <1>2
<1>7. ~(Len(cs) > 2) => ds[Len(ds) - 1] = g /\ cs[Len(cs) - 1] = cs[1]
  BY ONLY <1>1, <1>2
<1>8. InProgram(tr, ds)
  <2>1. /\ Begun(tr, ds) \in Nat
        /\ \A k \in 1 .. Len(ds[Len(ds)].rest) : ds[Len(ds)].rest[k] = tr.statements[Begun(tr, ds) + k]
    BY <1>4, <1>5 DEF InProgram
  <2>2. Begun(tr, ds) >= 1
    BY <1>2, <1>5 DEF InProgram
  <2>3. OfStatement(ds[Len(ds) - 1]) /\ ds[Len(ds) - 1].node.kind = "LetStatement"
          => LastBegun(tr, ds).kind = "LetStatement"
    <3>1. OfStatement(cs[Len(cs) - 1]) /\ cs[Len(cs) - 1].node.kind = "LetStatement"
            => LastBegun(tr, cs).kind = "LetStatement"
      BY <1>2 DEF InProgram
    <3>2. CASE ~(Len(cs) > 2)
      BY <1>5, <1>7, <3>1, <3>2
    <3>3. CASE Len(cs) > 2
      BY <1>5, <1>6, <3>1, <3>3
    <3>4. QED
      BY <3>2, <3>3
  <2>4. QED
    BY <2>1, <2>2, <2>3 DEF InProgram
<1>9. QED
  BY <1>1, <1>2, <1>3, <1>8

(* The program takes up its next statement.                                *)
LEMMA PushOnProgram ==
  ASSUME NEW T, NEW cs \in Seq(T), NEW tr, NEW U, cs # <<>>,
         Nested(cs), InProgram(tr, cs), cs[1].do = "program",
         cs[1].rest \in Seq(U), cs[1].rest # <<>>, Len(tr.statements) \in Nat,
         NEW f \in T, NEW g \in T, f.do = "eval", f.node = Head(cs[1].rest),
         g.do = "program", g.rest = Tail(cs[1].rest),
         NEW ds, ds = Calling(cs, f, g)
  PROVE  ds \in Seq(T) /\ Nested(ds) /\ InProgram(tr, ds) /\ ds[1] = f /\ Len(ds) >= 2
<1> DEFINE rest == cs[1].rest
<1>1. /\ ds \in Seq(T)
      /\ Len(cs) \in Nat \ {0}
      /\ Len(ds) = Len(cs) + 1
      /\ ds[1] = f /\ ds[2] = g
  BY Pushed, Popped DEF Calling
<1>2. Len(cs) = 1
  <2>1. Len(cs) # 1 => 1 \in 1 .. Len(cs) - 1
    BY ONLY <1>1
  <2>2. QED
    BY <2>1 DEF Nested
<1>3. Len(ds) = 2
  BY <1>1, <1>2
<1>4. Nested(ds)
  BY <1>1, <1>3 DEF Nested
<1>5. /\ Len(rest) \in Nat \ {0}
      /\ Len(g.rest) = Len(rest) - 1
      /\ f.node = rest[1]
      /\ \A k \in 1 .. Len(rest) - 1 : g.rest[k] = rest[k + 1]
  BY Popped
<1>6. /\ Begun(tr, cs) \in Nat
      /\ Begun(tr, cs) = Len(tr.statements) - Len(rest)
      /\ \A k \in 1 .. Len(rest) : rest[k] = tr.statements[Begun(tr, cs) + k]
  BY <1>2 DEF InProgram, Begun
<1>7. Begun(tr, ds) = Begun(tr, cs) + 1
  <2>1. Begun(tr, ds) = Len(tr.statements) - Len(g.rest)
    BY <1>1, <1>3 DEF Begun
  <2> HIDE DEF rest
  <2>2. QED
    BY ONLY <2>1, <1>5, <1>6, Len(tr.statements) \in Nat
<1> HIDE DEF rest
<1>8. f.node = LastBegun(tr, ds)
  BY ONLY <1>5, <1>6, <1>7 DEF LastBegun
<1>9. \A k \in 1 .. Len(g.rest) : g.rest[k] = tr.statements[Begun(tr, ds) + k]
  <2>1. SUFFICES ASSUME NEW k \in 1 .. Len(rest) - 1
                 PROVE  g.rest[k] = tr.statements[Begun(tr, ds) + k]
    BY <1>5
  <2>2. g.rest[k] = rest[k + 1] /\ k + 1 \in 1 .. Len(rest)
    BY ONLY <1>5, k \in 1 .. Len(rest) - 1
  <2>3. rest[k + 1] = tr.statements[Begun(tr, cs) + (k + 1)]
    BY <1>6, <2>2
  <2>4. Begun(tr, cs) + (k + 1) = Begun(tr, ds) + k
    <3>1. Begun(tr, cs) \in Nat /\ k \in Nat
      BY ONLY <1>5, <1>6, k \in 1 .. Len(rest) - 1
    <3>2. QED
      BY ONLY <3>1, <1>7
  <2>5. QED
    BY <2>2, <2>3, <2>4
<1>10. InProgram(tr, ds)
  <2>1. ds[Len(ds)] = g /\ ds[Len(ds) - 1] = f
    BY <1>1, <1>3
  <2>2. Begun(tr, ds) \in Nat /\ Begun(tr, ds) >= 1
    BY <1>6, <1>7
  <2>3. QED
    BY <1>8, <1>9, <2>1, <2>2 DEF InProgram
<1>11. QED
  BY <1>1, <1>3, <1>4, <1>10

--------------------------------------------------------------------------------
(***************************************************************************)
(* Steps.                                                                  *)
(***************************************************************************)

LEMMA RecordGrows ==
  ASSUME Record
  PROVE  /\ oddities \subseteq oddities'
         /\ NoValue => "no value" \in oddities'
         /\ EarlyReturn => "early return" \in oddities'
         /\ UncheckedError => "unchecked error" \in oddities'
BY DEF Record, NewOddities

(* The innermost call.                                                     *)
LEMMA FrameFacts ==
  ASSUME NEW S, Holds(S), calls # <<>>
  PROVE  /\ Frame = calls[1] /\ Frame \in Frames(S, Len(envs))
         /\ Len(calls) \in Nat \ {0} /\ Len(envs) \in Nat
         /\ Frame.do \in {"parts", "part"} => Frame \in PartFrames(S, Len(envs))
         /\ Frame.do \in {"program", "block"} => Frame \in LoopFrames(Len(envs))
         /\ Frame.do = "eval" => Frame \in EvalFrames(Len(envs))
         /\ AllSound(S, Len(envs))
<1>1. calls \in Seq(Frames(S, Len(envs))) /\ AllSound(S, Len(envs))
  BY DEF Holds, SoundState, AllSound
<1>2. Frame = calls[1] /\ Frame \in Frames(S, Len(envs)) /\ Len(calls) \in Nat \ {0}
  BY <1>1, Popped DEF Frame
<1>3. Len(envs) \in Nat
  BY Appended DEF Holds, SoundState, SoundEnvs
<1>4. /\ \A f \in PartFrames(S, Len(envs)) : f.do \in {"parts", "part"}
      /\ \A f \in LoopFrames(Len(envs)) : f.do \in {"program", "block"}
      /\ \A f \in EvalFrames(Len(envs)) : f.do = "eval"
      /\ \A f \in ApplyFrames : f.do = "apply"
  BY DEF PartFrames, LoopFrames, EvalFrames, ApplyFrames
<1>5. QED
  BY <1>1, <1>2, <1>3, <1>4 DEF Frames

(* The machine that the evaluator runs on gives up.                        *)
LEMMA CrashKeeps ==
  ASSUME NEW S, Holds(S), Record, NEW why \in Panics \union {"stack exhausted"}, Crash(why),
         "no value" \notin oddities' => why # "nil dereference"
  PROVE  IInv'
<1>1. UNCHANGED <<tree, calls, value, envs>> /\ end' = why
  BY DEF Crash
<1>2. end' # "running" /\ end' # "done"
  BY <1>1 DEF Panics
<1>3. SoundState(S, tree', calls', value', envs', end')
  BY <1>1, <1>2 DEF Holds, SoundState
<1>4. NilFree(S, tree', calls', value', end', oddities')
  BY <1>1, <1>2, RecordGrows DEF Holds, NilFree
<1>5. ReturnFree(S, value', end', oddities')
  BY <1>1, <1>2, RecordGrows DEF Holds, ReturnFree
<1>6. ErrorFree(S, calls', value', end', oddities', raised')
  <2>1. raised' = raised \union (IF IsError(value) THEN {value} ELSE {})
    BY <1>1 DEF Record
  <2>2. QED
    BY <1>1, <1>2, <2>1, RecordGrows DEF Holds, ErrorFree
<1>7. QED
  BY <1>3, <1>4, <1>5, <1>6 DEF IInv, Holds

(* The innermost call returns r: a new value, or the value before.         *)
LEMMA GiveKeeps ==
  ASSUME NEW S, Holds(S), Record, end = "running", calls # <<>>, Frame.do # "program",
         NEW r, Give(r),
         (r.type = "failure" /\ r.why \in Panics) \/ Sound(S, Len(envs), r),
         "no value" \notin oddities' =>
           IF r.type = "failure" THEN r.why # "nil dereference" ELSE ~Holed(r),
         "unchecked error" \notin oddities' => raised = {} \/ r = value
  PROVE  IInv'
<1>1. CASE r.type = "failure"
  <2>1. Crash(r.why) /\ r.why \in Panics
    BY <1>1 DEF Give, Sound, ValueTypes
  <2>2. QED
    BY <1>1, <2>1, CrashKeeps
<1>2. CASE r.type # "failure"
  <2>1. /\ value' = r /\ UNCHANGED <<tree, envs, end>>
        /\ calls' = <<>> \o Tail(calls)
    BY <1>2 DEF Give, Become
  <2>2. calls \in Seq(Frames(S, Len(envs))) /\ Nested(calls) /\ InProgram(tree, calls)
    BY DEF Holds, SoundState
  <2>3. calls' = Tail(calls) /\ Frame = calls[1]
    BY <2>1, <2>2, Popped DEF Frame
  <2>4. /\ calls' \in Seq(Frames(S, Len(envs))) /\ Nested(calls') /\ InProgram(tree, calls')
        /\ calls'[1].do \in {"part", "program", "block", "apply"}
    BY <2>2, <2>3, PopNested
  <2>5. SoundState(S, tree', calls', value', envs', end')
    BY <1>2, <2>1, <2>4 DEF Holds, SoundState
  <2>6. NilFree(S, tree', calls', value', end', oddities')
    <3>1. r # Nil \/ "no value" \in oddities'
      BY <1>2 DEF Holed
    <3>2. QED
      BY <1>2, <2>1, <3>1, RecordGrows DEF Holds, NilFree
  <2>7. ReturnFree(S, value', end', oddities')
    BY <2>1, RecordGrows DEF Holds, ReturnFree
  <2>8. ErrorFree(S, calls', value', end', oddities', raised')
    <3>1. raised' = raised \union (IF IsError(r) THEN {r} ELSE {})
      BY <2>1 DEF Record
    <3>2. QED
      BY <2>1, <2>4, <3>1, RecordGrows DEF Holds, ErrorFree
  <2>9. QED
    BY <2>5, <2>6, <2>7, <2>8 DEF IInv, Holds
<1>3. QED
  BY <1>1, <1>2

(* The innermost call goes on without a value.                             *)
LEMMA MoveKeeps ==
  ASSUME NEW S, Holds(S), Record, end = "running",
         UNCHANGED <<tree, value, envs, end>>,
         NEW ds \in Seq(Frames(S, Len(envs))), Nested(ds), InProgram(tree, ds), Len(ds) >= 2,
         calls' = ds,
         "no value" \notin oddities' /\ value = Nil => ds[1].do \notin {"part", "apply"},
         "unchecked error" \notin oddities' => raised = {} /\ ~IsError(value)
  PROVE  IInv'
<1>1. SoundState(S, tree', calls', value', envs', end')
  BY DEF Holds, SoundState
<1>2. NilFree(S, tree', calls', value', end', oddities')
  <2>1. ~(Len(ds) < 2)
    <3>1. Len(ds) \in Nat
      BY ONLY ds \in Seq(Frames(S, Len(envs)))
    <3>2. QED
      BY ONLY <3>1, Len(ds) >= 2
  <2>2. value' = value /\ end' = "running" /\ tree' = tree
    OBVIOUS
  <2>3. "no value" \notin oddities' => (\A x \in S : ~Holed(x)) /\ (value = Nil \/ ~Holed(value))
    BY RecordGrows DEF Holds, NilFree
  <2>4. QED
    BY <2>1, <2>2, <2>3 DEF NilFree
<1>3. ReturnFree(S, value', end', oddities')
  BY RecordGrows DEF Holds, ReturnFree
<1>4. ErrorFree(S, calls', value', end', oddities', raised')
  <2>1. raised' = raised \union (IF IsError(value) THEN {value} ELSE {})
    BY DEF Record
  <2>2. QED
    BY <2>1, RecordGrows DEF Holds, ErrorFree
<1>5. QED
  BY <1>1, <1>2, <1>3, <1>4 DEF IInv, Holds

(* An error does not reach a call that is about to evaluate something.     *)
LEMMA QuietFrame ==
  ASSUME NEW S, Holds(S), Record, end = "running", calls # <<>>,
         Frame.do \in {"eval", "parts"}, "unchecked error" \notin oddities'
  PROVE  raised = {} /\ ~IsError(value)
<1>1. Frame = calls[1]
  BY FrameFacts
<1>2. "unchecked error" \notin oddities
  BY RecordGrows
<1>3. raised = {}
  BY <1>1, <1>2 DEF Holds, ErrorFree
<1>4. QED
  BY <1>2, <1>3 DEF Holds, ErrorFree

LEMMA ResultKeeps ==
  ASSUME NEW S, Holds(S), Record, end = "running", calls # <<>>,
         Frame.do \in {"eval", "parts"},
         NEW r, Give(r), Result(S, Len(envs), r)
  PROVE  IInv'
<1>1. (r.type = "failure" /\ r.why \in Panics) \/ Sound(S, Len(envs), r)
  BY DEF Result
<1>2. "no value" \notin oddities' =>
        IF r.type = "failure" THEN r.why # "nil dereference" ELSE ~Holed(r)
  BY RecordGrows DEF Result, Holds, NilFree
<1>3. "unchecked error" \notin oddities' => raised = {}
  BY QuietFrame
<1>4. Frame.do # "program"
  OBVIOUS
<1>5. QED
  BY <1>1, <1>2, <1>3, <1>4, GiveKeeps

LEMMA EvalLeafStep == ASSUME NEW S, Holds(S), Record, EvalLeaf PROVE IInv'
<1>1. end = "running" /\ calls # <<>> /\ Frame.do = "eval" /\ Frame.node.kind \in Leaves
  BY DEF EvalLeaf, Evaluating, Doing
<1>2. Frame.node \in Nodes /\ Frame.env \in 1 .. Len(envs) /\ AllSound(S, Len(envs))
  BY <1>1, FrameFacts DEF EvalFrames
<1>3. Result(S, Len(envs), LeafResult(Frame.node, Frame.env))
  BY <1>1, <1>2, LeafResults DEF Holds, SoundState
<1>4. Give(LeafResult(Frame.node, Frame.env))
  BY DEF EvalLeaf
<1>5. QED
  BY <1>1, <1>3, <1>4, ResultKeeps

(* What a call that has all its parts has.                                 *)
LEMMA CompleteFacts ==
  ASSUME NEW S, Holds(S), NEW kind, Complete(kind)
  PROVE  /\ end = "running" /\ calls # <<>> /\ Frame.do = "parts" /\ Frame.node.kind = kind
         /\ AllSound(S, Len(envs))
         /\ Frame.node \in Nodes /\ Frame.env \in 1 .. Len(envs)
         /\ Frame.got \in Seq(S)
         /\ kind \in {"PrefixExpression", "IfExpression", "LetStatement", "ReturnStatement",
                      "CallExpression", "InfixExpression", "IndexExpression"}
              => Frame.got # <<>> /\ Frame.got[1] \in S
         /\ kind \in {"InfixExpression", "IndexExpression"} => Frame.got[2] \in S
         /\ kind = "HashLiteral" => Len(Frame.got) % 2 = 0
<1>1. end = "running" /\ calls # <<>> /\ Frame.do = "parts" /\ Frame.rest = <<>>
      /\ Frame.node.kind = kind
  BY DEF Complete, Doing
<1>2. Frame \in PartFrames(S, Len(envs)) /\ AllSound(S, Len(envs))
  BY <1>1, FrameFacts
<1> DEFINE f == Frame
<1> HIDE DEF f
<1>3. f \in PartFrames(S, Len(envs)) /\ f.do = "parts" /\ f.rest = <<>> /\ f.node.kind = kind
  BY <1>1, <1>2 DEF f
<1>4. f.got \in Seq(S) /\ f.node \in Nodes /\ f.env \in 1 .. Len(envs) /\ Counted(f)
  BY <1>3 DEF PartFrames
<1>5. Len(f.got) \in Nat /\ Len(f.rest) = 0
  BY <1>3, <1>4, LenProperties, EmptySeq
<1>6. Count(f) = Len(f.got)
  BY <1>3, <1>5 DEF Count
<1>7. /\ kind \in {"PrefixExpression", "IfExpression", "LetStatement", "ReturnStatement"} => Count(f) = 1
      /\ kind \in {"InfixExpression", "IndexExpression"} => Count(f) = 2
      /\ kind = "CallExpression" => Count(f) >= 1
      /\ kind = "HashLiteral" => Count(f) % 2 = 0
  BY <1>3, <1>4 DEF Counted
<1>8. /\ kind \in {"PrefixExpression", "IfExpression", "LetStatement", "ReturnStatement",
                   "CallExpression", "InfixExpression", "IndexExpression"} => Len(f.got) >= 1
      /\ kind \in {"InfixExpression", "IndexExpression"} => Len(f.got) >= 2
      /\ kind = "HashLiteral" => Len(f.got) % 2 = 0
  <2>1. /\ kind \in {"PrefixExpression", "IfExpression", "LetStatement", "ReturnStatement",
                     "CallExpression", "InfixExpression", "IndexExpression"} => Count(f) >= 1
        /\ kind \in {"InfixExpression", "IndexExpression"} => Count(f) >= 2
    BY ONLY <1>7
  <2>2. QED
    BY ONLY <1>6, <1>7, <2>1, Zenon
<1>9. \A i \in 1 .. Len(f.got) : f.got[i] \in S
  BY <1>4, ElementOfSeq
<1>10. Len(f.got) >= 1 => f.got # <<>>
  BY <1>4, EmptySeq
<1>11. /\ 1 <= Len(f.got) => f.got[1] \in S
       /\ 2 <= Len(f.got) => f.got[2] \in S
  BY <1>5, <1>9
<1>12. QED
  BY <1>1, <1>2, <1>4, <1>8, <1>10, <1>11 DEF f

LEMMA EvalPrefixStep == ASSUME NEW S, Holds(S), Record, EvalPrefixExpression PROVE IInv'
<1> DEFINE r == IF Frame.node.operator = "bang" THEN BangResult(Frame.got[1]) ELSE MinusResult(Frame.got[1])
<1>1. Complete("PrefixExpression") /\ Give(r)
  BY DEF EvalPrefixExpression
<1>2. Frame.got[1] \in S /\ AllSound(S, Len(envs))
  BY <1>1, CompleteFacts
<1>3. Result(S, Len(envs), r)
  BY <1>2, PrefixResults
<1> HIDE DEF r
<1>4. end = "running" /\ calls # <<>> /\ Frame.do \in {"eval", "parts"}
  BY <1>1, CompleteFacts
<1>5. QED
  BY <1>1, <1>3, <1>4, ResultKeeps

LEMMA EvalInfixStep == ASSUME NEW S, Holds(S), Record, EvalInfixExpression PROVE IInv'
<1> DEFINE r == InfixResult(Frame.node.operator, Frame.got[1], Frame.got[2])
<1>1. Complete("InfixExpression") /\ Give(r)
  BY DEF EvalInfixExpression
<1>2. /\ Frame.got[1] \in S /\ Frame.got[2] \in S /\ AllSound(S, Len(envs))
      /\ Frame.node \in Nodes /\ Frame.node.kind = "InfixExpression"
  BY <1>1, CompleteFacts
<1>3. Frame.node.operator \in InfixOperators
  BY <1>2, NodesWellFormed DEF WellFormed
<1>4. Result(S, Len(envs), r)
  BY <1>2, <1>3, InfixResults
<1> HIDE DEF r
<1>5. end = "running" /\ calls # <<>> /\ Frame.do \in {"eval", "parts"}
  BY <1>1, CompleteFacts
<1>6. QED
  BY <1>1, <1>4, <1>5, ResultKeeps

LEMMA EvalIndexStep == ASSUME NEW S, Holds(S), Record, EvalIndexExpression PROVE IInv'
<1> DEFINE r == IndexResult(Frame.got[1], Frame.got[2])
<1>1. Complete("IndexExpression") /\ Give(r)
  BY DEF EvalIndexExpression
<1>2. Frame.got[1] \in S /\ Frame.got[2] \in S /\ AllSound(S, Len(envs))
  BY <1>1, CompleteFacts
<1>3. Result(S, Len(envs), r)
  BY <1>2, IndexResults
<1> HIDE DEF r
<1>4. end = "running" /\ calls # <<>> /\ Frame.do \in {"eval", "parts"}
  BY <1>1, CompleteFacts
<1>5. QED
  BY <1>1, <1>3, <1>4, ResultKeeps

LEMMA EvalLiteralStep ==
  ASSUME NEW S, Holds(S), Record, EvalArrayLiteral \/ EvalHashLiteral \/ EvalReturnStatement
  PROVE  IInv'
<1>1. CASE EvalArrayLiteral
  <2> DEFINE r == ArrayObject(Frame.got, Address)
  <2>1. Complete("ArrayLiteral") /\ Give(r)
    BY <1>1 DEF EvalArrayLiteral
  <2>2. Result(S, Len(envs), r)
    BY <2>1, CompleteFacts, ArrayResult
  <2> HIDE DEF r
  <2>3. end = "running" /\ calls # <<>> /\ Frame.do \in {"eval", "parts"}
    BY <2>1, CompleteFacts
  <2>4. QED
    BY <2>1, <2>2, <2>3, ResultKeeps
<1>2. CASE EvalHashLiteral
  <2> DEFINE r == HashResult(Frame.got)
  <2>1. Complete("HashLiteral") /\ Give(r)
    BY <1>2 DEF EvalHashLiteral
  <2>2. Result(S, Len(envs), r)
    BY <2>1, CompleteFacts, HashResults
  <2> HIDE DEF r
  <2>3. end = "running" /\ calls # <<>> /\ Frame.do \in {"eval", "parts"}
    BY <2>1, CompleteFacts
  <2>4. QED
    BY <2>1, <2>2, <2>3, ResultKeeps
<1>3. CASE EvalReturnStatement
  <2> DEFINE r == ReturnObject(Frame.got[1], Address)
  <2>1. Complete("ReturnStatement") /\ Give(r)
    BY <1>3 DEF EvalReturnStatement
  <2>2. Result(S, Len(envs), r)
    BY <2>1, CompleteFacts, ReturnResult
  <2> HIDE DEF r
  <2>3. end = "running" /\ calls # <<>> /\ Frame.do \in {"eval", "parts"}
    BY <2>1, CompleteFacts
  <2>4. QED
    BY <2>1, <2>2, <2>3, ResultKeeps
<1>4. QED
  BY <1>1, <1>2, <1>3

(* The innermost call becomes another, which is about to evaluate.         *)
LEMMA BecomeKeeps ==
  ASSUME NEW S, Holds(S), Record, end = "running", calls # <<>>,
         Frame.do \in {"eval", "parts"}, UNCHANGED value,
         NEW f \in Frames(S, Len(envs)), f.do \in {"eval", "parts"}, Become(<<f>>),
         OfStatement(f) => OfStatement(Frame) /\ f.node = Frame.node
  PROVE  IInv'
<1> DEFINE ds == Becoming(calls, f)
<1>1. calls \in Seq(Frames(S, Len(envs))) /\ Nested(calls) /\ InProgram(tree, calls)
      /\ Frame = calls[1]
  BY FrameFacts DEF Holds, SoundState
<1>2. UNCHANGED <<tree, envs, end>> /\ calls' = ds
  BY DEF Become, Becoming
<1>3. ds \in Seq(Frames(S, Len(envs))) /\ Nested(ds) /\ InProgram(tree, ds)
      /\ ds[1] = f /\ Len(ds) >= 2
  <2>1. MayBecome(tree, calls, f)
    BY <1>1 DEF MayBecome
  <2>2. QED
    BY <1>1, <2>1, ReplaceNested
<1> HIDE DEF ds
<1>4. ds[1].do \notin {"part", "apply"}
  BY <1>3
<1>5. "unchecked error" \notin oddities' => raised = {} /\ ~IsError(value)
  BY QuietFrame
<1>6. QED
  BY <1>2, <1>3, <1>4, <1>5, MoveKeeps

(* The innermost call, which is not the program, calls.                    *)
LEMMA CallKeeps ==
  ASSUME NEW S, Holds(S), Record, end = "running", calls # <<>>,
         Frame.do \in {"eval", "parts"}, UNCHANGED value,
         NEW f \in Frames(S, Len(envs)), f.do = "eval", ~OfStatement(f),
         NEW g \in Frames(S, Len(envs)), g.do \in {"part", "apply"}, Become(<<f, g>>),
         OfStatement(g) => OfStatement(Frame) /\ g.node = Frame.node
  PROVE  IInv'
<1> DEFINE ds == Calling(calls, f, g)
<1>1. calls \in Seq(Frames(S, Len(envs))) /\ Nested(calls) /\ InProgram(tree, calls)
      /\ Frame = calls[1]
  BY FrameFacts DEF Holds, SoundState
<1>2. UNCHANGED <<tree, envs, end>> /\ calls' = ds
  BY DEF Become, Calling
<1>3. ds \in Seq(Frames(S, Len(envs))) /\ Nested(ds) /\ InProgram(tree, ds)
      /\ ds[1] = f /\ Len(ds) >= 2
  <2>1. MayPush(tree, calls, f, g)
    BY <1>1 DEF MayPush
  <2>2. QED
    BY <1>1, <2>1, PushNested
<1> HIDE DEF ds
<1>4. ds[1].do \notin {"part", "apply"}
  BY <1>3
<1>5. "unchecked error" \notin oddities' => raised = {} /\ ~IsError(value)
  BY QuietFrame
<1>6. QED
  BY <1>2, <1>3, <1>4, <1>5, MoveKeeps

LEMMA NoStatements ==
  /\ \A x \in Expressions : x.kind \notin StatementKinds
  /\ \A x \in Blocks : x.kind \notin StatementKinds
<1>1. \A x \in Expressions : x.kind \in ExpressionKinds
  BY NodesWellFormed
<1>2. ExpressionKinds \intersect StatementKinds = {}
  BY DEF ExpressionKinds, StatementKinds
<1>3. \A x \in Blocks : x.kind = "BlockStatement"
  BY NodesWellFormed
<1>4. "BlockStatement" \notin StatementKinds
  BY DEF StatementKinds
<1>5. QED
  BY <1>1, <1>2, <1>3, <1>4

LEMMA EvalFrame ==
  ASSUME NEW S, NEW n, NEW node \in Nodes, NEW env \in 1 .. n
  PROVE  /\ Eval(node, env) \in Frames(S, n)
         /\ Eval(node, env).do = "eval" /\ Eval(node, env).node = node
BY DEF Eval, Frames, EvalFrames

LEMMA EvalExpressionStatementStep ==
  ASSUME NEW S, Holds(S), Record, EvalExpressionStatement PROVE IInv'
<1> DEFINE f == Eval(Frame.node.expression, Frame.env)
<1>1. /\ end = "running" /\ calls # <<>> /\ Frame.do = "eval"
      /\ Frame.node.kind = "ExpressionStatement"
      /\ Become(<<f>>) /\ UNCHANGED value
  BY DEF EvalExpressionStatement, Evaluating, Doing
<1>2. Frame.node \in Nodes /\ Frame.env \in 1 .. Len(envs)
  BY <1>1, FrameFacts DEF EvalFrames
<1>3. Frame.node.expression \in Expressions
  BY <1>1, <1>2, NodesWellFormed DEF WellFormed
<1>4. f \in Frames(S, Len(envs)) /\ f.do = "eval" /\ f.node = Frame.node.expression
  BY <1>2, <1>3, NodesWellFormed, EvalFrame
<1> HIDE DEF f
<1>5. ~OfStatement(f)
  BY <1>3, <1>4, NoStatements DEF OfStatement
<1>6. QED
  BY <1>1, <1>4, <1>5, BecomeKeeps

LEMMA EvalPartsStep ==
  ASSUME NEW S, Holds(S), Record, EvalParts PROVE IInv'
<1>1. /\ end = "running" /\ calls # <<>> /\ Frame.do = "eval"
      /\ Frame.node.kind \notin Leaves \union {"ExpressionStatement", "BlockStatement"}
      /\ UNCHANGED value
  BY DEF EvalParts, Doing
<1>2. PICK parts \in Parts(Frame.node) :
        Become(<<[do |-> "parts", node |-> Frame.node, env |-> Frame.env, rest |-> parts, got |-> <<>>]>>)
  BY DEF EvalParts
<1> DEFINE f == [do |-> "parts", node |-> Frame.node, env |-> Frame.env, rest |-> parts, got |-> <<>>]
<1>3. Frame.node \in Nodes /\ Frame.env \in 1 .. Len(envs)
  BY <1>1, FrameFacts DEF EvalFrames
<1>4. Frame.node.kind \in Composites
  <2>1. Frame.node.kind \in ExpressionKinds \union StatementKinds \union {"BlockStatement"}
    BY <1>3, NodesWellFormed DEF WellFormed
  <2>2. QED
    BY <1>1, <2>1 DEF Composites, StatementKinds
<1>5. f \in PartFrames(S, Len(envs))
  BY <1>3, <1>4, PartsFrames
<1>6. f.do = "parts" /\ f.node = Frame.node /\ Become(<<f>>)
  BY <1>2
<1> HIDE DEF f
<1>7. f \in Frames(S, Len(envs))
  BY <1>5 DEF Frames
<1>8. OfStatement(f) => OfStatement(Frame) /\ f.node = Frame.node
  BY <1>1, <1>6 DEF OfStatement
<1>9. QED
  BY <1>1, <1>6, <1>7, <1>8, BecomeKeeps

LEMMA NextPartStep ==
  ASSUME NEW S, Holds(S), Record, NextPart PROVE IInv'
<1> DEFINE f == Eval(Head(Frame.rest), Frame.env)
           g == [Frame EXCEPT !.do = "part", !.rest = Tail(@)]
<1>1. /\ end = "running" /\ calls # <<>> /\ Frame.do = "parts" /\ Frame.rest # <<>>
      /\ Become(<<f, g>>) /\ UNCHANGED value
  BY DEF NextPart, Doing
<1>2. Frame \in PartFrames(S, Len(envs))
  BY <1>1, FrameFacts
<1>3. /\ Frame.node \in Nodes /\ Frame.env \in 1 .. Len(envs)
      /\ Frame.rest \in Seq(Expressions) /\ Frame.got \in Seq(S) /\ Counted(Frame)
  BY <1>2 DEF PartFrames
<1>4. /\ Head(Frame.rest) \in Expressions /\ Tail(Frame.rest) \in Seq(Expressions)
      /\ Len(Tail(Frame.rest)) = Len(Frame.rest) - 1
      /\ Len(Frame.rest) \in Nat /\ Len(Frame.got) \in Nat
  BY <1>1, <1>3, Popped, LenProperties
<1>5. f \in Frames(S, Len(envs)) /\ f.do = "eval" /\ f.node = Head(Frame.rest)
  BY <1>3, <1>4, NodesWellFormed, EvalFrame
<1>6. /\ g \in [do : {"parts", "part"}, node : Nodes, env : 1 .. Len(envs), rest : Seq(Expressions), got : Seq(S)]
      /\ g.do = "part" /\ g.node = Frame.node /\ g.rest = Tail(Frame.rest) /\ g.got = Frame.got
  BY <1>2, <1>4 DEF PartFrames
<1> HIDE DEF f, g
<1>7. Counted(g)
  <2>1. Count(Frame) = Len(Frame.got) + Len(Frame.rest)
    BY <1>1, <1>4 DEF Count
  <2>2. Count(g) = Len(Frame.got) + (Len(Frame.rest) - 1) + 1
    BY <1>4, <1>6 DEF Count
  <2>3. Count(g) = Count(Frame)
    BY ONLY <1>4, <2>1, <2>2
  <2>4. QED
    BY <1>3, <1>6, <2>3 DEF Counted
<1>8. g \in Frames(S, Len(envs))
  BY <1>6, <1>7 DEF Frames, PartFrames
<1>9. ~OfStatement(f)
  BY <1>4, <1>5, NoStatements DEF OfStatement
<1>10. OfStatement(g) => OfStatement(Frame) /\ g.node = Frame.node
  BY <1>1, <1>6 DEF OfStatement
<1>11. QED
  BY <1>1, <1>5, <1>6, <1>8, <1>9, <1>10, CallKeeps

(* What a call that has got a part got.                                    *)
LEMMA PartFacts ==
  ASSUME NEW S, Holds(S), Record, Doing("part")
  PROVE  /\ end = "running" /\ calls # <<>> /\ Frame.do = "part" /\ Frame = calls[1]
         /\ Frame \in PartFrames(S, Len(envs)) /\ Len(envs) \in Nat
         /\ Sound(S, Len(envs), value)
         /\ "no value" \notin oddities' => value # Nil /\ ~Holed(value)
         /\ "unchecked error" \notin oddities' => raised = {} \/ (IsError(value) /\ raised = {value})
         /\ "unchecked error" \notin oddities' => ~IsError(value) \/ Frame.node.kind # "InfixExpression"
         /\ "early return" \notin oddities' => ~IsReturn(value)
<1>1. end = "running" /\ calls # <<>> /\ Frame.do = "part"
  BY DEF Doing
<1>2. Frame = calls[1] /\ Frame \in PartFrames(S, Len(envs)) /\ Len(envs) \in Nat
  BY <1>1, FrameFacts
<1>3. Sound(S, Len(envs), value)
  BY DEF Holds, SoundState
<1>4. "no value" \notin oddities' => value # Nil /\ ~Holed(value)
  BY <1>1, <1>2, RecordGrows DEF Holds, NilFree
<1>5. "unchecked error" \notin oddities' => raised = {} \/ (IsError(value) /\ raised = {value})
  BY RecordGrows DEF Holds, ErrorFree
<1>6. "unchecked error" \notin oddities' => ~IsError(value) \/ Frame.node.kind # "InfixExpression"
  BY RecordGrows DEF UncheckedError
<1>7. "early return" \notin oddities' => ~IsReturn(value)
  BY RecordGrows DEF EarlyReturn
<1>8. QED
  BY <1>1, <1>2, <1>3, <1>4, <1>5, <1>6, <1>7

LEMMA CheckedFacts ==
  ASSUME NEW S, Holds(S), Record, Doing("part")
  PROVE  /\ \/ Checked(value) = value
            \/ Checked(value) = Failure("nil dereference") /\ value = Nil
            \/ Checked(value) = Error(Address) /\ ~IsError(value) /\ Frame.node.kind = "HashLiteral"
         /\ value.type # "failure"
<1>1. value.type # "failure"
  BY PartFacts DEF Sound, ValueTypes
<1>2. QED
  BY <1>1 DEF Checked

LEMMA StopStep ==
  ASSUME NEW S, Holds(S), Record, Doing("part"), Give(Checked(value))
  PROVE  IInv'
<1> DEFINE r == Checked(value)
<1>1. /\ end = "running" /\ calls # <<>> /\ Frame.do # "program"
      /\ Sound(S, Len(envs), value)
      /\ "no value" \notin oddities' => value # Nil /\ ~Holed(value)
      /\ "unchecked error" \notin oddities' => raised = {} \/ (IsError(value) /\ raised = {value})
  BY PartFacts
<1>2. \/ r = value
      \/ r = Failure("nil dereference") /\ value = Nil
      \/ r = Error(Address) /\ ~IsError(value)
  BY CheckedFacts
<1>3. value.type # "failure"
  BY CheckedFacts
<1>4. Error(Address).type = "ERROR" /\ ~Holed(Error(Address)) /\ Sound(S, Len(envs), Error(Address))
  BY DEF Error, Holed, Nil, Sound, ValueTypes
<1>5. Failure("nil dereference").type = "failure" /\ Failure("nil dereference").why \in Panics
  BY DEF Failure, Panics
<1> HIDE DEF r
<1>6. (r.type = "failure" /\ r.why \in Panics) \/ Sound(S, Len(envs), r)
  BY <1>1, <1>2, <1>4, <1>5
<1>7. "no value" \notin oddities' =>
        IF r.type = "failure" THEN r.why # "nil dereference" ELSE ~Holed(r)
  BY <1>1, <1>2, <1>3, <1>4
<1>8. "unchecked error" \notin oddities' => raised = {} \/ r = value
  <2>1. CASE r = value
    BY <2>1
  <2>2. CASE value = Nil
    BY <1>1, <2>2 DEF IsError, Nil
  <2>3. CASE ~IsError(value)
    BY <1>1, <2>3
  <2>4. QED
    BY <1>2, <2>1, <2>2, <2>3
<1>9. Give(r)
  BY DEF r
<1>10. QED
  BY <1>1, <1>6, <1>7, <1>8, <1>9, GiveKeeps

LEMMA TakeStep ==
  ASSUME NEW S, Holds(S), Record, Doing("part"), ~Stops(Checked(value)),
         Become(<<[Frame EXCEPT !.do = "parts", !.got = Append(@, value)]>>), UNCHANGED value
  PROVE  IInv'
<1> DEFINE f == [Frame EXCEPT !.do = "parts", !.got = Append(@, value)]
           U == S \union {value}
           n == Len(envs)
           ds == Becoming(calls, f)
<1>1. /\ end = "running" /\ calls # <<>> /\ Frame.do = "part" /\ Frame = calls[1]
      /\ Frame \in PartFrames(S, n) /\ n \in Nat
      /\ Sound(S, n, value)
  BY PartFacts
<1>2. Checked(value) = value
  <2> DEFINE c == Checked(value)
  <2>1. ~(c.type = "failure" \/ (IsError(c) /\ Frame.node.kind # "InfixExpression"))
    BY DEF Stops
  <2>2. \/ c = value
        \/ c = Failure("nil dereference")
        \/ c = Error(Address) /\ Frame.node.kind = "HashLiteral"
    BY CheckedFacts
  <2> HIDE DEF c
  <2>3. Failure("nil dereference").type = "failure" /\ IsError(Error(Address))
    BY DEF Failure, Error, IsError
  <2>4. c = value
    BY ONLY <2>1, <2>2, <2>3
  <2>5. QED
    BY <2>4 DEF c
<1>3. ~IsError(value) \/ Frame.node.kind = "InfixExpression"
  BY <1>2 DEF Stops
<1>4. "unchecked error" \notin oddities' => raised = {} /\ ~IsError(value)
  BY <1>3, PartFacts
<1>5. (\A v : Sound(S, n, v) => Sound(U, n, v)) /\ Frames(S, n) \subseteq Frames(U, n)
  <2>1. S \subseteq U /\ n \in Nat /\ n <= n
    BY <1>1
  <2> HIDE DEF U, n
  <2>2. QED
    BY <2>1, Grow
<1>6. /\ Frame.node \in Nodes /\ Frame.env \in 1 .. n
      /\ Frame.rest \in Seq(Expressions) /\ Frame.got \in Seq(S) /\ Counted(Frame)
  BY <1>1 DEF PartFrames
<1>7. Append(Frame.got, value) \in Seq(U) /\ Len(Append(Frame.got, value)) = Len(Frame.got) + 1
      /\ Len(Frame.got) \in Nat /\ Len(Frame.rest) \in Nat
  <2>1. Frame.got \in Seq(U)
    BY <1>6, SeqMonotonic
  <2>2. QED
    BY <1>6, <2>1
<1>8. /\ f \in [do : {"parts", "part"}, node : Nodes, env : 1 .. n, rest : Seq(Expressions), got : Seq(U)]
      /\ f.do = "parts" /\ f.node = Frame.node /\ f.rest = Frame.rest /\ f.got = Append(Frame.got, value)
  BY <1>1, <1>7 DEF PartFrames
<1>9. UNCHANGED <<tree, envs, end>> /\ calls' = ds
  BY DEF Become, Becoming
<1> HIDE DEF f
<1>10. Counted(f)
  <2>1. Count(Frame) = Len(Frame.got) + Len(Frame.rest) + 1
    BY <1>1, <1>7 DEF Count
  <2>2. Count(f) = (Len(Frame.got) + 1) + Len(Frame.rest)
    BY <1>7, <1>8 DEF Count
  <2>3. Count(f) = Count(Frame)
    <3> DEFINE a == Len(Frame.got)
               b == Len(Frame.rest)
    <3>1. a \in Nat /\ b \in Nat
      BY <1>7
    <3> HIDE DEF a, b
    <3>2. (a + 1) + b = a + b + 1
      BY ONLY <3>1
    <3>3. QED
      BY <2>1, <2>2, <3>2 DEF a, b
  <2>4. QED
    BY <1>6, <1>8, <2>3 DEF Counted
<1>11. f \in Frames(U, n)
  BY <1>8, <1>10 DEF Frames, PartFrames
<1>12. calls \in Seq(Frames(U, n)) /\ Nested(calls) /\ InProgram(tree, calls)
  <2>1. calls \in Seq(Frames(S, n))
    BY DEF Holds, SoundState
  <2>2. QED
    BY <1>1, <1>5, <2>1, SeqMonotonic DEF Holds, SoundState
<1>13. OfStatement(f) => OfStatement(calls[1]) /\ f.node = calls[1].node
  BY <1>1, <1>8 DEF OfStatement
<1>14. ds \in Seq(Frames(U, n)) /\ Nested(ds) /\ InProgram(tree, ds) /\ ds[1] = f
  <2>1. MayBecome(tree, calls, f)
    BY <1>1, <1>8, <1>12, <1>13 DEF MayBecome
  <2>2. QED
    BY <1>11, <1>12, <2>1, ReplaceNested
<1> HIDE DEF ds
<1>15. SoundState(U, tree', calls', value', envs', end')
  <2>1. \A x \in U : Sound(U, n, x)
    BY <1>1, <1>5 DEF Holds, SoundState
  <2>2. SoundEnvs(U, envs)
    BY DEF Holds, SoundState, SoundEnvs
  <2>3. QED
    BY <1>9, <1>14, <2>1, <2>2 DEF Holds, SoundState
<1>16. NilFree(U, tree', calls', value', end', oddities')
  <2>1. "no value" \notin oddities' => value # Nil /\ ~Holed(value)
    BY PartFacts
  <2>2. QED
    BY <1>1, <1>9, <2>1, RecordGrows DEF Holds, NilFree
<1>17. ReturnFree(U, value', end', oddities')
  <2>1. "early return" \notin oddities' => ~IsReturn(value)
    BY PartFacts
  <2>2. QED
    BY <1>1, <1>9, <2>1, RecordGrows DEF Holds, ReturnFree
<1>18. ErrorFree(U, calls', value', end', oddities', raised')
  <2>1. raised' = raised \union (IF IsError(value) THEN {value} ELSE {})
    BY DEF Record
  <2>2. QED
    BY <1>4, <1>9, <2>1, RecordGrows DEF Holds, ErrorFree
<1>19. QED
  BY <1>15, <1>16, <1>17, <1>18 DEF IInv, Holds

LEMMA GotPartStep ==
  ASSUME NEW S, Holds(S), Record, GotPart PROVE IInv'
BY StopStep, TakeStep DEF GotPart
LEMMA EvalIfStep == ASSUME NEW S, Holds(S), Record, EvalIfExpression PROVE IInv'
<1> DEFINE branch == IF IsTruthy(Frame.got[1]) THEN Frame.node.consequence ELSE Frame.node.alternative
           f == Eval(branch, Frame.env)
<1>1. /\ Complete("IfExpression")
      /\ \/ branch = NoBlock /\ Give(Null)
         \/ branch # NoBlock /\ Become(<<f>>) /\ UNCHANGED value
  BY DEF EvalIfExpression
<1>2. /\ end = "running" /\ calls # <<>> /\ Frame.do = "parts" /\ Frame.node.kind = "IfExpression"
      /\ Frame.node \in Nodes /\ Frame.env \in 1 .. Len(envs)
  BY <1>1, CompleteFacts
<1>3. CASE Give(Null)
  <2>1. Result(S, Len(envs), Null)
    BY AtomResults
  <2>2. QED
    BY <1>2, <1>3, <2>1, ResultKeeps
<1>4. CASE branch # NoBlock /\ Become(<<f>>) /\ UNCHANGED value
  <2>1. branch \in Blocks
    BY <1>2, <1>4, NodesWellFormed DEF WellFormed
  <2> HIDE DEF branch
  <2>2. f \in Frames(S, Len(envs)) /\ f.do = "eval" /\ f.node = branch
    BY <1>2, <2>1, NodesWellFormed, EvalFrame
  <2> HIDE DEF f
  <2>3. ~OfStatement(f)
    BY <2>1, <2>2, NoStatements DEF OfStatement
  <2>4. QED
    BY <1>2, <1>4, <2>2, <2>3, BecomeKeeps
<1>5. QED
  BY <1>1, <1>3, <1>4

(* The value of the body of a function, or the returned value inside.      *)
LEMMA UnwrappedFacts ==
  ASSUME NEW S, Holds(S), Record
  PROVE  /\ Sound(S, Len(envs), Unwrapped(value))
         /\ "no value" \notin oddities' => value = Nil \/ ~Holed(Unwrapped(value))
         /\ "early return" \notin oddities' => ~IsReturn(Unwrapped(value))
         /\ IsError(value) => Unwrapped(value) = value
         /\ "unchecked error" \notin oddities' =>
              raised = {} \/ (raised = {value} /\ IsError(value) /\ Unwrapped(value) = value)
<1>1. Sound(S, Len(envs), value) /\ \A x \in S : Sound(S, Len(envs), x)
  BY DEF Holds, SoundState
<1>2. IsReturn(value) => value.value \in S
  BY <1>1 DEF Sound, IsReturn
<1>3. Unwrapped(value) = value \/ (IsReturn(value) /\ Unwrapped(value) \in S)
  BY <1>2 DEF Unwrapped
<1>4. IsError(value) => Unwrapped(value) = value
  BY DEF Unwrapped, IsError, IsReturn
<1>5. "no value" \notin oddities' => value = Nil \/ ~Holed(Unwrapped(value))
  BY <1>3, RecordGrows DEF Holds, NilFree
<1>6. "early return" \notin oddities' => ~IsReturn(Unwrapped(value))
  <2>1. "early return" \notin oddities' => \A x \in S : ~IsReturn(x)
    BY RecordGrows DEF Holds, ReturnFree
  <2>2. QED
    BY <1>2, <2>1 DEF Unwrapped
<1>7. "unchecked error" \notin oddities' => raised = {} \/ (raised = {value} /\ IsError(value))
  BY RecordGrows DEF Holds, ErrorFree
<1>8. QED
  BY <1>1, <1>3, <1>4, <1>5, <1>6, <1>7

LEMMA EndFunctionStep == ASSUME NEW S, Holds(S), Record, EndFunction PROVE IInv'
<1> DEFINE r == Unwrapped(value)
<1>1. end = "running" /\ calls # <<>> /\ Frame.do = "apply" /\ Give(r)
  BY DEF EndFunction, Doing
<1>2. Frame = calls[1]
  BY <1>1, FrameFacts
<1>3. "no value" \notin oddities' => value # Nil
  BY <1>1, <1>2, RecordGrows DEF Holds, NilFree
<1>4. /\ Sound(S, Len(envs), r)
      /\ "no value" \notin oddities' => ~Holed(r)
      /\ "unchecked error" \notin oddities' => raised = {} \/ r = value
  BY <1>3, UnwrappedFacts
<1> HIDE DEF r
<1>5. r.type # "failure"
  BY <1>4 DEF Sound, ValueTypes
<1>6. QED
  BY <1>1, <1>4, <1>5, GiveKeeps

LEMMA EndBlockStep == ASSUME NEW S, Holds(S), Record, EndBlock PROVE IInv'
<1>1. end = "running" /\ calls # <<>> /\ Frame.do = "block" /\ Ended /\ Give(value)
  BY DEF EndBlock, Doing
<1>2. Sound(S, Len(envs), value)
  BY DEF Holds, SoundState
<1>3. value.type # "failure"
  BY <1>2 DEF Sound, ValueTypes
<1>4. "no value" \notin oddities' => ~Holed(value)
  <2>1. value = Nil => NoValue
    BY <1>1 DEF NoValue, InLoop, Doing, Unwrapped, IsReturn, Nil
  <2>2. "no value" \notin oddities' => value # Nil
    BY <2>1, RecordGrows
  <2>3. QED
    BY <2>2, RecordGrows DEF Holds, NilFree
<1>5. QED
  BY <1>1, <1>2, <1>3, <1>4, GiveKeeps

(* What a call of a function or anything else has got.                     *)
LEMMA ApplyingFacts ==
  ASSUME NEW S, Holds(S), Complete("CallExpression")
  PROVE  /\ end = "running" /\ calls # <<>> /\ Frame.do = "parts"
         /\ AllSound(S, Len(envs)) /\ Frame.got \in Seq(S) /\ Frame.got # <<>>
         /\ Frame.got[1] \in S /\ Sound(S, Len(envs), Frame.got[1])
         /\ Arguments \in Seq(S)
<1>1. /\ end = "running" /\ calls # <<>> /\ Frame.do = "parts"
      /\ AllSound(S, Len(envs)) /\ Frame.got \in Seq(S) /\ Frame.got # <<>>
      /\ Frame.got[1] \in S
  BY CompleteFacts
<1>2. Arguments \in Seq(S)
  BY <1>1, HeadTailProperties DEF Arguments
<1>3. QED
  BY <1>1, <1>2 DEF AllSound

LEMMA ApplyBuiltinStep == ASSUME NEW S, Holds(S), Record, ApplyBuiltin PROVE IInv'
<1> DEFINE name == Builtins[Frame.got[1].index + 1]
           result == BuiltinResult(name, Arguments, Address)
           r == IF result = Nil THEN Null ELSE result
<1>1. Complete("CallExpression") /\ Frame.got[1].type = "BUILTIN" /\ Give(r)
  BY DEF ApplyBuiltin, Applying
<1>2. /\ end = "running" /\ calls # <<>> /\ Frame.do = "parts"
      /\ AllSound(S, Len(envs)) /\ Arguments \in Seq(S) /\ Sound(S, Len(envs), Frame.got[1])
  BY <1>1, ApplyingFacts
<1>3. name \in {"len", "puts", "first", "last", "rest", "push"}
  <2>1. Frame.got[1].index + 1 \in DOMAIN Builtins
    BY <1>1, <1>2 DEF Sound
  <2>2. QED
    BY <2>1, BuiltinsAssumption, ElementOfSeq, LenProperties
<1> HIDE DEF name
<1>4. Result(S, Len(envs), r)
  BY <1>2, <1>3, BuiltinResults
<1> HIDE DEF r
<1>5. QED
  BY <1>1, <1>2, <1>4, ResultKeeps

LEMMA ApplyOtherStep == ASSUME NEW S, Holds(S), Record, ApplyOther PROVE IInv'
<1> DEFINE r == IF Frame.got[1] = Nil THEN Failure("nil dereference") ELSE Error(Address)
<1>1. Complete("CallExpression") /\ Give(r)
  BY DEF ApplyOther
<1>2. /\ end = "running" /\ calls # <<>> /\ Frame.do = "parts" /\ Frame.got[1] \in S
  BY <1>1, ApplyingFacts
<1>3. Result(S, Len(envs), r)
  BY <1>2, NilResult, AtomResults
<1> HIDE DEF r
<1>4. QED
  BY <1>1, <1>2, <1>3, ResultKeeps
(* A function is called: its environment is a new one.                     *)
LEMMA CallFunctionStep ==
  ASSUME NEW S, Holds(S), Record, Applying({"FUNCTION"}), NEW fn, fn = Frame.got[1],
         Len(Arguments) >= Len(fn.parameters),
         envs' = Append(envs, ExtendedEnv(fn)),
         calls' = <<Eval(fn.body, Len(envs) + 1), [do |-> "apply"]>> \o Tail(calls),
         UNCHANGED <<tree, value, made, end>>
  PROVE  IInv'
<1> DEFINE n == Len(envs)
           f == Eval(fn.body, n + 1)
           g == [do |-> "apply"]
           ds == Calling(calls, f, g)
<1>1. /\ end = "running" /\ calls # <<>> /\ Frame.do = "parts" /\ n \in Nat
      /\ Frame.got \in Seq(S) /\ Frame.got # <<>>
      /\ fn \in S /\ Sound(S, n, fn) /\ fn.type = "FUNCTION" /\ Frame = calls[1]
  BY ApplyingFacts, FrameFacts DEF Applying
<1>2. calls' = ds
  BY DEF Calling
<1>3. fn.env \in 1 .. n /\ fn.body \in Blocks
  BY <1>1 DEF Sound
<1>4. (\A v : Sound(S, n, v) => Sound(S, n + 1, v)) /\ Frames(S, n) \subseteq Frames(S, n + 1)
  <2>1. S \subseteq S /\ n \in Nat /\ n + 1 \in Nat /\ n <= n + 1
    BY <1>1
  <2> HIDE DEF n
  <2>2. QED
    BY <2>1, Grow
<1>5. IsSequence(envs) /\ SoundEnvs(S, envs)
  BY DEF Holds, SoundState, SoundEnvs
<1>6. /\ IsSequence(envs') /\ Len(envs') = n + 1
      /\ \A e \in 1 .. n : envs'[e] = envs[e]
      /\ envs'[n + 1] = ExtendedEnv(fn)
  BY <1>5, Appended
<1>7. SoundEnvs(S, envs')
  <2>1. \A x \in DOMAIN Bound(fn) : Bound(fn)[x] \in S
    BY <1>1, BoundSound
  <2>2. /\ ExtendedEnv(fn).store = Bound(fn) /\ ExtendedEnv(fn).outer = fn.env
        /\ ExtendedEnv(fn) = Environment(Bound(fn), fn.env)
    BY DEF ExtendedEnv, Environment
  <2>3. fn.env \in 0 .. (n + 1) - 1
    BY <1>1, <1>3
  <2>4. ASSUME NEW e \in 1 .. n + 1
        PROVE  /\ envs'[e] = Environment(envs'[e].store, envs'[e].outer)
               /\ envs'[e].outer \in 0 .. e - 1
               /\ \A x \in DOMAIN envs'[e].store : envs'[e].store[x] \in S
    <3>1. CASE e = n + 1
      BY <1>6, <2>1, <2>2, <2>3, <3>1
    <3>2. CASE e # n + 1
      <4>1. e \in 1 .. n
        BY <1>1, <3>2
      <4>2. QED
        BY <1>5, <1>6, <4>1 DEF SoundEnvs
    <3>3. QED
      BY <3>1, <3>2
  <2>5. QED
    BY <1>6, <2>4 DEF SoundEnvs
<1>8. f \in Frames(S, n + 1) /\ f.do = "eval" /\ f.node = fn.body
  <2>1. fn.body \in Nodes /\ n + 1 \in 1 .. n + 1
    BY <1>1, <1>3, NodesWellFormed
  <2>2. QED
    BY <2>1, EvalFrame
<1>9. g \in Frames(S, n + 1) /\ g.do = "apply"
  BY DEF Frames, ApplyFrames
<1> HIDE DEF f, g
<1>10. calls \in Seq(Frames(S, n + 1)) /\ Nested(calls) /\ InProgram(tree, calls)
  <2>1. calls \in Seq(Frames(S, n)) /\ Nested(calls) /\ InProgram(tree, calls)
    BY <1>1 DEF Holds, SoundState
  <2>2. QED
    BY <1>4, <2>1, SeqMonotonic
<1>11. ds \in Seq(Frames(S, n + 1)) /\ Nested(ds) /\ InProgram(tree, ds) /\ ds[1] = f /\ Len(ds) >= 2
  <2>1. ~OfStatement(f)
    BY <1>3, <1>8, NoStatements DEF OfStatement
  <2>2. ~OfStatement(g)
    BY <1>9 DEF OfStatement
  <2>3. MayPush(tree, calls, f, g)
    BY <1>1, <1>8, <1>9, <1>10, <2>1, <2>2 DEF MayPush
  <2>4. QED
    BY <1>8, <1>9, <1>10, <2>3, PushNested
<1> HIDE DEF ds
<1>12. SoundState(S, tree', calls', value', envs', end')
  <2>1. (\A x \in S : Sound(S, n, x)) /\ Sound(S, n, value)
    BY DEF Holds, SoundState
  <2>2. QED
    BY <1>2, <1>4, <1>6, <1>7, <1>11, <2>1 DEF Holds, SoundState
<1>13. NilFree(S, tree', calls', value', end', oddities')
  <2>1. ~(Len(ds) < 2)
    <3>1. Len(ds) \in Nat
      BY <1>11, LenProperties
    <3>2. QED
      BY ONLY <3>1, <1>11
  <2>2. ds[1].do \notin {"part", "apply"}
    BY <1>8, <1>11
  <2>3. QED
    BY <1>1, <1>2, <2>1, <2>2, RecordGrows DEF Holds, NilFree
<1>14. ReturnFree(S, value', end', oddities')
  BY RecordGrows DEF Holds, ReturnFree
<1>15. ErrorFree(S, calls', value', end', oddities', raised')
  <2>1. raised' = raised \union (IF IsError(value) THEN {value} ELSE {})
    BY DEF Record
  <2>2. "unchecked error" \notin oddities' => raised = {} /\ ~IsError(value)
    BY <1>1, QuietFrame
  <2>3. QED
    BY <2>1, <2>2, RecordGrows DEF Holds, ErrorFree
<1>16. QED
  BY <1>12, <1>13, <1>14, <1>15 DEF IInv, Holds

LEMMA ApplyFunctionStep == ASSUME NEW S, Holds(S), Record, ApplyFunction PROVE IInv'
<1> DEFINE fn == Frame.got[1]
<1>1. CASE Crash("index out of range")
  BY <1>1, CrashKeeps DEF Panics
<1>2. CASE Crash("stack exhausted")
  BY <1>2, CrashKeeps
<1>3. CASE /\ Len(Arguments) >= Len(fn.parameters)
           /\ envs' = Append(envs, ExtendedEnv(fn))
           /\ calls' = <<Eval(fn.body, Len(envs) + 1), [do |-> "apply"]>> \o Tail(calls)
           /\ UNCHANGED <<tree, value, made, end>>
  <2>1. Applying({"FUNCTION"})
    BY DEF ApplyFunction
  <2>2. QED
    BY <1>3, <2>1, CallFunctionStep
<1>4. QED
  BY <1>1, <1>2, <1>3 DEF ApplyFunction

(* A name gets a value.                                                    *)
LEMMA EvalLetStep == ASSUME NEW S, Holds(S), Record, EvalLetStatement PROVE IInv'
<1> DEFINE n == Len(envs)
           env == Frame.env
           v == Frame.got[1]
           old == envs[env].store
           new == [x \in DOMAIN old \union {Frame.node.name} |->
                     IF x = Frame.node.name THEN v ELSE old[x]]
<1>1. Complete("LetStatement") /\ value' = Nil /\ calls' = Tail(calls) /\ UNCHANGED <<tree, made, end>>
  BY DEF EvalLetStatement
<1>2. /\ end = "running" /\ calls # <<>> /\ Frame.do = "parts" /\ Frame.node.kind = "LetStatement"
      /\ env \in 1 .. n /\ v \in S
  BY <1>1, CompleteFacts
<1>3. n \in Nat /\ Frame = calls[1]
  BY <1>2, FrameFacts
<1>4. IsSequence(envs) /\ SoundEnvs(S, envs)
  BY DEF Holds, SoundState, SoundEnvs
<1>5. envs' = [envs EXCEPT ![env] = Environment(new, envs[env].outer)]
  <2>1. envs[env] = Environment(old, envs[env].outer)
    BY <1>2, <1>4 DEF SoundEnvs
  <2>2. [envs[env] EXCEPT !.store = new] = Environment(new, envs[env].outer)
    BY <2>1 DEF Environment
  <2>3. envs' = [envs EXCEPT ![env] = [envs[env] EXCEPT !.store = new]]
    BY DEF EvalLetStatement
  <2>4. QED
    BY <2>2, <2>3
<1>6. \A x \in DOMAIN new : new[x] \in S
  BY <1>2, <1>4 DEF SoundEnvs
<1> HIDE DEF new
<1>7. /\ IsSequence(envs') /\ Len(envs') = n
      /\ \A e \in 1 .. n : envs'[e] = IF e = env THEN Environment(new, envs[env].outer) ELSE envs[e]
  <2> DEFINE changed == Environment(new, envs[env].outer)
             es == [envs EXCEPT ![env] = changed]
  <2> HIDE DEF changed, env
  <2>1. /\ IsSequence(es) /\ Len(es) = n
        /\ \A e \in 1 .. n : es[e] = IF e = env THEN changed ELSE envs[e]
    BY <1>2, <1>4, Changed
  <2>2. envs' = es
    BY <1>5 DEF changed
  <2> HIDE DEF es
  <2>3. QED
    BY <2>1, <2>2 DEF changed
<1>8. SoundEnvs(S, envs')
  <2>1. /\ Environment(new, envs[env].outer).store = new
        /\ Environment(new, envs[env].outer).outer = envs[env].outer
    BY DEF Environment
  <2>2. QED
    BY <1>2, <1>4, <1>6, <1>7, <2>1 DEF SoundEnvs
<1>9. /\ calls' \in Seq(Frames(S, n)) /\ Nested(calls') /\ InProgram(tree, calls')
      /\ calls'[1].do \in {"program", "block"}
      /\ Len(calls') < 2 => LastBegun(tree, calls').kind = "LetStatement"
  <2>1. calls \in Seq(Frames(S, n)) /\ Nested(calls) /\ InProgram(tree, calls)
    BY <1>2 DEF Holds, SoundState
  <2>2. OfStatement(calls[1]) /\ calls[1].node.kind = "LetStatement" /\ calls[1].do # "program"
    BY <1>2, <1>3 DEF OfStatement, StatementKinds
  <2>3. calls' \in Seq(Frames(S, n)) /\ Nested(calls') /\ InProgram(tree, calls')
    BY <1>1, <1>2, <2>1, <2>2, PopNested
  <2>4. calls' \in Seq(Frames(S, n)) /\ calls'[1].do \in {"program", "block"}
    BY <1>1, <1>2, <2>1, <2>2, PopNested
  <2>5. calls' \in Seq(Frames(S, n)) /\ AfterLet(tree, calls, calls')
    BY <1>1, <1>2, <2>1, <2>2, PopNested
  <2>6. QED
    BY <2>2, <2>3, <2>4, <2>5 DEF AfterLet
<1>10. SoundState(S, tree', calls', value', envs', end')
  <2>1. Sound(S, n, Nil)
    BY DEF Sound, Nil, ValueTypes
  <2>2. QED
    BY <1>1, <1>7, <1>8, <1>9, <2>1 DEF Holds, SoundState
<1>11. NilFree(S, tree', calls', value', end', oddities')
  BY <1>1, <1>2, <1>9, RecordGrows DEF Holds, NilFree
<1>12. ReturnFree(S, value', end', oddities')
  BY <1>1, <1>2, RecordGrows DEF Holds, ReturnFree
<1>13. ErrorFree(S, calls', value', end', oddities', raised')
  <2>1. ~IsError(Nil)
    BY DEF IsError, Nil
  <2>2. raised' = raised
    BY <1>1, <2>1 DEF Record
  <2>3. "unchecked error" \notin oddities' => raised = {}
    BY <1>2, QuietFrame
  <2>4. QED
    BY <1>1, <2>1, <2>2, <2>3, RecordGrows DEF Holds, ErrorFree
<1>14. QED
  BY <1>10, <1>11, <1>12, <1>13 DEF IInv, Holds
(* The statements of a block, from the first.                              *)
LEMMA EvalBlockStep == ASSUME NEW S, Holds(S), Record, EvalBlockStatement PROVE IInv'
<1> DEFINE n == Len(envs)
           f == Loop("block", Frame.node, Frame.env)
           ds == Becoming(calls, f)
<1>1. /\ end = "running" /\ calls # <<>> /\ Frame.do = "eval" /\ Frame.node.kind = "BlockStatement"
      /\ value' = Nil /\ calls' = ds /\ UNCHANGED <<tree, envs, end>>
  BY DEF EvalBlockStatement, Evaluating, Doing, Become, Becoming
<1>2. Frame = calls[1] /\ Frame.node \in Nodes /\ Frame.env \in 1 .. n
  BY <1>1, FrameFacts DEF EvalFrames
<1>3. Frame.node.statements \in Seq(Statements)
  BY <1>1, <1>2, NodesWellFormed DEF WellFormed
<1>4. f \in Frames(S, n) /\ f.do = "block"
  BY <1>2, <1>3 DEF Loop, Frames, LoopFrames
<1> HIDE DEF f
<1>5. calls \in Seq(Frames(S, n)) /\ Nested(calls) /\ InProgram(tree, calls)
  BY <1>1 DEF Holds, SoundState
<1>6. ds \in Seq(Frames(S, n)) /\ Nested(ds) /\ InProgram(tree, ds) /\ ds[1] = f /\ Len(ds) >= 2
  <2>1. MayBecome(tree, calls, f)
    BY <1>1, <1>2, <1>4, <1>5 DEF MayBecome, OfStatement
  <2>2. QED
    BY <1>4, <1>5, <2>1, ReplaceNested
<1> HIDE DEF ds
<1>7. SoundState(S, tree', calls', value', envs', end')
  <2>1. Sound(S, n, Nil)
    BY DEF Sound, Nil, ValueTypes
  <2>2. QED
    BY <1>1, <1>6, <2>1 DEF Holds, SoundState
<1>8. NilFree(S, tree', calls', value', end', oddities')
  <2>1. ~(Len(ds) < 2)
    <3>1. Len(ds) \in Nat
      BY <1>6, LenProperties
    <3>2. QED
      BY ONLY <3>1, <1>6
  <2>2. ds[1].do \notin {"part", "apply"}
    BY <1>4, <1>6
  <2>3. QED
    BY <1>1, <2>1, <2>2, RecordGrows DEF Holds, NilFree
<1>9. ReturnFree(S, value', end', oddities')
  BY <1>1, RecordGrows DEF Holds, ReturnFree
<1>10. ErrorFree(S, calls', value', end', oddities', raised')
  <2>1. ~IsError(Nil)
    BY DEF IsError, Nil
  <2>2. raised' = raised
    BY <1>1, <2>1 DEF Record
  <2>3. "unchecked error" \notin oddities' => raised = {}
    BY <1>1, QuietFrame
  <2>4. QED
    BY <1>1, <2>1, <2>2, <2>3, RecordGrows DEF Holds, ErrorFree
<1>11. QED
  BY <1>7, <1>8, <1>9, <1>10 DEF IInv, Holds

LEMMA NextStatementStep == ASSUME NEW S, Holds(S), Record, NextStatement PROVE IInv'
<1> DEFINE n == Len(envs)
           f == Eval(Head(Frame.rest), Frame.env)
           g == [Frame EXCEPT !.rest = Tail(@)]
           ds == Calling(calls, f, g)
<1>1. /\ end = "running" /\ calls # <<>> /\ Frame.do \in {"program", "block"}
      /\ Frame.rest # <<>> /\ ~IsError(value)
      /\ calls' = ds /\ UNCHANGED <<tree, value, envs, end>>
  BY DEF NextStatement, InLoop, Doing, Ended, Become, Calling
<1>2. Frame = calls[1] /\ Frame \in LoopFrames(n)
  BY <1>1, FrameFacts
<1>3. Frame.rest \in Seq(Statements) /\ Frame.env \in 1 .. n
  BY <1>2 DEF LoopFrames
<1>4. Head(Frame.rest) \in Statements /\ Tail(Frame.rest) \in Seq(Statements)
  BY <1>1, <1>3, Popped
<1>5. f \in Frames(S, n) /\ f.do = "eval" /\ f.node = Head(Frame.rest)
  BY <1>3, <1>4, NodesWellFormed, EvalFrame
<1>6. g \in Frames(S, n) /\ g.do = Frame.do /\ g.rest = Tail(Frame.rest)
  BY <1>2, <1>4 DEF Frames, LoopFrames
<1> HIDE DEF f, g
<1>7. calls \in Seq(Frames(S, n)) /\ Nested(calls) /\ InProgram(tree, calls)
  BY <1>1 DEF Holds, SoundState
<1>8. ds \in Seq(Frames(S, n)) /\ Nested(ds) /\ InProgram(tree, ds) /\ ds[1] = f /\ Len(ds) >= 2
  <2>1. CASE Frame.do = "block"
    <3>1. ~OfStatement(g)
      BY <1>6, <2>1 DEF OfStatement
    <3>2. MayPush(tree, calls, f, g)
      BY <1>1, <1>2, <1>5, <1>6, <1>7, <2>1, <3>1 DEF MayPush
    <3>3. QED
      BY <1>5, <1>6, <1>7, <3>2, PushNested
  <2>2. CASE Frame.do = "program"
    <3>1. tree \in Programs
      BY DEF Holds, SoundState
    <3>2. Len(tree.statements) \in Nat
      BY <3>1, NodesWellFormed, LenProperties
    <3>3. calls[1].do = "program" /\ calls[1].rest \in Seq(Statements) /\ calls[1].rest # <<>>
          /\ f.node = Head(calls[1].rest) /\ g.rest = Tail(calls[1].rest) /\ g.do = "program"
      BY <1>1, <1>2, <1>3, <1>5, <1>6, <2>2
    <3>4. QED
      BY <1>1, <1>5, <1>6, <1>7, <3>2, <3>3, PushOnProgram
  <2>3. QED
    BY <1>1, <2>1, <2>2
<1> HIDE DEF ds
<1>9. ds[1].do \notin {"part", "apply"}
  BY <1>5, <1>8
<1>10. "unchecked error" \notin oddities' => raised = {} /\ ~IsError(value)
  BY <1>1, RecordGrows DEF Holds, ErrorFree
<1>11. QED
  BY <1>1, <1>8, <1>9, <1>10, MoveKeeps

(* A nil is the answer only of a program that does not have a value.       *)
LEMMA AnswerFacts ==
  ASSUME NEW S, Holds(S), Record, EndProgram
  PROVE  "no value" \notin oddities' => ~Holed(Unwrapped(value))
<1>1. end = "running" /\ calls # <<>> /\ Frame.do = "program" /\ Ended
  BY DEF EndProgram, Doing
<1> SUFFICES ASSUME "no value" \notin oddities', value = Nil PROVE FALSE
  BY UnwrappedFacts
<1>2. Frame = calls[1] /\ Frame \in LoopFrames(Len(envs)) /\ Len(calls) \in Nat \ {0}
  BY <1>1, FrameFacts
<1>3. Nested(calls) /\ InProgram(tree, calls) /\ tree \in Programs
  BY <1>1 DEF Holds, SoundState
<1>4. ~(Len(calls) > 1)
  <2>1. Len(calls) > 1 => 1 \in 1 .. Len(calls) - 1
    BY ONLY <1>2
  <2>2. QED
    BY <1>1, <1>2, <1>3, <2>1 DEF Nested
<1>5. Frame.rest = <<>>
  BY <1>1 DEF Ended, IsError, IsReturn, Nil
<1>6. Begun(tree, calls) = Len(tree.statements) /\ Len(tree.statements) \in Nat
  <2>1. tree.statements \in Seq(Statements) /\ Len(tree.statements) \in Nat
    BY <1>3, NodesWellFormed, LenProperties
  <2> DEFINE rest == calls[Len(calls)].rest
  <2>2. calls[Len(calls)] = calls[1]
    BY ONLY <1>2, <1>4
  <2>3. rest = <<>>
    BY <1>2, <1>5, <2>2
  <2>4. ~(Len(rest) > 0) /\ Len(rest) \in Nat
    <3>1. rest \in Seq({})
      BY <2>3, EmptySeq
    <3> HIDE DEF rest
    <3>2. Len(rest) = 0
      BY ONLY <2>3, <3>1, EmptySeq, Zenon
    <3>3. QED
      BY ONLY <3>2
  <2>5. Begun(tree, calls) = Len(tree.statements) - Len(rest)
    BY DEF Begun
  <2> HIDE DEF rest
  <2>6. QED
    BY ONLY <2>1, <2>4, <2>5
<1>7. HasValue(tree)
  <2>1. ~NoValue
    BY RecordGrows
  <2>2. Unwrapped(value) = Nil
    BY DEF Unwrapped, IsReturn, Nil
  <2>3. QED
    BY <1>1, <2>1, <2>2 DEF NoValue, InLoop, Doing
<1>8. tree.statements # <<>> /\ tree.statements[Len(tree.statements)].kind # "LetStatement"
  BY <1>7 DEF HasValue
<1>9. Begun(tree, calls) >= 1
  <2>1. tree.statements \in Seq(Statements)
    BY <1>3, NodesWellFormed
  <2>2. Len(tree.statements) \in Nat \ {0}
    BY <1>8, <2>1, Popped
  <2>3. QED
    BY ONLY <1>6, <2>2
<1>10. LastBegun(tree, calls).kind = "LetStatement"
  <2>1. Len(calls) < 2
    BY ONLY <1>2, <1>4
  <2>2. QED
    BY <1>1, <1>9, <2>1, RecordGrows DEF Holds, NilFree
<1>11. LastBegun(tree, calls) = tree.statements[Len(tree.statements)]
  BY <1>6 DEF LastBegun
<1>12. QED
  BY <1>8, <1>10, <1>11

LEMMA EndProgramStep == ASSUME NEW S, Holds(S), Record, EndProgram PROVE IInv'
<1>1. value' = Unwrapped(value) /\ calls' = <<>> /\ end' = "done" /\ UNCHANGED <<tree, envs>>
  BY DEF EndProgram
<1>2. SoundState(S, tree', calls', value', envs', end')
  <2>1. Sound(S, Len(envs), value')
    BY <1>1, UnwrappedFacts
  <2>2. <<>> \in Seq(Frames(S, Len(envs)))
    OBVIOUS
  <2>3. QED
    BY <1>1, <2>1, <2>2 DEF Holds, SoundState
<1>3. NilFree(S, tree', calls', value', end', oddities')
  BY <1>1, AnswerFacts, RecordGrows DEF Holds, NilFree
<1>4. ReturnFree(S, value', end', oddities')
  BY <1>1, UnwrappedFacts, RecordGrows DEF Holds, ReturnFree
<1>5. ErrorFree(S, calls', value', end', oddities', raised')
  <2>1. raised' = raised \union (IF IsError(value') THEN {value'} ELSE {})
    BY DEF Record
  <2>2. "unchecked error" \notin oddities' => raised = {} \/ (raised = {value'} /\ IsError(value'))
    BY <1>1, UnwrappedFacts
  <2>3. QED
    BY <1>1, <2>1, <2>2, RecordGrows DEF Holds, ErrorFree
<1>6. QED
  BY <1>2, <1>3, <1>4, <1>5 DEF IInv, Holds

--------------------------------------------------------------------------------
(***************************************************************************)
(* The invariant.                                                          *)
(***************************************************************************)

(* Nothing of the values has been evaluated yet.                           *)
LEMMA Beginning == ASSUME HistoryInit PROVE IInv
<1> DEFINE f == Loop("program", tree, 1)
           e == Environment(NoNames, 0)
<1>1. /\ tree \in Programs /\ calls = <<f>> /\ value = Nil /\ envs = <<e>> /\ end = "running"
      /\ oddities = {} /\ raised = {}
  BY DEF HistoryInit, Init, Start, HistoryStart
<1>2. tree.statements \in Seq(Statements)
  BY <1>1, NodesWellFormed
<1>3. f.do = "program" /\ f.rest = tree.statements /\ f \in Frames({}, 1)
  BY <1>2 DEF Loop, Frames, LoopFrames
<1>4. e = Environment(e.store, e.outer) /\ e.outer = 0 /\ DOMAIN e.store = {}
  BY DEF Environment, NoNames
<1> HIDE DEF f, e
<1>13. SoundEnvs({}, envs) /\ Len(envs) = 1
  <2>1. envs \in Seq({e}) /\ Len(envs) = 1 /\ envs[1] = e
    BY <1>1
  <2>2. \A i \in 1 .. Len(envs) : envs[i] = e /\ 0 \in 0 .. i - 1
    BY <2>1
  <2>3. QED
    BY <1>4, <2>1, <2>2 DEF SoundEnvs, IsSequence
<1>5. Len(calls) = 1 /\ calls[1] = f /\ calls \in Seq(Frames({}, 1))
  BY <1>1, <1>3
<1>6. Nested(calls)
  BY <1>3, <1>5 DEF Nested
<1>7. Begun(tree, calls) = 0
  <2>1. Len(tree.statements) \in Nat
    BY <1>2, LenProperties
  <2>2. Begun(tree, calls) = Len(tree.statements) - Len(tree.statements)
    BY <1>3, <1>5 DEF Begun
  <2>3. QED
    BY <2>1, <2>2
<1>8. InProgram(tree, calls)
  <2>1. \A k \in 1 .. Len(tree.statements) : k = 0 + k
    OBVIOUS
  <2>2. ~(Len(calls) >= 2)
    BY <1>5
  <2>3. QED
    BY <1>3, <1>5, <1>7, <2>1, <2>2 DEF InProgram
<1>9. SoundState({}, tree, calls, value, envs, end)
  <2>1. Sound({}, 1, Nil)
    BY DEF Sound, Nil, ValueTypes
  <2>2. QED
    BY <1>1, <1>5, <1>6, <1>8, <1>13, <2>1 DEF SoundState
<1>10. NilFree({}, tree, calls, value, end, oddities)
  BY <1>1, <1>3, <1>5, <1>7 DEF NilFree
<1>11. ReturnFree({}, value, end, oddities) /\ ErrorFree({}, calls, value, end, oddities, raised)
  BY <1>1 DEF ReturnFree, ErrorFree, IsError, Nil
<1>12. QED
  BY <1>9, <1>10, <1>11 DEF IInv, Holds

(* Only the records may go on.                                             *)
LEMMA StutterKeeps ==
  ASSUME NEW S, Holds(S), UNCHANGED evaluation, oddities \subseteq oddities',
         raised' = raised \/ raised' = raised \union (IF IsError(value') THEN {value'} ELSE {})
  PROVE  IInv'
<1>1. UNCHANGED <<tree, calls, value, envs, end>>
  BY DEF evaluation
<1>2. SoundState(S, tree', calls', value', envs', end')
  BY <1>1 DEF Holds
<1>3. NilFree(S, tree', calls', value', end', oddities')
  BY <1>1 DEF Holds, NilFree
<1>4. ReturnFree(S, value', end', oddities')
  BY <1>1 DEF Holds, ReturnFree
<1>5. ErrorFree(S, calls', value', end', oddities', raised')
  <2>1. "unchecked error" \notin oddities' => raised' = raised
    BY <1>1 DEF Holds, ErrorFree
  <2>2. QED
    BY <1>1, <2>1 DEF Holds, ErrorFree
<1>6. QED
  BY <1>2, <1>3, <1>4, <1>5 DEF IInv, Holds

LEMMA NextKeeps == ASSUME IInv, [HistoryNext]_evaluationHistory PROVE IInv'
<1>1. PICK S : Holds(S)
  BY DEF IInv
<1>2. CASE HistoryNext
  <2>1. Record
    BY <1>2 DEF HistoryNext
  <2>2. CASE EvalLeaf \/ EvalExpressionStatement \/ EvalParts \/ NextPart \/ GotPart
    BY <1>1, <2>1, <2>2, EvalLeafStep, EvalExpressionStatementStep, EvalPartsStep, NextPartStep, GotPartStep
  <2>3. CASE EvalPrefixExpression \/ EvalInfixExpression \/ EvalIndexExpression
    BY <1>1, <2>1, <2>3, EvalPrefixStep, EvalInfixStep, EvalIndexStep
  <2>4. CASE EvalArrayLiteral \/ EvalHashLiteral \/ EvalReturnStatement \/ EvalLetStatement \/ EvalIfExpression
    BY <1>1, <2>1, <2>4, EvalLiteralStep, EvalLetStep, EvalIfStep
  <2>5. CASE ApplyFunction \/ EndFunction \/ ApplyBuiltin \/ ApplyOther
    BY <1>1, <2>1, <2>5, ApplyFunctionStep, EndFunctionStep, ApplyBuiltinStep, ApplyOtherStep
  <2>6. CASE EvalBlockStatement \/ NextStatement \/ EndBlock \/ EndProgram
    BY <1>1, <2>1, <2>6, EvalBlockStep, NextStatementStep, EndBlockStep, EndProgramStep
  <2>7. CASE Stopped
    <3>1. UNCHANGED evaluation /\ oddities \subseteq oddities'
          /\ raised' = raised \union (IF IsError(value') THEN {value'} ELSE {})
      BY <2>1, <2>7 DEF Stopped, Record
    <3>2. QED
      BY <1>1, <3>1, StutterKeeps
  <2>8. QED
    BY <1>2, <2>2, <2>3, <2>4, <2>5, <2>6, <2>7 DEF HistoryNext, Next, Step
<1>3. CASE UNCHANGED evaluationHistory
  <2>1. UNCHANGED evaluation /\ oddities' = oddities /\ raised' = raised
    BY <1>3 DEF evaluationHistory, history
  <2>2. QED
    BY <1>1, <2>1, StutterKeeps
<1>4. QED
  BY <1>2, <1>3

(* Every evaluation of a tree of the parser keeps the invariant, for any   *)
(* trees, built-in functions and depth.                                    *)
THEOREM Invariance == HistorySpec => []IInv
<1>1. HistoryInit => IInv
  BY Beginning
<1>2. IInv /\ [HistoryNext]_evaluationHistory => IInv'
  BY NextKeeps
<1>3. QED
  BY <1>1, <1>2, PTL DEF HistorySpec

(* No call and no function refers to an environment that does not exist,   *)
(* and every environment is inside of an older one: Get always ends.       *)
THEOREM TypesCorrect == HistorySpec => []TypeOK
<1>1. IInv => TypeOK
  <2>1. SUFFICES ASSUME NEW S, Holds(S) PROVE TypeOK
    BY DEF IInv
  <2>2. /\ end \in {"running", "done", "stack exhausted"} \union Panics
        /\ \A x \in S : Sound(S, Len(envs), x)
        /\ SoundEnvs(S, envs)
        /\ calls \in Seq(Frames(S, Len(envs)))
    BY <2>1 DEF Holds, SoundState
  <2>3. DOMAIN envs = 1 .. Len(envs)
    BY <2>2, LenProperties DEF SoundEnvs, IsSequence
  <2>4. ASSUME NEW e \in DOMAIN envs
        PROVE  /\ envs[e].outer < e
               /\ \A n \in DOMAIN envs[e].store :
                    envs[e].store[n].type = "FUNCTION" => envs[e].store[n].env \in DOMAIN envs
    <3>1. envs[e].outer \in 0 .. e - 1 /\ \A n \in DOMAIN envs[e].store : envs[e].store[n] \in S
      BY <2>2, <2>3 DEF SoundEnvs
    <3>2. e \in Int
      BY <2>3
    <3>3. envs[e].outer < e
      BY <3>1, <3>2
    <3>4. QED
      BY <2>2, <2>3, <3>1, <3>3 DEF Sound
  <2>5. ASSUME NEW i \in DOMAIN calls, calls[i].do # "apply"
        PROVE  calls[i].env \in DOMAIN envs
    <3>1. calls[i] \in Frames(S, Len(envs))
      BY <2>2, ElementOfSeq, LenProperties
    <3>2. QED
      BY <2>3, <2>5, <3>1 DEF Frames, EvalFrames, PartFrames, LoopFrames, ApplyFrames
  <2>6. QED
    BY <2>2, <2>4, <2>5 DEF TypeOK
<1>2. QED
  BY Invariance, <1>1, PTL

(* Return values stay between a return statement and the call around it,   *)
(* unless an expression has a return statement inside.                     *)
THEOREM Unwrapping == HistorySpec => []ReturnsUnwrapped
<1>1. IInv => ReturnsUnwrapped
  <2>1. SUFFICES ASSUME NEW S, Holds(S), "early return" \notin oddities
                 PROVE  LET Plain(v) == ~IsReturn(v) /\ (v.type = "ARRAY" => \A i \in DOMAIN v.elements : ~IsReturn(v.elements[i]))
                        IN  /\ \A e \in DOMAIN envs : \A n \in DOMAIN envs[e].store : Plain(envs[e].store[n])
                            /\ end = "done" => Plain(value)
    BY DEF IInv, ReturnsUnwrapped
  <2>2. /\ \A x \in S : Sound(S, Len(envs), x)
        /\ Sound(S, Len(envs), value)
        /\ SoundEnvs(S, envs)
    BY <2>1 DEF Holds, SoundState
  <2>3. (\A x \in S : ~IsReturn(x)) /\ (end = "done" => ~IsReturn(value))
    BY <2>1 DEF Holds, ReturnFree
  <2>4. ASSUME NEW v, Sound(S, Len(envs), v), v.type = "ARRAY", NEW i \in DOMAIN v.elements
        PROVE  ~IsReturn(v.elements[i])
    <3>1. v.elements \in Seq(S)
      BY <2>4 DEF Sound
    <3>2. v.elements[i] \in S
      BY <3>1, ElementOfSeq, LenProperties
    <3>3. QED
      BY <2>3, <3>2
  <2>5. DOMAIN envs = 1 .. Len(envs)
    BY <2>2, LenProperties DEF SoundEnvs, IsSequence
  <2>6. \A e \in DOMAIN envs : \A n \in DOMAIN envs[e].store : envs[e].store[n] \in S
    BY <2>2, <2>5 DEF SoundEnvs
  <2>7. QED
    BY <2>2, <2>3, <2>4, <2>6
<1>2. QED
  BY Invariance, <1>1, PTL

(* The first error is the only one, and the answer, unless an infix        *)
(* expression takes it for an operand.                                     *)
THEOREM ErrorsEnd == HistorySpec => []ErrorsEndPrograms
<1>1. IInv => ErrorsEndPrograms
  <2>1. SUFFICES ASSUME NEW S, Holds(S), "unchecked error" \notin oddities
                 PROVE  Cardinality(raised) <= 1 /\ (end = "done" => raised \subseteq {value})
    BY DEF IInv, ErrorsEndPrograms
  <2>2. raised \subseteq {value}
    BY <2>1 DEF Holds, ErrorFree
  <2>3. raised = {} \/ raised = {value}
    BY <2>2
  <2>4. Cardinality({}) = 0 /\ Cardinality({value}) = 1
    BY FS_EmptySet, FS_Singleton
  <2>5. QED
    BY <2>2, <2>3, <2>4
<1>2. QED
  BY Invariance, <1>1, PTL

(* Without a block that has no value, no nil of Go reaches an operation,   *)
(* an array, a name or the answer.                                         *)
THEOREM NilsHaveReasons == HistorySpec => []NilsExplained
<1>1. IInv => NilsExplained
  BY DEF IInv, Holds, NilFree, NilsExplained
<1>2. QED
  BY Invariance, <1>1, PTL

================================================================================
