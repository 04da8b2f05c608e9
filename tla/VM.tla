----------------------------------- MODULE VM ----------------------------------
(***************************************************************************)
(* The virtual machine (src/vm/vm.go, src/vm/frame.go): Run executes one   *)
(* instruction per step until the code of the current frame ends, an       *)
(* instruction returns an error, or Go panics.                             *)
(*                                                                         *)
(* The stack is the whole Go array, with what earlier pushes left above    *)
(* sp.  In a frame, pc is the position of the next instruction, one more   *)
(* than in Go.  A step that fails ends the run: all the callers drop the   *)
(* machine and keep only the globals, so that what the failing instruction *)
(* did to the stack before is left out.                                    *)
(***************************************************************************)
EXTENDS Code, Object

CONSTANTS
  Bytecodes, (* what New can be called with: records of the main code and  *)
             (* the pool of constants                                      *)
  Builtins,  (* object.Builtins: the names of the built-in functions       *)
  StackSize, (* 2048 in the code                                           *)
  MaxFrames  (* 1024 in the code                                           *)

ASSUME SizesAssumption == StackSize \in Nat \ {0} /\ MaxFrames \in Nat \ {0}

ASSUME BuiltinsAssumption ==
  Builtins \in Seq({"len", "puts", "first", "last", "rest", "push"})

VARIABLES
  pool,      (* vm.constants                                               *)
  stack,     (* vm.stack                                                   *)
  sp,        (* vm.sp                                                      *)
  frames,    (* vm.frames[:vm.frameIndex]                                  *)
  globals,   (* vm.globals: a function on the slots written so far         *)
  allocated, (* how many objects were allocated                            *)
  outcome    (* "running", "done", or how the run failed                   *)

machine == <<pool, stack, sp, frames, globals, allocated, outcome>>

(* NewFrame: the code starts at its first instruction. *)
NewFrame(cl, base) == [cl |-> cl, pc |-> 0, base |-> base]

EmptyStack == [i \in 0 .. StackSize - 1 |-> Nil]

MainClosure(code) ==
  Closure([ type |-> "COMPILED_FUNCTION", ins |-> code.ins, len |-> code.len,
            numLocals |-> 0, numParameters |-> 0 ], <<>>, <<"main">>)

(* Mutant: the globals are new, too. *)
NewWithOwnGlobals(code, constants) ==
  /\ pool' = constants
  /\ stack' = EmptyStack
  /\ sp' = 0
  /\ frames' = <<NewFrame(MainClosure(code), 0)>>
  /\ outcome' = "running"
  /\ globals' = [g \in {} |-> g]
  /\ UNCHANGED allocated

(* NewWithGlobalStore: a new machine on the globals of the one before. *)
New(code, constants) ==
  /\ pool' = constants
  /\ stack' = EmptyStack
  /\ sp' = 0
  /\ frames' = <<NewFrame(MainClosure(code), 0)>>
  /\ outcome' = "running"
  /\ UNCHANGED <<globals, allocated>>

(* A first machine, with globals of its own. *)
Init ==
  \E bytecode \in Bytecodes :
    /\ pool = bytecode.constants
    /\ stack = EmptyStack
    /\ sp = 0
    /\ frames = <<NewFrame(MainClosure(bytecode.main), 0)>>
    /\ globals = [g \in {} |-> g]
    /\ allocated = 0
    /\ outcome = "running"

--------------------------------------------------------------------------------
(***************************************************************************)
(* Steps.                                                                  *)
(***************************************************************************)

Frame == frames[Len(frames)]
Instruction == Frame.cl.fn.ins[Frame.pc]
Operand(i) == Instruction.args[i]

Running == outcome = "running" /\ Frame.pc < Frame.cl.fn.len

Executing(ops) == Running /\ Instruction.op \in ops

(* The frames when control goes on at another position, or just goes on. *)
FramesAt(pc) == [frames EXCEPT ![Len(frames)] = [@ EXCEPT !.pc = pc]]
FramesAdvanced == FramesAt(Frame.pc + InstrLen(Instruction.op))

(* The nth value from the top, and the n topmost in the order of pushing.  *)
Top(n)  == stack[sp - n]
Args(n) == [i \in 1 .. n |-> stack[sp - n + i - 1]]

Readable(n) == \A k \in 1 .. n : sp - k \in DOMAIN stack

(* The address of the next object. *)
Address == <<"heap", allocated>>

Fail(why) ==
  /\ outcome' = why
  /\ UNCHANGED <<pool, stack, sp, frames, globals, allocated>>

(* Mutant: push does not look at the size of the stack. *)
ObstacleUnchecked(n, result) ==
  CASE ~Readable(n) \/ sp - n >= StackSize        -> "index out of range"
    [] Readable(n) /\ result.type = "failure"     -> result.why
    [] OTHER                                      -> "none"

(* push in place of n values that are popped first. *)
Obstacle(n, result) ==
  CASE ~Readable(n)                                 -> "index out of range"
    [] Readable(n) /\ result.type = "failure"       -> result.why
    [] Readable(n) /\ result.type # "failure" /\ sp - n >= StackSize -> "stack overflow"
    [] OTHER                                        -> "none"

Replace(n, result) ==
  LET obstacle == Obstacle(n, result) IN
  \/ /\ obstacle # "none"
     /\ Fail(obstacle)
  \/ /\ obstacle = "none"
     /\ stack' = [stack EXCEPT ![sp - n] = result]
     /\ sp' = sp - n + 1
     /\ frames' = FramesAdvanced
     /\ allocated' = allocated + 1
     /\ UNCHANGED <<pool, globals, outcome>>

Push(result) == Replace(0, result)

--------------------------------------------------------------------------------
(***************************************************************************)
(* Operations on values.                                                   *)
(***************************************************************************)

(* The objects of the pool were allocated by the compiler. *)
ConstantObject(k) ==
  CASE k \notin DOMAIN pool                            -> Failure("index out of range")
    [] k \in DOMAIN pool /\ pool[k].type = "STRING"    -> String(pool[k].str, <<"pool", k>>)
    [] OTHER                                           -> pool[k]

IntegerResult(op, i, j) ==
  CASE op = "OpAdd"            -> Integer(Wrap(i + j))
    [] op = "OpSub"            -> Integer(Wrap(i - j))
    [] op = "OpMul"            -> Integer(Wrap(i * j))
    [] op = "OpDiv" /\ j = 0   -> Failure("division by zero")
    [] op = "OpDiv" /\ j # 0   -> Integer(Wrap(Quotient(i, j)))

BinaryResult(op, left, right) ==
  CASE left = Nil \/ right = Nil                           -> Failure("nil dereference")
    [] left.type = "INTEGER" /\ right.type = "INTEGER"     -> IntegerResult(op, left.int, right.int)
    [] left.type = "STRING" /\ right.type = "STRING" /\ op = "OpAdd"
                                                           -> String(left.str \o right.str, Address)
    [] OTHER                                               -> Failure("wrong type")

IntegerComparison(op, i, j) ==
  CASE op = "OpEqual"       -> Boolean(i = j)
    [] op = "OpNotEqual"    -> Boolean(i # j)
    [] op = "OpGreaterThan" -> Boolean(i > j)

(* When one side is an integer, both are taken for one. *)
ComparisonResult(op, left, right) ==
  LET integers == {v \in {left, right} : v.type = "INTEGER"} IN
  CASE left = Nil \/ (integers = {} /\ right = Nil) -> Failure("nil dereference")
    [] integers # {} /\ integers = {left, right}    -> IntegerComparison(op, left.int, right.int)
    [] left # Nil /\ integers # {} /\ integers # {left, right} -> Failure("failed type assertion")
    [] OTHER -> CASE op = "OpEqual"       -> Boolean(left = right)
                  [] op = "OpNotEqual"    -> Boolean(left # right)
                  [] op = "OpGreaterThan" -> Failure("wrong type")

MinusResult(v) ==
  CASE v = Nil              -> Failure("nil dereference")
    [] v.type = "INTEGER"   -> Integer(Wrap(-v.int))
    [] OTHER                -> Failure("wrong type")

BangResult(v) == Boolean(v \in {Boolean(FALSE), Null})

IsTruthy(v) == v \notin {Boolean(FALSE), Null}

HashResult(args) ==
  LET keys == {i \in DOMAIN args : i % 2 = 1}
      wrong == {i \in keys : ~Hashable(args[i])}
      Last(key) == CHOOSE i \in keys :
                     /\ HashKey(args[i]) = key
                     /\ \A j \in keys : HashKey(args[j]) = key => j <= i
  IN  IF wrong # {}
      THEN LET i == CHOOSE j \in wrong : \A k \in wrong : j <= k
           IN  Failure(IF args[i] = Nil THEN "nil dereference" ELSE "unusable key")
      ELSE HashObject([key \in {HashKey(args[i]) : i \in keys} |-> args[Last(key) + 1]],
                      Address)

IndexResult(left, index) ==
  CASE left = Nil \/ (left.type \in {"ARRAY", "HASH"} /\ index = Nil)
         -> Failure("nil dereference")
    [] left.type = "ARRAY" /\ index.type = "INTEGER"
         -> IF index.int + 1 \in DOMAIN left.elements
            THEN left.elements[index.int + 1] ELSE Null
    [] left.type = "HASH" /\ index # Nil
         -> CASE ~Hashable(index)                                        -> Failure("unusable key")
              [] Hashable(index) /\ HashKey(index) \in DOMAIN left.pairs -> left.pairs[HashKey(index)]
              [] OTHER                                                   -> Null
    [] OTHER
         -> Failure("wrong type")

ClosureResult(k, args) ==
  CASE k \notin DOMAIN pool                                     -> Failure("index out of range")
    [] k \in DOMAIN pool /\ pool[k].type = "COMPILED_FUNCTION"  -> Closure(pool[k], args, Address)
    [] OTHER                                                    -> Failure("not a function")

--------------------------------------------------------------------------------
(***************************************************************************)
(* The instructions, in the order of the switch in Run.                    *)
(***************************************************************************)
Constant == Executing({"OpConstant"}) /\ Push(ConstantObject(Operand(1) + 1))

BinaryOperation ==
  /\ Executing({"OpAdd", "OpSub", "OpMul", "OpDiv"})
  /\ Replace(2, BinaryResult(Instruction.op, Top(2), Top(1)))

Pop ==
  /\ Executing({"OpPop"})
  /\ \/ ~Readable(1) /\ Fail("index out of range")
     \/ /\ Readable(1)
        /\ sp' = sp - 1
        /\ frames' = FramesAdvanced
        /\ UNCHANGED <<pool, stack, globals, allocated, outcome>>

Singleton ==
  /\ Executing({"OpTrue", "OpFalse", "OpNull"})
  /\ Push(IF Instruction.op = "OpNull" THEN Null ELSE Boolean(Instruction.op = "OpTrue"))

Comparison ==
  /\ Executing({"OpEqual", "OpNotEqual", "OpGreaterThan"})
  /\ Replace(2, ComparisonResult(Instruction.op, Top(2), Top(1)))

Bang == Executing({"OpBang"}) /\ Replace(1, BangResult(Top(1)))

PrefixMinus == Executing({"OpPrefixMinus"}) /\ Replace(1, MinusResult(Top(1)))

(* Mutant: without the correction for the increment in the loop. *)
JumpPast ==
  /\ Executing({"OpJump"})
  /\ frames' = FramesAt(Operand(1) + 1)
  /\ UNCHANGED <<pool, stack, sp, globals, allocated, outcome>>

Jump ==
  /\ Executing({"OpJump"})
  /\ frames' = FramesAt(Operand(1))
  /\ UNCHANGED <<pool, stack, sp, globals, allocated, outcome>>

JumpNotTruthy ==
  /\ Executing({"OpJumpNotTruthy"})
  /\ \/ ~Readable(1) /\ Fail("index out of range")
     \/ /\ Readable(1)
        /\ sp' = sp - 1
        /\ frames' = IF IsTruthy(Top(1)) THEN FramesAdvanced ELSE FramesAt(Operand(1))
        /\ UNCHANGED <<pool, stack, globals, allocated, outcome>>

SetGlobal ==
  /\ Executing({"OpSetGlobal"})
  /\ \/ ~Readable(1) /\ Fail("index out of range")
     \/ /\ Readable(1)
        /\ globals' = [g \in DOMAIN globals \union {Operand(1)} |->
                         IF g = Operand(1) THEN Top(1) ELSE globals[g]]
        /\ sp' = sp - 1
        /\ frames' = FramesAdvanced
        /\ UNCHANGED <<pool, stack, allocated, outcome>>

GetGlobal ==
  /\ Executing({"OpGetGlobal"})
  /\ Push(IF Operand(1) \in DOMAIN globals THEN globals[Operand(1)] ELSE Nil)

BuildArray ==
  /\ Executing({"OpArray"})
  /\ Replace(Operand(1), ArrayObject(Args(Operand(1)), Address))

BuildHash == Executing({"OpHash"}) /\ Replace(Operand(1), HashResult(Args(Operand(1))))

IndexExpression == Executing({"OpIndex"}) /\ Replace(2, IndexResult(Top(2), Top(1)))

(* executeCall: what is called is below the arguments. *)
Calling(types) ==
  /\ Executing({"OpCall"})
  /\ sp - 1 - Operand(1) \in DOMAIN stack
  /\ Top(Operand(1) + 1).type \in types

(* Mutants: frames without a limit; no room for the locals. *)
CallWithoutLimit ==
  /\ Calling({"CLOSURE"})
  /\ LET cl == Top(Operand(1) + 1)
     IN  /\ frames' = Append(FramesAdvanced, NewFrame(cl, sp - Operand(1)))
         /\ sp' = sp - Operand(1) + cl.fn.numLocals
  /\ UNCHANGED <<pool, stack, globals, allocated, outcome>>

CallWithoutHole ==
  /\ Calling({"CLOSURE"})
  /\ LET cl == Top(Operand(1) + 1)
     IN  /\ Operand(1) = cl.fn.numParameters
         /\ Len(frames) < MaxFrames
         /\ frames' = Append(FramesAdvanced, NewFrame(cl, sp - Operand(1)))
  /\ UNCHANGED <<pool, stack, sp, globals, allocated, outcome>>

(* callClosure.  The arguments become the first locals; the other locals   *)
(* are whatever the stack held there.                                      *)
CallClosure ==
  /\ Calling({"CLOSURE"})
  /\ LET cl == Top(Operand(1) + 1)
         base == sp - Operand(1)
     IN  \/ /\ Operand(1) # cl.fn.numParameters
            /\ Fail("wrong number of arguments")
         \/ /\ Operand(1) = cl.fn.numParameters
            /\ Len(frames) = MaxFrames
            /\ Fail("index out of range")
         \/ /\ Operand(1) = cl.fn.numParameters
            /\ Len(frames) < MaxFrames
            /\ frames' = Append(FramesAdvanced, NewFrame(cl, base))
            /\ sp' = base + cl.fn.numLocals
            /\ UNCHANGED <<pool, stack, globals, allocated, outcome>>

(* Mutant: Go's nil is pushed as it is. *)
CallBuiltinRaw ==
  /\ Calling({"BUILTIN"})
  /\ LET name == Builtins[Top(Operand(1) + 1).index + 1]
     IN  Replace(Operand(1) + 1, BuiltinResult(name, Args(Operand(1)), Address))

(* callBuiltin *)
CallBuiltin ==
  /\ Calling({"BUILTIN"})
  /\ LET name == Builtins[Top(Operand(1) + 1).index + 1]
         result == BuiltinResult(name, Args(Operand(1)), Address)
     IN  Replace(Operand(1) + 1, IF result = Nil THEN Null ELSE result)

CallOther ==
  /\ Executing({"OpCall"})
  /\ ~Calling({"CLOSURE", "BUILTIN"})
  /\ Fail(IF sp - 1 - Operand(1) \in DOMAIN stack THEN "not callable"
          ELSE "index out of range")

(* Mutant: the function stays below its result. *)
ReturnAbove(value) ==
  /\ Frame.base > 0
  /\ frames' = SubSeq(frames, 1, Len(frames) - 1)
  /\ stack' = [stack EXCEPT ![Frame.base] = value]
  /\ sp' = Frame.base + 1
  /\ UNCHANGED <<pool, globals, allocated, outcome>>

(* popFrame, and the value in place of the function that was called.  The  *)
(* main frame has no place for it.                                         *)
ReturnTo(value) ==
  \/ /\ Frame.base = 0
     /\ Fail("index out of range")
  \/ /\ Frame.base > 0
     /\ frames' = SubSeq(frames, 1, Len(frames) - 1)
     /\ stack' = [stack EXCEPT ![Frame.base - 1] = value]
     /\ sp' = Frame.base
     /\ UNCHANGED <<pool, globals, allocated, outcome>>

ReturnValue ==
  /\ Executing({"OpReturnValue"})
  /\ \/ ~Readable(1) /\ Fail("index out of range")
     \/ Readable(1) /\ ReturnTo(Top(1))

Return == Executing({"OpReturn"}) /\ ReturnTo(Null)

(* The slot is written after the pop. *)
SetLocal ==
  /\ Executing({"OpSetLocal"})
  /\ LET slot == Frame.base + Operand(1) IN
     \/ /\ ~Readable(1) \/ slot \notin DOMAIN stack
        /\ Fail("index out of range")
     \/ /\ Readable(1)
        /\ slot \in DOMAIN stack
        /\ stack' = [stack EXCEPT ![slot] = Top(1)]
        /\ sp' = sp - 1
        /\ frames' = FramesAdvanced
        /\ UNCHANGED <<pool, globals, allocated, outcome>>

GetLocal ==
  /\ Executing({"OpGetLocal"})
  /\ LET slot == Frame.base + Operand(1)
     IN  Push(IF slot \in DOMAIN stack THEN stack[slot] ELSE Failure("index out of range"))

GetBuiltin ==
  /\ Executing({"OpGetBuiltin"})
  /\ Push(IF Operand(1) + 1 \in DOMAIN Builtins
          THEN BuiltinFn(Operand(1)) ELSE Failure("index out of range"))

MakeClosure ==
  /\ Executing({"OpClosure"})
  /\ Replace(Operand(2), ClosureResult(Operand(1) + 1, Args(Operand(2))))

(* Mutant: the index counts from one. *)
GetFreeNext ==
  /\ Executing({"OpGetFree"})
  /\ Push(IF Operand(1) + 2 \in DOMAIN Frame.cl.free
          THEN Frame.cl.free[Operand(1) + 2] ELSE Failure("index out of range"))

GetFree ==
  /\ Executing({"OpGetFree"})
  /\ Push(IF Operand(1) + 1 \in DOMAIN Frame.cl.free
          THEN Frame.cl.free[Operand(1) + 1] ELSE Failure("index out of range"))

(* The loop of Run ends with the code. *)
Done ==
  /\ outcome = "running"
  /\ Frame.pc >= Frame.cl.fn.len
  /\ outcome' = "done"
  /\ UNCHANGED <<pool, stack, sp, frames, globals, allocated>>

Next ==
  \/ Constant \/ BinaryOperation \/ Pop \/ Singleton \/ Comparison \/ Bang
  \/ PrefixMinus \/ Jump \/ JumpNotTruthy \/ SetGlobal \/ GetGlobal
  \/ BuildArray \/ BuildHash \/ IndexExpression
  \/ CallClosure \/ CallBuiltin \/ CallOther \/ ReturnValue \/ Return
  \/ SetLocal \/ GetLocal \/ GetBuiltin \/ MakeClosure \/ GetFree
  \/ Done

(* Run has returned, or panicked. *)
Returned == outcome # "running" /\ UNCHANGED machine

Spec == Init /\ [][Next \/ Returned]_machine

--------------------------------------------------------------------------------

Depths == DOMAIN frames

(* The first stack position above the locals of a frame. *)
Ground(d) == frames[d].base + frames[d].cl.fn.numLocals

(* The types of the variables. *)
TypeOK ==
  /\ DOMAIN stack = 0 .. StackSize - 1
  /\ sp \in Nat
  /\ Len(frames) \in 1 .. MaxFrames
  /\ outcome \in {"running", "done"} \union Errors \union Panics

(* Frames nest: the values a frame works with are above its locals, its    *)
(* locals are above the values its caller works with, and just below them  *)
(* is the function that was called, where the result will be put.  The     *)
(* machine never checks any of it: pop only looks at sp.                   *)
FramesNest ==
  /\ sp >= Ground(Len(frames))
  /\ \A d \in Depths : d > 1 =>
       /\ frames[d].base - 1 >= Ground(d - 1)
       /\ stack[frames[d].base - 1] = frames[d].cl

(* Run ends where it began: in the main frame, with an empty stack,        *)
(* whatever calls returned early and whatever they left above sp.          *)
StackEmptied == outcome = "done" => sp = 0 /\ Len(frames) = 1

(* Control is at an instruction, or at the end of the main code.           *)
ControlAtInstruction ==
  \A d \in Depths :
    \/ frames[d].pc \in DOMAIN frames[d].cl.fn.ins
    \/ d = 1 /\ frames[d].pc = frames[d].cl.fn.len

(* An index is out of range only when calls nest too deep: there is no     *)
(* frame for the call, or the frame was made although the stack ends below *)
(* its locals, which callClosure does not check, and one of them is read.  *)
(* It is never an index into the pool, into what a closure captured or     *)
(* into the built-ins, and never that of a pop.                            *)
IndicesInRange ==
  outcome = "index out of range" =>
    Len(frames) = MaxFrames \/ Ground(Len(frames)) > StackSize

================================================================================
