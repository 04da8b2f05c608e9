--------------------------------- MODULE Engines -------------------------------
(***************************************************************************)
(* The two engines that src/benchmark/main.go chooses from, one after the  *)
(* other on the same program: the compiler with the virtual machine, and   *)
(* the evaluator.  They are meant for the same language.  Where they do    *)
(* not agree, the program has one of the flaws of module Execution, one of *)
(* the oddities of module Evaluation, or one of the differences below.     *)
(***************************************************************************)
EXTENDS Execution

CONSTANT
  MaxDepth  (* as in module Evaluator                                      *)

VARIABLES
  tree, calls, value, envs, made, end,  (* evaluator                       *)
  oddities, captured, raised,           (* its history                     *)
  turn,         (* the engine that runs: "vm" or "eval"                    *)
  differences   (* the kinds of differences of the machine's run           *)

evaluator == <<tree, calls, value, envs, made, end, oddities, captured, raised>>
engines == <<historyVars, evaluator, turn, differences>>

Evaluator == INSTANCE Evaluation

--------------------------------------------------------------------------------

(* The built-in functions return errors as values, and the machine goes on.*)
ErrorValue ==
  /\ outcome = "running"
  /\ \E i \in DOMAIN stack : i < sp /\ stack[i].type = "ERROR"
  /\ ~(Machine!Executing({"OpPop"}) /\ Machine!Frame.pc + 1 = Machine!Frame.cl.fn.len)
  /\ ~Machine!Executing({"OpReturnValue"})

Operands(types) ==
  Machine!Readable(2) /\ Machine!Top(1).type \in types /\ Machine!Top(2).type \in types

(* The machine compares strings by their address, the evaluator does not.  *)
StringComparison ==
  Machine!Executing({"OpEqual", "OpNotEqual"}) /\ Operands({"STRING"})

(* The machine panics. *)
MixedComparison == outcome = "failed type assertion"

(* The machine counts the arguments. *)
WrongArguments == outcome = "wrong number of arguments"

(* The compiler looks for all names, also for those that are not used, or  *)
(* are defined later.                                                      *)
UndefinedVariable == status = "undefined variable"

(* The last pair with a key wins: in the machine, in the order in which    *)
(* the compiler's sort left them, which for equal texts is any.            *)
DuplicateKeys ==
  /\ Machine!Executing({"OpHash"})
  /\ LET n == Machine!Operand(1)
         args == Machine!Args(n)
     IN  \E i, j \in 1 .. n : i < j /\ i % 2 = 1 /\ j % 2 = 1 /\ Machine!Hashable(args[i])
                                /\ Machine!Hashable(args[j])
                                /\ Machine!HashKey(args[i]) = Machine!HashKey(args[j])

(* The compiler turns a < b into b > a: the right side is evaluated first. *)
SwappedOperands ==
  /\ Compiler!Compiling({"InfixExpression"})
  /\ Node.operator = "lt"
  /\ {Node.left.kind, Node.right.kind} \intersect Evaluator!Leaves = {}

(* Each engine has limits of its own. *)
TooDeep ==
  \/ outcome = "stack overflow"
  \/ outcome = "index out of range" /\ Len(frames) = MaxFrames

NewDifferences ==
  {kind \in {"error value", "string comparison", "mixed comparison", "wrong arguments",
             "undefined variable", "duplicate keys", "swapped operands", "too deep"} :
     \/ kind = "error value" /\ ErrorValue
     \/ kind = "string comparison" /\ StringComparison
     \/ kind = "mixed comparison" /\ MixedComparison
     \/ kind = "wrong arguments" /\ WrongArguments
     \/ kind = "undefined variable" /\ UndefinedVariable
     \/ kind = "duplicate keys" /\ DuplicateKeys
     \/ kind = "swapped operands" /\ SwappedOperands
     \/ kind = "too deep" /\ TooDeep}

--------------------------------------------------------------------------------

EnginesInit ==
  /\ HistoryInit
  /\ turn = "vm"
  /\ differences = {}
  /\ tree = program
  /\ Evaluator!Start(tree)
  /\ Evaluator!HistoryStart

(* -engine=vm: as for the first line of a session. *)
RunMachine ==
  /\ turn = "vm"
  /\ ReadLine \/ Answer
  /\ RecordHistory
  /\ differences' = differences \union NewDifferences
  /\ UNCHANGED <<evaluator, turn>>

MachineEnded == lines = 1 /\ phase \in {"reading", "crashed"}

(* -engine=eval, on the same program. *)
ChangeEngines ==
  /\ turn = "vm"
  /\ MachineEnded
  /\ turn' = "eval"
  /\ tree' = program
  /\ calls' = <<Evaluator!Loop("program", program, 1)>>
  /\ UNCHANGED <<historyVars, value, envs, made, end, oddities, captured, raised, differences>>

RunEvaluator ==
  /\ turn = "eval"
  /\ Evaluator!Step
  /\ Evaluator!Record
  /\ UNCHANGED <<historyVars, turn, differences>>

BothEnded == turn = "eval" /\ end # "running" /\ UNCHANGED engines

EnginesStep == RunMachine \/ ChangeEngines \/ RunEvaluator

EnginesNext == EnginesStep \/ BothEnded

(* The command reads nothing, and waits for nothing.                       *)
EnginesSpec == EnginesInit /\ [][EnginesNext]_engines /\ WF_engines(EnginesStep)

--------------------------------------------------------------------------------

RECURSIVE Shape(_)

(* What a program can show of a value: not its address.                    *)
Shape(v) ==
  CASE v.type = "STRING"   -> <<"STRING", v.str>>
    [] v.type = "ARRAY"    -> <<"ARRAY", [i \in DOMAIN v.elements |-> Shape(v.elements[i])]>>
    [] v.type = "HASH"     -> <<"HASH", [k \in DOMAIN v.pairs |-> Shape(v.pairs[k])]>>
    [] v.type = "CLOSURE"  -> <<"function", v.fn.numParameters>>
    [] v.type = "FUNCTION" -> <<"function", Len(v.parameters)>>
    [] OTHER               -> <<"plain", v>>

(* What main prints: a value, an error, or Go's report of a panic.         *)
Answers(v) == IF v.type = "ERROR" THEN <<"error">> ELSE <<"value", Shape(v)>>

MachineAnswer ==
  CASE phase = "crashed"                                -> <<"panic">>
    [] phase # "crashed" /\ outcome \in Machine!Errors  -> <<"error">>
    [] OTHER                                            -> Answers(stack[sp])

EvaluatorAnswer ==
  IF end # "done" \/ Evaluator!Holed(value) THEN <<"panic">> ELSE Answers(value)

Comparable ==
  /\ turn = "eval"
  /\ end \notin {"running", "stack exhausted"}
  /\ flaws \union differences \union oddities \subseteq {"unfinished", "empty line", "no value"}

(* Both engines answer the same: the same value, an error, or a panic.     *)
EnginesAgree == Comparable => MachineAnswer = EvaluatorAnswer

(* Both engines come to an end with every program, by an answer or by a    *)
(* crash: the language has no loops, jumps only lead forward, and calls    *)
(* run into a limit.                                                       *)
EnginesEnd == <>(turn = "eval" /\ end # "running")

================================================================================
