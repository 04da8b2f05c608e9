-------------------------------- MODULE Execution ------------------------------
(***************************************************************************)
(* What the compiler, the machine and the loop around them achieve         *)
(* together.  The compiler accepts programs whose code does not do what it *)
(* should; the history variable flaws records which of the known kinds a   *)
(* session has had.  Most properties are about sessions without.  The      *)
(* other one, standing, tells the names that a failed line may have left   *)
(* without a value from those that must have one.                          *)
(***************************************************************************)
EXTENDS Repl

VARIABLES
  flaws,    (* the kinds of flaws of the lines so far                      *)
  standing  (* what became of the line that a global name was last         *)
            (* defined in                                                  *)

historyVars == <<vars, flaws, standing>>

Node == Head(todo).node

(* A branch leaves no value. *)
Valueless ==
  /\ Compiler!Compiling({"IfExpression"})
  /\ ~Compiler!BranchesHaveValues(Node)

(* A return outside of functions. *)
TopReturn == Compiler!Compiling({"ReturnStatement"}) /\ Len(scopes) = 1

(* The definition of a name in a branch: there are no block scopes, and    *)
(* the name stays defined where the branch was not taken.                  *)
BranchLet ==
  /\ Compiler!Compiling({"LetStatement"})
  /\ \E j \in DOMAIN todo :
       /\ todo[j].do \in {"ifElse", "ifEnd"}
       /\ \A k \in 1 .. j : todo[k].do # "leave"

(* A name is used in its own definition, and the use is not that of a      *)
(* global in the body of the function that it is defined as.               *)
SelfReference ==
  /\ Compiler!Compiling({"Identifier"})
  /\ Compiler!Known(tables, Node.name)
  /\ LET symbol == tables[Compiler!OwnerLevel(tables, Node.name)].store[Node.name]
     IN  \E j \in 2 .. Len(todo) :
           /\ symbol.scope \in {"GLOBAL", "LOCAL"}
           /\ todo[j] = Compiler!Store(symbol)
           /\ ~(symbol.scope = "GLOBAL" /\ todo[j - 1].do = "leave")

(* A line ended early: its names are defined, but some may have no value.  *)
Unfinished ==
  \/ phase = "compiling" /\ status = "undefined variable"
  \/ phase = "running" /\ outcome \in Machine!Errors

(* An empty line leaves nothing to print. *)
EmptyLine == Compiler!Compiling({"BlockStatement"}) /\ Node.statements = <<>> /\ Len(todo) = 1

NewFlaws ==
  {kind \in {"valueless", "top return", "branch let", "self reference",
             "unfinished", "empty line"} :
     \/ kind = "valueless" /\ Valueless
     \/ kind = "top return" /\ TopReturn
     \/ kind = "branch let" /\ BranchLet
     \/ kind = "self reference" /\ SelfReference
     \/ kind = "unfinished" /\ Unfinished
     \/ kind = "empty line" /\ EmptyLine}

(* The standing of a global name: "sure" unless its last definition is in  *)
(* a branch, in a line that is not done yet, or in one that failed.        *)
DefinesGlobal(name) ==
  /\ Compiler!Compiling({"LetStatement"})
  /\ Len(scopes) = 1
  /\ Node.name = name

NewStanding(name) ==
  CASE DefinesGlobal(name) /\ BranchLet              -> "branch"
    [] DefinesGlobal(name) /\ ~BranchLet             -> "open"
    [] standing[name] = "open" /\ Unfinished         -> "unfinished"
    [] standing[name] = "open" /\ phase = "running" /\ outcome = "done" -> "sure"
    [] OTHER                                         -> standing[name]

RecordHistory ==
  /\ flaws' = flaws \union NewFlaws
  /\ standing' = [name \in Names |-> NewStanding(name)]

HistoryInit == Init /\ flaws = {} /\ standing = [name \in Names |-> "sure"]
HistoryNext == Next /\ RecordHistory
HistorySpec == HistoryInit /\ [][HistoryNext]_historyVars

--------------------------------------------------------------------------------

(* No program reads a slot that was never written: neither the values a    *)
(* frame works with, nor the globals, nor what a closure captured is nil.  *)
NothingUnset ==
  flaws = {} =>
    /\ \A d \in DOMAIN frames :
         LET end == IF d < Len(frames) THEN frames[d + 1].base ELSE sp
         IN  \A i \in Machine!Ground(d) .. end - 1 : i \in DOMAIN stack => ~Machine!Holed(stack[i])
    /\ \A g \in DOMAIN globals : ~Machine!Holed(globals[g])
    /\ \A d \in DOMAIN frames : \A i \in DOMAIN frames[d].cl.free : ~Machine!Holed(frames[d].cl.free[i])

(* Between two lines a global name of the symbol table has a value in the  *)
(* slot that the compiler gave it last, unless its last definition is in a *)
(* branch or in a line that failed: a line that fails takes the values of  *)
(* no names but those it defines, and a later definition repairs them.     *)
NamesHaveValues ==
  phase = "reading" =>
    \A name \in Names :
      LET symbol == tables[1].store[name]
      IN  symbol.scope = "GLOBAL" /\ standing[name] = "sure" =>
            symbol.index \in DOMAIN globals

(* The interpreter crashes only when the program divides by zero or        *)
(* compares a number with something else, or when calls nest too deep: the *)
(* stack's limit is an error message, the frames' is not.                  *)
CrashesExplained ==
  flaws = {} =>
    (phase = "crashed" =>
       \/ outcome \in {"division by zero", "failed type assertion"}
       \/ outcome = "index out of range" /\ Len(frames) = MaxFrames)

(* The pool only grows from one machine to the next: the functions in the  *)
(* globals are code that names the constants of earlier lines by position. *)
PoolGrows ==
  [][\A k \in DOMAIN pool : k \in DOMAIN pool' /\ pool'[k] = pool[k]]_historyVars

--------------------------------------------------------------------------------
(* What the sources say, and the code does not do.                         *)

(* A return outside of functions ends the program with its value           *)
(* (evaluator_test.go:162, "return 10;" gives 10).                         *)
TopReturnAnswered == flaws = {"top return"} => phase # "crashed"

(* sp points to the next available slot, and the top is below it           *)
(* (vm.go:33): it does not sink into the locals of the frame, nor to the   *)
(* function that is being called.                                          *)
StackPointerAboveLocals == outcome = "running" => sp >= Machine!Ground(Len(frames))

================================================================================
