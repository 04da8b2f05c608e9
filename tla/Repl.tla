---------------------------------- MODULE Repl ---------------------------------
(***************************************************************************)
(* The read-eval-print loop (src/repl/repl.go) composes the compiler and   *)
(* the virtual machine.  Three things outlive a line: the global symbol    *)
(* table, the pool of constants, and the globals.  The compiler and the    *)
(* machine are new for every line.                                         *)
(*                                                                         *)
(* A line is one of Programs: the syntax tree the parser makes of it.  A   *)
(* line that does not parse changes nothing but the output, and is left    *)
(* out.                                                                    *)
(***************************************************************************)
EXTENDS SyntaxTrees

CONSTANTS
  Names, Builtins,                (* as in module SymbolTable              *)
  Byte,                           (* as in module Code                     *)
  MaxInt,                         (* as in module Object                   *)
  StackSize, MaxFrames,           (* as in module VM                       *)
  MaxLines                        (* how many are typed at most            *)

VARIABLES
  phase,     (* "reading", "compiling", "running", "ended" or "crashed"    *)
  lines,     (* the number of lines read                                   *)
  kept,      (* the variable constants of Start                            *)
  program, todo, scopes, tables, constants, reply, status, (* compiler     *)
  pool, stack, sp, frames, globals, allocated, outcome     (* machine      *)

session  == <<phase, lines, kept>>
compiler == <<program, todo, scopes, tables, constants, reply, status>>
machine  == <<pool, stack, sp, frames, globals, allocated, outcome>>
vars     == <<session, compiler, machine>>

Compiler == INSTANCE Compiler
Machine  == INSTANCE VM WITH Bytecodes <- {}

(* Start, before the first line.  There is no compiler and no machine yet; *)
(* their variables hold those of an empty program that is done.            *)
Init ==
  /\ phase = "reading"
  /\ lines = 0
  /\ kept = <<>>
  /\ tables = <<Compiler!BuiltinTable>>
  /\ globals = [g \in {} |-> g]
  /\ allocated = 0
  /\ program = Compiler!Block(<<>>)
  /\ todo = <<>>
  /\ scopes = <<Compiler!NewCompilationScope>>
  /\ constants = <<>>
  /\ reply = <<>>
  /\ status = "compiled"
  /\ pool = <<>>
  /\ stack = Machine!EmptyStack
  /\ sp = 0
  /\ frames = <<Machine!NewFrame(Machine!MainClosure(scopes[1]), 0)>>
  /\ outcome = "done"

(* Mutant: compiler.New, with a pool of its own. *)
ReadLineWithNewPool ==
  /\ phase = "reading"
  /\ lines < MaxLines
  /\ phase' = "compiling"
  /\ lines' = lines + 1
  /\ program' \in Programs
  /\ todo' = <<Compiler!CompileTask(program')>>
  /\ scopes' = <<Compiler!NewCompilationScope>>
  /\ constants' = <<>>
  /\ reply' = <<>>
  /\ status' = "compiling"
  /\ UNCHANGED <<kept, tables, machine>>

(* A line, and NewWithState: the compiler works on the global table itself,*)
(* not on a copy, and starts with the constants of the lines before.       *)
ReadLine ==
  /\ phase = "reading"
  /\ lines < MaxLines
  /\ phase' = "compiling"
  /\ lines' = lines + 1
  /\ program' \in Programs
  /\ todo' = <<Compiler!CompileTask(program')>>
  /\ scopes' = <<Compiler!NewCompilationScope>>
  /\ constants' = kept
  /\ reply' = <<>>
  /\ status' = "compiling"
  /\ UNCHANGED <<kept, tables, machine>>

CompileStep ==
  /\ phase = "compiling"
  /\ status = "compiling"
  /\ Compiler!Next
  /\ UNCHANGED <<session, machine>>

(* The constants are dropped; the definitions in the global table are not. *)
CompilationFailed ==
  /\ phase = "compiling"
  /\ status = "undefined variable"
  /\ phase' = "reading"
  /\ tables' = <<tables[1]>>
  /\ reply' = <<>>
  /\ UNCHANGED <<lines, kept, program, todo, scopes, constants, status, machine>>

StartMachine ==
  /\ phase = "compiling"
  /\ status = "compiled"
  /\ phase' = "running"
  /\ kept' = constants
  /\ Machine!New(scopes[1], constants)
  /\ UNCHANGED <<lines, compiler>>

MachineStep ==
  /\ phase = "running"
  /\ Machine!Next
  /\ UNCHANGED <<session, compiler>>

(* LastPoppedStackElem().Inspect() *)
Printable ==
  /\ sp \in DOMAIN stack
  /\ ~Machine!Holed(stack[sp])

PrintResult ==
  /\ phase = "running"
  /\ outcome = "done"
  /\ Printable
  /\ phase' = "reading"
  /\ UNCHANGED <<lines, kept, compiler, machine>>

PrintError ==
  /\ phase = "running"
  /\ outcome \in Machine!Errors
  /\ phase' = "reading"
  /\ UNCHANGED <<lines, kept, compiler, machine>>

(* Nothing recovers from a panic: the interpreter ends. *)
Crash ==
  /\ phase = "running"
  /\ outcome \in Machine!Panics \/ (outcome = "done" /\ ~Printable)
  /\ phase' = "crashed"
  /\ UNCHANGED <<lines, kept, compiler, machine>>

EndOfInput ==
  /\ phase = "reading"
  /\ phase' = "ended"
  /\ UNCHANGED <<lines, kept, compiler, machine>>

Stopped ==
  /\ phase \in {"ended", "crashed"}
  /\ UNCHANGED vars

(* What the interpreter does by itself, once a line is read. *)
Answer ==
  \/ CompileStep \/ CompilationFailed \/ StartMachine \/ MachineStep
  \/ PrintResult \/ PrintError \/ Crash

Next == ReadLine \/ Answer \/ EndOfInput \/ Stopped

(* The interpreter goes on by itself; nobody has to type a line. *)
Spec == Init /\ [][Next]_vars /\ WF_vars(Answer)

================================================================================
