-------------------------------- MODULE Compiler -------------------------------
(***************************************************************************)
(* The compiler (src/compiler/compiler.go): Compile walks the syntax tree, *)
(* emits instructions into the innermost compilation scope, patches jumps, *)
(* fills the pool of constants and calls the symbol table.                 *)
(*                                                                         *)
(* Compile is recursive.  The variable todo is its Go call stack: what is  *)
(* left to do, innermost call first.  A handler that calls Compile on      *)
(* parts of its node puts the parts on todo, and behind them the rest of   *)
(* itself, so that one step runs a handler from one inner call of Compile  *)
(* to the next.                                                            *)
(*                                                                         *)
(* A node of the tree is a record whose field kind names the Go type.      *)
(* Expressions and statements that only compile their parts in order and   *)
(* then emit one instruction are treated alike (Parts and Finish).         *)
(***************************************************************************)
EXTENDS SymbolTable, Code, SyntaxTrees

VARIABLES
  program,   (* the tree being compiled                                    *)
  todo,      (* what is left to do, first things first                     *)
  scopes,    (* c.scopes: one per function being compiled, the main first  *)
  tables,    (* c.symbolTable and its Outer chain                          *)
  constants, (* c.constants                                                *)
  reply,     (* the last answer of Resolve, as in module Scoping           *)
  status     (* "compiling", "compiled", or "undefined variable"           *)

vars == <<program, todo, scopes, tables, constants, reply, status>>

--------------------------------------------------------------------------------
(***************************************************************************)
(* Compilation scopes.                                                     *)
(***************************************************************************)

(* EmittedInstruction{}: the zero opcode is OpConstant. *)
NothingEmitted == [op |-> "OpConstant", pos |-> 0]

NewCompilationScope ==
  [ ins |-> [p \in {} |-> p], len |-> 0,
    last |-> NothingEmitted, previous |-> NothingEmitted ]

(* emit: addInstruction, then setLastInstruction. *)
Emit(scope, instruction) ==
  [ ins |-> [p \in DOMAIN scope.ins \union {scope.len} |->
               IF p = scope.len THEN instruction ELSE scope.ins[p]],
    len |-> scope.len + InstrLen(instruction.op),
    last |-> [op |-> instruction.op, pos |-> scope.len],
    previous |-> scope.last ]

LastInstructionIs(scope, op) == scope.len > 0 /\ scope.last.op = op

(* Mutant: the last instruction is not reset. *)
CutLastPop(scope) ==
  [ scope EXCEPT
      !.ins = [p \in {q \in DOMAIN scope.ins : q < scope.last.pos} |-> scope.ins[p]],
      !.len = scope.last.pos ]

(* removeLastPop: previousInstruction is left as it was. *)
RemoveLastPop(scope) ==
  [ scope EXCEPT
      !.ins  = [p \in {q \in DOMAIN scope.ins : q < scope.last.pos} |-> scope.ins[p]],
      !.len  = scope.last.pos,
      !.last = scope.previous ]

(* Mutant: the pop stays. *)
KeepPop(scope) == scope

(* "dedup pop": the value of a branch stays on the stack. *)
KeepValue(scope) ==
  IF LastInstructionIs(scope, "OpPop") THEN RemoveLastPop(scope) ELSE scope

ReplaceLastPopWithReturn(scope) ==
  [ scope EXCEPT
      !.ins     = [@ EXCEPT ![scope.last.pos] = Make("OpReturnValue", <<>>)],
      !.last.op = "OpReturnValue" ]

ChangeOperand(scope, pos, operand) ==
  [scope EXCEPT !.ins = [@ EXCEPT ![pos] = Make(scope.ins[pos].op, <<operand>>)]]

Innermost == scopes[Len(scopes)]

(* The scopes after the innermost one has become another. *)
InScope(scope) == [scopes EXCEPT ![Len(scopes)] = scope]

(* 0xc0fe, a placeholder that changeOperand replaces.                      *)
Magic == 49406

--------------------------------------------------------------------------------
(***************************************************************************)
(* Nodes.                                                                  *)
(***************************************************************************)

(* For each infix operator, the opcode.  The parser makes no others, so    *)
(* that the default cases of the Go switches are never taken.              *)
InfixOp == [ plus |-> "OpAdd", minus |-> "OpSub", times |-> "OpMul",
             over |-> "OpDiv", gt |-> "OpGreaterThan", lt |-> "OpGreaterThan",
             eq |-> "OpEqual", ne |-> "OpNotEqual" ]

PrefixOp == [ bang |-> "OpBang", minus |-> "OpPrefixMinus" ]

Literals == {"IntegerLiteral", "StringLiteral"}

Plain ==
  { "BlockStatement", "ExpressionStatement", "InfixExpression",
    "PrefixExpression", "ArrayLiteral", "HashLiteral", "IndexExpression",
    "ReturnStatement", "CallExpression" }

(* What Compile is called on, in this order.  "<" is ">" with the operands *)
(* exchanged.  The pairs of a hash come out of a Go map and are sorted by  *)
(* the text of the key: their list in the tree is in that order, and the   *)
(* choice of the tree is also that of the order of keys with equal texts.  *)
Parts(node) ==
  CASE node.kind = "BlockStatement"      -> node.statements
    [] node.kind = "ExpressionStatement" -> <<node.expression>>
    [] node.kind = "InfixExpression"     -> IF node.operator = "lt"
                                            THEN <<node.right, node.left>>
                                            ELSE <<node.left, node.right>>
    [] node.kind = "PrefixExpression"    -> <<node.right>>
    [] node.kind = "ArrayLiteral"        -> node.elements
    [] node.kind = "HashLiteral"         -> node.keysAndValues
    [] node.kind = "IndexExpression"     -> <<node.left, node.index>>
    [] node.kind = "ReturnStatement"     -> <<node.value>>
    [] node.kind = "CallExpression"      -> <<node.function>> \o node.arguments

EmitTask(op, operands) == [do |-> "emit", op |-> op, operands |-> operands]

(* What is emitted after the parts. *)
Finish(node) ==
  CASE node.kind = "BlockStatement"      -> <<>>
    [] node.kind = "ExpressionStatement" -> <<EmitTask("OpPop", <<>>)>>
    [] node.kind = "InfixExpression"     -> <<EmitTask(InfixOp[node.operator], <<>>)>>
    [] node.kind = "PrefixExpression"    -> <<EmitTask(PrefixOp[node.operator], <<>>)>>
    [] node.kind = "ArrayLiteral"        -> <<EmitTask("OpArray", <<Len(node.elements)>>)>>
    [] node.kind = "HashLiteral"         -> <<EmitTask("OpHash", <<Len(node.keysAndValues)>>)>>
    [] node.kind = "IndexExpression"     -> <<EmitTask("OpIndex", <<>>)>>
    [] node.kind = "ReturnStatement"     -> <<EmitTask("OpReturnValue", <<>>)>>
    [] node.kind = "CallExpression"      -> <<EmitTask("OpCall", <<Len(node.arguments)>>)>>

CompileTask(node) == [do |-> "compile", node |-> node]

CompileTasks(nodes) == [i \in DOMAIN nodes |-> CompileTask(nodes[i])]

(* loadSymbol *)
Load(symbol) ==
  CASE symbol.scope = Global  -> EmitTask("OpGetGlobal", <<symbol.index>>)
    [] symbol.scope = Local   -> EmitTask("OpGetLocal", <<symbol.index>>)
    [] symbol.scope = Builtin -> EmitTask("OpGetBuiltin", <<symbol.index>>)
    [] symbol.scope = Free    -> EmitTask("OpGetFree", <<symbol.index>>)

Store(symbol) ==
  EmitTask(IF symbol.scope = Global THEN "OpSetGlobal" ELSE "OpSetLocal",
           <<symbol.index>>)

--------------------------------------------------------------------------------
(***************************************************************************)
(* The handlers.                                                           *)
(***************************************************************************)

Task == Head(todo)
Then(tasks) == todo' = tasks \o Tail(todo)

Compiling(kinds) ==
  /\ status = "compiling"
  /\ todo # <<>>
  /\ Task.do = "compile"
  /\ Task.node.kind \in kinds

Resuming(what) ==
  /\ status = "compiling"
  /\ todo # <<>>
  /\ Task.do = what

(* New, and Compile called on the program. *)
Init ==
  /\ program \in Programs
  /\ todo = <<CompileTask(program)>>
  /\ scopes = <<NewCompilationScope>>
  /\ tables = <<BuiltinTable>>
  /\ constants = <<>>
  /\ reply = <<>>
  /\ status = "compiling"

(* case *ast.IntegerLiteral, *ast.StringLiteral *)
CompileLiteral ==
  /\ Compiling(Literals)
  /\ constants' = Append(constants, Task.node.object)
  /\ Then(<<EmitTask("OpConstant", <<Len(constants)>>)>>)
  /\ UNCHANGED <<program, scopes, tables, reply, status>>

(* case *ast.Boolean *)
CompileBoolean ==
  /\ Compiling({"Boolean"})
  /\ Then(<<EmitTask(IF Task.node.bool THEN "OpTrue" ELSE "OpFalse", <<>>)>>)
  /\ UNCHANGED <<program, scopes, tables, constants, reply, status>>

(* The cases that compile their parts and emit one instruction. *)
CompileParts ==
  /\ Compiling(Plain)
  /\ Then(CompileTasks(Parts(Task.node)) \o Finish(Task.node))
  /\ UNCHANGED <<program, scopes, tables, constants, reply, status>>

EmitInstruction ==
  /\ Resuming("emit")
  /\ scopes' = InScope(Emit(Innermost, Make(Task.op, Task.operands)))
  /\ Then(<<>>)
  /\ UNCHANGED <<program, tables, constants, reply, status>>

(* case *ast.LetStatement: the name is defined before its value is         *)
(* compiled, so that a function can call itself.                           *)
CompileLet(name) ==
  /\ Compiling({"LetStatement"})
  /\ Task.node.name = name
  /\ tables' = Define(tables, name)
  /\ reply' = <<>>
  /\ Then(<<CompileTask(Task.node.value), Store(DefinedSymbol(tables, name))>>)
  /\ UNCHANGED <<program, scopes, constants, status>>

(* case *ast.Identifier *)
CompileIdentifier(name) ==
  /\ Compiling({"Identifier"})
  /\ Task.node.name = name
  /\ Known(tables, name)
  /\ tables' = Resolve(tables, name)
  /\ reply' = <<name, ResolvedSymbol(tables, name)>>
  /\ Then(<<Load(ResolvedSymbol(tables, name))>>)
  /\ UNCHANGED <<program, scopes, constants, status>>

(* ... and the error that ends every call of Compile on the stack. *)
UndefinedVariable(name) ==
  /\ Compiling({"Identifier"})
  /\ Task.node.name = name
  /\ ~Known(tables, name)
  /\ reply' = <<name>>
  /\ todo' = <<>>
  /\ status' = "undefined variable"
  /\ UNCHANGED <<program, scopes, tables, constants>>

(* case *ast.IfExpression, in the four stretches between its inner calls. *)
CompileIf ==
  /\ Compiling({"IfExpression"})
  /\ Then(<<CompileTask(Task.node.condition), [do |-> "ifThen", node |-> Task.node]>>)
  /\ UNCHANGED <<program, scopes, tables, constants, reply, status>>

JumpOverConsequence ==
  /\ Resuming("ifThen")
  /\ scopes' = InScope(Emit(Innermost, Make("OpJumpNotTruthy", <<Magic>>)))
  /\ Then(<< CompileTask(Task.node.consequence),
             [do |-> "ifElse", node |-> Task.node, jumpNotTruthyPos |-> Innermost.len] >>)
  /\ UNCHANGED <<program, tables, constants, reply, status>>

JumpOverAlternative ==
  /\ Resuming("ifElse")
  /\ LET kept == KeepValue(Innermost)
         jumped == Emit(kept, Make("OpJump", <<Magic>>))
     IN  /\ scopes' = InScope(ChangeOperand(jumped, Task.jumpNotTruthyPos, jumped.len))
         /\ Then(<< IF Task.node.alternative = NoBlock
                    THEN EmitTask("OpNull", <<>>)
                    ELSE CompileTask(Task.node.alternative),
                    [do |-> "ifEnd", node |-> Task.node, jumpPos |-> kept.len] >>)
  /\ UNCHANGED <<program, tables, constants, reply, status>>

(* Mutants: the end is measured before the pop is removed; the jump leads  *)
(* to itself.                                                              *)
EndIfMeasuredEarly ==
  /\ Resuming("ifEnd")
  /\ LET kept == IF Task.node.alternative = NoBlock THEN Innermost
                 ELSE KeepValue(Innermost)
     IN  scopes' = InScope(ChangeOperand(kept, Task.jumpPos, Innermost.len))
  /\ Then(<<>>)
  /\ UNCHANGED <<program, tables, constants, reply, status>>

EndIfLooping ==
  /\ Resuming("ifEnd")
  /\ scopes' = InScope(ChangeOperand(KeepValue(Innermost), Task.jumpPos, Task.jumpPos))
  /\ Then(<<>>)
  /\ UNCHANGED <<program, tables, constants, reply, status>>

EndIf ==
  /\ Resuming("ifEnd")
  /\ LET kept == IF Task.node.alternative = NoBlock THEN Innermost
                 ELSE KeepValue(Innermost)
     IN  scopes' = InScope(ChangeOperand(kept, Task.jumpPos, kept.len))
  /\ Then(<<>>)
  /\ UNCHANGED <<program, tables, constants, reply, status>>

(* case *ast.FunctionLiteral: enterScope, a definition per parameter, the  *)
(* body; then leaveScope, a load per captured symbol, and the closure.     *)
CompileFunction ==
  /\ Compiling({"FunctionLiteral"})
  /\ scopes' = Append(scopes, NewCompilationScope)
  /\ tables' = NewEnclosedSymbolTable(tables)
  /\ reply' = <<>>
  /\ Then([i \in DOMAIN Task.node.parameters |->
             [do |-> "parameter", name |-> Task.node.parameters[i]]]
          \o << CompileTask(Task.node.body),
                [do |-> "leave", numParameters |-> Len(Task.node.parameters)] >>)
  /\ UNCHANGED <<program, constants, status>>

DefineParameter(name) ==
  /\ Resuming("parameter")
  /\ Task.name = name
  /\ tables' = Define(tables, name)
  /\ reply' = <<>>
  /\ Then(<<>>)
  /\ UNCHANGED <<program, scopes, constants, status>>

ReturnAtEnd(scope) ==
  LET returning == IF LastInstructionIs(scope, "OpPop")
                   THEN ReplaceLastPopWithReturn(scope) ELSE scope
  IN  IF LastInstructionIs(returning, "OpReturnValue") THEN returning
      ELSE Emit(returning, Make("OpReturn", <<>>))

(* Mutant: room for the parameters only. *)
CompiledWithoutLocals(scope, numLocals, numParameters) ==
  [ type |-> "COMPILED_FUNCTION", ins |-> scope.ins, len |-> scope.len,
    numLocals |-> numParameters, numParameters |-> numParameters ]

CompiledFunction(scope, numLocals, numParameters) ==
  [ type |-> "COMPILED_FUNCTION", ins |-> scope.ins, len |-> scope.len,
    numLocals |-> numLocals, numParameters |-> numParameters ]

(* Mutant: back to the global table instead of the enclosing one. *)
LeaveToGlobals ==
  /\ Resuming("leave")
  /\ LET table == tables[Len(tables)]
         fn == CompiledFunction(ReturnAtEnd(Innermost), table.numDefinitions,
                                Task.numParameters)
     IN  Then(<<[do |-> "closure", fn |-> fn, numFree |-> Len(table.free)]>>)
  /\ scopes' = SubSeq(scopes, 1, Len(scopes) - 1)
  /\ tables' = <<tables[1]>>
  /\ reply' = <<>>
  /\ UNCHANGED <<program, constants, status>>

LeaveFunction ==
  /\ Resuming("leave")
  /\ LET table == tables[Len(tables)]
         fn == CompiledFunction(ReturnAtEnd(Innermost), table.numDefinitions,
                                Task.numParameters)
     IN  Then([i \in DOMAIN table.free |-> Load(table.free[i])]
              \o <<[do |-> "closure", fn |-> fn, numFree |-> Len(table.free)]>>)
  /\ scopes' = SubSeq(scopes, 1, Len(scopes) - 1)
  /\ tables' = OuterTables(tables)
  /\ reply' = <<>>
  /\ UNCHANGED <<program, constants, status>>

EmitClosure ==
  /\ Resuming("closure")
  /\ constants' = Append(constants, Task.fn)
  /\ scopes' = InScope(Emit(Innermost,
                            Make("OpClosure", <<Len(constants), Task.numFree>>)))
  /\ Then(<<>>)
  /\ UNCHANGED <<program, tables, reply, status>>

(* Compile has returned nil: Bytecode() is Innermost and constants. *)
Compiled ==
  /\ status = "compiling"
  /\ todo = <<>>
  /\ status' = "compiled"
  /\ UNCHANGED <<program, todo, scopes, tables, constants, reply>>

(* Compile has returned, with or without an error. *)
Returned ==
  /\ status # "compiling"
  /\ UNCHANGED vars

Next ==
  \/ CompileLiteral \/ CompileBoolean \/ CompileParts \/ EmitInstruction
  \/ \E name \in Names :
       \/ CompileLet(name) \/ CompileIdentifier(name) \/ UndefinedVariable(name)
       \/ DefineParameter(name)
  \/ CompileIf \/ JumpOverConsequence \/ JumpOverAlternative \/ EndIf
  \/ CompileFunction \/ LeaveFunction \/ EmitClosure
  \/ Compiled \/ Returned

Spec == Init /\ [][Next]_vars

--------------------------------------------------------------------------------

(* The types of the variables; as many scopes as linked tables.            *)
TypeOK ==
  /\ scopes # <<>>
  /\ \A i \in DOMAIN scopes :
       /\ scopes[i].len \in Nat
       /\ \A p \in DOMAIN scopes[i].ins : p \in Nat /\ IsInstruction(scopes[i].ins[p])
  /\ tables \in Seq(Table)
  /\ Len(tables) = Len(scopes)
  /\ status \in {"compiling", "compiled", "undefined variable"}

(* Code, as the virtual machine sees it: the compiled functions, and once  *)
(* the program is compiled the main code.                                  *)
Functions == {k \in DOMAIN constants : constants[k].type = "COMPILED_FUNCTION"}

Finished ==
  {[ins |-> constants[k].ins, len |-> constants[k].len] : k \in Functions}
    \union IF status = "compiled"
           THEN {[ins |-> scopes[1].ins, len |-> scopes[1].len]} ELSE {}

Tiled(code) ==
  /\ code.len > 0 => 0 \in DOMAIN code.ins
  /\ \A p \in DOMAIN code.ins :
       LET next == p + InstrLen(code.ins[p].op) IN
       /\ next \in DOMAIN code.ins \union {code.len}
       /\ \A q \in DOMAIN code.ins : q <= p \/ q >= next

(* lastInstruction is the last instruction, whatever was removed and       *)
(* replaced: lastInstructionIs, removeLastPop and replaceLastPopWithReturn *)
(* would otherwise cut or overwrite the code in the middle of something.   *)
(* The instructions themselves leave no gap and do not overlap.            *)
LastInstructionTracked ==
  \A i \in DOMAIN scopes :
    /\ Tiled(scopes[i])
    /\ scopes[i].len > 0 =>
         /\ scopes[i].last.pos \in DOMAIN scopes[i].ins
         /\ scopes[i].ins[scopes[i].last.pos].op = scopes[i].last.op
         /\ scopes[i].last.pos + InstrLen(scopes[i].last.op) = scopes[i].len

(* Every jump was patched, and leads forward to an instruction of the same *)
(* code: never into an operand, never to the end, where Run would stop     *)
(* with the function's frame still pushed.  removeLastPop must not remove  *)
(* an instruction that is a target.                                        *)
JumpsLand ==
  \A code \in Finished : \A p \in DOMAIN code.ins :
    code.ins[p].op \in Jumps =>
      /\ code.ins[p].args[1] > p
      /\ code.ins[p].args[1] \in DOMAIN code.ins

(* Control cannot leave a function but through a return: its last          *)
(* instruction is one.                                                     *)
FunctionsReturn ==
  \A k \in Functions : \E p \in DOMAIN constants[k].ins :
    /\ p + InstrLen(constants[k].ins[p].op) = constants[k].len
    /\ constants[k].ins[p].op \in Returns

(* Control never leaves the code of a function or of the program, whatever *)
(* was cut off, overwritten and patched while it was emitted.              *)
ControlStays == JumpsLand /\ FunctionsReturn

(* The code that makes a closure and the function it is made of agree: as  *)
(* many values are captured as the function reads, the function's locals   *)
(* fit the room that a call makes for them, and its arguments are the      *)
(* first of them.                                                          *)
ClosuresMatch ==
  /\ \A k \in Functions : LET fn == constants[k] IN
       /\ fn.numParameters <= fn.numLocals
       /\ \A p \in DOMAIN fn.ins :
            fn.ins[p].op \in {"OpGetLocal", "OpSetLocal"}
              => fn.ins[p].args[1] < fn.numLocals
  /\ \A code \in Finished : \A p \in DOMAIN code.ins :
       code.ins[p].op = "OpClosure" =>
         LET k == code.ins[p].args[1] + 1 IN
         /\ k \in Functions
         /\ \A q \in DOMAIN constants[k].ins :
              constants[k].ins[q].op = "OpGetFree"
                => constants[k].ins[q].args[1] < code.ins[p].args[2]

(* A function has no more locals than the operand of OpGetLocal can tell   *)
(* apart (code.go:176).                                                    *)
LocalsFit == \A k \in Functions : constants[k].numLocals <= Byte

(* The compiler's calls are calls that module Scoping allows, so that all  *)
(* that is shown there of the tables holds while a program is compiled.    *)
Scope ==
  INSTANCE Scoping WITH Levels <- Nat, Slots <- Nat

ImplementsScoping == Scope!Spec

================================================================================
