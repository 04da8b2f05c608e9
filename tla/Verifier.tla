-------------------------------- MODULE Verifier -------------------------------
(***************************************************************************)
(* What the virtual machine takes on trust about the code it runs.  It     *)
(* pops without looking at what is on the stack, and uses the operands of  *)
(* instructions as indices without looking at what they lead to.           *)
(*                                                                         *)
(* The sources have no such check.  Module Compiler shows that the code    *)
(* the compiler emits would pass it, module VM that code that passes it is *)
(* safe to run.                                                            *)
(***************************************************************************)
EXTENDS Code

(* How many values an instruction takes from the stack, and how many it    *)
(* puts there.  A call leaves one value in place of the function and the   *)
(* arguments.                                                              *)
Pops(instruction) ==
  LET op == instruction.op IN
  CASE op \in {"OpAdd", "OpSub", "OpMul", "OpDiv", "OpEqual", "OpNotEqual",
               "OpGreaterThan", "OpIndex"}                          -> 2
    [] op \in {"OpPop", "OpPrefixMinus", "OpBang", "OpJumpNotTruthy",
               "OpSetGlobal", "OpSetLocal", "OpReturnValue"}        -> 1
    [] op \in {"OpArray", "OpHash"}  -> instruction.args[1]
    [] op = "OpCall"                 -> instruction.args[1] + 1
    [] op = "OpClosure"              -> instruction.args[2]
    [] OTHER                         -> 0

Pushes(instruction) ==
  IF instruction.op \in {"OpPop", "OpJumpNotTruthy", "OpSetGlobal",
                         "OpSetLocal", "OpJump", "OpReturnValue", "OpReturn"}
  THEN 0 ELSE 1

(* Where control can go from the instruction at p. *)
Successors(code, p) ==
  LET instruction == code.ins[p]
      next == p + InstrLen(instruction.op)
  IN  CASE instruction.op \in Returns           -> {}
        [] instruction.op = "OpJump"            -> {instruction.args[1]}
        [] instruction.op = "OpJumpNotTruthy"   -> {next, instruction.args[1]}
        [] OTHER                                -> {next}

Ends(code) == DOMAIN code.ins \union {code.len}

(* Instructions as Make writes them, before the end.                       *)
Written(code) ==
  /\ code.len \in Nat
  /\ \A p \in DOMAIN code.ins : p \in 0 .. code.len - 1 /\ IsInstruction(code.ins[p])

ForwardOnly(code) ==
  \A p \in DOMAIN code.ins : \A q \in Successors(code, p) : q > p /\ q \in Ends(code)

(* For each position, the numbers of values that can be on the stack when  *)
(* control comes there.                                                    *)
Heights(code) ==
  LET heights[p \in Ends(code)] ==
        IF p = 0 THEN {0}
        ELSE UNION { {h - Pops(code.ins[q]) + Pushes(code.ins[q]) : h \in heights[q]} :
                     q \in {r \in DOMAIN code.ins : r < p /\ p \in Successors(code, r)} }
  IN  heights

(* Whichever way control takes, it comes to an instruction with the same   *)
(* number of values on the stack, and with as many as it pops.             *)
Balanced(code) ==
  /\ Written(code)
  /\ 0 \in Ends(code)
  /\ ForwardOnly(code)
  /\ LET heights == Heights(code) IN
       /\ \A p \in Ends(code) : \A h, i \in heights[p] : h = i
       /\ \A p \in DOMAIN code.ins : \A h \in heights[p] : h >= Pops(code.ins[p])

(* The indices that code uses, but for globals, have something to lead to, *)
(* and a hash is made of pairs.                                            *)
Linked(code, constants, numLocals, numFree, numBuiltins) ==
  \A p \in DOMAIN code.ins :
    LET op == code.ins[p].op
        args == code.ins[p].args
    IN  /\ op = "OpConstant" => /\ args[1] + 1 \in DOMAIN constants
                                /\ constants[args[1] + 1].type \in {"INTEGER", "STRING"}
        /\ op = "OpHash" => args[1] % 2 = 0
        /\ op \in {"OpGetLocal", "OpSetLocal"} => args[1] < numLocals
        /\ op = "OpGetFree" => args[1] < numFree
        /\ op = "OpGetBuiltin" => args[1] < numBuiltins

FunctionsOf(constants) ==
  {k \in DOMAIN constants : constants[k].type = "COMPILED_FUNCTION"}

(* The closures that code makes, as pairs of a function in the pool and    *)
(* the number of values captured.                                          *)
Closures(code) ==
  {<<code.ins[p].args[1] + 1, code.ins[p].args[2]>> :
     p \in {q \in DOMAIN code.ins : code.ins[q].op = "OpClosure"}}

(* Main code begins and ends with an empty stack and never returns;        *)
(* functions always return.                                                *)
Verified(main, constants, numBuiltins) ==
  LET functions == FunctionsOf(constants)
      closures == Closures(main) \union UNION {Closures(constants[k]) : k \in functions}
  IN  /\ Balanced(main)
      /\ Heights(main)[main.len] \subseteq {0}
      /\ \A p \in DOMAIN main.ins : main.ins[p].op \notin Returns
      /\ Linked(main, constants, 0, 0, numBuiltins)
      /\ \A c \in closures :
           /\ c[1] \in functions
           /\ Linked(constants[c[1]], constants, constants[c[1]].numLocals, c[2], numBuiltins)
      /\ \A k \in functions :
           /\ Balanced(constants[k])
           /\ Heights(constants[k])[constants[k].len] = {}
           /\ constants[k].numLocals \in Nat
           /\ constants[k].numParameters \in 0 .. constants[k].numLocals

================================================================================
