---------------------------------- MODULE MCVM ---------------------------------
(* The machine on verified code, whether the compiler would emit it or     *)
(* not: a function of one parameter, at most one more local and one        *)
(* captured value, of every sequence of four instructions below that the   *)
(* verifier accepts, called on itself and on a truth value by the main     *)
(* code, and called where the stack has no room for its second local.      *)
EXTENDS VerifiedCode

MCBuiltins == <<"len", "puts", "first", "last", "rest", "push">>

Plain ==
  {Make(op, <<>>) : op \in {"OpNull", "OpTrue", "OpPop", "OpAdd"}}
    \union {Make(op, <<0>>) : op \in {"OpGetLocal", "OpGetFree", "OpCall", "OpGetBuiltin"}}
    \union {Make(op, <<1>>) : op \in {"OpGetLocal", "OpSetLocal", "OpCall", "OpConstant"}}
    \union {Make("OpClosure", <<0, 1>>)}
    \union {Make(op, <<target>>) : op \in Jumps, target \in 4 .. 6}

(* Instructions one after the other. *)
Assemble(instructions) ==
  LET start[i \in 1 .. Len(instructions) + 1] ==
        IF i = 1 THEN 0 ELSE start[i - 1] + InstrLen(instructions[i - 1].op)
      positions == {start[i] : i \in DOMAIN instructions}
  IN  [ ins |-> [p \in positions |->
                   instructions[CHOOSE i \in DOMAIN instructions : start[i] = p]],
        len |-> start[Len(instructions) + 1] ]

(* As many locals as are used. *)
FunctionOf(code) ==
  LET second == {Make("OpGetLocal", <<1>>), Make("OpSetLocal", <<1>>)}
  IN  [ type |-> "COMPILED_FUNCTION", ins |-> code.ins, len |-> code.len,
        numLocals |-> IF \E p \in DOMAIN code.ins : code.ins[p] \in second THEN 2 ELSE 1,
        numParameters |-> 1 ]

(* Values below, the function, its argument, the call, and pops.           *)
Main(below, argument) ==
  Assemble([i \in 1 .. below |-> Make("OpNull", <<>>)]
             \o <<Make("OpNull", <<>>), Make("OpClosure", <<0, 1>>)>> \o argument
             \o <<Make("OpCall", <<1>>)>> \o [i \in 1 .. below + 1 |-> Make("OpPop", <<>>)])

Mains == { Main(0, <<Make("OpTrue", <<>>)>>),
           Main(0, <<Make("OpTrue", <<>>), Make("OpClosure", <<0, 1>>)>>),
           Main(4, <<Make("OpTrue", <<>>)>>) }

(* The other instructions, on one or two values. *)
Others ==
  {Make(op, <<>>) : op \in {"OpBang", "OpPrefixMinus", "OpGreaterThan", "OpIndex"}}
    \union {Make(op, <<2>>) : op \in {"OpArray", "OpHash"}}
    \union {Make(op, <<0>>) : op \in {"OpSetGlobal", "OpGetGlobal"}}

Operands == Plain \ {Make(op, <<target>>) : op \in Jumps, target \in 4 .. 6}

Bodies ==
  {<<i, j, k, Make(return, <<>>)>> : i, j, k \in Plain, return \in Returns}
    \union {<<i, j, k, Make("OpReturnValue", <<>>)>> : i, j \in Operands, k \in Others}
    \union {<<i, j, k, Make("OpReturnValue", <<>>)>> : i \in Operands, j, k \in Others}

Bytecode(main, body) ==
  [main |-> main, constants |-> <<FunctionOf(Assemble(body)), Integer(7)>>]

IsVerified(bytecode) ==
  Verified(MainClosure(bytecode.main).fn, bytecode.constants, Len(MCBuiltins))

VerifiedBodies ==
  {body \in Bodies : IsVerified(Bytecode(Main(0, <<Make("OpTrue", <<>>)>>), body))}

MCBytecodes == {Bytecode(main, body) : main \in Mains, body \in VerifiedBodies}
================================================================================
