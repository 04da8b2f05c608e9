----------------------------- MODULE MCDisassembler ----------------------------
(* The code of up to two instructions of every width, with operands at   *)
(* the limits of one and two bytes; and arbitrary bytes.                   *)
EXTENDS Disassembler

MCOperands == {0, 1, Byte - 1, Byte, Byte + 1, Byte * Byte - 1, Byte * Byte}

Instructions ==
  {<<"OpAdd", <<>>>>, <<"OpReturn", <<>>>>}
    \union {<<op, <<o>>>> : op \in {"OpConstant", "OpJump", "OpGetLocal"}, o \in MCOperands}
    \union {<<"OpClosure", <<o, n>>>> : o \in {0, Byte, Byte * Byte - 1}, n \in {0, 1, Byte}}

MCCodes == UNION {[1 .. n -> Instructions] : n \in 0 .. 2}

(* Opcodes of every width, and what is none. *)
SomeBytes ==
  {Number(op) : op \in {"OpConstant", "OpAdd", "OpCall", "OpClosure"}} \union {Len(Numbered), Byte - 1}

MCStreams ==
  {Encoding(code) : code \in MCCodes} \union UNION {[1 .. n -> SomeBytes] : n \in 0 .. 5}
================================================================================
