---------------------------------- MODULE Code ---------------------------------
(***************************************************************************)
(* The instructions (src/code/code.go) as the compiler writes them and the *)
(* virtual machine reads them.  An opcode is its name.  An instruction is  *)
(* a record that stands for the bytes Make returns: the opcode's byte and  *)
(* the operands, each cut to the width it is written with.  It occupies    *)
(* InstrLen positions of the code.                                         *)
(***************************************************************************)
EXTENDS Integers, Sequences

CONSTANT
  Byte  (* the number of values of a byte: 256 in the code                 *)

ASSUME ByteAssumption == Byte \in Nat \ {0}

(* definitions: the opcodes by the widths of their operands. *)
NoOperand ==
  { "OpAdd", "OpSub", "OpMul", "OpDiv", "OpPop", "OpTrue", "OpFalse",
    "OpEqual", "OpNotEqual", "OpGreaterThan", "OpPrefixMinus", "OpBang",
    "OpNull", "OpIndex", "OpReturnValue", "OpReturn" }
OneByteOperand ==
  { "OpCall", "OpGetLocal", "OpSetLocal", "OpGetBuiltin", "OpGetFree" }
TwoByteOperand ==
  { "OpConstant", "OpJumpNotTruthy", "OpJump", "OpSetGlobal", "OpGetGlobal",
    "OpArray", "OpHash" }

Opcodes == NoOperand \union OneByteOperand \union TwoByteOperand \union {"OpClosure"}

OperandWidth(op) ==
  CASE op \in NoOperand      -> <<>>
    [] op \in OneByteOperand -> <<1>>
    [] op \in TwoByteOperand -> <<2>>
    [] op = "OpClosure"      -> <<2, 1>>

InstrLen(op) ==
  CASE op \in NoOperand      -> 1
    [] op \in OneByteOperand -> 2
    [] op \in TwoByteOperand -> 3
    [] op = "OpClosure"      -> 4

(* The number of operands that a width tells apart. *)
Capacity(width) == IF width = 2 THEN Byte * Byte ELSE Byte

(* Make: the conversions uint16(o) and byte(o) drop the high bits. *)
Make(op, operands) ==
  [ op   |-> op,
    args |-> [i \in DOMAIN operands |->
                operands[i] % Capacity(OperandWidth(op)[i])] ]

(* What Make returns: as many operands as the opcode has, each cut.         *)
IsInstruction(instruction) ==
  /\ instruction.op \in Opcodes
  /\ DOMAIN instruction.args = DOMAIN OperandWidth(instruction.op)
  /\ \A i \in DOMAIN instruction.args :
       instruction.args[i] \in 0 .. Capacity(OperandWidth(instruction.op)[i]) - 1

Jumps == {"OpJump", "OpJumpNotTruthy"}
Returns == {"OpReturnValue", "OpReturn"}

================================================================================
