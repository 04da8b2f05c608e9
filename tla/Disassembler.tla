------------------------------- MODULE Disassembler ----------------------------
(***************************************************************************)
(* The bytes of the code (src/code/code.go): Make writes instructions, and *)
(* Instructions.String reads them again, one after the other.  The rest of *)
(* the models has an instruction as a record (module Code); this module    *)
(* shows what the records stand for.                                       *)
(***************************************************************************)
EXTENDS Code, SequencesExt

CONSTANTS
  Streams,    (* the byte sequences to print                               *)
  Codes,      (* instructions that a stream may have been made of: lists   *)
              (* of an opcode and its operands                             *)
  MaxReports  (* how many errors are collected                             *)

ASSUME StreamsAssumption == Streams \subseteq Seq(0 .. Byte - 1)

(* The compiler gives as many operands as the opcode has. *)
ASSUME CodesAssumption ==
  \A code \in Codes :
    /\ code \in Seq(Opcodes \X Seq(Nat))
    /\ \A n \in DOMAIN code : Len(code[n][2]) = Len(OperandWidth(code[n][1]))

VARIABLES
  ins,      (* the instructions: bytes                                     *)
  i,        (* where String is in them: from 0                             *)
  out,      (* the lines printed: position, opcode and operands            *)
  reports,  (* how many errors were printed                                *)
  status    (* "printing", "printed" or "panicked"                         *)

vars == <<ins, i, out, reports, status>>

(* The opcodes by their numbers, from 0. *)
Numbered ==
  << "OpConstant", "OpAdd", "OpSub", "OpMul", "OpDiv", "OpPop", "OpTrue", "OpFalse", "OpEqual",
     "OpNotEqual", "OpGreaterThan", "OpPrefixMinus", "OpBang", "OpJumpNotTruthy", "OpJump",
     "OpNull", "OpGetGlobal", "OpSetGlobal", "OpGetLocal", "OpSetLocal", "OpArray", "OpHash",
     "OpIndex", "OpCall", "OpReturnValue", "OpReturn", "OpGetBuiltin", "OpClosure", "OpGetFree" >>

Number(op) == (CHOOSE n \in DOMAIN Numbered : Numbered[n] = op) - 1

(* Lookup *)
Defined(byte) == byte + 1 \in DOMAIN Numbered
Lookup(byte) == Numbered[byte + 1]

(* Mutant: the low byte comes first. *)
PutLittleEndian(o, width) ==
  IF width = 2 THEN <<o % Byte, (o \div Byte) % Byte>> ELSE <<o % Byte>>

(* PutUint16, high byte first, or the one byte. *)
Put(o, width) ==
  IF width = 2 THEN <<(o \div Byte) % Byte, o % Byte>> ELSE <<o % Byte>>

(* Make.  Operands that are not given stay 0. *)
MakeBytes(op, operands) ==
  LET widths == OperandWidth(op)
  IN  <<Number(op)>> \o
        FlattenSeq([n \in DOMAIN widths |->
                      Put(IF n \in DOMAIN operands THEN operands[n] ELSE 0, widths[n])])

(* ReadUint16 and ReadUint8, at a position from 0. *)
Read(at, width) ==
  IF width = 2 THEN ins[at + 1] * Byte + ins[at + 2] ELSE ins[at + 1]

(* ReadOperands, behind the opcode.                                        *)
ReadOperands(op, at) ==
  LET widths == OperandWidth(op)
      offset(n) == IF n = 1 THEN 0 ELSE widths[1]
  IN  [n \in DOMAIN widths |-> Read(at + offset(n), widths[n])]

--------------------------------------------------------------------------------

Init ==
  /\ ins \in Streams
  /\ i = 0
  /\ out = <<>>
  /\ reports = 0
  /\ status = "printing"

Reading == status = "printing" /\ i < Len(ins)

Op == Lookup(ins[i + 1])
Complete == i + InstrLen(Op) <= Len(ins)

PrintInstruction ==
  /\ Reading
  /\ Defined(ins[i + 1])
  /\ Complete
  /\ out' = Append(out, [at |-> i, op |-> Op, args |-> ReadOperands(Op, i + 1)])
  /\ i' = i + InstrLen(Op)
  /\ UNCHANGED <<ins, reports, status>>

(* The code ends in the middle of the operands. *)
ReadBehindTheEnd ==
  /\ Reading
  /\ Defined(ins[i + 1])
  /\ ~Complete
  /\ status' = "panicked"
  /\ UNCHANGED <<ins, i, out, reports>>

(* Mutant: the report is the last thing that is printed. *)
ReportAndStop ==
  /\ Reading
  /\ ~Defined(ins[i + 1])
  /\ reports' = reports + 1
  /\ status' = "printed"
  /\ UNCHANGED <<ins, i, out>>

(* The loop goes on at the same position. *)
ReportUnknownOpcode ==
  /\ Reading
  /\ ~Defined(ins[i + 1])
  /\ reports' = IF reports < MaxReports THEN reports + 1 ELSE reports
  /\ UNCHANGED <<ins, i, out, status>>

Return ==
  /\ status = "printing"
  /\ i >= Len(ins)
  /\ status' = "printed"
  /\ UNCHANGED <<ins, i, out, reports>>

Step == PrintInstruction \/ ReadBehindTheEnd \/ ReportUnknownOpcode \/ Return

Stopped == status # "printing" /\ UNCHANGED vars

Next == Step \/ Stopped

(* Nothing waits for anything else. *)
Spec == Init /\ [][Next]_vars /\ WF_vars(Step)

--------------------------------------------------------------------------------

(* What is printed is the code: the lines, made again, give the bytes read *)
(* so far, whatever the bytes, each at the position it is printed with.    *)
(* Make and ReadOperands agree on widths and on the order of bytes.        *)
PrintsTheCode ==
  LET Bytes(line) == MakeBytes(line.op, line.args)
  IN  /\ FlattenSeq([n \in DOMAIN out |-> Bytes(out[n])]) = SubSeq(ins, 1, i)
      /\ \A n \in DOMAIN out :
           out[n].at = Len(FlattenSeq([m \in 1 .. n - 1 |-> Bytes(out[m])]))

(* The records of module Code: reading what Make wrote gives the operands  *)
(* that Code!Make has, cut to the width in the same way, and an            *)
(* instruction takes as many positions as Code!InstrLen says.              *)
Encoding(code) == FlattenSeq([n \in DOMAIN code |-> MakeBytes(code[n][1], code[n][2])])
Encodings      == [code \in Codes |-> Encoding(code)]

RecordsStandForBytes ==
  status = "printed" =>
    \A code \in Codes : Encodings[code] = ins =>
      [n \in DOMAIN out |-> [op |-> out[n].op, args |-> out[n].args]]
        = [n \in DOMAIN code |-> Make(code[n][1], code[n][2])]

(* String returns, or panics, when it meets no byte that is not an opcode; *)
(* else it prints the same error again and again, without end.             *)
AtUnknown == Reading /\ ~Defined(ins[i + 1])

PrintingEnds == <>(status # "printing" \/ AtUnknown) /\ [](AtUnknown => []AtUnknown)

================================================================================
