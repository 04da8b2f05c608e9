----------------------------- MODULE CompilerProofs ----------------------------
(***************************************************************************)
(* The compiler, for all trees that the parser can make and any width of a *)
(* byte: its calls implement the symbol table's specification, the last    *)
(* instruction is tracked, control stays in the code, and the code that    *)
(* makes a closure agrees with the function that it is made of.            *)
(*                                                                         *)
(* The inductive invariant is about what is left to do.  Every task works  *)
(* in one compilation scope, its level; going through todo, the level      *)
(* falls by one after each "leave".  A jump that does not lead anywhere    *)
(* yet is held by a task that will patch it, or leads to the end of the    *)
(* code while the next task to emit there is certain to come.  What a task *)
(* will emit fits the symbol table of its level.                           *)
(***************************************************************************)
EXTENDS Compiler, WellOrder, SequenceTheorems

(* What is proved of the symbol table. *)
Proved == INSTANCE ScopingProofs WITH Levels <- Nat, Slots <- Nat

--------------------------------------------------------------------------------
(***************************************************************************)
(* What the compiler's operations on a compilation scope do to the code in *)
(* it: emit, removeLastPop, replaceLastPopWithReturn and changeOperand.    *)
(* The facts are about any scope.                                          *)
(***************************************************************************)

(* Instructions without gap or overlap, up to the end of the code.         *)
CodeOK(code) ==
  /\ code.len \in Nat
  /\ \A p \in DOMAIN code.ins :
       /\ p \in Nat /\ IsInstruction(code.ins[p])
       /\ p + InstrLen(code.ins[p].op) <= code.len
  /\ Tiled(code)

(* An EmittedInstruction that is in the code, and ends there. *)
EndsWith(code, emitted, end) ==
  /\ emitted.pos \in DOMAIN code.ins
  /\ code.ins[emitted.pos].op = emitted.op
  /\ emitted.pos + InstrLen(emitted.op) = end

(* A compilation scope, with its fields.                                   *)
IsEmitted(e) == e = [op |-> e.op, pos |-> e.pos]

Formed(scope) ==
  /\ scope = [ ins |-> scope.ins, len |-> scope.len,
               last |-> scope.last, previous |-> scope.previous ]
  /\ scope.ins = [p \in DOMAIN scope.ins |-> scope.ins[p]]
  /\ IsEmitted(scope.last) /\ IsEmitted(scope.previous)

(* previousInstruction is right when removeLastPop may need it, and there  *)
(* are never two pops to remove.                                           *)
ScopeOK(scope) ==
  /\ Formed(scope)
  /\ CodeOK(scope)
  /\ scope.len > 0 => EndsWith(scope, scope.last, scope.len)
  /\ scope.len > 0 /\ scope.last.op = "OpPop" =>
       EndsWith(scope, scope.previous, scope.last.pos) /\ scope.previous.op # "OpPop"

(* The last instruction leaves a value. *)
Valuable(scope) == scope.len > 0 /\ scope.last.op # "OpPop"

--------------------------------------------------------------------------------
(* Where jumps lead.  An operand has 16 bits; it tells a position apart    *)
(* from others when the code is not longer than that.                      *)
Reach == Byte * Byte

JumpsIn(code) == {p \in DOMAIN code.ins : code.ins[p].op \in Jumps}

Lands(code, p) == \E t \in DOMAIN code.ins : t > p /\ code.ins[p].args[1] = t % Reach
LandsAtEnd(code, p) == code.ins[p].args[1] = code.len % Reach

(* The code of a function.                                                 *)
FunctionOK(fn) ==
  /\ CodeOK(fn)
  /\ \A p \in JumpsIn(fn) : Lands(fn, p)
  /\ \E p \in DOMAIN fn.ins :
       p + InstrLen(fn.ins[p].op) = fn.len /\ fn.ins[p].op \in Returns

--------------------------------------------------------------------------------
LEMMA ReachType == Reach \in Nat \ {0} /\ Byte \in Nat \ {0}
<1>1. Byte \in Nat \ {0}
  BY ByteAssumption
<1>2. \A m \in Nat \ {0} : m * m \in Nat \ {0}
  OBVIOUS
<1>3. QED
  BY <1>1, <1>2 DEF Reach

LEMMA Opcode ==
  ASSUME NEW op \in Opcodes
  PROVE  /\ InstrLen(op) \in 1 .. 4
         /\ OperandWidth(op) \in Seq({1, 2})
<1>1. /\ op \in NoOperand => op \notin OneByteOperand /\ op \notin TwoByteOperand /\ op # "OpClosure"
      /\ op \in OneByteOperand => op \notin TwoByteOperand /\ op # "OpClosure"
      /\ op \in TwoByteOperand => op # "OpClosure"
  BY DEF NoOperand, OneByteOperand, TwoByteOperand
<1>2. op \in NoOperand \/ op \in OneByteOperand \/ op \in TwoByteOperand \/ op = "OpClosure"
  BY DEF Opcodes
<1>3. <<>> \in Seq({1, 2}) /\ <<1>> \in Seq({1, 2}) /\ <<2>> \in Seq({1, 2}) /\ <<2, 1>> \in Seq({1, 2})
  OBVIOUS
<1>4. InstrLen(op) \in {1, 2, 3, 4}
  BY <1>1, <1>2 DEF InstrLen
<1>5. OperandWidth(op) \in {<<>>, <<1>>, <<2>>, <<2, 1>>}
  <2>1. op \in NoOperand => OperandWidth(op) = <<>>
    BY <1>1, Zenon DEF OperandWidth
  <2>2. op \in OneByteOperand => OperandWidth(op) = <<1>>
    BY <1>1, Zenon DEF OperandWidth
  <2>3. op \in TwoByteOperand => OperandWidth(op) = <<2>>
    BY <1>1, Zenon DEF OperandWidth
  <2>4. op = "OpClosure" => OperandWidth(op) = <<2, 1>>
    BY <1>1, Zenon DEF OperandWidth
  <2>5. QED
    BY <1>2, <2>1, <2>2, <2>3, <2>4
<1>6. InstrLen(op) \in 1 .. 4
  BY <1>4
<1>7. OperandWidth(op) \in Seq({1, 2})
  BY <1>3, <1>5, Zenon
<1>8. QED
  BY <1>6, <1>7

(* Make writes operands that fit, whatever it is given.                    *)
LEMMA Made ==
  ASSUME NEW op \in Opcodes, NEW operands \in Seq(Nat),
         Len(operands) = Len(OperandWidth(op))
  PROVE  /\ IsInstruction(Make(op, operands))
         /\ Make(op, operands).op = op
<1> DEFINE w == OperandWidth(op)
           args == [i \in DOMAIN operands |-> operands[i] % Capacity(w[i])]
<1>1. w \in Seq({1, 2})
  BY Opcode
<1>2. Make(op, operands).op = op /\ Make(op, operands).args = args
  BY DEF Make
<1> HIDE DEF w
<1>3. DOMAIN operands = 1 .. Len(operands) /\ Len(operands) \in Nat /\ Len(operands) = Len(w)
  BY LenProperties DEF w
<1>4. \A i \in 1 .. Len(w) : w[i] \in {1, 2}
  BY <1>1, ElementOfSeq
<1>5. \A i \in 1 .. Len(w) : Capacity(w[i]) \in Nat \ {0}
  BY ReachType DEF Capacity, Reach
<1>6. \A i \in 1 .. Len(operands) : operands[i] \in Nat
  BY ElementOfSeq
<1>7. \A m \in Nat, c \in Nat \ {0} : m % c \in 0 .. c - 1
  OBVIOUS
<1>8. \A i \in DOMAIN args : args[i] \in 0 .. Capacity(w[i]) - 1
  BY <1>3, <1>5, <1>6, <1>7
<1>9. DOMAIN args = DOMAIN w
  <2>1. DOMAIN w = 1 .. Len(w)
    BY <1>1, LenProperties
  <2>2. QED
    BY <1>3, <2>1
<1> HIDE DEF args
<1>10. QED
  BY <1>2, <1>8, <1>9 DEF IsInstruction, w

(* addInstruction and setLastInstruction: the code grows at the end, so    *)
(* that a jump to the end becomes one to the instruction.                  *)
Grown(s, i, r) ==
  /\ ScopeOK(r)
  /\ r.len > 0 /\ r.last.op = i.op
  /\ s.len \notin DOMAIN s.ins
  /\ DOMAIN r.ins = DOMAIN s.ins \union {s.len}
  /\ r.ins[s.len] = i
  /\ \A p \in DOMAIN s.ins : r.ins[p] = s.ins[p]
  /\ \A p \in DOMAIN s.ins : Lands(s, p) \/ LandsAtEnd(s, p) => Lands(r, p)

LEMMA Emitted ==
  ASSUME NEW s, ScopeOK(s), NEW i, IsInstruction(i), i.op = "OpPop" => Valuable(s)
  PROVE  Grown(s, i, Emit(s, i))
<1> DEFINE r == Emit(s, i)
<1>1. /\ s.len \in Nat
      /\ \A p \in DOMAIN s.ins : /\ p \in Nat /\ IsInstruction(s.ins[p])
                                 /\ p + InstrLen(s.ins[p].op) <= s.len
      /\ Tiled(s)
  BY DEF ScopeOK, CodeOK
<1>2. \A x : IsInstruction(x) => x.op \in Opcodes /\ InstrLen(x.op) \in 1 .. 4
  BY Opcode DEF IsInstruction
<1>3. /\ r.len = s.len + InstrLen(i.op)
      /\ r.last.op = i.op /\ r.last.pos = s.len
      /\ r.previous = s.last
      /\ DOMAIN r.ins = DOMAIN s.ins \union {s.len}
      /\ \A p \in DOMAIN r.ins : r.ins[p] = IF p = s.len THEN i ELSE s.ins[p]
  BY DEF Emit
<1>12. Formed(r)
  <2>1. IsEmitted(s.last)
    BY DEF ScopeOK, Formed
  <2>2. QED
    BY <2>1 DEF Formed, IsEmitted, Emit
<1> HIDE DEF r
<1>4. InstrLen(i.op) \in 1 .. 4
  BY <1>2
<1>5. \A p \in DOMAIN s.ins : p < s.len
  BY <1>1, <1>2
<1>6. /\ s.len \notin DOMAIN s.ins
      /\ r.ins[s.len] = i
      /\ \A p \in DOMAIN s.ins : r.ins[p] = s.ins[p]
  BY <1>1, <1>3, <1>5
<1>7. CodeOK(r)
  <2>1. r.len \in Nat /\ r.len > 0
    BY <1>1, <1>3, <1>4
  <2>2. \A p \in DOMAIN r.ins : /\ p \in Nat /\ IsInstruction(r.ins[p])
                                /\ p + InstrLen(r.ins[p].op) <= r.len
    <3>1. ASSUME NEW p \in DOMAIN s.ins
          PROVE  p \in Nat /\ IsInstruction(r.ins[p]) /\ p + InstrLen(r.ins[p].op) <= r.len
      <4>1. p \in Nat /\ IsInstruction(s.ins[p]) /\ p + InstrLen(s.ins[p].op) <= s.len /\ InstrLen(s.ins[p].op) \in 1 .. 4
        BY <1>1, <1>2
      <4>2. QED
        BY <1>1, <1>3, <1>4, <1>6, <4>1
    <3>2. s.len + InstrLen(r.ins[s.len].op) <= r.len
      BY <1>1, <1>3, <1>4, <1>6
    <3>3. QED
      BY <1>1, <1>3, <1>6, <3>1, <3>2
  <2>3. Tiled(r)
    <3>1. 0 \in DOMAIN r.ins
      <4>1. s.len = 0 \/ s.len > 0
        BY <1>1
      <4>2. QED
        BY <1>1, <1>3, <4>1 DEF Tiled
    <3>2. ASSUME NEW p \in DOMAIN s.ins
          PROVE  /\ p + InstrLen(r.ins[p].op) \in DOMAIN r.ins \union {r.len}
                 /\ \A q \in DOMAIN r.ins : q <= p \/ q >= p + InstrLen(r.ins[p].op)
      <4>1. /\ p + InstrLen(s.ins[p].op) \in DOMAIN s.ins \union {s.len}
            /\ \A q \in DOMAIN s.ins : q <= p \/ q >= p + InstrLen(s.ins[p].op)
        BY <1>1 DEF Tiled
      <4>2. s.len >= p + InstrLen(s.ins[p].op)
        BY <1>1, <1>2
      <4>3. QED
        BY <1>3, <1>6, <4>1, <4>2
    <3>3. /\ s.len + InstrLen(r.ins[s.len].op) = r.len
          /\ \A q \in DOMAIN r.ins : q <= s.len
      BY <1>1, <1>3, <1>5, <1>6
    <3>4. QED
      BY <1>3, <3>1, <3>2, <3>3 DEF Tiled
  <2>4. QED
    BY <2>1, <2>2, <2>3 DEF CodeOK
<1>8. EndsWith(r, r.last, r.len) /\ r.len > 0
  BY <1>1, <1>3, <1>4, <1>6 DEF EndsWith
<1>9. r.last.op = "OpPop" => EndsWith(r, r.previous, r.last.pos) /\ r.previous.op # "OpPop"
  BY <1>3, <1>6 DEF ScopeOK, EndsWith, Valuable
<1>10. \A p \in DOMAIN s.ins : Lands(s, p) \/ LandsAtEnd(s, p) => Lands(r, p)
  <2>1. ASSUME NEW p \in DOMAIN s.ins, Lands(s, p) PROVE Lands(r, p)
    BY <1>3, <1>6, <2>1 DEF Lands
  <2>2. ASSUME NEW p \in DOMAIN s.ins, LandsAtEnd(s, p) PROVE Lands(r, p)
    <3>1. s.len > p /\ s.len \in DOMAIN r.ins
      BY <1>1, <1>3, <1>5
    <3>2. r.ins[p].args[1] = s.len % Reach
      BY <1>6, <2>2 DEF LandsAtEnd
    <3>3. QED
      BY <3>1, <3>2 DEF Lands
  <2>3. QED
    BY <2>1, <2>2
<1>11. Grown(s, i, r)
  BY <1>3, <1>6, <1>7, <1>8, <1>9, <1>10, <1>12 DEF ScopeOK, Grown
<1>13. QED
  BY <1>11 DEF r

(* removeLastPop, where it is called: the code ends with what was there    *)
(* before the pop, and a jump to the pop becomes one to the end.           *)
LostPop(s, r) ==
  /\ s.last.op = "OpPop"
  /\ r.len \in DOMAIN s.ins /\ s.ins[r.len].op = "OpPop"
  /\ r.len + InstrLen("OpPop") = s.len
  /\ DOMAIN s.ins = DOMAIN r.ins \union {r.len}

Trimmed(s, r) ==
  /\ ScopeOK(r)
  /\ s.len > 0 => Valuable(r)
  /\ r = s \/ LostPop(s, r)
  /\ DOMAIN r.ins \subseteq DOMAIN s.ins
  /\ \A p \in DOMAIN r.ins : r.ins[p] = s.ins[p]
  /\ JumpsIn(r) = JumpsIn(s)
  /\ \A p \in JumpsIn(s) : Lands(s, p) => Lands(r, p) \/ LandsAtEnd(r, p)

LEMMA Kept ==
  ASSUME NEW s, ScopeOK(s)
  PROVE  Trimmed(s, KeepValue(s))
<1> DEFINE r == KeepValue(s)
<1> SUFFICES Trimmed(s, r)
  OBVIOUS
<1>1. CASE ~(s.len > 0 /\ s.last.op = "OpPop")
  BY <1>1 DEF KeepValue, LastInstructionIs, Valuable, Trimmed, LostPop
<1>2. CASE s.len > 0 /\ s.last.op = "OpPop"
  <2> DEFINE end == s.last.pos
  <2>1. r = RemoveLastPop(s)
    BY <1>2 DEF KeepValue, LastInstructionIs
  <2>2. /\ s = [ins |-> s.ins, len |-> s.len, last |-> s.last, previous |-> s.previous]
        /\ IsEmitted(s.previous)
    BY DEF ScopeOK, Formed
  <2>3. /\ r = [ ins |-> [p \in {q \in DOMAIN s.ins : q < end} |-> s.ins[p]], len |-> end,
                 last |-> s.previous, previous |-> s.previous ]
    BY <2>1, <2>2 DEF RemoveLastPop
  <2>4. /\ DOMAIN r.ins = {q \in DOMAIN s.ins : q < end}
        /\ \A p \in DOMAIN r.ins : r.ins[p] = s.ins[p]
        /\ r.len = end /\ r.last = s.previous
    BY <2>3
  <2>5. Formed(r)
    BY <2>2, <2>3 DEF Formed
  <2> HIDE DEF r
  <2>6. /\ s.len \in Nat
        /\ \A p \in DOMAIN s.ins : /\ p \in Nat /\ IsInstruction(s.ins[p])
                                   /\ p + InstrLen(s.ins[p].op) <= s.len
                                   /\ InstrLen(s.ins[p].op) \in 1 .. 4
        /\ Tiled(s)
    BY Opcode DEF ScopeOK, CodeOK, IsInstruction
  <2>7. end \in DOMAIN s.ins /\ s.ins[end].op = "OpPop" /\ end + InstrLen("OpPop") = s.len
    BY <1>2 DEF ScopeOK, EndsWith
  <2>8. EndsWith(s, s.previous, end) /\ s.previous.op # "OpPop"
    BY <1>2 DEF ScopeOK
  <2>9. end \in Nat
    BY <2>6, <2>7
  <2>10. \A p \in DOMAIN s.ins : p < end \/ p = end
    <3>1. SUFFICES ASSUME NEW p \in DOMAIN s.ins, p > end PROVE FALSE
      BY <2>6, <2>9
    <3>2. p >= s.len
      BY <2>6, <2>7, <2>9, <3>1 DEF Tiled
    <3>3. QED
      BY <2>6, <3>2
  <2>11. \A p \in DOMAIN s.ins : p < end =>
           /\ p + InstrLen(s.ins[p].op) <= end
           /\ p + InstrLen(s.ins[p].op) \in DOMAIN r.ins \union {r.len}
    <3>1. SUFFICES ASSUME NEW p \in DOMAIN s.ins, p < end
                   PROVE  /\ p + InstrLen(s.ins[p].op) <= end
                          /\ p + InstrLen(s.ins[p].op) \in DOMAIN r.ins \union {r.len}
      OBVIOUS
    <3> DEFINE next == p + InstrLen(s.ins[p].op)
    <3>2. p \in Nat /\ next \in Nat
      BY <2>6
    <3>3. end <= p \/ end >= next
      BY <2>6, <2>7 DEF Tiled
    <3>4. next <= end
      BY <2>9, <3>1, <3>2, <3>3
    <3>5. next \in DOMAIN s.ins \union {s.len}
      BY <2>6 DEF Tiled
    <3>6. end < s.len
      BY <2>6, <2>7
    <3>7. QED
      BY <2>4, <2>6, <2>9, <2>10, <3>2, <3>4, <3>5, <3>6
  <2>12. s.previous.pos \in DOMAIN r.ins
    BY <2>4, <2>6, <2>8, <2>9 DEF EndsWith
  <2>13. CodeOK(r)
    <3>1. \A p \in DOMAIN r.ins : /\ p \in Nat /\ IsInstruction(r.ins[p])
                                  /\ p + InstrLen(r.ins[p].op) <= r.len
      BY <2>4, <2>6, <2>11
    <3>2. 0 \in DOMAIN r.ins
      <4>1. end > 0
        BY <2>4, <2>6, <2>9, <2>12
      <4>2. QED
        BY <1>2, <2>4, <2>6, <4>1 DEF Tiled
    <3>3. Tiled(r)
      BY <2>4, <2>6, <2>11, <3>2 DEF Tiled
    <3>4. QED
      BY <2>4, <2>9, <3>1, <3>3 DEF CodeOK
  <2>14. EndsWith(r, r.last, r.len) /\ r.last.op # "OpPop" /\ r.len > 0
    BY <2>4, <2>6, <2>8, <2>9, <2>12 DEF EndsWith
  <2>15. ScopeOK(r) /\ Valuable(r)
    BY <2>5, <2>13, <2>14 DEF ScopeOK, Valuable
  <2>16. JumpsIn(r) = JumpsIn(s)
    <3>1. "OpPop" \notin Jumps
      BY DEF Jumps
    <3>2. QED
      BY <2>4, <2>7, <2>10, <3>1 DEF JumpsIn
  <2>17. ASSUME NEW p \in JumpsIn(s), Lands(s, p) PROVE Lands(r, p) \/ LandsAtEnd(r, p)
    <3>1. PICK t \in DOMAIN s.ins : t > p /\ s.ins[p].args[1] = t % Reach
      BY <2>17 DEF Lands
    <3>2. r.ins[p] = s.ins[p]
      BY <2>4, <2>16, <2>17 DEF JumpsIn
    <3>3. CASE t = end
      BY <2>4, <3>1, <3>2, <3>3 DEF LandsAtEnd
    <3>4. CASE t < end
      BY <2>4, <3>1, <3>2, <3>4 DEF Lands
    <3>5. QED
      BY <2>10, <3>3, <3>4
  <2>18. QED
    BY <1>2, <2>4, <2>7, <2>10, <2>15, <2>16, <2>17 DEF Trimmed, LostPop
<1>3. QED
  BY <1>1, <1>2

(* changeOperand, of a jump: only where it leads changes.                  *)
Patched(s, pos, operand, r) ==
  /\ ScopeOK(r)
  /\ r.len = s.len /\ r.last = s.last
  /\ JumpsIn(r) = JumpsIn(s)
  /\ DOMAIN r.ins = DOMAIN s.ins
  /\ \A p \in DOMAIN s.ins : /\ r.ins[p].op = s.ins[p].op
                             /\ p # pos => r.ins[p] = s.ins[p]
  /\ operand = s.len => LandsAtEnd(r, pos)
  /\ \A p \in JumpsIn(s) \ {pos} : /\ Lands(s, p) => Lands(r, p)
                                   /\ LandsAtEnd(s, p) => LandsAtEnd(r, p)

LEMMA ChangedJump ==
  ASSUME NEW s, ScopeOK(s), NEW pos \in JumpsIn(s), NEW operand \in Nat
  PROVE  Patched(s, pos, operand, ChangeOperand(s, pos, operand))
<1> DEFINE r == ChangeOperand(s, pos, operand)
<1> DEFINE op == s.ins[pos].op
           i == Make(op, <<operand>>)
<1>1. /\ pos \in DOMAIN s.ins /\ op \in Jumps /\ op # "OpPop"
  BY DEF JumpsIn, Jumps
<1>2. op \in TwoByteOperand /\ op \in Opcodes
  BY <1>1 DEF Jumps, TwoByteOperand, Opcodes
<1>3. OperandWidth(op) = <<2>>
  <2>1. op \notin NoOperand /\ op \notin OneByteOperand /\ op # "OpClosure"
    BY <1>1 DEF Jumps, NoOperand, OneByteOperand
  <2>2. QED
    BY <1>2, <2>1, Zenon DEF OperandWidth
<1>4. i.op = op /\ IsInstruction(i) /\ i.args[1] = operand % Reach
  <2>1. <<operand>> \in Seq(Nat) /\ Len(<<operand>>) = 1 /\ Len(<<2>>) = 1
        /\ DOMAIN <<operand>> = {1} /\ <<operand>>[1] = operand /\ <<2>>[1] = 2
    OBVIOUS
  <2>2. Len(<<operand>>) = Len(OperandWidth(op))
    BY <1>3, <2>1
  <2>3. i.op = op /\ IsInstruction(i)
    BY <1>2, <2>1, <2>2, Made
  <2>4. i.args[1] = operand % Capacity(2)
    BY <1>3, <2>1 DEF Make
  <2>5. QED
    BY <2>3, <2>4 DEF Capacity, Reach
<1> HIDE DEF i
<1>5. r.ins = [s.ins EXCEPT ![pos] = i] /\ r.len = s.len /\ r.last = s.last /\ r.previous = s.previous /\ Formed(r)
  <2>1. /\ s = [ins |-> s.ins, len |-> s.len, last |-> s.last, previous |-> s.previous]
        /\ s.ins = [p \in DOMAIN s.ins |-> s.ins[p]]
        /\ IsEmitted(s.last) /\ IsEmitted(s.previous)
    BY DEF ScopeOK, Formed
  <2>2. r = [s EXCEPT !.ins = [s.ins EXCEPT ![pos] = i]]
    BY DEF ChangeOperand, i
  <2>3. r = [ins |-> [s.ins EXCEPT ![pos] = i], len |-> s.len, last |-> s.last, previous |-> s.previous]
    BY <2>1, <2>2
  <2>4. QED
    BY <2>1, <2>3 DEF Formed
<1> HIDE DEF r
<1>6. /\ DOMAIN r.ins = DOMAIN s.ins
      /\ r.ins[pos] = i
      /\ \A p \in DOMAIN s.ins : p # pos => r.ins[p] = s.ins[p]
  <2>1. s.ins = [p \in DOMAIN s.ins |-> s.ins[p]]
    BY DEF ScopeOK, Formed
  <2>2. QED
    BY <1>1, <1>5, <2>1
<1>7. \A p \in DOMAIN s.ins : r.ins[p].op = s.ins[p].op /\ (IsInstruction(s.ins[p]) => IsInstruction(r.ins[p]))
  BY <1>4, <1>6
<1>8. CodeOK(r)
  BY <1>5, <1>6, <1>7 DEF ScopeOK, CodeOK, Tiled
<1>9. ScopeOK(r)
  BY <1>5, <1>6, <1>7, <1>8 DEF ScopeOK, EndsWith
<1>10. JumpsIn(r) = JumpsIn(s)
  BY <1>6, <1>7 DEF JumpsIn
<1>11. operand = s.len => LandsAtEnd(r, pos)
  BY <1>4, <1>5, <1>6 DEF LandsAtEnd
<1>12. \A p \in JumpsIn(s) \ {pos} : /\ Lands(s, p) => Lands(r, p)
                                     /\ LandsAtEnd(s, p) => LandsAtEnd(r, p)
  BY <1>5, <1>6 DEF Lands, LandsAtEnd, JumpsIn
<1>13. Patched(s, pos, operand, r)
  BY <1>5, <1>6, <1>7, <1>9, <1>10, <1>11, <1>12 DEF Patched
<1>14. QED
  BY <1>13 DEF r

(* leaveScope's end of a function: the value of the last expression is     *)
(* returned, or nothing is.                                                *)
ReturnMade(s, r) ==
  \/ /\ s.len > 0 /\ s.last.op \in {"OpPop", "OpReturnValue"}
     /\ r.len = s.len /\ DOMAIN r.ins = DOMAIN s.ins
     /\ \A p \in DOMAIN s.ins :
          r.ins[p] = s.ins[p] \/ (s.ins[p].op = "OpPop" /\ r.ins[p].op = "OpReturnValue")
  \/ /\ ~(s.len > 0 /\ s.last.op \in {"OpPop", "OpReturnValue"})
     /\ r = Emit(s, Make("OpReturn", <<>>))

Ended(s, r) ==
  /\ CodeOK(r)
  /\ ReturnMade(s, r)
  /\ JumpsIn(r) = JumpsIn(s)
  /\ \A p \in JumpsIn(s) : Lands(s, p) => Lands(r, p)
  /\ \E p \in DOMAIN r.ins : p + InstrLen(r.ins[p].op) = r.len /\ r.ins[p].op \in Returns

LEMMA Returning ==
  ASSUME NEW s, ScopeOK(s)
  PROVE  Ended(s, ReturnAtEnd(s))
<1> DEFINE r == ReturnAtEnd(s)
<1> SUFFICES Ended(s, r)
  OBVIOUS
<1>1. /\ "OpReturn" \in Returns /\ "OpReturnValue" \in Returns
      /\ "OpReturn" \notin Jumps /\ "OpReturnValue" \notin Jumps /\ "OpPop" \notin Jumps
      /\ "OpReturn" # "OpPop" /\ "OpReturnValue" # "OpPop"
      /\ "OpReturn" \in NoOperand /\ "OpReturnValue" \in NoOperand /\ "OpPop" \in NoOperand
  BY DEF Returns, Jumps, NoOperand
<1>2. \A op \in NoOperand : op \in Opcodes /\ InstrLen(op) = 1 /\ OperandWidth(op) = <<>>
  <2>1. SUFFICES ASSUME NEW op \in NoOperand
                 PROVE  op \in Opcodes /\ InstrLen(op) = 1 /\ OperandWidth(op) = <<>>
    OBVIOUS
  <2>2. op \notin OneByteOperand /\ op \notin TwoByteOperand /\ op # "OpClosure"
    BY DEF NoOperand, OneByteOperand, TwoByteOperand
  <2>3. OperandWidth(op) = <<>>
    BY <2>2, Zenon DEF OperandWidth
  <2>4. InstrLen(op) = 1
    BY <2>2, Zenon DEF InstrLen
  <2>5. QED
    BY <2>3, <2>4 DEF Opcodes, Ended
<1>3. \A op \in NoOperand : IsInstruction(Make(op, <<>>)) /\ Make(op, <<>>).op = op
  <2>1. <<>> \in Seq(Nat)
    OBVIOUS
  <2>2. QED
    BY <1>2, <2>1, Made, Zenon DEF Ended
<1>4. CASE s.len > 0 /\ s.last.op = "OpPop"
  <2> DEFINE end == s.last.pos
             i == Make("OpReturnValue", <<>>)
  <2>1. end \in DOMAIN s.ins /\ s.ins[end].op = "OpPop" /\ end + InstrLen("OpPop") = s.len
    BY <1>4 DEF ScopeOK, EndsWith
  <2>2. /\ s = [ins |-> s.ins, len |-> s.len, last |-> s.last, previous |-> s.previous]
        /\ s.ins = [p \in DOMAIN s.ins |-> s.ins[p]]
        /\ s.last = [op |-> s.last.op, pos |-> s.last.pos]
    BY DEF ScopeOK, Formed, IsEmitted
  <2> DEFINE x == ReplaceLastPopWithReturn(s)
  <2>3. x = [ins |-> [s.ins EXCEPT ![end] = i], len |-> s.len,
             last |-> [op |-> "OpReturnValue", pos |-> end], previous |-> s.previous]
    <3>1. x = [s EXCEPT !.ins = [s.ins EXCEPT ![end] = i], !.last = [s.last EXCEPT !.op = "OpReturnValue"]]
      BY Zenon DEF ReplaceLastPopWithReturn, x
    <3>2. [s.last EXCEPT !.op = "OpReturnValue"] = [op |-> "OpReturnValue", pos |-> end]
      BY <2>2
    <3> HIDE DEF i, x
    <3>3. QED
      BY <2>2, <3>1, <3>2
  <2>4. x.len = s.len /\ x.last.op = "OpReturnValue" /\ x.ins = [s.ins EXCEPT ![end] = i]
    BY <2>3
  <2> HIDE DEF x
  <2>5. r = x
    BY <1>4, <2>4 DEF ReturnAtEnd, LastInstructionIs, x
  <2> HIDE DEF r
  <2>6. i.op = "OpReturnValue" /\ IsInstruction(i)
    BY <1>1, <1>3
  <2> HIDE DEF i
  <2>7. /\ DOMAIN r.ins = DOMAIN s.ins
        /\ r.ins[end] = i
        /\ \A p \in DOMAIN s.ins : p # end => r.ins[p] = s.ins[p]
        /\ r.len = s.len
    BY <2>1, <2>2, <2>4, <2>5
  <2>8. \A p \in DOMAIN s.ins : /\ InstrLen(r.ins[p].op) = InstrLen(s.ins[p].op)
                                /\ IsInstruction(s.ins[p]) => IsInstruction(r.ins[p])
    BY <1>1, <1>2, <2>1, <2>6, <2>7
  <2>9. CodeOK(r)
    BY <2>7, <2>8 DEF ScopeOK, CodeOK, Tiled
  <2>10. \A p \in DOMAIN s.ins : r.ins[p].op \in Jumps <=> s.ins[p].op \in Jumps
    BY <1>1, <2>1, <2>6, <2>7
  <2>11. JumpsIn(r) = JumpsIn(s)
    BY <2>7, <2>10 DEF JumpsIn
  <2>12. \A p \in JumpsIn(s) : Lands(s, p) => Lands(r, p)
    <3>1. \A p \in JumpsIn(s) : p \in DOMAIN s.ins /\ p # end
      BY <1>1, <2>1 DEF JumpsIn
    <3>2. QED
      BY <2>7, <3>1 DEF Lands
  <2>13. end + InstrLen(r.ins[end].op) = r.len /\ r.ins[end].op \in Returns
    BY <1>1, <2>1, <2>6, <2>7, <2>8
  <2>14. ReturnMade(s, r)
    BY <1>4, <2>1, <2>6, <2>7 DEF ReturnMade
  <2>15. QED
    BY <2>1, <2>7, <2>9, <2>11, <2>12, <2>13, <2>14 DEF Ended
<1>5. CASE s.len > 0 /\ s.last.op = "OpReturnValue"
  <2>1. r = s
    BY <1>1, <1>5 DEF ReturnAtEnd, LastInstructionIs
  <2>2. EndsWith(s, s.last, s.len)
    BY <1>5 DEF ScopeOK
  <2>3. ReturnMade(s, r)
    BY <1>5, <2>1 DEF ReturnMade
  <2>4. QED
    BY <1>1, <1>5, <2>1, <2>2, <2>3 DEF EndsWith, ScopeOK, Ended
<1>6. CASE ~(s.len > 0 /\ s.last.op = "OpPop") /\ ~(s.len > 0 /\ s.last.op = "OpReturnValue")
  <2> DEFINE i == Make("OpReturn", <<>>)
  <2>1. r = Emit(s, i)
    BY <1>6 DEF ReturnAtEnd, LastInstructionIs
  <2>2. IsInstruction(i) /\ i.op = "OpReturn"
    BY <1>1, <1>3
  <2>9. ReturnMade(s, r)
    BY <1>6, <2>1 DEF ReturnMade
  <2> HIDE DEF i
  <2>3. i.op # "OpPop"
    BY <1>1, <2>2
  <2> HIDE DEF r
  <2>4. /\ ScopeOK(r)
        /\ r.len > 0 /\ r.last.op = i.op
        /\ s.len \notin DOMAIN s.ins
        /\ DOMAIN r.ins = DOMAIN s.ins \union {s.len}
        /\ r.ins[s.len] = i
        /\ \A p \in DOMAIN s.ins : r.ins[p] = s.ins[p]
        /\ \A p \in DOMAIN s.ins : Lands(s, p) \/ LandsAtEnd(s, p) => Lands(r, p)
    BY <2>1, <2>2, <2>3, Emitted DEF Grown
  <2>5. JumpsIn(r) = JumpsIn(s)
    BY <1>1, <2>2, <2>4 DEF JumpsIn
  <2>6. \A p \in JumpsIn(s) : Lands(s, p) => Lands(r, p)
    BY <2>4 DEF JumpsIn
  <2>7. EndsWith(r, r.last, r.len) /\ r.last.op \in Returns
    BY <1>1, <2>2, <2>4 DEF ScopeOK
  <2>8. QED
    BY <2>4, <2>5, <2>6, <2>7, <2>9 DEF ScopeOK, EndsWith, Ended
<1>7. QED
  BY <1>4, <1>5, <1>6

(* enterScope: no code yet. *)
LEMMA NewScope ==
  /\ ScopeOK(NewCompilationScope)
  /\ JumpsIn(NewCompilationScope) = {}
<1>1. /\ DOMAIN NewCompilationScope.ins = {}
      /\ NewCompilationScope.len = 0
      /\ Formed(NewCompilationScope)
  BY DEF NewCompilationScope, NothingEmitted, Formed, IsEmitted
<1>2. QED
  BY <1>1 DEF ScopeOK, CodeOK, Tiled, JumpsIn

--------------------------------------------------------------------------------
(***************************************************************************)
(* Tasks.                                                                  *)
(***************************************************************************)
IsList(list) == list \in Seq(Elements(list))

IsFunction(object) == object.type = "COMPILED_FUNCTION"

TaskOK(t) ==
  \/ t.do = "compile" /\ t.node \in Nodes
  \/ /\ t.do = "emit" /\ t.op \in Opcodes \ Jumps
     /\ t.operands \in Seq(Nat) /\ Len(t.operands) = Len(OperandWidth(t.op))
  \/ /\ t.do \in {"ifThen", "ifElse", "ifEnd"}
     /\ t.node \in Nodes /\ t.node.kind = "IfExpression"
  \/ t.do \in {"parameter", "leave"}
  \/ t.do = "closure" /\ FunctionOK(t.fn) /\ t.numFree \in Nat

CompilesExpression(t) == t.do = "compile" /\ t.node \in Expressions
CompilesBlock(t)      == t.do = "compile" /\ t.node \in Blocks

(* Between two emissions, or before one that must come.                    *)
Waits(t) == CompilesExpression(t) \/ t.do \in {"ifThen", "ifElse", "ifEnd", "leave"}

(* It takes the value that the task before it has left.                    *)
Consumes(t) == CompilesExpression(t) \/ t.do \in {"emit", "ifThen"}

(* It leaves a value, or at least no pop.                                  *)
Valued(t) ==
  \/ CompilesExpression(t)
  \/ t.do = "emit" /\ t.op # "OpPop"
  \/ t.do \in {"ifThen", "ifElse", "ifEnd", "closure", "leave"}

(* It must not come after a pop.                                           *)
Needs(t) ==
  \/ t.do = "emit" /\ t.op = "OpPop"
  \/ t.do = "ifEnd" /\ t.node.alternative = NoBlock

Follows(t, next) ==
  /\ Waits(t) => Consumes(next)
  /\ Needs(next) => Valued(t)

(* What is left to do begins with an emission.                             *)
Emitting(t) ==
  \/ t.do \in {"emit", "ifThen", "ifEnd", "closure"}
  \/ t.do = "compile" /\ t.node \notin Blocks

Emits(tasks) ==
  /\ tasks # <<>>
  /\ \/ Emitting(tasks[1])
     \/ CompilesBlock(tasks[1]) /\ Len(tasks) > 1 /\ tasks[2].do = "ifEnd"

--------------------------------------------------------------------------------
(***************************************************************************)
(* Levels: for each task the scope it works in, one of n.                  *)
(***************************************************************************)
LevelAfter(t, level) == IF t.do = "leave" THEN level - 1 ELSE level

Plan(tasks, levels, n) ==
  /\ IsList(tasks)
  /\ n \in Nat \ {0}
  /\ levels \in [DOMAIN tasks -> Nat \ {0}]
  /\ IF tasks = <<>> THEN n = 1 ELSE levels[1] = n
  /\ \A i \in DOMAIN tasks :
       /\ TaskOK(tasks[i])
       /\ i = Len(tasks) => levels[i] = 1 /\ ~Waits(tasks[i])
       /\ i < Len(tasks) => /\ levels[i + 1] = LevelAfter(tasks[i], levels[i])
                            /\ Follows(tasks[i], tasks[i + 1])
  /\ \A i, j \in DOMAIN tasks : i < j => LevelAfter(tasks[i], levels[i]) >= levels[j]

(* The jumps that tasks will patch. *)
Holder(t) == t.do \in {"ifElse", "ifEnd"}
HeldBy(t) == IF t.do = "ifElse" THEN t.jumpNotTruthyPos ELSE t.jumpPos

Holds(tasks) == {HeldBy(tasks[i]) : i \in {j \in DOMAIN tasks : Holder(tasks[j])}}
HoldsAt(tasks, levels, l) ==
  {HeldBy(tasks[i]) : i \in {j \in DOMAIN tasks : Holder(tasks[j]) /\ levels[j] = l}}

JumpsCared(scope, held, emits) ==
  /\ held \subseteq JumpsIn(scope)
  /\ \A p \in JumpsIn(scope) :
       \/ p \in held
       \/ Lands(scope, p)
       \/ LandsAtEnd(scope, p) /\ scope.last.op # "OpPop" /\ emits

Good(tasks, levels, ss) ==
  /\ Plan(tasks, levels, Len(ss))
  /\ \A l \in DOMAIN ss :
       JumpsCared(ss[l], HoldsAt(tasks, levels, l), l = Len(ss) => Emits(tasks))
  /\ tasks # <<>> => (Needs(tasks[1]) => Valuable(ss[Len(ss)]))

TablesInv ==
  /\ Proved!IInv
  /\ Len(tables) = Len(scopes)

CodeInv ==
  /\ IsList(constants)
  /\ \A k \in DOMAIN constants : IsFunction(constants[k]) => FunctionOK(constants[k])
  /\ IsList(scopes) /\ scopes # <<>>
  /\ \A l \in DOMAIN scopes : ScopeOK(scopes[l])
  /\ status \in {"compiling", "compiled", "undefined variable"}
  /\ status = "compiling" => \E levels : Good(todo, levels, scopes)
  /\ status = "compiled" => \A p \in JumpsIn(scopes[1]) : Lands(scopes[1], p)

IInv == TablesInv /\ CodeInv

--------------------------------------------------------------------------------
LEMMA ListFacts ==
  /\ \A T, s : s \in Seq(T) => IsList(s)
  /\ \A s : IsList(s) => /\ Len(s) \in Nat
                         /\ DOMAIN s = 1 .. Len(s)
                         /\ s = [i \in 1 .. Len(s) |-> s[i]]
                         /\ s # <<>> <=> Len(s) > 0
<1>1. ASSUME NEW T, NEW s \in Seq(T)
      PROVE  IsList(s)
  <2>1. Len(s) \in Nat /\ s = [i \in 1 .. Len(s) |-> s[i]] /\ DOMAIN s = 1 .. Len(s)
    OBVIOUS
  <2>2. [i \in 1 .. Len(s) |-> s[i]] \in Seq(Elements(s))
    BY <2>1 DEF Elements
  <2>3. QED
    BY <2>1, <2>2 DEF IsList
<1>2. ASSUME NEW s, IsList(s)
      PROVE  /\ Len(s) \in Nat
             /\ DOMAIN s = 1 .. Len(s)
             /\ s = [i \in 1 .. Len(s) |-> s[i]]
             /\ s # <<>> <=> Len(s) > 0
  <2> DEFINE E == Elements(s)
  <2>1. s \in Seq(E)
    BY <1>2 DEF IsList
  <2> HIDE DEF E
  <2>2. Len(s) \in Nat /\ DOMAIN s = 1 .. Len(s) /\ s = [i \in 1 .. Len(s) |-> s[i]]
    BY <2>1
  <2>3. s # <<>> <=> Len(s) # 0
    BY <2>1, EmptySeq
  <2>4. QED
    BY <2>2, <2>3
<1>3. QED
  BY <1>1, <1>2

(* What is left to do after the first task has become others. *)
LEMMA Joined ==
  ASSUME NEW new, IsList(new), NEW ts, IsList(ts), ts # <<>>
  PROVE  /\ IsList(new \o Tail(ts))
         /\ Len(new \o Tail(ts)) = Len(new) + Len(ts) - 1
         /\ \A i \in 1 .. Len(new) : (new \o Tail(ts))[i] = new[i]
         /\ \A i \in 2 .. Len(ts) : (new \o Tail(ts))[Len(new) + i - 1] = ts[i]
<1> DEFINE T == Elements(new) \union Elements(ts)
<1>1. new \in Seq(T) /\ ts \in Seq(T)
  <2>1. new \in Seq(Elements(new)) /\ ts \in Seq(Elements(ts))
    BY DEF IsList
  <2>2. \A A, B : A \subseteq B => Seq(A) \subseteq Seq(B)
    OBVIOUS
  <2>3. QED
    BY <2>1, <2>2
<1> HIDE DEF T
<1>2. Tail(ts) \in Seq(T) /\ Len(Tail(ts)) = Len(ts) - 1 /\ \A i \in 1 .. Len(ts) - 1 : Tail(ts)[i] = ts[i + 1]
  BY <1>1, HeadTailProperties
<1>3. new \o Tail(ts) \in Seq(T)
  BY <1>1, <1>2
<1>4. IsList(new \o Tail(ts))
  BY <1>3, ListFacts
<1>5. Len(new \o Tail(ts)) = Len(new) + Len(Tail(ts))
  BY <1>1, <1>2
<1>6. Len(ts) \in Nat /\ Len(new) \in Nat
  BY <1>1
<1>7. \A i \in 1 .. Len(new) : (new \o Tail(ts))[i] = new[i]
  BY <1>1, <1>2
<1>8. ASSUME NEW i \in 2 .. Len(ts) PROVE (new \o Tail(ts))[Len(new) + i - 1] = ts[i]
  <2>1. (new \o Tail(ts))[Len(new) + (i - 1)] = Tail(ts)[i - 1]
    BY <1>1, <1>2, <1>6
  <2>2. i - 1 \in 1 .. Len(ts) - 1 /\ Len(new) + (i - 1) = Len(new) + i - 1 /\ (i - 1) + 1 = i
    BY <1>6
  <2>3. QED
    BY <1>2, <2>1, <2>2
<1>9. QED
  BY <1>2, <1>4, <1>5, <1>6, <1>7, <1>8

(* The trees' nodes are of the grammar's kinds. *)
LEMMA NodesWellFormed ==
  /\ \A n \in Nodes : WellFormed(n, Expressions, Statements, Blocks)
  /\ \A n \in Nodes : /\ n \in Expressions <=> n.kind \in ExpressionKinds
                      /\ n \in Statements <=> n.kind \in StatementKinds
                      /\ n \in Blocks <=> n.kind = "BlockStatement"
  /\ Expressions \subseteq Nodes /\ Statements \subseteq Nodes /\ Blocks \subseteq Nodes
  /\ Programs \subseteq Blocks
<1>1. \A n \in Nodes : WellFormed(n, Expressions, Statements, Blocks)
  BY TreesAssumption DEF Grammatical, Expressions, Statements, Blocks
<1>2. QED
  BY <1>1, TreesAssumption DEF Expressions, Statements, Blocks, ExpressionsIn, StatementsIn, BlocksIn
--------------------------------------------------------------------------------
(* A handler puts tasks in the place of its own, which work at a level m.  *)
Continues(new, t, n, m) ==
  /\ IsList(new)
  /\ m \in Nat \ {0}
  /\ \A i \in DOMAIN new :
       /\ TaskOK(new[i])
       /\ i < Len(new) => new[i].do # "leave" /\ Follows(new[i], new[i + 1])
  /\ IF new = <<>> THEN m = LevelAfter(t, n)
     ELSE /\ LevelAfter(new[Len(new)], m) = LevelAfter(t, n)
          /\ Waits(new[Len(new)]) => Waits(t)
          /\ Valued(t) => Valued(new[Len(new)])

NewLevels(new, ts, levels, m) ==
  [i \in 1 .. Len(new) + Len(ts) - 1 |->
     IF i <= Len(new) THEN m ELSE levels[i - Len(new) + 1]]

(* Where the tasks are then, and their levels. *)
Shifted(r, lv, new, ts, levels, n, m) ==
  LET K == Len(new)
      N == Len(ts)
  IN  /\ /\ IsList(ts) /\ IsList(new) /\ n \in Nat \ {0} /\ m \in Nat \ {0}
         /\ levels \in [DOMAIN ts -> Nat \ {0}] /\ levels[1] = n
      /\ /\ K \in Nat /\ DOMAIN new = 1 .. K /\ (new # <<>> <=> K > 0)
         /\ N \in Nat /\ DOMAIN ts = 1 .. N /\ N > 0
      /\ /\ IsList(r) /\ Len(r) = K + N - 1
         /\ \A i \in 1 .. K : r[i] = new[i]
         /\ \A i \in 2 .. N : r[K + i - 1] = ts[i]
      /\ DOMAIN r = 1 .. K + N - 1 /\ (r # <<>> <=> K + N - 1 > 0)
      /\ \A i \in 1 .. N : levels[i] \in Nat \ {0}
      /\ /\ lv \in [DOMAIN r -> Nat \ {0}]
         /\ \A i \in 1 .. K : lv[i] = m
         /\ \A i \in 2 .. N : lv[K + i - 1] = levels[i]

LEMMA NewIndices ==
  ASSUME NEW ts, NEW levels, NEW n, Plan(ts, levels, n), ts # <<>>,
         NEW new, NEW m, Continues(new, ts[1], n, m)
  PROVE  Shifted(new \o Tail(ts), NewLevels(new, ts, levels, m), new, ts, levels, n, m)
<1> DEFINE r  == new \o Tail(ts)
           lv == NewLevels(new, ts, levels, m)
           K  == Len(new)
           N  == Len(ts)
<1>1. /\ IsList(ts) /\ IsList(new)
      /\ n \in Nat \ {0} /\ m \in Nat \ {0}
      /\ levels \in [DOMAIN ts -> Nat \ {0}] /\ levels[1] = n
  BY DEF Plan, Continues
<1>2. /\ K \in Nat /\ DOMAIN new = 1 .. K /\ (new # <<>> <=> K > 0)
      /\ N \in Nat /\ DOMAIN ts = 1 .. N /\ N > 0
  BY <1>1, ListFacts
<1>3. /\ IsList(r) /\ Len(r) = K + N - 1
      /\ \A i \in 1 .. K : r[i] = new[i]
      /\ \A i \in 2 .. N : r[K + i - 1] = ts[i]
  BY <1>1, Joined
<1>4. DOMAIN r = 1 .. K + N - 1 /\ (r # <<>> <=> K + N - 1 > 0)
  BY <1>3, ListFacts
<1>5. \A i \in 1 .. N : levels[i] \in Nat \ {0}
  BY <1>1, <1>2
<1>6. /\ lv \in [DOMAIN r -> Nat \ {0}]
      /\ \A i \in 1 .. K : lv[i] = m
      /\ \A i \in 2 .. N : lv[K + i - 1] = levels[i]
  <2> HIDE DEF r
  <2>1. lv = [i \in 1 .. K + N - 1 |-> IF i <= K THEN m ELSE levels[i - K + 1]]
    BY DEF NewLevels
  <2>2. \A i \in 1 .. K + N - 1 : ~(i <= K) => i - K + 1 \in 1 .. N
    BY <1>2
  <2>3. \A i \in 2 .. N : K + i - 1 \in 1 .. K + N - 1 /\ ~(K + i - 1 <= K) /\ (K + i - 1) - K + 1 = i
    BY <1>2
  <2>4. \A i \in 1 .. K : i \in 1 .. K + N - 1 /\ i <= K
    BY <1>2
  <2> HIDE DEF lv
  <2>5. lv \in [DOMAIN r -> Nat \ {0}]
    BY <1>1, <1>4, <1>5, <2>1, <2>2
  <2>6. \A i \in 1 .. K : lv[i] = m
    BY <2>1, <2>4
  <2>7. ASSUME NEW i \in 2 .. N PROVE lv[K + i - 1] = levels[i]
    <3>1. lv[K + i - 1] = levels[(K + i - 1) - K + 1]
      BY <2>1, <2>3
    <3>2. QED
      BY <2>3, <3>1
  <2>8. QED
    BY <2>5, <2>6, <2>7
<1>7. QED
  BY <1>1, <1>2, <1>3, <1>4, <1>5, <1>6 DEF Shifted

LEMMA PlanGoesOn ==
  ASSUME NEW ts, NEW levels, NEW n, Plan(ts, levels, n), ts # <<>>,
         NEW new, NEW m, Continues(new, ts[1], n, m)
  PROVE  Plan(new \o Tail(ts), NewLevels(new, ts, levels, m), m)
<1> DEFINE r  == new \o Tail(ts)
           lv == NewLevels(new, ts, levels, m)
           K  == Len(new)
           N  == Len(ts)
<1>0. Shifted(r, lv, new, ts, levels, n, m)
  BY NewIndices
<1> HIDE DEF r, lv
<1>1. /\ IsList(ts) /\ IsList(new)
      /\ n \in Nat \ {0} /\ m \in Nat \ {0}
      /\ levels \in [DOMAIN ts -> Nat \ {0}] /\ levels[1] = n
  BY <1>0 DEF Shifted
<1>2. /\ K \in Nat /\ DOMAIN new = 1 .. K /\ (new # <<>> <=> K > 0)
      /\ N \in Nat /\ DOMAIN ts = 1 .. N /\ N > 0
  BY <1>0 DEF Shifted
<1>3. /\ IsList(r) /\ Len(r) = K + N - 1
      /\ \A i \in 1 .. K : r[i] = new[i]
      /\ \A i \in 2 .. N : r[K + i - 1] = ts[i]
  BY <1>0 DEF Shifted
<1>4. DOMAIN r = 1 .. K + N - 1 /\ (r # <<>> <=> K + N - 1 > 0)
  BY <1>0 DEF Shifted
<1>5. \A i \in 1 .. N : levels[i] \in Nat \ {0}
  BY <1>0 DEF Shifted
<1>6. /\ lv \in [DOMAIN r -> Nat \ {0}]
      /\ \A i \in 1 .. K : lv[i] = m
      /\ \A i \in 2 .. N : lv[K + i - 1] = levels[i]
  BY <1>0 DEF Shifted
<1>7. /\ \A i \in 1 .. N : /\ TaskOK(ts[i])
                           /\ i = N => levels[i] = 1 /\ ~Waits(ts[i])
                           /\ i < N => /\ levels[i + 1] = LevelAfter(ts[i], levels[i])
                                       /\ Follows(ts[i], ts[i + 1])
      /\ \A i, j \in 1 .. N : i < j => LevelAfter(ts[i], levels[i]) >= levels[j]
  BY <1>2 DEF Plan
<1>8. /\ \A i \in 1 .. K : /\ TaskOK(new[i])
                           /\ i < K => new[i].do # "leave" /\ Follows(new[i], new[i + 1])
      /\ K = 0 => m = LevelAfter(ts[1], n)
      /\ K > 0 => /\ LevelAfter(new[K], m) = LevelAfter(ts[1], n)
                  /\ Waits(new[K]) => Waits(ts[1])
                  /\ Valued(ts[1]) => Valued(new[K])
  BY <1>2 DEF Continues
<1>9. \A t, l : ~Waits(t) => LevelAfter(t, l) = l
  BY DEF Waits, LevelAfter
<1>10. \A t : \A l \in Nat : LevelAfter(t, l) <= l /\ LevelAfter(t, l) \in Int
  BY DEF LevelAfter
<1> HIDE DEF r, lv, K, N
<1>11. N = 1 => n = 1 /\ ~Waits(ts[1])
  BY <1>1, <1>2, <1>7
<1>12. N > 1 => levels[2] = LevelAfter(ts[1], n) /\ Follows(ts[1], ts[2])
  BY <1>1, <1>2, <1>7
<1>13. IF r = <<>> THEN m = 1 ELSE lv[1] = m
  <2>1. CASE K > 0
    BY <1>2, <1>4, <1>6, <2>1
  <2>2. CASE K = 0 /\ N = 1
    <3>1. r = <<>>
      BY <1>4, <2>2
    <3>2. m = LevelAfter(ts[1], n)
      BY <1>8, <2>2
    <3>3. n = 1 /\ ~Waits(ts[1])
      BY <1>11, <2>2
    <3>4. QED
      BY <1>9, <3>1, <3>2, <3>3
  <2>3. CASE K = 0 /\ N > 1
    <3>1. r # <<>>
      BY <1>2, <1>4, <2>3
    <3>2. m = LevelAfter(ts[1], n) /\ levels[2] = LevelAfter(ts[1], n)
      BY <1>8, <1>12, <2>3
    <3>3. lv[1] = levels[2]
      <4>1. 2 \in 2 .. N /\ K + 2 - 1 = 1
        BY <1>2, <2>3
      <4>2. QED
        BY <1>6, <4>1
    <3>4. QED
      BY <3>1, <3>2, <3>3
  <2>4. QED
    BY <1>2, <2>1, <2>2, <2>3
<1>14. ASSUME NEW i \in 1 .. K + N - 1
       PROVE  /\ TaskOK(r[i])
              /\ i = K + N - 1 => lv[i] = 1 /\ ~Waits(r[i])
              /\ i < K + N - 1 => /\ lv[i + 1] = LevelAfter(r[i], lv[i])
                                  /\ Follows(r[i], r[i + 1])
  <2>1. CASE i < K
    <3>1. i \in 1 .. K /\ i + 1 \in 1 .. K /\ i < K + N - 1
      BY <1>2, <2>1
    <3>2. r[i] = new[i] /\ r[i + 1] = new[i + 1] /\ lv[i] = m /\ lv[i + 1] = m
      BY <1>3, <1>6, <3>1
    <3>3. TaskOK(new[i]) /\ new[i].do # "leave" /\ Follows(new[i], new[i + 1])
      BY <1>8, <2>1, <3>1
    <3>4. LevelAfter(new[i], m) = m
      BY <3>3 DEF LevelAfter
    <3>5. QED
      BY <3>1, <3>2, <3>3, <3>4
  <2>2. CASE i = K /\ N = 1
    <3>1. i \in 1 .. K /\ i = K + N - 1 /\ K > 0
      BY <1>2, <2>2
    <3>2. r[i] = new[K] /\ lv[i] = m /\ TaskOK(new[K])
      BY <1>3, <1>6, <1>8, <2>2, <3>1
    <3>3. LevelAfter(new[K], m) = LevelAfter(ts[1], n) /\ (Waits(new[K]) => Waits(ts[1]))
      BY <1>8, <3>1
    <3>4. n = 1 /\ ~Waits(ts[1]) /\ ~Waits(new[K])
      BY <1>11, <2>2, <3>3
    <3>5. m = 1
      BY <1>9, <3>3, <3>4
    <3>6. QED
      BY <1>2, <3>1, <3>2, <3>4, <3>5
  <2>3. CASE i = K /\ N > 1
    <3>1. i \in 1 .. K /\ i < K + N - 1 /\ K > 0 /\ 2 \in 2 .. N /\ K + 2 - 1 = i + 1
      BY <1>2, <2>3
    <3>2. r[i] = new[K] /\ lv[i] = m /\ TaskOK(new[K]) /\ r[i + 1] = ts[2] /\ lv[i + 1] = levels[2]
      BY <1>3, <1>6, <1>8, <2>3, <3>1
    <3>3. /\ LevelAfter(new[K], m) = LevelAfter(ts[1], n)
          /\ Waits(new[K]) => Waits(ts[1])
          /\ Valued(ts[1]) => Valued(new[K])
      BY <1>8, <3>1
    <3>4. levels[2] = LevelAfter(ts[1], n) /\ Follows(ts[1], ts[2])
      BY <1>12, <2>3
    <3>5. Follows(new[K], ts[2])
      BY <3>3, <3>4 DEF Follows
    <3>6. QED
      BY <1>2, <3>1, <3>2, <3>3, <3>4, <3>5
  <2>4. CASE i > K
    <3> DEFINE k == i - K + 1
    <3>1. k \in 2 .. N /\ K + k - 1 = i /\ k \in 1 .. N
      BY <1>2, <2>4
    <3> HIDE DEF k
    <3>2. r[i] = ts[k] /\ lv[i] = levels[k]
      BY <1>3, <1>6, <3>1
    <3>3. i < K + N - 1 => k < N /\ k + 1 \in 2 .. N /\ K + (k + 1) - 1 = i + 1
      BY <1>2, <3>1
    <3>4. i < K + N - 1 => r[i + 1] = ts[k + 1] /\ lv[i + 1] = levels[k + 1]
      BY <1>3, <1>6, <3>3
    <3>5. i = K + N - 1 => k = N
      BY <1>2, <3>1
    <3>6. QED
      BY <1>7, <3>1, <3>2, <3>3, <3>4, <3>5
  <2>5. QED
    BY <1>2, <2>1, <2>2, <2>3, <2>4
<1>15. ASSUME NEW i \in 1 .. K + N - 1, NEW j \in 1 .. K + N - 1, i < j
       PROVE  LevelAfter(r[i], lv[i]) >= lv[j]
  <2>1. CASE j <= K
    <3>1. i \in 1 .. K /\ i < K /\ j \in 1 .. K
      BY <1>2, <1>15, <2>1
    <3>2. r[i] = new[i] /\ lv[i] = m /\ lv[j] = m /\ new[i].do # "leave"
      BY <1>3, <1>6, <1>8, <3>1
    <3>3. QED
      BY <1>1, <3>2 DEF LevelAfter
  <2>2. CASE j > K
    <3> DEFINE b == j - K + 1
    <3>1. b \in 2 .. N /\ K + b - 1 = j /\ b \in 1 .. N /\ 1 \in 1 .. N /\ 1 < b
      BY <1>2, <2>2
    <3> HIDE DEF b
    <3>2. lv[j] = levels[b] /\ levels[b] \in Nat
      BY <1>5, <1>6, <3>1
    <3>3. LevelAfter(ts[1], n) >= levels[b]
      BY <1>1, <1>7, <3>1
    <3>4. CASE i <= K
      <4>1. i \in 1 .. K /\ K > 0
        BY <1>2, <3>4
      <4>2. r[i] = new[i] /\ lv[i] = m /\ LevelAfter(new[K], m) = LevelAfter(ts[1], n)
        BY <1>3, <1>6, <1>8, <4>1
      <4>3. i < K => LevelAfter(new[i], m) = m
        BY <1>8, <4>1 DEF LevelAfter
      <4>4. LevelAfter(new[K], m) <= m /\ LevelAfter(new[K], m) \in Int
        BY <1>1, <1>10
      <4>5. i < K \/ i = K
        BY <1>2, <3>4
      <4>6. QED
        BY <1>1, <3>2, <3>3, <4>2, <4>3, <4>4, <4>5
    <3>5. CASE i > K
      <4> DEFINE a == i - K + 1
      <4>1. a \in 2 .. N /\ K + a - 1 = i /\ a \in 1 .. N /\ a < b
        BY <1>2, <1>15, <3>1, <3>5
      <4> HIDE DEF a
      <4>2. r[i] = ts[a] /\ lv[i] = levels[a]
        BY <1>3, <1>6, <4>1
      <4>3. QED
        BY <1>7, <3>1, <3>2, <4>1, <4>2
    <3>6. QED
      BY <1>2, <3>4, <3>5
  <2>3. QED
    BY <1>2, <2>1, <2>2
<1>16. Plan(r, lv, m)
  BY <1>1, <1>3, <1>4, <1>6, <1>13, <1>14, <1>15 DEF Plan
<1>17. QED
  BY <1>16 DEF r, lv
(* ... and the jumps that they hold: only those of the first task and of   *)
(* the new ones come and go.                                               *)
HoldsOf(t) == IF Holder(t) THEN {HeldBy(t)} ELSE {}

LEMMA HoldsGoOn ==
  ASSUME NEW ts, NEW levels, NEW n, Plan(ts, levels, n), ts # <<>>,
         NEW new, NEW m, Continues(new, ts[1], n, m),
         NEW l
  PROVE  LET before == HoldsAt(ts, levels, l)
             after  == HoldsAt(new \o Tail(ts), NewLevels(new, ts, levels, m), l)
         IN  /\ \A p \in after : p \in before \/ (l = m /\ p \in Holds(new))
             /\ \A p \in before : p \in after \/ (l = n /\ p \in HoldsOf(ts[1]))
             /\ l = m => Holds(new) \subseteq after
<1> DEFINE r  == new \o Tail(ts)
           lv == NewLevels(new, ts, levels, m)
           K  == Len(new)
           N  == Len(ts)
<1>0. Shifted(r, lv, new, ts, levels, n, m)
  BY NewIndices
<1> HIDE DEF r, lv
<1>1. K \in Nat /\ DOMAIN new = 1 .. K /\ N \in Nat /\ DOMAIN ts = 1 .. N /\ N > 0 /\ levels[1] = n
  BY <1>0 DEF Shifted
<1>2. /\ \A i \in 1 .. K : r[i] = new[i] /\ lv[i] = m
      /\ \A i \in 2 .. N : r[K + i - 1] = ts[i] /\ lv[K + i - 1] = levels[i]
      /\ DOMAIN r = 1 .. K + N - 1
  BY <1>0 DEF Shifted
<1> HIDE DEF K, N
<1>3. ASSUME NEW p \in HoldsAt(r, lv, l)
      PROVE  p \in HoldsAt(ts, levels, l) \/ (l = m /\ p \in Holds(new))
  <2>1. PICK i \in 1 .. K + N - 1 : Holder(r[i]) /\ lv[i] = l /\ p = HeldBy(r[i])
    BY <1>2 DEF HoldsAt
  <2>2. CASE i <= K
    <3>1. i \in 1 .. K
      BY <1>1, <2>2
    <3>2. r[i] = new[i] /\ lv[i] = m
      BY <1>2, <3>1
    <3>3. QED
      BY <1>1, <2>1, <3>1, <3>2 DEF Holds
  <2>3. CASE i > K
    <3> DEFINE k == i - K + 1
    <3>1. k \in 2 .. N /\ K + k - 1 = i /\ k \in DOMAIN ts
      BY <1>1, <2>3
    <3> HIDE DEF k
    <3>2. r[i] = ts[k] /\ lv[i] = levels[k]
      BY <1>2, <3>1
    <3>3. QED
      BY <2>1, <3>1, <3>2 DEF HoldsAt
  <2>4. QED
    BY <1>1, <2>2, <2>3
<1>4. ASSUME NEW p \in HoldsAt(ts, levels, l)
      PROVE  p \in HoldsAt(r, lv, l) \/ (l = n /\ p \in HoldsOf(ts[1]))
  <2>1. PICK k \in 1 .. N : Holder(ts[k]) /\ levels[k] = l /\ p = HeldBy(ts[k])
    BY <1>1 DEF HoldsAt
  <2>2. CASE k = 1
    BY <1>1, <2>1, <2>2 DEF HoldsOf
  <2>3. CASE k > 1
    <3>1. k \in 2 .. N /\ K + k - 1 \in DOMAIN r
      BY <1>1, <1>2, <2>3
    <3>2. r[K + k - 1] = ts[k] /\ lv[K + k - 1] = levels[k]
      BY <1>2, <3>1
    <3>3. QED
      BY <2>1, <3>1, <3>2 DEF HoldsAt
  <2>4. QED
    BY <2>2, <2>3
<1>5. ASSUME l = m, NEW p \in Holds(new)
      PROVE  p \in HoldsAt(r, lv, l)
  <2>1. PICK i \in 1 .. K : Holder(new[i]) /\ p = HeldBy(new[i])
    BY <1>1 DEF Holds
  <2>2. i \in DOMAIN r
    BY <1>1, <1>2
  <2>3. r[i] = new[i] /\ lv[i] = m
    BY <1>2
  <2>4. QED
    BY <1>5, <2>1, <2>2, <2>3 DEF HoldsAt
<1>6. QED
  BY <1>3, <1>4, <1>5 DEF r, lv
--------------------------------------------------------------------------------
(* A step that changes the innermost scope, s, to r, and puts tasks of the *)
(* same level in the place of its own.                                     *)
MayBecome(ts, levels, n, s, new, r) ==
  LET rest == new \o Tail(ts)
  IN  /\ ts # <<>>
      /\ Continues(new, ts[1], n, n)
      /\ JumpsIn(s) \subseteq JumpsIn(r)
      /\ Holds(new) \subseteq JumpsIn(r)
      /\ \A p \in JumpsIn(r) :
           \/ p \in Holds(new)
           \/ p \in HoldsAt(ts, levels, n) /\ p \notin HoldsOf(ts[1])
           \/ Lands(r, p)
           \/ LandsAtEnd(r, p) /\ r.last.op # "OpPop" /\ Emits(rest)
      /\ rest # <<>> => (Needs(rest[1]) => Valuable(r))

LEMMA InnermostChanges ==
  ASSUME NEW ts, NEW levels, NEW ss, IsList(ss), Good(ts, levels, ss),
         NEW new, NEW r, MayBecome(ts, levels, Len(ss), ss[Len(ss)], new, r)
  PROVE  \E lv : Good(new \o Tail(ts), lv, [ss EXCEPT ![Len(ss)] = r])
<1> DEFINE rest == new \o Tail(ts)
           n    == Len(ss)
           lv   == NewLevels(new, ts, levels, n)
           after == [ss EXCEPT ![n] = r]
<1>1. ts # <<>> /\ Continues(new, ts[1], n, n) /\ Plan(ts, levels, n)
  BY DEF MayBecome, Good
<1>2. Plan(rest, lv, n)
  BY <1>1, PlanGoesOn
<1>3. \A l : /\ \A p \in HoldsAt(rest, lv, l) : p \in HoldsAt(ts, levels, l) \/ (l = n /\ p \in Holds(new))
             /\ \A p \in HoldsAt(ts, levels, l) : p \in HoldsAt(rest, lv, l) \/ (l = n /\ p \in HoldsOf(ts[1]))
             /\ l = n => Holds(new) \subseteq HoldsAt(rest, lv, l)
  BY <1>1, HoldsGoOn
<1> HIDE DEF lv
<1>4. n \in Nat /\ n > 0 /\ DOMAIN ss = 1 .. n /\ ss = [i \in 1 .. n |-> ss[i]]
  BY <1>1, ListFacts DEF Plan
<1>5. Len(after) = n /\ DOMAIN after = 1 .. n /\ after[n] = r /\ \A l \in 1 .. n : l # n => after[l] = ss[l]
  <2> HIDE DEF n
  <2>1. after = [i \in 1 .. n |-> IF i = n THEN r ELSE ss[i]]
    BY <1>4
  <2> HIDE DEF after
  <2>2. Len(after) = n
    BY <1>4, <2>1
  <2>3. QED
    BY <1>4, <2>1, <2>2
<1>6. /\ \A l \in 1 .. n : JumpsCared(ss[l], HoldsAt(ts, levels, l), l = n => Emits(ts))
  BY <1>4 DEF Good
<1> HIDE DEF rest, n, after
<1>7. MayBecome(ts, levels, n, ss[n], new, r)
  BY DEF n
<1>8. ASSUME NEW l \in 1 .. n, l # n
      PROVE  JumpsCared(after[l], HoldsAt(rest, lv, l), l = n => Emits(rest))
  BY <1>3, <1>5, <1>6, <1>8 DEF JumpsCared
<1>9. JumpsCared(after[n], HoldsAt(rest, lv, n), n = n => Emits(rest))
  <2>1. JumpsCared(ss[n], HoldsAt(ts, levels, n), Emits(ts))
    BY <1>4, <1>6 DEF JumpsCared
  <2>2. HoldsAt(rest, lv, n) \subseteq JumpsIn(r)
    BY <1>3, <1>7, <2>1 DEF JumpsCared, MayBecome
  <2>3. \A p \in JumpsIn(r) :
           \/ p \in Holds(new)
           \/ p \in HoldsAt(ts, levels, n) /\ p \notin HoldsOf(ts[1])
           \/ Lands(r, p)
           \/ LandsAtEnd(r, p) /\ r.last.op # "OpPop" /\ Emits(rest)
    BY <1>7 DEF MayBecome, rest
  <2>4. QED
    BY <1>3, <1>5, <2>2, <2>3 DEF JumpsCared
<1>10. rest # <<>> => (Needs(rest[1]) => Valuable(after[n]))
  BY <1>5, <1>7 DEF MayBecome, rest
<1>11. Good(rest, lv, after)
  BY <1>2, <1>4, <1>5, <1>8, <1>9, <1>10 DEF Good
<1>12. QED
  BY <1>11 DEF rest, n, after

(* A step that emits nothing. *)
LEMMA QuietStep ==
  ASSUME NEW ts, NEW levels, NEW ss, IsList(ss), Good(ts, levels, ss), ts # <<>>,
         NEW new, Continues(new, ts[1], Len(ss), Len(ss)),
         Holds(new) = {}, ~Holder(ts[1]),
         Emits(ts) => Emits(new \o Tail(ts)),
         new \o Tail(ts) # <<>> => ~Needs((new \o Tail(ts))[1])
  PROVE  \E lv : Good(new \o Tail(ts), lv, ss)
<1> DEFINE rest == new \o Tail(ts)
           n == Len(ss)
<1>1. n \in Nat /\ n > 0 /\ DOMAIN ss = 1 .. n /\ ss = [i \in 1 .. n |-> ss[i]]
  BY ListFacts DEF Plan, Good
<1>2. ss = [ss EXCEPT ![n] = ss[n]]
  BY <1>1
<1>3. JumpsCared(ss[n], HoldsAt(ts, levels, n), Emits(ts))
  BY <1>1 DEF Good, JumpsCared
<1> HIDE DEF rest, n
<1>4. Emits(ts) => Emits(rest)
  BY DEF rest
<1>5. rest # <<>> => ~Needs(rest[1])
  BY DEF rest
<1>6. HoldsOf(ts[1]) = {}
  BY DEF HoldsOf
<1>7. Continues(new, ts[1], n, n)
  BY DEF n
<1>8. MayBecome(ts, levels, n, ss[n], new, ss[n])
  BY <1>3, <1>4, <1>5, <1>6, <1>7 DEF MayBecome, JumpsCared, rest
<1>9. \E lv : Good(rest, lv, [ss EXCEPT ![n] = ss[n]])
  BY <1>8, InnermostChanges DEF rest, n
<1>10. QED
  BY <1>2, <1>9 DEF rest

(* A step that emits an instruction, and then tasks that hold at most that. *)
LEMMA EmissionStep ==
  ASSUME NEW ts, NEW levels, NEW ss, IsList(ss), Good(ts, levels, ss), ts # <<>>,
         ScopeOK(ss[Len(ss)]),
         NEW new, Continues(new, ts[1], Len(ss), Len(ss)), ~Holder(ts[1]),
         NEW i, IsInstruction(i),
         i.op = "OpPop" => Needs(ts[1]),
         Holds(new) = IF i.op \in Jumps THEN {ss[Len(ss)].len} ELSE {},
         new \o Tail(ts) # <<>> => (Needs((new \o Tail(ts))[1]) => i.op # "OpPop")
  PROVE  /\ \E lv : Good(new \o Tail(ts), lv, [ss EXCEPT ![Len(ss)] = Emit(ss[Len(ss)], i)])
         /\ ScopeOK(Emit(ss[Len(ss)], i))
<1> DEFINE rest == new \o Tail(ts)
           n == Len(ss)
           s == ss[n]
           r == Emit(s, i)
<1>1. n \in Nat /\ n > 0 /\ DOMAIN ss = 1 .. n
  BY ListFacts DEF Plan, Good
<1>2. JumpsCared(s, HoldsAt(ts, levels, n), Emits(ts)) /\ ScopeOK(s)
  BY <1>1 DEF Good, JumpsCared
<1>3. Needs(ts[1]) => Valuable(s)
  BY DEF Good
<1>4. Grown(s, i, r)
  <2> HIDE DEF s
  <2>1. QED
    BY <1>2, <1>3, Emitted
<1> HIDE DEF rest, n, r, s
<1>5. JumpsIn(r) = JumpsIn(s) \union (IF i.op \in Jumps THEN {s.len} ELSE {})
  BY <1>4 DEF JumpsIn, Grown
<1>6. Holds(new) = IF i.op \in Jumps THEN {s.len} ELSE {}
  BY DEF s, n
<1>7. \A p \in JumpsIn(s) : p \in HoldsAt(ts, levels, n) \/ Lands(r, p)
  BY <1>2, <1>4 DEF JumpsCared, Grown, JumpsIn
<1>8. HoldsOf(ts[1]) = {}
  BY DEF HoldsOf
<1>9. rest # <<>> => (Needs(rest[1]) => Valuable(r))
  BY <1>4 DEF rest, Valuable, Grown
<1>10. Continues(new, ts[1], n, n)
  BY DEF n
<1>11. MayBecome(ts, levels, n, s, new, r)
  BY <1>5, <1>6, <1>7, <1>8, <1>9, <1>10 DEF MayBecome, rest
<1>12. \E lv : Good(rest, lv, [ss EXCEPT ![n] = r])
  BY <1>11, InnermostChanges DEF rest, n, s
<1>13. ScopeOK(r)
  BY <1>4 DEF Grown
<1>14. QED
  BY <1>12, <1>13 DEF rest, n, s, r
--------------------------------------------------------------------------------
(* Which task does what. *)
LEMMA Traits ==
  /\ \A t : t.do = "emit" =>
       /\ ~Waits(t) /\ Consumes(t) /\ ~Holder(t) /\ Emitting(t)
       /\ (Valued(t) <=> t.op # "OpPop") /\ (Needs(t) <=> t.op = "OpPop")
  /\ \A t : CompilesExpression(t) =>
       Waits(t) /\ Consumes(t) /\ Valued(t) /\ ~Needs(t) /\ ~Holder(t) /\ Emitting(t) /\ TaskOK(t)
  /\ \A t : t.do = "compile" /\ t.node \in Statements =>
       ~Waits(t) /\ ~Valued(t) /\ ~Needs(t) /\ ~Holder(t) /\ Emitting(t) /\ TaskOK(t)
  /\ \A t : CompilesBlock(t) =>
       ~Waits(t) /\ ~Valued(t) /\ ~Needs(t) /\ ~Holder(t) /\ ~Emitting(t) /\ TaskOK(t)
  /\ \A t : t.do = "parameter" =>
       ~Waits(t) /\ ~Valued(t) /\ ~Needs(t) /\ ~Holder(t) /\ ~Emitting(t) /\ TaskOK(t)
  /\ \A t : t.do = "ifThen" =>
       Waits(t) /\ Consumes(t) /\ Valued(t) /\ ~Needs(t) /\ ~Holder(t) /\ Emitting(t)
  /\ \A t : t.do = "ifElse" => Waits(t) /\ Valued(t) /\ ~Needs(t) /\ Holder(t) /\ ~Emitting(t)
  /\ \A t : t.do = "ifEnd" =>
       /\ Waits(t) /\ Valued(t) /\ Holder(t) /\ Emitting(t)
       /\ Needs(t) <=> t.node.alternative = NoBlock
  /\ \A t : t.do = "leave" => Waits(t) /\ Valued(t) /\ ~Needs(t) /\ ~Holder(t) /\ ~Emitting(t) /\ TaskOK(t)
  /\ \A t : t.do = "closure" => ~Waits(t) /\ Valued(t) /\ ~Needs(t) /\ ~Holder(t) /\ Emitting(t)
  /\ \A t : Consumes(t) => Emitting(t) /\ t.do # "leave"
<1>1. /\ \A n \in Expressions : n \in Nodes /\ n \notin Blocks
      /\ \A n \in Statements : n \in Nodes /\ n \notin Blocks /\ n \notin Expressions
      /\ \A n \in Blocks : n \in Nodes /\ n \notin Expressions
  BY NodesWellFormed DEF ExpressionKinds, StatementKinds
<1>2. QED
  BY <1>1 DEF Waits, Consumes, Valued, Needs, Holder, Emitting, TaskOK, CompilesExpression, CompilesBlock

LEMMA EmitTasks ==
  /\ \A op, operands : EmitTask(op, operands).do = "emit" /\ EmitTask(op, operands).op = op
  /\ \A op \in NoOperand : TaskOK(EmitTask(op, <<>>))
  /\ \A op \in (OneByteOperand \union TwoByteOperand) \ Jumps : \A k \in Nat : TaskOK(EmitTask(op, <<k>>))
<1>1. \A op, operands : /\ EmitTask(op, operands).do = "emit" /\ EmitTask(op, operands).op = op
                        /\ EmitTask(op, operands).operands = operands
  BY DEF EmitTask
<1>2. ASSUME NEW op \in Opcodes \ Jumps, NEW operands \in Seq(Nat),
             Len(operands) = Len(OperandWidth(op))
      PROVE  TaskOK(EmitTask(op, operands))
  <2> DEFINE t == EmitTask(op, operands)
  <2>1. t.do = "emit" /\ t.op = op /\ t.operands = operands
    BY <1>1
  <2> HIDE DEF t
  <2>2. Len(t.operands) = Len(OperandWidth(t.op))
    BY <1>2, <2>1, Zenon
  <2>3. TaskOK(t)
    BY <2>1, <2>2 DEF TaskOK
  <2>4. QED
    BY <2>3 DEF t
<1>3. ASSUME NEW op \in NoOperand PROVE TaskOK(EmitTask(op, <<>>))
  <2>1. OperandWidth(op) = <<>>
    <3>1. op \notin OneByteOperand /\ op \notin TwoByteOperand /\ op # "OpClosure"
      BY DEF NoOperand, OneByteOperand, TwoByteOperand
    <3>2. QED
      BY <3>1, Zenon DEF OperandWidth
  <2>2. op \in Opcodes \ Jumps
    BY DEF Opcodes, Jumps, NoOperand
  <2>3. <<>> \in Seq(Nat)
    OBVIOUS
  <2>4. QED
    BY <1>2, <2>1, <2>2, <2>3, Zenon
<1>4. ASSUME NEW op \in (OneByteOperand \union TwoByteOperand) \ Jumps, NEW k \in Nat
      PROVE  TaskOK(EmitTask(op, <<k>>))
  <2>1. OperandWidth(op) \in {<<1>>, <<2>>}
    <3>1. /\ op \notin NoOperand /\ op # "OpClosure"
          /\ op \in OneByteOperand => op \notin TwoByteOperand
      BY DEF NoOperand, OneByteOperand, TwoByteOperand
    <3>2. op \in OneByteOperand => OperandWidth(op) = <<1>>
      BY <3>1, Zenon DEF OperandWidth
    <3>3. op \in TwoByteOperand => OperandWidth(op) = <<2>>
      BY <3>1, Zenon DEF OperandWidth
    <3>4. QED
      BY <3>2, <3>3
  <2>2. op \in Opcodes \ Jumps
    BY DEF Opcodes
  <2>3. <<k>> \in Seq(Nat) /\ Len(<<k>>) = 1 /\ Len(<<1>>) = 1 /\ Len(<<2>>) = 1
    OBVIOUS
  <2>4. Len(OperandWidth(op)) = 1
    BY <2>1, <2>3, Zenon
  <2>5. Len(<<k>>) = Len(OperandWidth(op))
    BY <2>3, <2>4, Zenon
  <2>6. QED
    BY <1>2, <2>2, <2>3, <2>5, Zenon
<1>5. QED
  BY <1>1, <1>3, <1>4

LEMMA FewTasks ==
  ASSUME NEW h, h.do # "leave", NEW n \in Nat \ {0}
  PROVE  /\ Continues(<<>>, h, n, n) /\ Holds(<<>>) = {}
         /\ \A t : /\ TaskOK(t) /\ t.do # "leave"
                   /\ Waits(t) => Waits(h)
                   /\ Valued(h) => Valued(t)
                   => Continues(<<t>>, h, n, n)
         /\ \A t : Holds(<<t>>) = HoldsOf(t)
         /\ \A t, u : /\ TaskOK(t) /\ t.do # "leave" /\ TaskOK(u) /\ u.do # "leave"
                      /\ Follows(t, u)
                      /\ Waits(u) => Waits(h)
                      /\ Valued(h) => Valued(u)
                      => Continues(<<t, u>>, h, n, n)
         /\ \A t, u : Holds(<<t, u>>) = HoldsOf(t) \union HoldsOf(u)
<1>1. Continues(<<>>, h, n, n) /\ Holds(<<>>) = {}
  <2>1. <<>> \in Seq({}) /\ DOMAIN <<>> = {}
    OBVIOUS
  <2>2. IsList(<<>>)
    BY <2>1, ListFacts
  <2>3. QED
    BY <2>1, <2>2 DEF Continues, LevelAfter, Holds
<1>2. ASSUME NEW t, TaskOK(t), t.do # "leave", Waits(t) => Waits(h), Valued(h) => Valued(t)
      PROVE  Continues(<<t>>, h, n, n)
  <2>1. <<t>> \in Seq({t}) /\ DOMAIN <<t>> = {1} /\ Len(<<t>>) = 1 /\ <<t>>[1] = t /\ <<t>> # <<>>
    OBVIOUS
  <2>2. IsList(<<t>>)
    BY <2>1, ListFacts
  <2> DEFINE new == <<t>>
  <2>3. IsList(new) /\ DOMAIN new = {1} /\ Len(new) = 1 /\ new[1] = t /\ new # <<>>
    BY <2>1, <2>2
  <2> HIDE DEF new
  <2>4. Continues(new, h, n, n)
    BY <1>2, <2>3 DEF Continues, LevelAfter
  <2>5. QED
    BY <2>4 DEF new
<1>3. ASSUME NEW t PROVE Holds(<<t>>) = HoldsOf(t)
  <2>1. DOMAIN <<t>> = {1} /\ <<t>>[1] = t
    OBVIOUS
  <2>2. QED
    BY <2>1 DEF Holds, HoldsOf
<1>4. ASSUME NEW t, NEW u, TaskOK(t), t.do # "leave", TaskOK(u), u.do # "leave", Follows(t, u),
             Waits(u) => Waits(h), Valued(h) => Valued(u)
      PROVE  Continues(<<t, u>>, h, n, n)
  <2>1. <<t, u>> \in Seq({t, u}) /\ DOMAIN <<t, u>> = {1, 2} /\ Len(<<t, u>>) = 2
        /\ <<t, u>>[1] = t /\ <<t, u>>[2] = u /\ <<t, u>> # <<>>
    OBVIOUS
  <2>2. IsList(<<t, u>>)
    BY <2>1, ListFacts
  <2> DEFINE new == <<t, u>>
  <2>3. IsList(new) /\ DOMAIN new = {1, 2} /\ Len(new) = 2 /\ new[1] = t /\ new[2] = u /\ new # <<>>
    BY <2>1, <2>2
  <2> HIDE DEF new
  <2>4. Continues(new, h, n, n)
    BY <1>4, <2>3 DEF Continues, LevelAfter
  <2>5. QED
    BY <2>4 DEF new
<1>5. ASSUME NEW t, NEW u PROVE Holds(<<t, u>>) = HoldsOf(t) \union HoldsOf(u)
  <2>1. DOMAIN <<t, u>> = {1, 2} /\ <<t, u>>[1] = t /\ <<t, u>>[2] = u
    OBVIOUS
  <2>2. QED
    BY <2>1 DEF Holds, HoldsOf
<1>6. QED
  BY <1>1, <1>2, <1>3, <1>4, <1>5

LEMMA FirstTask ==
  ASSUME NEW new, IsList(new), NEW ts, IsList(ts), ts # <<>>
  PROVE  /\ Head(ts) = ts[1] /\ 1 \in DOMAIN ts
         /\ new # <<>> => new \o Tail(ts) # <<>> /\ (new \o Tail(ts))[1] = new[1]
         /\ <<>> \o Tail(ts) = Tail(ts) /\ IsList(Tail(ts))
         /\ Tail(ts) # <<>> => 2 \in DOMAIN ts /\ Tail(ts)[1] = ts[2]
         /\ 2 \in DOMAIN ts => Tail(ts) # <<>>
<1> DEFINE T == Elements(ts)
<1>1. ts \in Seq(T)
  BY DEF IsList
<1> HIDE DEF T
<1>2. Head(ts) = ts[1] /\ DOMAIN ts = 1 .. Len(ts) /\ Len(ts) \in Nat /\ Len(ts) > 0
  <2>1. Len(ts) > 0
    BY ListFacts
  <2>2. QED
    BY <1>1, <2>1
<1>3. Tail(ts) \in Seq(T) /\ Len(Tail(ts)) = Len(ts) - 1 /\ \A i \in 1 .. Len(ts) - 1 : Tail(ts)[i] = ts[i + 1]
  BY <1>1, HeadTailProperties
<1>4. IsList(Tail(ts)) /\ <<>> \o Tail(ts) = Tail(ts)
  <2>1. IsList(Tail(ts))
    BY <1>3, ListFacts
  <2> DEFINE u == Tail(ts)
  <2>2. u \in Seq(T)
    BY <1>3
  <2> HIDE DEF u
  <2>3. <<>> \o u = u
    BY <2>2
  <2>4. QED
    BY <2>1, <2>3 DEF u
<1>5. Tail(ts) # <<>> <=> Len(ts) - 1 > 0
  BY <1>3, <1>4, ListFacts
<1>6. new # <<>> => new \o Tail(ts) # <<>> /\ (new \o Tail(ts))[1] = new[1]
  <2>1. SUFFICES ASSUME new # <<>> PROVE new \o Tail(ts) # <<>> /\ (new \o Tail(ts))[1] = new[1]
    OBVIOUS
  <2>2. Len(new) > 0 /\ Len(new) \in Nat
    BY <2>1, ListFacts
  <2>3. IsList(new \o Tail(ts)) /\ Len(new \o Tail(ts)) = Len(new) + Len(ts) - 1
        /\ \A i \in 1 .. Len(new) : (new \o Tail(ts))[i] = new[i]
    BY Joined
  <2>4. Len(new \o Tail(ts)) > 0
    BY <1>2, <2>2, <2>3
  <2>5. QED
    BY <2>2, <2>3, <2>4, ListFacts
<1>7. QED
  BY <1>2, <1>3, <1>4, <1>5, <1>6
LEMMA TaskFacts ==
  ASSUME NEW t, TaskOK(t)
  PROVE  /\ t.do = "compile" => t.node \in Nodes
         /\ t.do = "emit" => /\ t.op \in Opcodes \ Jumps
                             /\ t.operands \in Seq(Nat)
                             /\ Len(t.operands) = Len(OperandWidth(t.op))
         /\ t.do \in {"ifThen", "ifElse", "ifEnd"} => t.node \in Nodes /\ t.node.kind = "IfExpression"
         /\ t.do = "closure" => FunctionOK(t.fn) /\ t.numFree \in Nat
BY DEF TaskOK

(* The constants that a step adds. *)
ConstantsGrow ==
  \/ constants' = constants
  \/ \E object : /\ constants' = Append(constants, object)
                 /\ IsFunction(object) => FunctionOK(object)

LEMMA ConstantsKept ==
  ASSUME CodeInv, ConstantsGrow
  PROVE  /\ IsList(constants')
         /\ \A k \in DOMAIN constants' : IsFunction(constants'[k]) => FunctionOK(constants'[k])
<1>1. CASE constants' = constants
  BY <1>1 DEF CodeInv
<1>2. ASSUME NEW object, constants' = Append(constants, object), IsFunction(object) => FunctionOK(object)
      PROVE  /\ IsList(constants')
             /\ \A k \in DOMAIN constants' : IsFunction(constants'[k]) => FunctionOK(constants'[k])
  <2> DEFINE T == Elements(constants) \union {object}
  <2>1. constants \in Seq(T)
    <3>1. constants \in Seq(Elements(constants))
      BY DEF CodeInv, IsList
    <3>2. \A A, B : A \subseteq B => Seq(A) \subseteq Seq(B)
      OBVIOUS
    <3>3. QED
      BY <3>1, <3>2
  <2>2. object \in T
    OBVIOUS
  <2> HIDE DEF T
  <2>3. /\ constants' \in Seq(T)
        /\ DOMAIN constants' = 1 .. Len(constants) + 1
        /\ DOMAIN constants = 1 .. Len(constants) /\ Len(constants) \in Nat
        /\ \A k \in 1 .. Len(constants) : constants'[k] = constants[k]
        /\ constants'[Len(constants) + 1] = object
    BY <1>2, <2>1, <2>2
  <2>4. IsList(constants')
    BY <2>3, ListFacts
  <2>5. ASSUME NEW k \in DOMAIN constants', IsFunction(constants'[k])
        PROVE  FunctionOK(constants'[k])
    <3>1. CASE k \in 1 .. Len(constants)
      <4>1. constants'[k] = constants[k] /\ k \in DOMAIN constants
        BY <2>3, <3>1
      <4>2. \A j \in DOMAIN constants : IsFunction(constants[j]) => FunctionOK(constants[j])
        BY DEF CodeInv
      <4>3. QED
        BY ONLY <2>5, <4>1, <4>2
    <3>2. CASE k = Len(constants) + 1
      BY ONLY <1>2, <2>3, <2>5, <3>2
    <3>3. QED
      BY <2>3, <3>1, <3>2
  <2>6. QED
    BY ONLY <2>4, <2>5
<1>3. QED
  BY <1>1, <1>2 DEF ConstantsGrow

(* A handler is at work on the first task. *)
Working ==
  /\ CodeInv
  /\ status = "compiling" /\ status' = status
  /\ todo # <<>>

LEMMA WorkingFacts ==
  ASSUME Working
  PROVE  /\ IsList(todo) /\ TaskOK(todo[1]) /\ Task = todo[1]
         /\ Len(scopes) \in Nat \ {0}
         /\ IsList(scopes) /\ DOMAIN scopes = 1 .. Len(scopes)
         /\ Len(constants) \in Nat
<1>1. PICK levels : Good(todo, levels, scopes)
  BY DEF Working, CodeInv
<1>2. IsList(todo) /\ todo # <<>>
  BY <1>1 DEF Good, Plan, Working
<1>3. 1 \in DOMAIN todo /\ Task = todo[1]
  BY <1>2, FirstTask DEF Task
<1>4. TaskOK(todo[1]) /\ Len(scopes) \in Nat \ {0}
  BY <1>1, <1>3 DEF Good, Plan
<1>5. IsList(scopes) /\ IsList(constants)
  BY DEF Working, CodeInv
<1>6. QED
  BY <1>2, <1>3, <1>4, <1>5, ListFacts

LEMMA QuietKeeps ==
  ASSUME Working, ConstantsGrow, scopes' = scopes,
         NEW new, Continues(new, todo[1], Len(scopes), Len(scopes)), Then(new),
         Holds(new) = {}, ~Holder(todo[1]),
         Emits(todo) => Emits(todo'),
         todo' # <<>> => ~Needs(todo'[1])
  PROVE  CodeInv'
<1>1. PICK levels : Good(todo, levels, scopes)
  BY DEF Working, CodeInv
<1>2. todo' = new \o Tail(todo)
  BY DEF Then
<1>3. \E lv : Good(new \o Tail(todo), lv, scopes)
  <2>1. IsList(scopes) /\ todo # <<>>
    BY DEF Working, CodeInv
  <2>2. /\ Emits(todo) => Emits(new \o Tail(todo))
        /\ new \o Tail(todo) # <<>> => ~Needs((new \o Tail(todo))[1])
    BY <1>2
  <2>3. QED
    BY <1>1, <2>1, <2>2, QuietStep
<1>4. QED
  BY <1>2, <1>3, ConstantsKept DEF Working, CodeInv

(* ... when there is a first new task. *)
LEMMA QuietReplaced ==
  ASSUME Working, ConstantsGrow, scopes' = scopes,
         NEW new, Continues(new, todo[1], Len(scopes), Len(scopes)), Then(new), new # <<>>,
         Holds(new) = {}, ~Holder(todo[1]),
         Emitting(new[1]) \/ ~Emits(todo),
         ~Needs(new[1])
  PROVE  CodeInv'
<1>1. IsList(new) /\ IsList(todo) /\ todo # <<>>
  BY WorkingFacts DEF Continues, Working
<1>2. todo' # <<>> /\ todo'[1] = new[1]
  BY <1>1, FirstTask DEF Then
<1>3. QED
  BY <1>2, QuietKeeps DEF Emits

(* ... and it is the only one, which emits something after an expression,  *)
LEMMA ExpressionBecomes ==
  ASSUME Working, ConstantsGrow, scopes' = scopes, CompilesExpression(todo[1]),
         NEW t, TaskOK(t), t.do = "emit", t.op # "OpPop", Then(<<t>>)
  PROVE  CodeInv'
<1>1. /\ ~Waits(t) /\ Valued(t) /\ ~Needs(t) /\ ~Holder(t) /\ Emitting(t)
      /\ ~Holder(todo[1])
  BY Traits
<1>2. t.do # "leave" /\ todo[1].do # "leave"
  BY DEF CompilesExpression
<1>3. Continues(<<t>>, todo[1], Len(scopes), Len(scopes))
  BY <1>1, <1>2, FewTasks, WorkingFacts
<1>4. Holds(<<t>>) = {}
  BY <1>1, <1>2, FewTasks, WorkingFacts DEF HoldsOf
<1>5. <<t>> # <<>> /\ <<t>>[1] = t
  OBVIOUS
<1>6. QED
  BY <1>1, <1>3, <1>4, <1>5, QuietReplaced

(* ... or there are two. *)
LEMMA TwoTasks ==
  ASSUME Working, ConstantsGrow, scopes' = scopes, todo[1].do = "compile",
         NEW t, CompilesExpression(t), NEW u, TaskOK(u), Consumes(u),
         Then(<<t, u>>),
         Waits(u) => Waits(todo[1]), Valued(todo[1]) => Valued(u)
  PROVE  CodeInv'
<1>1. /\ Waits(t) /\ Valued(t) /\ ~Needs(t) /\ ~Holder(t) /\ Emitting(t) /\ TaskOK(t)
      /\ u.do # "leave"
  BY Traits
<1>2. t.do # "leave" /\ todo[1].do # "leave" /\ ~Holder(todo[1]) /\ ~Holder(u)
  BY DEF CompilesExpression, Holder, Consumes
<1>3. Follows(t, u)
  BY <1>1 DEF Follows
<1>4. Continues(<<t, u>>, todo[1], Len(scopes), Len(scopes))
  BY <1>1, <1>2, <1>3, FewTasks, WorkingFacts
<1>5. Holds(<<t, u>>) = {}
  BY <1>1, <1>2, FewTasks, WorkingFacts DEF HoldsOf
<1>6. <<t, u>> # <<>> /\ <<t, u>>[1] = t
  OBVIOUS
<1>7. QED
  BY <1>1, <1>2, <1>4, <1>5, <1>6, QuietReplaced
--------------------------------------------------------------------------------
LEMMA NextTask ==
  ASSUME Working
  PROVE  /\ 2 \in DOMAIN todo => Follows(todo[1], todo[2])
         /\ 2 \notin DOMAIN todo => ~Waits(todo[1])
<1>1. PICK levels : Good(todo, levels, scopes)
  BY DEF Working, CodeInv
<1>2. IsList(todo) /\ todo # <<>>
  BY <1>1 DEF Good, Plan, Working
<1>3. DOMAIN todo = 1 .. Len(todo) /\ Len(todo) \in Nat /\ Len(todo) > 0
  BY <1>2, ListFacts
<1> DEFINE N == Len(todo)
<1>4. \A i \in 1 .. N : /\ i = N => ~Waits(todo[i])
                        /\ i < N => Follows(todo[i], todo[i + 1])
  BY <1>1, <1>3 DEF Good, Plan
<1>5. DOMAIN todo = 1 .. N /\ N \in Nat /\ N > 0
  BY <1>3
<1> HIDE DEF N
<1>6. 1 \in 1 .. N /\ (2 \in 1 .. N <=> 1 < N) /\ (2 \notin 1 .. N => 1 = N) /\ 1 + 1 = 2
  BY <1>5
<1>7. QED
  BY <1>4, <1>5, <1>6

(* What is left when a handler has nothing more to do. *)
LEMMA NothingMore ==
  ASSUME Working, ConstantsGrow, scopes' = scopes, Then(<<>>),
         todo[1].do # "leave", ~Holder(todo[1]), ~Valued(todo[1]),
         Emits(todo) => 2 \in DOMAIN todo /\ Emitting(todo[2])
  PROVE  CodeInv'
<1>1. IsList(todo) /\ todo # <<>> /\ Len(scopes) \in Nat \ {0}
  BY WorkingFacts DEF Working
<1>2. IsList(<<>>)
  <2>1. <<>> \in Seq({})
    OBVIOUS
  <2>2. QED
    BY <2>1, ListFacts
<1>3. todo' = Tail(todo)
  BY <1>1, <1>2, FirstTask DEF Then
<1>4. /\ todo' # <<>> => 2 \in DOMAIN todo /\ todo'[1] = todo[2]
      /\ 2 \in DOMAIN todo => todo' # <<>>
  BY <1>1, <1>2, <1>3, FirstTask
<1>5. todo' # <<>> => ~Needs(todo'[1])
  BY <1>4, NextTask DEF Follows
<1>6. Emits(todo) => Emits(todo')
  BY <1>4 DEF Emits
<1>7. Continues(<<>>, todo[1], Len(scopes), Len(scopes)) /\ Holds(<<>>) = {}
  BY <1>1, FewTasks
<1>8. QED
  BY <1>5, <1>6, <1>7, QuietKeeps

LEMMA CompileTasksType ==
  ASSUME NEW T, NEW p \in Seq(T)
  PROVE  /\ IsList(CompileTasks(p)) /\ Len(CompileTasks(p)) = Len(p) /\ Len(p) \in Nat
         /\ \A i \in 1 .. Len(p) : /\ CompileTasks(p)[i] = CompileTask(p[i])
                                   /\ p[i] \in T
<1> DEFINE U == {CompileTask(x) : x \in T}
           c == CompileTasks(p)
<1>1. DOMAIN p = 1 .. Len(p) /\ Len(p) \in Nat /\ \A i \in 1 .. Len(p) : p[i] \in T
  OBVIOUS
<1>2. c = [i \in 1 .. Len(p) |-> CompileTask(p[i])]
  BY <1>1 DEF CompileTasks
<1>3. \A x \in T : CompileTask(x) \in U
  OBVIOUS
<1> HIDE DEF U, c
<1>4. c \in Seq(U) /\ Len(c) = Len(p)
  BY <1>1, <1>2, <1>3
<1>5. IsList(c)
  BY <1>4, ListFacts
<1>6. QED
  BY <1>1, <1>2, <1>4, <1>5 DEF c

(* Parts that are expressions, and the instruction that takes their values. *)
LEMMA PartsThenEmit ==
  ASSUME NEW p \in Seq(Expressions), NEW t, TaskOK(t), t.do = "emit",
         NEW h, h.do # "leave", Valued(h) => t.op # "OpPop", t.op = "OpPop" => Len(p) > 0,
         NEW n \in Nat \ {0}
  PROVE  LET new == CompileTasks(p) \o <<t>>
         IN  /\ Continues(new, h, n, n)
             /\ Holds(new) = {}
             /\ new # <<>>
             /\ Emitting(new[1]) /\ ~Needs(new[1])
<1> DEFINE c   == CompileTasks(p)
           new == c \o <<t>>
           K   == Len(p)
<1>1. IsList(c) /\ Len(c) = K /\ K \in Nat
      /\ \A i \in 1 .. K : c[i] = CompileTask(p[i]) /\ p[i] \in Expressions
  BY CompileTasksType
<1> HIDE DEF c, K
<1>2. /\ IsList(new) /\ Len(new) = K + 1
      /\ \A i \in 1 .. K : new[i] = c[i]
      /\ new[K + 1] = t
  <2> DEFINE T == Elements(c) \union {t}
  <2>1. c \in Seq(T)
    <3>1. c \in Seq(Elements(c))
      BY <1>1 DEF IsList
    <3>2. \A A, B : A \subseteq B => Seq(A) \subseteq Seq(B)
      OBVIOUS
    <3>3. QED
      BY <3>1, <3>2
  <2>2. t \in T
    OBVIOUS
  <2> HIDE DEF T
  <2>3. new = Append(c, t)
    BY <2>1, <2>2
  <2>4. new \in Seq(T)
    BY <2>1, <2>2
  <2>5. Len(new) = Len(c) + 1 /\ (\A i \in 1 .. Len(c) : new[i] = c[i]) /\ new[Len(c) + 1] = t
    BY <2>1, <2>2, <2>3
  <2>6. QED
    BY <1>1, <2>4, <2>5, ListFacts
<1> HIDE DEF new
<1>3. DOMAIN new = 1 .. K + 1 /\ new # <<>>
  BY <1>1, <1>2, ListFacts
<1>4. \A i \in 1 .. K : CompilesExpression(new[i]) /\ new[i].do # "leave"
  BY <1>1, <1>2 DEF CompileTask, CompilesExpression
<1>5. /\ \A x : CompilesExpression(x) => Waits(x) /\ Consumes(x) /\ Valued(x) /\ ~Needs(x) /\ ~Holder(x) /\ Emitting(x) /\ TaskOK(x)
      /\ ~Waits(t) /\ Consumes(t) /\ ~Holder(t) /\ Emitting(t)
      /\ (Valued(t) <=> t.op # "OpPop") /\ (Needs(t) <=> t.op = "OpPop")
      /\ t.do # "leave"
  BY Traits
<1>6. \A i \in DOMAIN new : TaskOK(new[i]) /\ ~Holder(new[i])
  BY <1>1, <1>2, <1>3, <1>4, <1>5
<1>7. ASSUME NEW i \in DOMAIN new, i < K + 1
      PROVE  new[i].do # "leave" /\ Follows(new[i], new[i + 1])
  <2>1. i \in 1 .. K /\ i + 1 \in 1 .. K + 1
    BY <1>1, <1>3, <1>7
  <2>2. CompilesExpression(new[i]) /\ new[i].do # "leave"
    BY <1>4, <2>1
  <2>3. Consumes(new[i + 1])
    <3>1. CASE i + 1 \in 1 .. K
      BY <1>4, <1>5, <3>1
    <3>2. CASE i + 1 = K + 1
      BY <1>2, <1>5, <3>2
    <3>3. QED
      BY <1>1, <2>1, <3>1, <3>2
  <2>4. QED
    BY <1>5, <2>2, <2>3 DEF Follows
<1>8. Continues(new, h, n, n)
  <2>1. LevelAfter(t, n) = n /\ LevelAfter(h, n) = n
    BY <1>5 DEF LevelAfter
  <2>2. Valued(h) => Valued(t)
    BY <1>5
  <2>3. new[Len(new)] = t
    BY <1>2
  <2>4. \A i \in DOMAIN new : i < Len(new) => new[i].do # "leave" /\ Follows(new[i], new[i + 1])
    BY <1>2, <1>7
  <2>5. QED
    BY <1>2, <1>3, <1>5, <1>6, <2>1, <2>2, <2>3, <2>4 DEF Continues
<1>9. Holds(new) = {}
  BY <1>6 DEF Holds
<1>10. Emitting(new[1]) /\ ~Needs(new[1])
  <2>1. CASE K > 0
    BY <1>1, <1>4, <1>5, <2>1
  <2>2. CASE K = 0
    <3>1. new[1] = t
      BY <1>2, <2>2
    <3>2. t.op # "OpPop"
      <4>1. ~(Len(p) > 0)
        BY <2>2 DEF K
      <4>2. QED
        BY <4>1
    <3>3. QED
      BY <1>5, <3>1, <3>2
  <2>3. QED
    BY <1>1, <2>1, <2>2
<1>11. QED
  BY <1>3, <1>8, <1>9, <1>10 DEF new, c

(* Parts that are statements. *)
LEMMA PartsOnly ==
  ASSUME NEW p \in Seq(Statements), NEW h, CompilesBlock(h), NEW n \in Nat \ {0}, p # <<>>
  PROVE  LET new == CompileTasks(p)
         IN  /\ Continues(new, h, n, n)
             /\ Holds(new) = {}
             /\ new # <<>>
             /\ Emitting(new[1]) /\ ~Needs(new[1])
<1> DEFINE new == CompileTasks(p)
           K   == Len(p)
<1>1. IsList(new) /\ Len(new) = K /\ K \in Nat
      /\ \A i \in 1 .. K : new[i] = CompileTask(p[i]) /\ p[i] \in Statements
  BY CompileTasksType
<1>2. K > 0
  <2>1. IsList(p)
    BY ListFacts
  <2>2. QED
    BY <2>1, ListFacts
<1> HIDE DEF new, K
<1>3. DOMAIN new = 1 .. K /\ new # <<>>
  BY <1>1, <1>2, ListFacts
<1>4. \A i \in 1 .. K : new[i].do = "compile" /\ new[i].node \in Statements
  BY <1>1 DEF CompileTask
<1>5. \A i \in 1 .. K : ~Waits(new[i]) /\ ~Needs(new[i]) /\ ~Holder(new[i]) /\ Emitting(new[i]) /\ TaskOK(new[i])
  BY <1>4, Traits
<1>6. \A i \in 1 .. K : i < K => new[i].do # "leave" /\ Follows(new[i], new[i + 1])
  <2>1. \A i \in 1 .. K : i < K => i + 1 \in 1 .. K
    BY <1>1
  <2>2. QED
    BY <1>4, <1>5, <2>1 DEF Follows
<1>7. Continues(new, h, n, n)
  <2>1. h.do # "leave" /\ ~Valued(h)
    BY Traits DEF CompilesBlock
  <2>2. K \in 1 .. K /\ new[Len(new)] = new[K] /\ new[K].do # "leave" /\ ~Waits(new[K])
    BY <1>1, <1>2, <1>4, <1>5
  <2>3. LevelAfter(new[Len(new)], n) = n /\ LevelAfter(h, n) = n
    BY <2>1, <2>2 DEF LevelAfter
  <2>4. \A i \in DOMAIN new : i < Len(new) => new[i].do # "leave" /\ Follows(new[i], new[i + 1])
    BY <1>1, <1>3, <1>6
  <2>5. QED
    BY <1>1, <1>3, <1>5, <2>1, <2>2, <2>3, <2>4 DEF Continues
<1>8. Holds(new) = {}
  BY <1>3, <1>5 DEF Holds
<1>9. 1 \in 1 .. K
  BY <1>1, <1>2
<1>10. QED
  BY <1>3, <1>5, <1>7, <1>8, <1>9 DEF new
--------------------------------------------------------------------------------
(***************************************************************************)
(* The handlers that emit nothing.                                         *)
(***************************************************************************)
LEMMA CompilingFacts ==
  ASSUME Working, NEW kinds, Compiling(kinds)
  PROVE  /\ Task = todo[1] /\ todo[1].do = "compile" /\ todo[1].node.kind \in kinds
         /\ todo[1].node \in Nodes
         /\ todo[1].do # "leave" /\ ~Holder(todo[1])
         /\ WellFormed(todo[1].node, Expressions, Statements, Blocks)
         /\ todo[1].node.kind \in ExpressionKinds => CompilesExpression(todo[1])
         /\ todo[1].node.kind \in StatementKinds => todo[1].node \in Statements
         /\ todo[1].node.kind = "BlockStatement" => CompilesBlock(todo[1])
<1>1. Task = todo[1] /\ TaskOK(todo[1])
  BY WorkingFacts
<1>2. todo[1].do = "compile" /\ todo[1].node.kind \in kinds
  BY <1>1 DEF Compiling
<1>3. todo[1].node \in Nodes
  BY <1>1, <1>2, TaskFacts
<1>4. QED
  BY <1>1, <1>2, <1>3, NodesWellFormed DEF Holder, CompilesExpression, CompilesBlock

LEMMA CompileLiteralStep ==
  ASSUME Working, CompileLiteral PROVE CodeInv'
<1>1. Compiling(Literals) /\ scopes' = scopes
  BY DEF CompileLiteral
<1>2. todo[1].node.kind \in {"IntegerLiteral", "StringLiteral"} /\ Task = todo[1]
      /\ WellFormed(todo[1].node, Expressions, Statements, Blocks)
  BY <1>1, CompilingFacts DEF Literals
<1>3. CompilesExpression(todo[1])
  BY <1>1, <1>2, CompilingFacts DEF ExpressionKinds
<1>4. ~IsFunction(todo[1].node.object)
  BY <1>2 DEF WellFormed, IsFunction
<1>5. ConstantsGrow
  BY <1>2, <1>4 DEF CompileLiteral, ConstantsGrow
<1> DEFINE t == EmitTask("OpConstant", <<Len(constants)>>)
<1>6. TaskOK(t) /\ t.do = "emit" /\ t.op # "OpPop"
  <2>1. "OpConstant" \in (OneByteOperand \union TwoByteOperand) \ Jumps
    BY DEF TwoByteOperand, Jumps
  <2>2. Len(constants) \in Nat
    BY WorkingFacts
  <2>3. t.op = "OpConstant"
    BY EmitTasks
  <2>4. QED
    BY <2>1, <2>2, <2>3, EmitTasks
<1>7. Then(<<t>>)
  BY DEF CompileLiteral
<1> HIDE DEF t
<1>8. QED
  BY <1>1, <1>3, <1>5, <1>6, <1>7, ExpressionBecomes

LEMMA CompileBooleanStep ==
  ASSUME Working, CompileBoolean PROVE CodeInv'
<1>1. Compiling({"Boolean"}) /\ scopes' = scopes /\ ConstantsGrow
  BY DEF CompileBoolean, ConstantsGrow
<1>2. Task = todo[1] /\ CompilesExpression(todo[1])
  BY <1>1, CompilingFacts DEF ExpressionKinds
<1> DEFINE op == IF Task.node.bool THEN "OpTrue" ELSE "OpFalse"
           t  == EmitTask(op, <<>>)
<1>3. TaskOK(t) /\ t.do = "emit" /\ t.op # "OpPop"
  <2>1. op \in {"OpTrue", "OpFalse"}
    OBVIOUS
  <2>2. op \in NoOperand /\ op # "OpPop"
    BY <2>1 DEF NoOperand
  <2> HIDE DEF op
  <2>3. QED
    BY <2>2, EmitTasks
<1>4. Then(<<t>>)
  BY DEF CompileBoolean
<1> HIDE DEF t
<1>5. QED
  BY <1>1, <1>2, <1>3, <1>4, ExpressionBecomes

(* What a node's handler emits after its parts. *)
LEMMA PartsType ==
  ASSUME NEW node \in Nodes, node.kind \in Plain, node.kind # "BlockStatement"
  PROVE  /\ Parts(node) \in Seq(Expressions)
         /\ \E t : /\ Finish(node) = <<t>> /\ TaskOK(t) /\ t.do = "emit"
                   /\ t.op = "OpPop" => Len(Parts(node)) > 0 /\ node.kind = "ExpressionStatement"
<1>1. WellFormed(node, Expressions, Statements, Blocks)
  BY NodesWellFormed
<1>2. \A e, f \in Expressions : <<e>> \in Seq(Expressions) /\ <<e, f>> \in Seq(Expressions) /\ Len(<<e>>) > 0
  OBVIOUS
<1>3. \A l \in Seq(Expressions) : Len(l) \in Nat
  OBVIOUS
<1>4. ASSUME NEW op \in NoOperand \ {"OpPop"}, Finish(node) = <<EmitTask(op, <<>>)>>
      PROVE  \E t : /\ Finish(node) = <<t>> /\ TaskOK(t) /\ t.do = "emit"
                    /\ t.op = "OpPop" => Len(Parts(node)) > 0 /\ node.kind = "ExpressionStatement"
  <2> DEFINE t == EmitTask(op, <<>>)
  <2>1. TaskOK(t) /\ t.do = "emit" /\ t.op # "OpPop"
    BY EmitTasks
  <2>2. Finish(node) = <<t>>
    BY <1>4
  <2> HIDE DEF t
  <2>3. QED
    BY <2>1, <2>2, Zenon
<1>5. ASSUME NEW op \in (OneByteOperand \union TwoByteOperand) \ Jumps, NEW k \in Nat, Finish(node) = <<EmitTask(op, <<k>>)>>
      PROVE  \E t : /\ Finish(node) = <<t>> /\ TaskOK(t) /\ t.do = "emit"
                    /\ t.op = "OpPop" => Len(Parts(node)) > 0 /\ node.kind = "ExpressionStatement"
  <2> DEFINE t == EmitTask(op, <<k>>)
  <2>1. TaskOK(t) /\ t.do = "emit" /\ t.op # "OpPop"
    BY EmitTasks DEF OneByteOperand, TwoByteOperand
  <2>2. Finish(node) = <<t>>
    BY <1>5
  <2> HIDE DEF t
  <2>3. QED
    BY <2>1, <2>2, Zenon
<1>6. CASE node.kind = "ExpressionStatement"
  <2>1. Parts(node) = <<node.expression>> /\ node.expression \in Expressions
    BY <1>1, <1>6 DEF Parts, WellFormed
  <2> DEFINE t == EmitTask("OpPop", <<>>)
  <2>2. Finish(node) = <<t>>
    BY <1>6 DEF Finish
  <2>3. TaskOK(t) /\ t.do = "emit"
    BY EmitTasks DEF NoOperand
  <2>4. Parts(node) \in Seq(Expressions) /\ Len(Parts(node)) > 0
    BY <1>2, <2>1
  <2> HIDE DEF t
  <2>5. QED
    BY <1>6, <2>2, <2>3, <2>4, Zenon
<1>7. CASE node.kind = "InfixExpression"
  <2>1. node.operator \in InfixOperators /\ node.left \in Expressions /\ node.right \in Expressions
    BY <1>1, <1>7 DEF WellFormed
  <2>2. Parts(node) = <<node.right, node.left>> \/ Parts(node) = <<node.left, node.right>>
    BY <1>7 DEF Parts
  <2>3. Parts(node) \in Seq(Expressions)
    BY <1>2, <2>1, <2>2
  <2>4. Finish(node) = <<EmitTask(InfixOp[node.operator], <<>>)>>
    BY <1>7 DEF Finish
  <2>5. InfixOp[node.operator] \in NoOperand \ {"OpPop"}
    BY <2>1 DEF InfixOperators, InfixOp, NoOperand
  <2>6. QED
    BY <1>4, <2>3, <2>4, <2>5
<1>8. CASE node.kind = "PrefixExpression"
  <2>1. node.operator \in PrefixOperators /\ node.right \in Expressions
    BY <1>1, <1>8 DEF WellFormed
  <2>2. Parts(node) = <<node.right>>
    BY <1>8 DEF Parts
  <2>3. Parts(node) \in Seq(Expressions)
    BY <1>2, <2>1, <2>2
  <2>4. Finish(node) = <<EmitTask(PrefixOp[node.operator], <<>>)>>
    BY <1>8 DEF Finish
  <2>5. PrefixOp[node.operator] \in NoOperand \ {"OpPop"}
    BY <2>1 DEF PrefixOperators, PrefixOp, NoOperand
  <2>6. QED
    BY <1>4, <2>3, <2>4, <2>5
<1>9. CASE node.kind = "IndexExpression"
  <2>1. node.left \in Expressions /\ node.index \in Expressions
    BY <1>1, <1>9 DEF WellFormed
  <2>2. Parts(node) = <<node.left, node.index>>
    BY <1>9 DEF Parts
  <2>3. Parts(node) \in Seq(Expressions)
    BY <1>2, <2>1, <2>2
  <2>4. Finish(node) = <<EmitTask("OpIndex", <<>>)>>
    BY <1>9 DEF Finish
  <2>5. "OpIndex" \in NoOperand \ {"OpPop"}
    BY DEF NoOperand
  <2>6. QED
    BY <1>4, <2>3, <2>4, <2>5
<1>10. CASE node.kind = "ReturnStatement"
  <2>1. node.value \in Expressions
    BY <1>1, <1>10 DEF WellFormed
  <2>2. Parts(node) = <<node.value>>
    BY <1>10 DEF Parts
  <2>3. Parts(node) \in Seq(Expressions)
    BY <1>2, <2>1, <2>2
  <2>4. Finish(node) = <<EmitTask("OpReturnValue", <<>>)>>
    BY <1>10 DEF Finish
  <2>5. "OpReturnValue" \in NoOperand \ {"OpPop"}
    BY DEF NoOperand
  <2>6. QED
    BY <1>4, <2>3, <2>4, <2>5
<1>11. CASE node.kind = "ArrayLiteral"
  <2>1. node.elements \in Seq(Expressions) /\ Parts(node) = node.elements
    BY <1>1, <1>11 DEF WellFormed, Parts
  <2>2. Finish(node) = <<EmitTask("OpArray", <<Len(node.elements)>>)>>
    BY <1>11 DEF Finish
  <2>3. "OpArray" \in (OneByteOperand \union TwoByteOperand) \ Jumps
    BY DEF TwoByteOperand, Jumps
  <2>4. QED
    BY <1>3, <1>5, <2>1, <2>2, <2>3
<1>12. CASE node.kind = "HashLiteral"
  <2>1. node.keysAndValues \in Seq(Expressions) /\ Parts(node) = node.keysAndValues
    BY <1>1, <1>12 DEF WellFormed, Parts
  <2>2. Finish(node) = <<EmitTask("OpHash", <<Len(node.keysAndValues)>>)>>
    BY <1>12 DEF Finish
  <2>3. "OpHash" \in (OneByteOperand \union TwoByteOperand) \ Jumps
    BY DEF TwoByteOperand, Jumps
  <2>4. QED
    BY <1>3, <1>5, <2>1, <2>2, <2>3
<1>13. CASE node.kind = "CallExpression"
  <2>1. node.function \in Expressions /\ node.arguments \in Seq(Expressions)
    BY <1>1, <1>13 DEF WellFormed
  <2>2. Parts(node) = <<node.function>> \o node.arguments
    BY <1>13 DEF Parts
  <2>3. Parts(node) \in Seq(Expressions)
    BY <1>2, <2>1, <2>2
  <2>4. Finish(node) = <<EmitTask("OpCall", <<Len(node.arguments)>>)>>
    BY <1>13 DEF Finish
  <2>5. "OpCall" \in (OneByteOperand \union TwoByteOperand) \ Jumps
    BY DEF OneByteOperand, Jumps
  <2>6. QED
    BY <1>3, <1>5, <2>1, <2>3, <2>4, <2>5
<1>14. QED
  BY <1>6, <1>7, <1>8, <1>9, <1>10, <1>11, <1>12, <1>13 DEF Plain

LEMMA CompilePartsStep ==
  ASSUME Working, CompileParts PROVE CodeInv'
<1> DEFINE h    == todo[1]
           node == h.node
<1>1. Compiling(Plain) /\ scopes' = scopes /\ ConstantsGrow
  BY DEF CompileParts, ConstantsGrow
<1>2. /\ Task = h /\ h.do = "compile" /\ h.do # "leave" /\ ~Holder(h)
      /\ node \in Nodes /\ node.kind \in Plain
      /\ WellFormed(node, Expressions, Statements, Blocks)
  BY <1>1, CompilingFacts
<1>3. Then(CompileTasks(Parts(node)) \o Finish(node))
  BY <1>2 DEF CompileParts
<1>4. Len(scopes) \in Nat \ {0}
  BY WorkingFacts
<1>5. CASE node.kind = "BlockStatement"
  <2> DEFINE p == node.statements
             new == CompileTasks(p)
  <2>1. p \in Seq(Statements) /\ Parts(node) = p /\ Finish(node) = <<>>
    BY <1>2, <1>5 DEF WellFormed, Parts, Finish
  <2>2. IsList(new) /\ Len(new) = Len(p)
    BY <2>1, CompileTasksType
  <2>3. new \o <<>> = new
    <3> HIDE DEF new
    <3>1. new \in Seq(Elements(new))
      BY <2>2 DEF IsList
    <3>2. \A T : \A s \in Seq(T) : s \o <<>> = s
      OBVIOUS
    <3>3. QED
      BY <3>1, <3>2
  <2>4. Then(new)
    BY <1>3, <2>1, <2>3
  <2>5. CompilesBlock(h)
    BY <1>1, <1>5, CompilingFacts
  <2>6. CASE p # <<>>
    <3>1. /\ Continues(new, h, Len(scopes), Len(scopes))
          /\ Holds(new) = {}
          /\ new # <<>>
          /\ Emitting(new[1]) /\ ~Needs(new[1])
      BY <1>4, <2>1, <2>5, <2>6, PartsOnly
    <3> HIDE DEF new
    <3>2. QED
      BY <1>1, <1>2, <2>4, <3>1, QuietReplaced
  <2>7. CASE p = <<>>
    <3>1. new = <<>>
      <4>1. ~(Len(p) > 0) /\ Len(p) \in Nat
        <5>1. IsList(p)
          BY <2>1, ListFacts
        <5>2. QED
          BY <2>7, <5>1, ListFacts
      <4>2. ~(Len(new) > 0)
        BY <2>2, <4>1
      <4> HIDE DEF new
      <4>3. QED
        BY <2>2, <4>2, ListFacts
    <3>2. Then(<<>>)
      BY <2>4, <3>1
    <3>3. ~Emitting(h) /\ ~Valued(h)
      BY <2>5, Traits
    <3>4. Emits(todo) => 2 \in DOMAIN todo /\ Emitting(todo[2])
      <4>1. DOMAIN todo = 1 .. Len(todo) /\ Len(todo) \in Nat
        BY WorkingFacts, ListFacts
      <4>2. SUFFICES ASSUME Emits(todo) PROVE 2 \in DOMAIN todo /\ Emitting(todo[2])
        OBVIOUS
      <4>3. Len(todo) > 1 /\ todo[2].do = "ifEnd"
        BY <3>3, <4>2 DEF Emits
      <4>4. QED
        BY <4>1, <4>3 DEF Emitting
    <3>5. QED
      BY <1>1, <1>2, <3>2, <3>3, <3>4, NothingMore
  <2>8. QED
    BY <2>6, <2>7
<1>6. CASE node.kind # "BlockStatement"
  <2>1. Parts(node) \in Seq(Expressions)
    BY <1>2, <1>6, PartsType
  <2>2. PICK t : /\ Finish(node) = <<t>> /\ TaskOK(t) /\ t.do = "emit"
                 /\ t.op = "OpPop" => Len(Parts(node)) > 0 /\ node.kind = "ExpressionStatement"
    BY <1>2, <1>6, PartsType
  <2>3. Valued(h) => t.op # "OpPop"
    <3>1. SUFFICES ASSUME node.kind = "ExpressionStatement" PROVE ~Valued(h)
      BY <2>2
    <3>2. node \in Statements
      BY <1>1, <3>1, CompilingFacts DEF StatementKinds
    <3>3. QED
      BY <1>2, <3>2, Traits
  <2> DEFINE new == CompileTasks(Parts(node)) \o <<t>>
  <2>4. /\ Continues(new, h, Len(scopes), Len(scopes))
        /\ Holds(new) = {}
        /\ new # <<>>
        /\ Emitting(new[1]) /\ ~Needs(new[1])
    BY <1>2, <1>4, <2>1, <2>2, <2>3, PartsThenEmit
  <2>5. Then(new)
    BY <1>3, <2>2
  <2> HIDE DEF new
  <2>6. QED
    BY <1>1, <1>2, <2>4, <2>5, QuietReplaced
<1>7. QED
  BY <1>5, <1>6

LEMMA CompileIfStep ==
  ASSUME Working, CompileIf PROVE CodeInv'
<1> DEFINE node == todo[1].node
           t == CompileTask(node.condition)
           u == [do |-> "ifThen", node |-> node]
<1>1. Compiling({"IfExpression"}) /\ scopes' = scopes /\ ConstantsGrow
  BY DEF CompileIf, ConstantsGrow
<1>2. /\ Task = todo[1] /\ todo[1].do = "compile" /\ node \in Nodes /\ node.kind = "IfExpression"
      /\ WellFormed(node, Expressions, Statements, Blocks)
      /\ CompilesExpression(todo[1])
  BY <1>1, CompilingFacts DEF ExpressionKinds
<1>3. node.condition \in Expressions
  BY <1>2 DEF WellFormed
<1>4. CompilesExpression(t)
  BY <1>3 DEF CompilesExpression, CompileTask
<1>5. u.do = "ifThen" /\ u.node = node
  OBVIOUS
<1>6. Then(<<t, u>>)
  BY <1>2 DEF CompileIf
<1> HIDE DEF t, u
<1>7. TaskOK(u)
  BY <1>2, <1>5 DEF TaskOK
<1>8. Consumes(u) /\ Valued(u) /\ Waits(todo[1])
  BY <1>2, <1>5, Traits
<1>9. QED
  BY <1>1, <1>2, <1>4, <1>6, <1>7, <1>8, TwoTasks

LEMMA DefineParameterStep ==
  ASSUME Working, NEW name, DefineParameter(name) PROVE CodeInv'
<1>1. Task = todo[1]
  BY WorkingFacts
<1>2. todo[1].do = "parameter" /\ scopes' = scopes /\ ConstantsGrow /\ Then(<<>>)
  BY <1>1 DEF DefineParameter, Resuming, ConstantsGrow
<1>3. ~Valued(todo[1]) /\ ~Holder(todo[1]) /\ ~Emitting(todo[1]) /\ ~CompilesBlock(todo[1])
  BY <1>2, Traits DEF CompilesBlock
<1>4. ~Emits(todo)
  BY <1>3 DEF Emits
<1>5. QED
  BY <1>2, <1>3, <1>4, NothingMore
--------------------------------------------------------------------------------
(***************************************************************************)
(* The handlers that emit.                                                 *)
(***************************************************************************)
LEMMA ScopesChanged ==
  ASSUME Working, NEW r, ScopeOK(r), scopes' = InScope(r)
  PROVE  /\ IsList(scopes') /\ scopes' # <<>>
         /\ Len(scopes') = Len(scopes)
         /\ \A l \in DOMAIN scopes' : ScopeOK(scopes'[l])
<1> DEFINE n == Len(scopes)
           T == Elements(scopes) \union {r}
<1>1. n \in Nat \ {0} /\ IsList(scopes) /\ DOMAIN scopes = 1 .. n
  BY WorkingFacts
<1>2. scopes = [l \in 1 .. n |-> scopes[l]] /\ \A l \in 1 .. n : ScopeOK(scopes[l])
  BY <1>1, ListFacts DEF Working, CodeInv
<1>3. scopes' = [scopes EXCEPT ![n] = r]
  BY DEF InScope
<1> HIDE DEF n
<1>4. scopes' = [l \in 1 .. n |-> IF l = n THEN r ELSE scopes[l]]
  BY <1>1, <1>2, <1>3
<1> DEFINE ss == [l \in 1 .. n |-> IF l = n THEN r ELSE scopes[l]]
<1>5. \A l \in 1 .. n : ss[l] \in T /\ ScopeOK(ss[l])
  BY <1>1, <1>2 DEF Elements
<1> HIDE DEF T
<1>6. ss \in Seq(T) /\ Len(ss) = n /\ DOMAIN ss = 1 .. n
  <2>1. ss = [l \in 1 .. n |-> ss[l]]
    OBVIOUS
  <2> HIDE DEF ss
  <2>2. [l \in 1 .. n |-> ss[l]] \in Seq(T) /\ Len([l \in 1 .. n |-> ss[l]]) = n
    BY <1>1, <1>5
  <2>3. QED
    BY <2>1, <2>2
<1> HIDE DEF ss
<1>7. IsList(ss) /\ ss # <<>>
  BY <1>1, <1>6, ListFacts
<1>8. scopes' = ss
  BY <1>4 DEF ss
<1>9. QED
  BY <1>5, <1>6, <1>7, <1>8 DEF n

LEMMA InnermostFacts ==
  ASSUME Working
  PROVE  Innermost = scopes[Len(scopes)] /\ ScopeOK(Innermost)
<1>1. Len(scopes) \in Nat \ {0} /\ DOMAIN scopes = 1 .. Len(scopes)
  BY WorkingFacts
<1>2. Len(scopes) \in DOMAIN scopes
  BY <1>1
<1>3. QED
  BY <1>2 DEF Innermost, Working, CodeInv

LEMMA EmissionKeeps ==
  ASSUME Working, ConstantsGrow,
         NEW new, Continues(new, todo[1], Len(scopes), Len(scopes)), Then(new), ~Holder(todo[1]),
         NEW i, IsInstruction(i), scopes' = InScope(Emit(Innermost, i)),
         i.op = "OpPop" => Needs(todo[1]),
         Holds(new) = IF i.op \in Jumps THEN {Innermost.len} ELSE {},
         todo' # <<>> => (Needs(todo'[1]) => i.op # "OpPop")
  PROVE  CodeInv'
<1>1. PICK levels : Good(todo, levels, scopes)
  BY DEF Working, CodeInv
<1>2. todo' = new \o Tail(todo)
  BY DEF Then
<1>3. IsList(scopes) /\ todo # <<>> /\ Innermost = scopes[Len(scopes)] /\ ScopeOK(Innermost)
  BY InnermostFacts DEF Working, CodeInv
<1>4. /\ \E lv : Good(new \o Tail(todo), lv, [scopes EXCEPT ![Len(scopes)] = Emit(scopes[Len(scopes)], i)])
      /\ ScopeOK(Emit(scopes[Len(scopes)], i))
  <2>1. new \o Tail(todo) # <<>> => (Needs((new \o Tail(todo))[1]) => i.op # "OpPop")
    BY <1>2
  <2>2. Holds(new) = IF i.op \in Jumps THEN {scopes[Len(scopes)].len} ELSE {}
    BY <1>3
  <2>3. ScopeOK(scopes[Len(scopes)])
    BY <1>3
  <2>4. QED
    BY <1>1, <1>3, <2>1, <2>2, <2>3, EmissionStep
<1>5. (\E lv : Good(todo', lv, scopes')) /\ ScopeOK(Emit(Innermost, i))
  BY <1>2, <1>3, <1>4 DEF InScope
<1>6. IsList(scopes') /\ scopes' # <<>> /\ \A l \in DOMAIN scopes' : ScopeOK(scopes'[l])
  BY <1>5, ScopesChanged
<1>7. QED
  BY <1>5, <1>6, ConstantsKept DEF Working, CodeInv

LEMMA RestFacts ==
  ASSUME Working, Then(<<>>)
  PROVE  todo' # <<>> => 2 \in DOMAIN todo /\ todo'[1] = todo[2] /\ Follows(todo[1], todo[2])
<1>1. IsList(todo) /\ todo # <<>>
  BY WorkingFacts DEF Working
<1>2. IsList(<<>>)
  <2>1. <<>> \in Seq({})
    OBVIOUS
  <2>2. QED
    BY <2>1, ListFacts
<1>3. todo' = Tail(todo)
  BY <1>1, <1>2, FirstTask DEF Then
<1>4. QED
  BY <1>1, <1>2, <1>3, FirstTask, NextTask

LEMMA EmitInstructionStep ==
  ASSUME Working, EmitInstruction PROVE CodeInv'
<1> DEFINE t == todo[1]
           i == Make(t.op, t.operands)
<1>1. Task = t /\ TaskOK(t) /\ Len(scopes) \in Nat \ {0}
  BY WorkingFacts
<1>2. t.do = "emit" /\ scopes' = InScope(Emit(Innermost, i)) /\ ConstantsGrow /\ Then(<<>>)
  BY <1>1 DEF EmitInstruction, Resuming, ConstantsGrow
<1>3. t.op \in Opcodes \ Jumps /\ t.operands \in Seq(Nat) /\ Len(t.operands) = Len(OperandWidth(t.op))
  BY <1>1, <1>2, TaskFacts
<1>4. IsInstruction(i) /\ i.op = t.op
  BY <1>3, Made
<1> HIDE DEF i
<1>5. ~Holder(t) /\ (Needs(t) <=> t.op = "OpPop") /\ (Valued(t) <=> t.op # "OpPop") /\ t.do # "leave"
  BY <1>2, Traits
<1>6. Continues(<<>>, t, Len(scopes), Len(scopes)) /\ Holds(<<>>) = {}
  BY <1>1, <1>5, FewTasks
<1>7. todo' # <<>> => (Needs(todo'[1]) => i.op # "OpPop")
  BY <1>2, <1>4, <1>5, RestFacts DEF Follows
<1>8. Holds(<<>>) = IF i.op \in Jumps THEN {Innermost.len} ELSE {}
  BY <1>3, <1>4, <1>6
<1>9. QED
  BY <1>2, <1>4, <1>5, <1>6, <1>7, <1>8, EmissionKeeps

LEMMA EmitClosureStep ==
  ASSUME Working, EmitClosure PROVE CodeInv'
<1> DEFINE t == todo[1]
           operands == <<Len(constants), t.numFree>>
           i == Make("OpClosure", operands)
<1>1. Task = t /\ TaskOK(t) /\ Len(scopes) \in Nat \ {0} /\ Len(constants) \in Nat
  BY WorkingFacts
<1>2. t.do = "closure" /\ scopes' = InScope(Emit(Innermost, i)) /\ Then(<<>>) /\ constants' = Append(constants, t.fn)
  BY <1>1 DEF EmitClosure, Resuming
<1>3. FunctionOK(t.fn) /\ t.numFree \in Nat
  BY <1>1, <1>2, TaskFacts
<1>4. ConstantsGrow
  BY <1>2, <1>3 DEF ConstantsGrow
<1>5. IsInstruction(i) /\ i.op = "OpClosure"
  <2>1. operands \in Seq(Nat) /\ Len(operands) = 2 /\ Len(<<2, 1>>) = 2
    BY <1>1, <1>3
  <2>2. OperandWidth("OpClosure") = <<2, 1>> /\ "OpClosure" \in Opcodes
    <3>1. "OpClosure" \notin NoOperand /\ "OpClosure" \notin OneByteOperand /\ "OpClosure" \notin TwoByteOperand
      BY DEF NoOperand, OneByteOperand, TwoByteOperand
    <3>2. QED
      BY <3>1, Zenon DEF OperandWidth, Opcodes
  <2> HIDE DEF operands
  <2>3. Len(operands) = Len(OperandWidth("OpClosure"))
    BY <2>1, <2>2, Zenon
  <2>4. QED
    BY <2>1, <2>2, <2>3, Made
<1> HIDE DEF i
<1>6. ~Holder(t) /\ t.do # "leave" /\ i.op # "OpPop" /\ i.op \notin Jumps
  BY <1>2, <1>5, Traits DEF Jumps
<1>7. Continues(<<>>, t, Len(scopes), Len(scopes)) /\ Holds(<<>>) = {}
  BY <1>1, <1>6, FewTasks
<1>8. Holds(<<>>) = IF i.op \in Jumps THEN {Innermost.len} ELSE {}
  BY <1>6, <1>7
<1>9. QED
  BY <1>2, <1>4, <1>5, <1>6, <1>7, <1>8, EmissionKeeps

(* Both jumps are emitted with the same placeholder. *)
LEMMA JumpMade ==
  ASSUME NEW op \in Jumps
  PROVE  IsInstruction(Make(op, <<Magic>>)) /\ Make(op, <<Magic>>).op = op /\ op # "OpPop"
<1>1. op \in TwoByteOperand /\ op \in Opcodes /\ op \notin NoOperand /\ op \notin OneByteOperand /\ op # "OpClosure" /\ op # "OpPop"
  BY DEF Jumps, TwoByteOperand, Opcodes, NoOperand, OneByteOperand
<1>2. OperandWidth(op) = <<2>>
  BY <1>1, Zenon DEF OperandWidth
<1>3. <<Magic>> \in Seq(Nat) /\ Len(<<Magic>>) = 1 /\ Len(<<2>>) = 1
  BY DEF Magic
<1>4. Len(<<Magic>>) = Len(OperandWidth(op))
  BY <1>2, <1>3, Zenon
<1>5. QED
  BY <1>1, <1>3, <1>4, Made

LEMMA JumpOverConsequenceStep ==
  ASSUME Working, JumpOverConsequence PROVE CodeInv'
<1> DEFINE h == todo[1]
           i == Make("OpJumpNotTruthy", <<Magic>>)
           t == CompileTask(h.node.consequence)
           u == [do |-> "ifElse", node |-> h.node, jumpNotTruthyPos |-> Innermost.len]
<1>1. Task = h /\ TaskOK(h) /\ Len(scopes) \in Nat \ {0}
  BY WorkingFacts
<1>2. h.do = "ifThen" /\ scopes' = InScope(Emit(Innermost, i)) /\ ConstantsGrow /\ Then(<<t, u>>)
  BY <1>1 DEF JumpOverConsequence, Resuming, ConstantsGrow
<1>3. h.node \in Nodes /\ h.node.kind = "IfExpression"
  BY <1>1, <1>2, TaskFacts
<1>4. h.node.consequence \in Blocks
  BY <1>3, NodesWellFormed DEF WellFormed
<1>5. IsInstruction(i) /\ i.op \in Jumps /\ i.op # "OpPop"
  BY JumpMade DEF Jumps
<1>6. CompilesBlock(t)
  BY <1>4 DEF CompilesBlock, CompileTask
<1>7. u.do = "ifElse" /\ u.node = h.node /\ u.jumpNotTruthyPos = Innermost.len
  OBVIOUS
<1> HIDE DEF i, t, u
<1>8. TaskOK(t) /\ TaskOK(u) /\ t.do # "leave" /\ u.do # "leave" /\ Follows(t, u)
      /\ ~Holder(t) /\ Valued(u) /\ ~Needs(t)
  <2>1. ~Waits(t) /\ ~Holder(t) /\ ~Needs(t) /\ TaskOK(t)
    BY <1>6, Traits
  <2>2. ~Needs(u) /\ Valued(u)
    BY <1>7, Traits
  <2>3. TaskOK(u)
    BY <1>3, <1>7 DEF TaskOK
  <2>4. QED
    BY <1>6, <1>7, <2>1, <2>2, <2>3 DEF CompilesBlock, Follows
<1>9. Waits(h) /\ ~Holder(h) /\ h.do # "leave"
  BY <1>2, Traits
<1>10. Continues(<<t, u>>, h, Len(scopes), Len(scopes))
  BY <1>1, <1>8, <1>9, FewTasks
<1>11. Holds(<<t, u>>) = {Innermost.len}
  <2>1. HoldsOf(t) = {} /\ HoldsOf(u) = {Innermost.len}
    BY <1>7, <1>8 DEF HoldsOf, Holder, HeldBy
  <2>2. QED
    BY <1>1, <1>9, <2>1, FewTasks
<1>12. Holds(<<t, u>>) = IF i.op \in Jumps THEN {Innermost.len} ELSE {}
  BY <1>5, <1>11
<1>13. QED
  BY <1>2, <1>5, <1>9, <1>10, <1>12, EmissionKeeps
--------------------------------------------------------------------------------
(***************************************************************************)
(* The handlers that patch jumps.                                          *)
(***************************************************************************)
LEMMA ChangeKeeps ==
  ASSUME Working, ConstantsGrow, NEW r, ScopeOK(r), scopes' = InScope(r), NEW new, Then(new),
         \A levels : Good(todo, levels, scopes)
                       => MayBecome(todo, levels, Len(scopes), Innermost, new, r)
  PROVE  CodeInv'
<1>1. PICK levels : Good(todo, levels, scopes)
  BY DEF Working, CodeInv
<1>2. IsList(scopes) /\ Innermost = scopes[Len(scopes)]
  BY DEF Working, CodeInv, Innermost
<1>3. MayBecome(todo, levels, Len(scopes), scopes[Len(scopes)], new, r)
  BY <1>1, <1>2
<1>4. \E lv : Good(new \o Tail(todo), lv, [scopes EXCEPT ![Len(scopes)] = r])
  BY <1>1, <1>2, <1>3, InnermostChanges
<1>5. \E lv : Good(todo', lv, scopes')
  BY <1>4 DEF InScope, Then
<1>6. IsList(scopes') /\ scopes' # <<>> /\ \A l \in DOMAIN scopes' : ScopeOK(scopes'[l])
  BY ScopesChanged
<1>7. QED
  BY <1>5, <1>6, ConstantsKept DEF Working, CodeInv

(* A task that patches a jump knows where it is. *)
LEMMA HolderFacts ==
  ASSUME Working, NEW levels, Good(todo, levels, scopes), Holder(todo[1])
  PROVE  /\ HeldBy(todo[1]) \in JumpsIn(Innermost)
         /\ Innermost.len > 0
         /\ JumpsCared(Innermost, HoldsAt(todo, levels, Len(scopes)), Emits(todo))
         /\ Needs(todo[1]) => Valuable(Innermost)
         /\ 2 \in DOMAIN todo /\ Follows(todo[1], todo[2])
<1>1. /\ IsList(todo) /\ todo # <<>> /\ 1 \in DOMAIN todo /\ Len(scopes) \in DOMAIN scopes
      /\ Innermost = scopes[Len(scopes)] /\ ScopeOK(Innermost)
  BY WorkingFacts, FirstTask, InnermostFacts DEF Working
<1>2. levels[1] = Len(scopes)
  BY <1>1 DEF Good, Plan
<1>3. JumpsCared(Innermost, HoldsAt(todo, levels, Len(scopes)), Emits(todo))
  BY <1>1 DEF Good, JumpsCared
<1>4. HeldBy(todo[1]) \in HoldsAt(todo, levels, Len(scopes))
  BY <1>1, <1>2 DEF HoldsAt
<1>5. HeldBy(todo[1]) \in JumpsIn(Innermost)
  BY <1>3, <1>4 DEF JumpsCared
<1>6. Innermost.len > 0
  <2> DEFINE s == Innermost
             p == HeldBy(todo[1])
  <2>1. p \in DOMAIN s.ins
    BY <1>5 DEF JumpsIn
  <2>2. /\ s.len \in Nat /\ p \in Nat /\ p + InstrLen(s.ins[p].op) <= s.len
        /\ InstrLen(s.ins[p].op) \in 1 .. 4
    BY <1>1, <2>1, Opcode DEF ScopeOK, CodeOK, IsInstruction
  <2> HIDE DEF s, p
  <2>3. s.len > 0
    BY <2>2
  <2>4. QED
    BY <2>3 DEF s
<1>7. Needs(todo[1]) => Valuable(Innermost)
  BY <1>1 DEF Good
<1>8. Waits(todo[1])
  BY DEF Holder, Waits
<1>9. QED
  BY <1>3, <1>5, <1>6, <1>7, <1>8, NextTask

(* Patching the jump of the first task to the end of code that ends with a *)
(* value.                                                                  *)
LEMMA PatchedToEnd ==
  ASSUME NEW s, NEW held, NEW emits, JumpsCared(s, held, emits), ScopeOK(s), s.len > 0,
         NEW pos \in JumpsIn(s),
         NEW k, k = KeepValue(s) \/ (k = s /\ Valuable(s))
  PROVE  /\ ScopeOK(k) /\ Valuable(k) /\ JumpsIn(k) = JumpsIn(s)
         /\ \A p \in JumpsIn(s) : p \in held \/ Lands(k, p) \/ LandsAtEnd(k, p)
<1>1. \A p \in JumpsIn(s) : \/ p \in held
                            \/ Lands(s, p)
                            \/ LandsAtEnd(s, p) /\ s.last.op # "OpPop"
  BY DEF JumpsCared
<1>2. CASE k = s /\ Valuable(s)
  BY <1>1, <1>2
<1>3. CASE k = KeepValue(s)
  <2>1. Trimmed(s, k)
    BY <1>3, Kept
  <2> HIDE <1>3
  <2>2. ScopeOK(k) /\ Valuable(k) /\ JumpsIn(k) = JumpsIn(s)
    BY <2>1 DEF Trimmed, LostPop
  <2>3. ASSUME NEW p \in JumpsIn(s), LandsAtEnd(s, p), s.last.op # "OpPop"
        PROVE  LandsAtEnd(k, p)
    BY <2>1, <2>3 DEF Trimmed, LostPop
  <2>4. ASSUME NEW p \in JumpsIn(s), Lands(s, p)
        PROVE  Lands(k, p) \/ LandsAtEnd(k, p)
    BY <2>1, <2>4 DEF Trimmed, LostPop
  <2>5. QED
    BY <1>1, <2>2, <2>3, <2>4
<1>4. QED
  BY <1>2, <1>3

LEMMA EndIfStep ==
  ASSUME Working, EndIf PROVE CodeInv'
<1> DEFINE h   == todo[1]
           s   == Innermost
           pos == h.jumpPos
           k   == IF h.node.alternative = NoBlock THEN s ELSE KeepValue(s)
           r   == ChangeOperand(k, pos, k.len)
<1>1. Task = h /\ TaskOK(h) /\ Len(scopes) \in Nat \ {0} /\ IsList(todo) /\ todo # <<>>
  BY WorkingFacts DEF Working
<1>2. h.do = "ifEnd" /\ scopes' = InScope(r) /\ ConstantsGrow /\ Then(<<>>)
  BY <1>1 DEF EndIf, Resuming, ConstantsGrow
<1>3. Holder(h) /\ HeldBy(h) = pos /\ HoldsOf(h) = {pos} /\ (Needs(h) <=> h.node.alternative = NoBlock)
      /\ h.do # "leave"
  BY <1>2 DEF Holder, HeldBy, HoldsOf, Needs
<1>4. PICK lv : Good(todo, lv, scopes)
  BY DEF Working, CodeInv
<1>5. pos \in JumpsIn(s) /\ s.len > 0 /\ (Needs(h) => Valuable(s))
      /\ 2 \in DOMAIN todo /\ Follows(h, todo[2])
  BY <1>3, <1>4, HolderFacts
<1>6. ScopeOK(s)
  BY InnermostFacts
<1> HIDE DEF s, pos
<1>7. k = KeepValue(s) \/ (k = s /\ Valuable(s))
  BY <1>3, <1>5
<1> HIDE DEF k
<1>8. ScopeOK(k) /\ Valuable(k) /\ JumpsIn(k) = JumpsIn(s)
  <2>1. JumpsCared(s, HoldsAt(todo, lv, Len(scopes)), Emits(todo))
    BY <1>3, <1>4, HolderFacts DEF s
  <2>2. QED
    BY <1>5, <1>6, <1>7, <2>1, PatchedToEnd
<1>9. Patched(k, pos, k.len, r)
  <2>1. k.len \in Nat
    BY <1>8 DEF ScopeOK, CodeOK
  <2>2. QED
    BY <1>5, <1>8, <2>1, ChangedJump
<1> HIDE DEF r
<1>10. /\ ScopeOK(r) /\ Valuable(r) /\ r.last.op # "OpPop"
       /\ JumpsIn(r) = JumpsIn(s)
       /\ LandsAtEnd(r, pos)
  BY <1>8, <1>9 DEF Patched, Valuable
<1>11. Emits(todo')
  <2>1. todo' # <<>>
    <3>1. todo' = Tail(todo)
      <4>1. IsList(<<>>)
        <5>1. <<>> \in Seq({})
          OBVIOUS
        <5>2. QED
          BY <5>1, ListFacts
      <4>2. QED
        BY <1>1, <1>2, <4>1, FirstTask DEF Then
    <3>2. QED
      BY <1>1, <1>5, <3>1, FirstTask
  <2>2. todo'[1] = todo[2]
    BY <1>2, <2>1, RestFacts
  <2>3. Waits(h)
    BY <1>2 DEF Waits
  <2>4. Consumes(todo[2])
    BY <1>5, <2>3 DEF Follows
  <2>5. QED
    BY <2>1, <2>2, <2>4, Traits DEF Emits
<1>12. Continues(<<>>, h, Len(scopes), Len(scopes)) /\ Holds(<<>>) = {}
  BY <1>1, <1>3, FewTasks
<1>13. ASSUME NEW levels, Good(todo, levels, scopes)
       PROVE  MayBecome(todo, levels, Len(scopes), s, <<>>, r)
  <2>1. JumpsCared(s, HoldsAt(todo, levels, Len(scopes)), Emits(todo))
    BY <1>3, <1>13, HolderFacts DEF s
  <2>2. \A p \in JumpsIn(s) : p \in HoldsAt(todo, levels, Len(scopes)) \/ Lands(k, p) \/ LandsAtEnd(k, p)
    BY <1>5, <1>6, <1>7, <2>1, PatchedToEnd
  <2>3. ASSUME NEW p \in JumpsIn(r)
        PROVE  \/ p \in HoldsAt(todo, levels, Len(scopes)) /\ p \notin HoldsOf(h)
               \/ Lands(r, p)
               \/ LandsAtEnd(r, p)
    <3>1. CASE p = pos
      BY <1>10, <3>1
    <3>2. CASE p # pos
      <4>1. p \in JumpsIn(k) \ {pos}
        BY <1>8, <1>10, <3>2
      <4>2. (Lands(k, p) => Lands(r, p)) /\ (LandsAtEnd(k, p) => LandsAtEnd(r, p))
        BY <1>9, <4>1 DEF Patched
      <4>3. QED
        BY <1>3, <1>8, <2>2, <3>2, <4>1, <4>2
    <3>3. QED
      BY <3>1, <3>2
  <2>4. todo' = <<>> \o Tail(todo)
    BY <1>2 DEF Then
  <2> DEFINE rest == <<>> \o Tail(todo)
  <2>5. Emits(rest)
    BY <1>11, <2>4
  <2> HIDE DEF rest
  <2>6. QED
    BY <1>1, <1>10, <1>12, <2>3, <2>5 DEF MayBecome, rest
<1>14. QED
  BY <1>2, <1>10, <1>13, ChangeKeeps DEF s

LEMMA JumpOverAlternativeStep ==
  ASSUME Working, JumpOverAlternative PROVE CodeInv'
<1> DEFINE h   == todo[1]
           s   == Innermost
           pos == h.jumpNotTruthyPos
           k   == KeepValue(s)
           i   == Make("OpJump", <<Magic>>)
           j   == Emit(k, i)
           r   == ChangeOperand(j, pos, j.len)
           t   == IF h.node.alternative = NoBlock THEN EmitTask("OpNull", <<>>)
                  ELSE CompileTask(h.node.alternative)
           u   == [do |-> "ifEnd", node |-> h.node, jumpPos |-> k.len]
<1>1. Task = h /\ TaskOK(h) /\ Len(scopes) \in Nat \ {0} /\ IsList(todo) /\ todo # <<>>
  BY WorkingFacts DEF Working
<1>2. h.do = "ifElse" /\ scopes' = InScope(r) /\ ConstantsGrow /\ Then(<<t, u>>)
  BY <1>1 DEF JumpOverAlternative, Resuming, ConstantsGrow
<1>3. /\ Holder(h) /\ HeldBy(h) = pos /\ HoldsOf(h) = {pos} /\ h.do # "leave" /\ Waits(h)
  BY <1>2 DEF Holder, HeldBy, HoldsOf, Waits
<1>4. h.node \in Nodes /\ h.node.kind = "IfExpression" /\ h.node.alternative \in Blocks \union {NoBlock}
  <2>1. h.node \in Nodes /\ h.node.kind = "IfExpression"
    BY <1>1, <1>2, TaskFacts
  <2>2. QED
    BY <2>1, NodesWellFormed DEF WellFormed
<1>5. PICK lv : Good(todo, lv, scopes)
  BY DEF Working, CodeInv
<1>6. pos \in JumpsIn(s) /\ s.len > 0
  BY <1>3, <1>5, HolderFacts
<1>7. ScopeOK(s)
  BY InnermostFacts
<1>8. u.do = "ifEnd" /\ u.node = h.node /\ u.jumpPos = k.len
  OBVIOUS
<1>9. IsInstruction(i) /\ i.op = "OpJump" /\ "OpJump" \in Jumps
  BY JumpMade DEF Jumps
<1> HIDE DEF s, pos, u, i
<1>10. /\ TaskOK(t) /\ t.do # "leave" /\ ~Holder(t) /\ ~Needs(t) /\ ~Waits(t)
       /\ h.node.alternative = NoBlock => Valued(t) /\ Emitting(t)
       /\ h.node.alternative # NoBlock => CompilesBlock(t)
  <2>1. CASE h.node.alternative = NoBlock
    <3>1. t = EmitTask("OpNull", <<>>)
      BY <2>1
    <3>2. t.do = "emit" /\ t.op = "OpNull" /\ TaskOK(t)
      BY <3>1, EmitTasks DEF NoOperand
    <3> HIDE DEF t
    <3>3. QED
      BY <2>1, <3>2, Traits
  <2>2. CASE h.node.alternative # NoBlock
    <3>1. CompilesBlock(t)
      BY <1>4, <2>2 DEF CompilesBlock, CompileTask
    <3> HIDE DEF t
    <3>2. QED
      BY <2>2, <3>1, Traits DEF CompilesBlock
  <2>3. QED
    BY <2>1, <2>2
<1> HIDE DEF t
<1>11. TaskOK(u) /\ u.do # "leave" /\ Valued(u) /\ Follows(t, u)
  <2>1. TaskOK(u)
    BY <1>4, <1>8 DEF TaskOK
  <2>2. Valued(u) /\ (Needs(u) <=> h.node.alternative = NoBlock)
    BY <1>8, Traits
  <2>3. QED
    BY <1>8, <1>10, <2>1, <2>2 DEF Follows
<1>12. ScopeOK(k) /\ Valuable(k) /\ JumpsIn(k) = JumpsIn(s)
  <2>1. JumpsCared(s, HoldsAt(todo, lv, Len(scopes)), Emits(todo))
    BY <1>3, <1>5, HolderFacts DEF s
  <2>2. QED
    BY <1>6, <1>7, <2>1, PatchedToEnd
<1> HIDE DEF k
<1>13. Grown(k, i, j)
  BY <1>9, <1>12, Emitted
<1> HIDE DEF j
<1>14. /\ ScopeOK(j) /\ j.last.op = "OpJump" /\ j.len \in Nat /\ j.len > 0
       /\ JumpsIn(j) = JumpsIn(s) \union {k.len} /\ k.len \notin JumpsIn(s)
  <2>1. JumpsIn(j) = JumpsIn(k) \union {k.len} /\ k.len \notin JumpsIn(k)
    BY <1>9, <1>13 DEF Grown, JumpsIn
  <2>2. QED
    BY <1>9, <1>12, <1>13, <2>1 DEF Grown, ScopeOK, CodeOK
<1>15. Patched(j, pos, j.len, r)
  <2>1. pos \in JumpsIn(j)
    BY <1>6, <1>14
  <2>2. QED
    BY <1>14, <2>1, ChangedJump
<1> HIDE DEF r
<1>16. /\ ScopeOK(r) /\ Valuable(r) /\ r.last.op # "OpPop"
       /\ JumpsIn(r) = JumpsIn(s) \union {k.len}
       /\ LandsAtEnd(r, pos)
  BY <1>14, <1>15 DEF Patched, Valuable
<1> DEFINE new == <<t, u>>
           rest == new \o Tail(todo)
<1>17. Continues(new, h, Len(scopes), Len(scopes)) /\ Holds(new) = {k.len}
  <2>1. HoldsOf(t) = {} /\ HoldsOf(u) = {k.len}
    BY <1>8, <1>10 DEF HoldsOf, Holder, HeldBy
  <2>2. QED
    BY <1>1, <1>3, <1>10, <1>11, <2>1, FewTasks
<1>18. Emits(rest) /\ rest # <<>> /\ ~Needs(rest[1])
  <2>1. new[1] = t /\ new[2] = u /\ Len(new) = 2 /\ new # <<>> /\ 1 \in 1 .. 2 /\ 2 \in 1 .. 2
    OBVIOUS
  <2>2. IsList(new)
    BY <1>17 DEF Continues
  <2> HIDE DEF new
  <2>3. /\ Len(rest) = Len(new) + Len(todo) - 1 /\ IsList(rest)
        /\ \A x \in 1 .. Len(new) : rest[x] = new[x]
    BY <1>1, <2>2, Joined
  <2> HIDE DEF rest
  <2>4. rest[1] = t /\ rest[2] = u
    BY <2>1, <2>3
  <2>5. Len(todo) \in Nat /\ Len(todo) > 0
    BY <1>1, ListFacts
  <2>6. Len(rest) > 1
    BY <2>1, <2>3, <2>5
  <2>7. rest # <<>>
    <3>1. Len(rest) > 0
      BY <2>1, <2>3, <2>5
    <3>2. QED
      BY <2>3, <3>1, ListFacts
  <2>8. Emits(rest)
    BY <1>8, <1>10, <2>4, <2>6, <2>7 DEF Emits
  <2>9. QED
    BY <1>10, <2>4, <2>7, <2>8
<1>19. ASSUME NEW levels, Good(todo, levels, scopes)
       PROVE  MayBecome(todo, levels, Len(scopes), s, new, r)
  <2>1. JumpsCared(s, HoldsAt(todo, levels, Len(scopes)), Emits(todo))
    BY <1>3, <1>19, HolderFacts DEF s
  <2>2. \A p \in JumpsIn(s) : p \in HoldsAt(todo, levels, Len(scopes)) \/ Lands(k, p) \/ LandsAtEnd(k, p)
    <3>1. k = KeepValue(s)
      BY DEF k
    <3>2. QED
      BY <1>6, <1>7, <2>1, <3>1, PatchedToEnd
  <2>3. ASSUME NEW p \in JumpsIn(r)
        PROVE  \/ p \in Holds(new)
               \/ p \in HoldsAt(todo, levels, Len(scopes)) /\ p \notin HoldsOf(h)
               \/ Lands(r, p)
               \/ LandsAtEnd(r, p)
    <3>1. CASE p = pos
      BY <1>16, <3>1
    <3>2. CASE p = k.len
      BY <1>17, <3>2
    <3>3. CASE p # pos /\ p # k.len
      <4>1. p \in JumpsIn(s) /\ p \in JumpsIn(j) \ {pos} /\ p \in DOMAIN k.ins
        <5>1. p \in JumpsIn(s) /\ p \in JumpsIn(k)
          BY <1>12, <1>16, <3>3
        <5>2. QED
          BY <1>14, <3>3, <5>1 DEF JumpsIn
      <4>2. Lands(j, p) => Lands(r, p)
        BY <1>15, <4>1 DEF Patched
      <4>3. Lands(k, p) \/ LandsAtEnd(k, p) => Lands(j, p)
        BY <1>13, <4>1 DEF Grown
      <4>4. QED
        BY <1>3, <2>2, <3>3, <4>1, <4>2, <4>3
    <3>4. QED
      BY <3>1, <3>2, <3>3
  <2>4. JumpsIn(s) \subseteq JumpsIn(r) /\ Holds(new) \subseteq JumpsIn(r)
    BY <1>16, <1>17
  <2> HIDE DEF new
  <2>5. QED
    BY <1>1, <1>16, <1>17, <1>18, <2>3, <2>4 DEF MayBecome
<1> HIDE DEF new
<1>20. Then(new)
  BY <1>2 DEF new
<1>21. QED
  BY <1>2, <1>16, <1>19, <1>20, ChangeKeeps DEF s
--------------------------------------------------------------------------------
(***************************************************************************)
(* The handlers that enter and leave a scope.                              *)
(***************************************************************************)
LEMMA OneMore ==
  ASSUME NEW c, IsList(c), NEW t
  PROVE  /\ IsList(c \o <<t>>) /\ Len(c \o <<t>>) = Len(c) + 1 /\ Len(c) \in Nat
         /\ \A i \in 1 .. Len(c) : (c \o <<t>>)[i] = c[i]
         /\ (c \o <<t>>)[Len(c) + 1] = t
         /\ \A u : c \o <<t, u>> = (c \o <<t>>) \o <<u>>
<1> DEFINE T == Elements(c) \union {t}
<1>1. c \in Seq(T)
  <2>1. c \in Seq(Elements(c))
    BY DEF IsList
  <2>2. \A A, B : A \subseteq B => Seq(A) \subseteq Seq(B)
    OBVIOUS
  <2>3. QED
    BY <2>1, <2>2
<1>2. t \in T
  OBVIOUS
<1> HIDE DEF T
<1>3. c \o <<t>> = Append(c, t) /\ c \o <<t>> \in Seq(T)
  BY <1>1, <1>2
<1>4. /\ Len(c \o <<t>>) = Len(c) + 1 /\ Len(c) \in Nat
      /\ \A i \in 1 .. Len(c) : (c \o <<t>>)[i] = c[i]
      /\ (c \o <<t>>)[Len(c) + 1] = t
  BY <1>1, <1>2, <1>3
<1>5. IsList(c \o <<t>>)
  BY <1>3, ListFacts
<1>6. ASSUME NEW u PROVE c \o <<t, u>> = (c \o <<t>>) \o <<u>>
  <2> DEFINE U == T \union {u}
  <2>1. \A A, B : A \subseteq B => Seq(A) \subseteq Seq(B)
    OBVIOUS
  <2>2. c \in Seq(U) /\ t \in U /\ u \in U
    BY <1>1, <1>2, <2>1
  <2> HIDE DEF U
  <2>3. QED
    BY <2>2
<1>7. QED
  BY <1>4, <1>5, <1>6

(* Tasks of which none needs a value or waits for another, and a last one. *)
LEMMA RunThenLast ==
  ASSUME NEW c, IsList(c),
         \A i \in 1 .. Len(c) :
           /\ TaskOK(c[i]) /\ c[i].do # "leave"
           /\ ~Waits(c[i]) /\ ~Needs(c[i]) /\ ~Holder(c[i]),
         NEW t, TaskOK(t), ~Needs(t), ~Holder(t),
         NEW h, NEW n, NEW m \in Nat \ {0},
         LevelAfter(t, m) = LevelAfter(h, n), Waits(t) => Waits(h), Valued(h) => Valued(t)
  PROVE  /\ Continues(c \o <<t>>, h, n, m)
         /\ Holds(c \o <<t>>) = {}
         /\ c \o <<t>> # <<>>
         /\ ~Needs((c \o <<t>>)[1])
         /\ Emitting(t) /\ (\A i \in 1 .. Len(c) : Emitting(c[i])) => Emitting((c \o <<t>>)[1])
<1> DEFINE new == c \o <<t>>
           K == Len(c)
<1>1. /\ IsList(new) /\ Len(new) = K + 1 /\ K \in Nat
      /\ \A i \in 1 .. K : new[i] = c[i]
      /\ new[K + 1] = t
  BY OneMore
<1>2. DOMAIN new = 1 .. K + 1 /\ new # <<>>
  <2> HIDE DEF new, K
  <2>1. QED
    BY <1>1, ListFacts
<1>3. \A i \in 1 .. K : /\ TaskOK(new[i]) /\ new[i].do # "leave"
                        /\ ~Waits(new[i]) /\ ~Needs(new[i]) /\ ~Holder(new[i])
  BY <1>1
<1> HIDE DEF new
<1>4. Emitting(t) /\ (\A i \in 1 .. K : Emitting(c[i])) => Emitting(new[1])
  <2> HIDE DEF K
  <2>1. CASE K = 0
    BY <1>1, <2>1
  <2>2. CASE K > 0
    <3>1. 1 \in 1 .. K
      BY <1>1, <2>2
    <3>2. QED
      BY <1>1, <3>1
  <2>3. QED
    BY <1>1, <2>1, <2>2
<1> HIDE DEF K
<1>5. \A i \in DOMAIN new : TaskOK(new[i]) /\ ~Holder(new[i]) /\ ~Needs(new[i])
  BY <1>1, <1>2, <1>3
<1>6. \A i \in DOMAIN new : i < Len(new) => new[i].do # "leave" /\ Follows(new[i], new[i + 1])
  <2>1. SUFFICES ASSUME NEW i \in DOMAIN new, i < Len(new)
                 PROVE  new[i].do # "leave" /\ Follows(new[i], new[i + 1])
    OBVIOUS
  <2>2. i \in 1 .. K /\ i + 1 \in DOMAIN new
    BY <1>1, <1>2, <2>1
  <2>3. QED
    BY <1>3, <1>5, <2>2 DEF Follows
<1>7. Continues(new, h, n, m)
  <2>1. new[Len(new)] = t
    BY <1>1
  <2>2. QED
    BY <1>1, <1>2, <1>5, <1>6, <2>1 DEF Continues
<1>8. Holds(new) = {}
  BY <1>5 DEF Holds
<1>9. ~Needs(new[1])
  BY <1>1, <1>2, <1>5
<1>10. QED
  BY <1>2, <1>4, <1>7, <1>8, <1>9 DEF new, K

(* Levels only fall. *)
LEMMA LevelsFall ==
  ASSUME NEW ts, NEW levels, NEW n, Plan(ts, levels, n), ts # <<>>
  PROVE  /\ \A l : HoldsAt(ts, levels, l) # {} => l \in Nat \ {0} /\ l <= n
         /\ ts[1].do = "leave" => HoldsAt(ts, levels, n) = {} /\ n - 1 \in Nat \ {0}
<1>1. IsList(ts) /\ n \in Nat \ {0} /\ levels \in [DOMAIN ts -> Nat \ {0}] /\ levels[1] = n
  BY DEF Plan
<1> DEFINE N == Len(ts)
<1>2. DOMAIN ts = 1 .. N /\ N \in Nat /\ N > 0
  BY <1>1, ListFacts
<1>3. /\ \A i \in 1 .. N : /\ i = N => ~Waits(ts[i])
                           /\ i < N => levels[i + 1] = LevelAfter(ts[i], levels[i])
      /\ \A i, j \in 1 .. N : i < j => LevelAfter(ts[i], levels[i]) >= levels[j]
  BY <1>2 DEF Plan
<1> HIDE DEF N
<1>4. \A i \in 1 .. N : levels[i] \in Nat \ {0} /\ levels[i] <= n
  <2>1. SUFFICES ASSUME NEW i \in 1 .. N PROVE levels[i] \in Nat \ {0} /\ levels[i] <= n
    OBVIOUS
  <2>2. levels[i] \in Nat \ {0}
    BY <1>1, <1>2
  <2>3. CASE i = 1
    BY <1>1, <2>2, <2>3
  <2>4. CASE i # 1
    <3>1. 1 \in 1 .. N /\ 1 < i
      BY <1>2, <2>4
    <3>2. LevelAfter(ts[1], n) >= levels[i]
      BY <1>1, <1>3, <3>1
    <3>3. QED
      BY <1>1, <2>2, <3>2 DEF LevelAfter
  <2>5. QED
    BY <2>3, <2>4
<1>5. \A l : HoldsAt(ts, levels, l) # {} => l \in Nat \ {0} /\ l <= n
  BY <1>2, <1>4 DEF HoldsAt
<1>6. ASSUME ts[1].do = "leave" PROVE HoldsAt(ts, levels, n) = {} /\ n - 1 \in Nat \ {0}
  <2>1. Waits(ts[1]) /\ ~Holder(ts[1]) /\ LevelAfter(ts[1], n) = n - 1
    BY <1>6, Traits DEF LevelAfter
  <2>2. 1 \in 1 .. N /\ 1 < N
    BY <1>2, <1>3, <2>1
  <2>3. levels[2] = n - 1 /\ levels[2] \in Nat \ {0}
    <3>1. 2 \in 1 .. N /\ 1 + 1 = 2
      BY <1>2, <2>2
    <3>2. QED
      BY <1>1, <1>3, <1>4, <2>1, <2>2, <3>1
  <2>4. \A i \in 1 .. N : i # 1 => levels[i] # n
    <3>1. SUFFICES ASSUME NEW i \in 1 .. N, i # 1 PROVE levels[i] # n
      OBVIOUS
    <3>2. 1 < i
      BY <3>1
    <3>3. n - 1 >= levels[i]
      BY <1>1, <1>3, <2>1, <2>2, <3>2
    <3>4. QED
      BY <1>1, <1>4, <3>3
  <2>5. HoldsAt(ts, levels, n) = {}
    BY <1>2, <2>1, <2>4 DEF HoldsAt
  <2>6. QED
    BY <2>3, <2>5
<1>7. QED
  BY <1>5, <1>6

LEMMA EnterGood ==
  ASSUME NEW ts, NEW levels, NEW ss, IsList(ss), Good(ts, levels, ss), ts # <<>>,
         NEW new, Continues(new, ts[1], Len(ss), Len(ss) + 1), Holds(new) = {}, ~Holder(ts[1]),
         new # <<>>, ~Needs(new[1]),
         NEW r, JumpsIn(r) = {}
  PROVE  \E lv : Good(new \o Tail(ts), lv, Append(ss, r))
<1> DEFINE rest == new \o Tail(ts)
           n    == Len(ss)
           lv   == NewLevels(new, ts, levels, n + 1)
           after == Append(ss, r)
<1>1. Plan(ts, levels, n)
  BY DEF Good
<1>2. Plan(rest, lv, n + 1)
  BY <1>1, PlanGoesOn
<1>3. \A l : /\ \A p \in HoldsAt(rest, lv, l) : p \in HoldsAt(ts, levels, l) \/ (l = n + 1 /\ p \in Holds(new))
             /\ \A p \in HoldsAt(ts, levels, l) : p \in HoldsAt(rest, lv, l) \/ (l = n /\ p \in HoldsOf(ts[1]))
  BY <1>1, HoldsGoOn
<1> HIDE DEF lv
<1>4. n \in Nat /\ n > 0 /\ DOMAIN ss = 1 .. n
  BY <1>1, ListFacts DEF Plan
<1>5. \A l : \A p : p \in HoldsAt(rest, lv, l) <=> p \in HoldsAt(ts, levels, l)
  <2>1. HoldsOf(ts[1]) = {}
    BY DEF HoldsOf
  <2>2. QED
    BY <1>3, <2>1, Zenon
<1>6. HoldsAt(ts, levels, n + 1) = {}
  <2>1. ~(n + 1 <= n)
    BY <1>4
  <2> HIDE DEF n
  <2>2. QED
    BY <1>1, <2>1, LevelsFall
<1>7. Len(after) = n + 1 /\ DOMAIN after = 1 .. n + 1 /\ after[n + 1] = r /\ \A l \in 1 .. n : after[l] = ss[l]
  <2> DEFINE T == Elements(ss) \union {r}
  <2>1. ss \in Seq(T)
    <3>1. ss \in Seq(Elements(ss))
      BY DEF IsList
    <3>2. \A A, B : A \subseteq B => Seq(A) \subseteq Seq(B)
      OBVIOUS
    <3>3. QED
      BY <3>1, <3>2
  <2>2. r \in T
    OBVIOUS
  <2> HIDE DEF T
  <2>3. QED
    BY <2>1, <2>2
<1> HIDE DEF after
<1>8. rest # <<>> /\ rest[1] = new[1]
  BY <1>1, FirstTask DEF Plan, Continues
<1>9. ASSUME NEW l \in DOMAIN after
      PROVE  JumpsCared(after[l], HoldsAt(rest, lv, l), l = Len(after) => Emits(rest))
  <2>1. CASE l = n + 1
    BY <1>5, <1>6, <1>7, <2>1 DEF JumpsCared
  <2>2. CASE l # n + 1
    <3>1. l \in 1 .. n /\ l # Len(after)
      BY <1>4, <1>7, <2>2
    <3>2. JumpsCared(ss[l], HoldsAt(ts, levels, l), l = n => Emits(ts))
      BY <1>4, <3>1 DEF Good
    <3>3. QED
      BY <1>5, <1>7, <3>1, <3>2 DEF JumpsCared
  <2>3. QED
    BY <2>1, <2>2
<1>10. Plan(rest, lv, Len(after))
  BY <1>2, <1>7
<1>11. Good(rest, lv, after)
  BY <1>8, <1>9, <1>10 DEF Good
<1>12. QED
  BY <1>11 DEF after

LEMMA LeaveGood ==
  ASSUME NEW ts, NEW levels, NEW ss, IsList(ss), Good(ts, levels, ss), ts # <<>>,
         ts[1].do = "leave",
         NEW new, Continues(new, ts[1], Len(ss), Len(ss) - 1), Holds(new) = {},
         new # <<>>, ~Needs(new[1]), Emitting(new[1])
  PROVE  \E lv : Good(new \o Tail(ts), lv, SubSeq(ss, 1, Len(ss) - 1))
<1> DEFINE rest == new \o Tail(ts)
           n    == Len(ss)
           lv   == NewLevels(new, ts, levels, n - 1)
           after == SubSeq(ss, 1, n - 1)
<1>1. Plan(ts, levels, n)
  BY DEF Good
<1>2. Plan(rest, lv, n - 1)
  BY <1>1, PlanGoesOn
<1>3. \A l : /\ \A p \in HoldsAt(rest, lv, l) : p \in HoldsAt(ts, levels, l) \/ (l = n - 1 /\ p \in Holds(new))
             /\ \A p \in HoldsAt(ts, levels, l) : p \in HoldsAt(rest, lv, l) \/ (l = n /\ p \in HoldsOf(ts[1]))
  BY <1>1, HoldsGoOn
<1> HIDE DEF lv
<1>4. n \in Nat /\ n > 0 /\ DOMAIN ss = 1 .. n /\ n - 1 \in Nat \ {0}
  <2>1. n - 1 \in Nat \ {0}
    <3> HIDE DEF n
    <3>1. QED
      BY <1>1, LevelsFall
  <2>2. QED
    BY <1>1, <2>1, ListFacts DEF Plan
<1>5. \A l : \A p : p \in HoldsAt(rest, lv, l) <=> p \in HoldsAt(ts, levels, l)
  <2>1. HoldsOf(ts[1]) = {}
    BY Traits DEF HoldsOf
  <2>2. QED
    BY <1>3, <2>1, Zenon
<1>6. Len(after) = n - 1 /\ DOMAIN after = 1 .. n - 1 /\ \A l \in 1 .. n - 1 : after[l] = ss[l]
  <2> DEFINE T == Elements(ss)
  <2>1. ss \in Seq(T)
    BY DEF IsList
  <2> HIDE DEF T
  <2>2. QED
    BY <1>4, <2>1
<1> HIDE DEF after
<1>7. rest # <<>> /\ rest[1] = new[1]
  BY <1>1, FirstTask DEF Plan, Continues
<1>8. Emits(rest)
  BY <1>7 DEF Emits
<1>9. ASSUME NEW l \in DOMAIN after
      PROVE  JumpsCared(after[l], HoldsAt(rest, lv, l), l = Len(after) => Emits(rest))
  <2>1. l \in 1 .. n /\ after[l] = ss[l]
    BY <1>4, <1>6
  <2>2. JumpsCared(ss[l], HoldsAt(ts, levels, l), l = n => Emits(ts))
    BY <1>4, <2>1 DEF Good
  <2>3. QED
    BY <1>5, <1>8, <2>1, <2>2 DEF JumpsCared
<1>10. Plan(rest, lv, Len(after))
  BY <1>2, <1>6
<1>11. Good(rest, lv, after)
  BY <1>7, <1>9, <1>10 DEF Good
<1>12. QED
  BY <1>11 DEF after
--------------------------------------------------------------------------------
(***************************************************************************)
(* The symbol table.  Its operators are the same ones in the modules that  *)
(* state and prove what holds of it.                                       *)
(***************************************************************************)
LEMMA SameTables ==
  /\ Proved!BuiltinTable = BuiltinTable
  /\ Proved!Symbol = Symbol /\ Proved!Table = Table
  /\ \A t, n : Proved!Bound(t, n) <=> Bound(t, n)
  /\ \A ts, n : Proved!Known(ts, n) <=> Known(ts, n)
  /\ \A ts, n : Proved!Define(ts, n) = Define(ts, n)
  /\ \A ts, n : Proved!OwnerLevel(ts, n) = OwnerLevel(ts, n)
  /\ \A ts, n : Proved!Resolve(ts, n) = Resolve(ts, n)
  /\ \A ts, n : Proved!ResolvedSymbol(ts, n) = ResolvedSymbol(ts, n)
  /\ \A ts : Proved!NewEnclosedSymbolTable(ts) = NewEnclosedSymbolTable(ts)
  /\ \A ts : Proved!OuterTables(ts) = OuterTables(ts)
<1>1. Proved!BuiltinTable = BuiltinTable
  BY DEF Proved!BuiltinTable, BuiltinTable, Proved!NewSymbolTable, NewSymbolTable,
         Proved!IsBuiltin, IsBuiltin, Proved!BuiltinSymbol, BuiltinSymbol,
         Proved!Unbound, Unbound, Proved!Builtin, Builtin
<1>2. Proved!Symbol = Symbol /\ Proved!Table = Table
  BY DEF Proved!Symbol, Symbol, Proved!Table, Table, Proved!Unbound, Unbound,
         Proved!Scopes, Scopes, Proved!Global, Global, Proved!Local, Local,
         Proved!Builtin, Builtin, Proved!Free, Free
<1>3. \A t, n : Proved!Bound(t, n) <=> Bound(t, n)
  BY DEF Proved!Bound, Bound, Proved!Unbound, Unbound
<1>4. \A ts, n : Proved!Known(ts, n) <=> Known(ts, n)
  BY <1>3 DEF Proved!Known, Known
<1>5. \A ts, n : Proved!Define(ts, n) = Define(ts, n)
  <2>1. \A ts, n : Proved!DefinedSymbol(ts, n) = DefinedSymbol(ts, n)
    BY DEF Proved!DefinedSymbol, DefinedSymbol, Proved!Global, Global, Proved!Local, Local
  <2>2. QED
    BY <2>1 DEF Proved!Define, Define
<1>6. \A ts, n : Proved!OwnerLevel(ts, n) = OwnerLevel(ts, n)
  BY DEF Proved!OwnerLevel, OwnerLevel, Proved!Bound, Bound, Proved!Unbound, Unbound
<1>7. \A n, i : Proved!FreeSymbol(n, i) = FreeSymbol(n, i)
  BY DEF Proved!FreeSymbol, FreeSymbol, Proved!Free, Free
<1>8. \A ts, n : Proved!Captured(ts, n) <=> Captured(ts, n)
  BY <1>6 DEF Proved!Captured, Captured, Proved!InFrame, InFrame,
              Proved!Global, Global, Proved!Builtin, Builtin
<1>9. \A ts, n : Proved!Resolve(ts, n) = Resolve(ts, n)
  <2>1. \A ts, n, l : Proved!Original(ts, n, l) = Original(ts, n, l)
    BY <1>6, <1>7 DEF Proved!Original, Original
  <2>2. \A t, o : Proved!DefineFree(t, o) = DefineFree(t, o)
    BY <1>7 DEF Proved!DefineFree, DefineFree
  <2>3. QED
    BY <1>6, <1>8, <2>1, <2>2 DEF Proved!Resolve, Resolve
<1>10. \A ts, n : Proved!ResolvedSymbol(ts, n) = ResolvedSymbol(ts, n)
  BY <1>6, <1>7, <1>8 DEF Proved!ResolvedSymbol, ResolvedSymbol
<1>11. \A ts : Proved!NewEnclosedSymbolTable(ts) = NewEnclosedSymbolTable(ts)
  BY DEF Proved!NewEnclosedSymbolTable, NewEnclosedSymbolTable,
         Proved!NewSymbolTable, NewSymbolTable, Proved!Unbound, Unbound
<1>12. \A ts : Proved!OuterTables(ts) = OuterTables(ts)
  BY DEF Proved!OuterTables, OuterTables
<1>13. QED
  BY <1>1, <1>2, <1>3, <1>4, <1>5, <1>6, <1>9, <1>10, <1>11, <1>12

LEMMA SameScope ==
  /\ Scope!BuiltinTable = BuiltinTable
  /\ \A ts, n : Scope!Known(ts, n) <=> Known(ts, n)
  /\ \A ts, n : Scope!Define(ts, n) = Define(ts, n)
  /\ \A ts, n : Scope!Resolve(ts, n) = Resolve(ts, n)
  /\ \A ts, n : Scope!ResolvedSymbol(ts, n) = ResolvedSymbol(ts, n)
  /\ \A ts : Scope!NewEnclosedSymbolTable(ts) = NewEnclosedSymbolTable(ts)
  /\ \A ts : Scope!OuterTables(ts) = OuterTables(ts)
<1>1. Scope!BuiltinTable = BuiltinTable
  BY DEF Scope!BuiltinTable, BuiltinTable, Scope!NewSymbolTable, NewSymbolTable,
         Scope!IsBuiltin, IsBuiltin, Scope!BuiltinSymbol, BuiltinSymbol,
         Scope!Unbound, Unbound, Scope!Builtin, Builtin
<1>2. \A ts, n : Scope!Known(ts, n) <=> Known(ts, n)
  BY DEF Scope!Known, Known, Scope!Bound, Bound, Scope!Unbound, Unbound
<1>3. \A ts, n : Scope!Define(ts, n) = Define(ts, n)
  <2>1. \A ts, n : Scope!DefinedSymbol(ts, n) = DefinedSymbol(ts, n)
    BY DEF Scope!DefinedSymbol, DefinedSymbol, Scope!Global, Global, Scope!Local, Local
  <2>2. QED
    BY <2>1 DEF Scope!Define, Define
<1>4. \A ts, n : Scope!OwnerLevel(ts, n) = OwnerLevel(ts, n)
  BY DEF Scope!OwnerLevel, OwnerLevel, Scope!Bound, Bound, Scope!Unbound, Unbound
<1>5. \A n, i : Scope!FreeSymbol(n, i) = FreeSymbol(n, i)
  BY DEF Scope!FreeSymbol, FreeSymbol, Scope!Free, Free
<1>6. \A ts, n : Scope!Captured(ts, n) <=> Captured(ts, n)
  BY <1>4 DEF Scope!Captured, Captured, Scope!InFrame, InFrame,
              Scope!Global, Global, Scope!Builtin, Builtin
<1>7. \A ts, n : Scope!Resolve(ts, n) = Resolve(ts, n)
  <2>1. \A ts, n, l : Scope!Original(ts, n, l) = Original(ts, n, l)
    BY <1>4, <1>5 DEF Scope!Original, Original
  <2>2. \A t, o : Scope!DefineFree(t, o) = DefineFree(t, o)
    BY <1>5 DEF Scope!DefineFree, DefineFree
  <2>3. QED
    BY <1>4, <1>6, <2>1, <2>2 DEF Scope!Resolve, Resolve
<1>8. \A ts, n : Scope!ResolvedSymbol(ts, n) = ResolvedSymbol(ts, n)
  BY <1>4, <1>5, <1>6 DEF Scope!ResolvedSymbol, ResolvedSymbol
<1>9. \A ts : Scope!NewEnclosedSymbolTable(ts) = NewEnclosedSymbolTable(ts)
  BY DEF Scope!NewEnclosedSymbolTable, NewEnclosedSymbolTable,
         Scope!NewSymbolTable, NewSymbolTable, Scope!Unbound, Unbound
<1>10. \A ts : Scope!OuterTables(ts) = OuterTables(ts)
  BY DEF Scope!OuterTables, OuterTables
<1>11. QED
  BY <1>1, <1>2, <1>3, <1>7, <1>8, <1>9, <1>10

LEMMA SymbolFacts ==
  ASSUME TablesInv
  PROVE  /\ tables \in Seq(Table) /\ Len(tables) \in Nat \ {0} /\ DOMAIN tables = 1 .. Len(tables)
         /\ \A l \in DOMAIN tables : tables[l] \in Table
         /\ tables[Len(tables)].numDefinitions \in Nat
         /\ tables[Len(tables)].free \in Seq(Symbol)
         /\ \A name \in Names : /\ DefinedSymbol(tables, name).index \in Nat
                                /\ Known(tables, name) => ResolvedSymbol(tables, name) \in Symbol
<1>1. tables \in Seq(Table) /\ tables # <<>>
  BY SameTables DEF TablesInv, Proved!IInv, Proved!TypeOK
<1>2. Len(tables) \in Nat \ {0} /\ DOMAIN tables = 1 .. Len(tables)
  <2>1. IsList(tables)
    BY <1>1, ListFacts
  <2>2. QED
    BY <1>1, <2>1, ListFacts
<1>3. \A l \in DOMAIN tables : tables[l] \in Table
  BY <1>1
<1>4. tables[Len(tables)] \in Table
  BY <1>2, <1>3
<1>5. tables[Len(tables)].numDefinitions \in Nat /\ tables[Len(tables)].free \in Seq(Symbol)
  BY <1>4 DEF Table
<1>6. \A name : DefinedSymbol(tables, name).index = tables[Len(tables)].numDefinitions
  BY DEF DefinedSymbol
<1>7. ASSUME NEW name \in Names, Known(tables, name)
      PROVE  ResolvedSymbol(tables, name) \in Symbol
  <2> DEFINE o == OwnerLevel(tables, name)
  <2>1. o \in 1 .. Len(tables) /\ Bound(tables[o], name)
    <3>1. Nat \subseteq Nat /\ Nat \subseteq Nat
      OBVIOUS
    <3>2. tables \in Seq(Proved!Table) /\ Proved!Known(tables, name)
      BY <1>1, <1>7, SameTables
    <3>3. Proved!OwnerLevel(tables, name) \in 1 .. Len(tables) /\ Proved!Bound(tables[Proved!OwnerLevel(tables, name)], name)
      BY <3>1, <3>2, BuiltinsAssumption, Proved!OwnerExists
    <3>4. QED
      BY <3>3, SameTables
  <2>2. tables[o].store[name] \in Symbol
    <3>1. tables[o] \in Table
      BY <1>2, <1>3, <2>1
    <3>2. tables[o].store[name] \in Symbol \union {Unbound}
      BY <3>1 DEF Table
    <3>3. QED
      BY <2>1, <3>2 DEF Bound
  <2>3. FreeSymbol(name, Len(tables[Len(tables)].free)) \in Symbol
    <3>1. Len(tables[Len(tables)].free) \in Nat
      BY <1>5
    <3>2. QED
      BY <3>1 DEF FreeSymbol, Symbol, Scopes
  <2>4. QED
    BY <2>2, <2>3 DEF ResolvedSymbol
<1>8. QED
  BY <1>1, <1>2, <1>3, <1>5, <1>6, <1>7

LEMMA LoadTask ==
  ASSUME NEW symbol \in Symbol
  PROVE  TaskOK(Load(symbol)) /\ Load(symbol).do = "emit" /\ Load(symbol).op # "OpPop"
<1> DEFINE ops == {"OpGetGlobal", "OpGetLocal", "OpGetBuiltin", "OpGetFree"}
<1>1. symbol.scope \in Scopes /\ symbol.index \in Nat
  BY DEF Symbol
<1>2. \E op \in ops : Load(symbol) = EmitTask(op, <<symbol.index>>)
  BY <1>1 DEF Load, Scopes, Global, Local, Builtin, Free
<1>3. \A op \in ops : op \in (OneByteOperand \union TwoByteOperand) \ Jumps /\ op # "OpPop"
  BY DEF OneByteOperand, TwoByteOperand, Jumps
<1>4. PICK op \in ops : Load(symbol) = EmitTask(op, <<symbol.index>>)
  BY <1>2
<1> HIDE DEF ops
<1>5. QED
  BY <1>1, <1>3, <1>4, EmitTasks

LEMMA StoreTask ==
  ASSUME NEW symbol, symbol.index \in Nat
  PROVE  TaskOK(Store(symbol)) /\ Store(symbol).do = "emit" /\ Store(symbol).op # "OpPop"
<1> DEFINE ops == {"OpSetGlobal", "OpSetLocal"}
<1>1. PICK op \in ops : Store(symbol) = EmitTask(op, <<symbol.index>>)
  BY DEF Store
<1>2. \A o \in ops : o \in (OneByteOperand \union TwoByteOperand) \ Jumps /\ o # "OpPop"
  BY DEF OneByteOperand, TwoByteOperand, Jumps
<1> HIDE DEF ops
<1>3. QED
  BY <1>1, <1>2, EmitTasks

LEMMA CompileLetStep ==
  ASSUME Working, TablesInv, NEW name \in Names, CompileLet(name) PROVE CodeInv'
<1> DEFINE t == CompileTask(todo[1].node.value)
           u == Store(DefinedSymbol(tables, name))
<1>1. Compiling({"LetStatement"}) /\ scopes' = scopes /\ ConstantsGrow
  BY DEF CompileLet, ConstantsGrow
<1>2. /\ Task = todo[1] /\ todo[1].do = "compile"
      /\ todo[1].node.kind = "LetStatement"
      /\ WellFormed(todo[1].node, Expressions, Statements, Blocks)
      /\ todo[1].node \in Statements
  BY <1>1, CompilingFacts DEF StatementKinds
<1>3. CompilesExpression(t)
  BY <1>2 DEF WellFormed, CompilesExpression, CompileTask
<1>4. TaskOK(u) /\ u.do = "emit" /\ u.op # "OpPop"
  BY SymbolFacts, StoreTask
<1>5. Then(<<t, u>>)
  BY <1>2 DEF CompileLet
<1> HIDE DEF t, u
<1>6. ~Waits(u) /\ Consumes(u) /\ ~Valued(todo[1])
  BY <1>2, <1>4, Traits
<1>7. QED
  BY <1>1, <1>2, <1>3, <1>4, <1>5, <1>6, TwoTasks

LEMMA CompileIdentifierStep ==
  ASSUME Working, TablesInv, NEW name \in Names, CompileIdentifier(name) PROVE CodeInv'
<1> DEFINE t == Load(ResolvedSymbol(tables, name))
<1>1. Compiling({"Identifier"}) /\ scopes' = scopes /\ ConstantsGrow /\ Then(<<t>>) /\ Known(tables, name)
  BY DEF CompileIdentifier, ConstantsGrow
<1>2. CompilesExpression(todo[1])
  BY <1>1, CompilingFacts DEF ExpressionKinds
<1>3. TaskOK(t) /\ t.do = "emit" /\ t.op # "OpPop"
  BY <1>1, SymbolFacts, LoadTask
<1> HIDE DEF t
<1>4. QED
  BY <1>1, <1>2, <1>3, ExpressionBecomes

(* A list is appended to and cut like a sequence. *)
LEMMA ListChanges ==
  ASSUME NEW s, IsList(s), NEW e
  PROVE  /\ IsList(Append(s, e)) /\ Append(s, e) # <<>>
         /\ Len(Append(s, e)) = Len(s) + 1 /\ DOMAIN Append(s, e) = 1 .. Len(s) + 1
         /\ Append(s, e)[Len(s) + 1] = e /\ \A i \in 1 .. Len(s) : Append(s, e)[i] = s[i]
         /\ Len(s) - 1 \in Nat \ {0} =>
              LET cut == SubSeq(s, 1, Len(s) - 1) IN
              /\ IsList(cut) /\ Len(cut) = Len(s) - 1 /\ DOMAIN cut = 1 .. Len(s) - 1
              /\ \A i \in 1 .. Len(s) - 1 : cut[i] = s[i]
              /\ cut # <<>>
<1> DEFINE T   == Elements(s) \union {e}
           a   == Append(s, e)
           cut == SubSeq(s, 1, Len(s) - 1)
<1>1. s \in Seq(T)
  <2>1. s \in Seq(Elements(s))
    BY DEF IsList
  <2>2. \A A, B : A \subseteq B => Seq(A) \subseteq Seq(B)
    OBVIOUS
  <2>3. QED
    BY <2>1, <2>2
<1>2. e \in T
  OBVIOUS
<1> HIDE DEF T
<1>3. a \in Seq(T) /\ Len(a) = Len(s) + 1 /\ a[Len(s) + 1] = e /\ \A i \in 1 .. Len(s) : a[i] = s[i]
  BY <1>1, <1>2
<1>4. Len(s) \in Nat
  BY <1>1
<1>5. ASSUME Len(s) - 1 \in Nat \ {0}
      PROVE  cut \in Seq(T) /\ Len(cut) = Len(s) - 1 /\ \A i \in 1 .. Len(s) - 1 : cut[i] = s[i]
  <2> DEFINE m == Len(s) - 1
  <2>1. m \in Nat \ {0} /\ m <= Len(s)
    BY <1>4, <1>5
  <2> HIDE DEF m
  <2>2. /\ SubSeq(s, 1, m) \in Seq(T) /\ Len(SubSeq(s, 1, m)) = m
        /\ \A i \in 1 .. m : SubSeq(s, 1, m)[i] = s[i]
    BY <1>1, <1>4, <2>1
  <2>3. QED
    BY <2>2 DEF m
<1> HIDE DEF a, cut
<1>6. IsList(a) /\ DOMAIN a = 1 .. Len(s) + 1 /\ a # <<>>
  <2>1. IsList(a)
    BY <1>3, ListFacts
  <2>2. QED
    BY <1>3, <1>4, <2>1, ListFacts
<1>7. ASSUME Len(s) - 1 \in Nat \ {0}
      PROVE  IsList(cut) /\ DOMAIN cut = 1 .. Len(s) - 1 /\ cut # <<>>
  <2>1. IsList(cut)
    BY <1>5, <1>7, ListFacts
  <2>2. QED
    BY <1>5, <1>7, <2>1, ListFacts
<1>8. QED
  BY <1>3, <1>5, <1>6, <1>7 DEF a, cut

LEMMA CompileFunctionStep ==
  ASSUME Working, CompileFunction PROVE CodeInv'
<1> DEFINE h == todo[1]
           p == h.node.parameters
           parameter(i) == [do |-> "parameter", name |-> p[i]]
           c == [i \in DOMAIN p |-> parameter(i)]
           body == CompileTask(h.node.body)
           leave == [do |-> "leave", numParameters |-> Len(p)]
           first == c \o <<body>>
           new == first \o <<leave>>
           n == Len(scopes)
<1>1. Compiling({"FunctionLiteral"}) /\ constants' = constants /\ scopes' = Append(scopes, NewCompilationScope)
  BY DEF CompileFunction
<1>2. /\ Task = h /\ h.do = "compile" /\ ~Holder(h) /\ h.do # "leave"
      /\ h.node.kind = "FunctionLiteral"
      /\ WellFormed(h.node, Expressions, Statements, Blocks)
      /\ CompilesExpression(h)
  BY <1>1, CompilingFacts DEF ExpressionKinds
<1>3. DOMAIN p = 1 .. Len(p) /\ Len(p) \in Nat /\ h.node.body \in Blocks
  BY <1>2 DEF WellFormed
<1>4. IsList(c) /\ Len(c) = Len(p) /\ \A i \in 1 .. Len(p) : c[i] = parameter(i)
  <2> DEFINE T == {parameter(i) : i \in 1 .. Len(p)}
             k == Len(p)
  <2>1. c = [i \in 1 .. k |-> parameter(i)] /\ k \in Nat
    BY <1>3
  <2>2. \A i \in 1 .. k : parameter(i) \in T
    OBVIOUS
  <2> HIDE DEF T, k, parameter
  <2>3. c \in Seq(T) /\ Len(c) = k
    BY <2>1, <2>2
  <2>4. IsList(c)
    BY <2>3, ListFacts
  <2>5. QED
    BY <2>1, <2>3, <2>4 DEF k
<1>5. \A i \in 1 .. Len(c) : c[i].do = "parameter"
  BY <1>4
<1>6. CompilesBlock(body) /\ body.do # "leave" /\ leave.do = "leave"
  BY <1>3 DEF CompilesBlock, CompileTask
<1>7. Then(new)
  <2>1. Then(c \o <<body, leave>>)
    BY <1>2 DEF CompileFunction
  <2>2. IsList(c)
    BY <1>4
  <2> HIDE DEF c, body, leave
  <2>3. \A t, u : c \o <<t, u>> = (c \o <<t>>) \o <<u>>
    BY <2>2, OneMore
  <2>4. QED
    BY <2>1, <2>3, Zenon
<1> HIDE DEF c, body, leave
<1>8. /\ IsList(first) /\ Len(first) = Len(c) + 1 /\ Len(c) \in Nat
      /\ \A i \in 1 .. Len(c) : first[i] = c[i]
      /\ first[Len(c) + 1] = body
  <2>1. IsList(c)
    BY <1>4
  <2>2. QED
    BY <2>1, OneMore
<1> HIDE DEF first
<1>9. \A i \in 1 .. Len(first) :
        /\ TaskOK(first[i]) /\ first[i].do # "leave"
        /\ ~Waits(first[i]) /\ ~Needs(first[i]) /\ ~Holder(first[i])
  <2>1. SUFFICES ASSUME NEW i \in 1 .. Len(first)
                 PROVE  CompilesBlock(first[i]) \/ first[i].do = "parameter"
    BY <2>1, Traits DEF CompilesBlock
  <2>2. i \in 1 .. Len(c) \/ i = Len(c) + 1
    BY <1>8
  <2>3. QED
    BY <1>5, <1>6, <1>8, <2>2
<1>10. n \in Nat \ {0} /\ IsList(scopes) /\ IsList(todo) /\ todo # <<>>
  BY WorkingFacts DEF Working
<1>11. /\ Continues(new, h, n, n + 1)
       /\ Holds(new) = {}
       /\ new # <<>>
       /\ ~Needs(new[1])
  <2>1. LevelAfter(leave, n + 1) = n /\ LevelAfter(h, n) = n /\ n + 1 \in Nat \ {0}
    BY <1>2, <1>6, <1>10 DEF LevelAfter
  <2>2. TaskOK(leave) /\ ~Needs(leave) /\ ~Holder(leave) /\ Valued(leave) /\ Waits(h)
    BY <1>2, <1>6, Traits
  <2> HIDE DEF h, n
  <2>3. QED
    BY <1>8, <1>9, <2>1, <2>2, RunThenLast
<1> HIDE DEF new
<1>12. \E lv : Good(todo', lv, scopes')
  <2>1. PICK levels : Good(todo, levels, scopes)
    BY DEF Working, CodeInv
  <2>2. JumpsIn(NewCompilationScope) = {}
    BY NewScope
  <2>3. \E lv : Good(new \o Tail(todo), lv, Append(scopes, NewCompilationScope))
    BY <1>2, <1>10, <1>11, <2>1, <2>2, EnterGood
  <2>4. QED
    BY <1>1, <1>7, <2>3 DEF Then
<1>13. IsList(scopes') /\ scopes' # <<>> /\ \A l \in DOMAIN scopes' : ScopeOK(scopes'[l])
  <2>1. /\ IsList(scopes') /\ scopes' # <<>> /\ DOMAIN scopes' = 1 .. n + 1
        /\ scopes'[n + 1] = NewCompilationScope /\ \A i \in 1 .. n : scopes'[i] = scopes[i]
    BY <1>1, <1>10, ListChanges
  <2>2. \A l \in 1 .. n + 1 : l \in 1 .. n \/ l = n + 1
    BY <1>10
  <2>3. \A l \in 1 .. n : ScopeOK(scopes[l])
    BY WorkingFacts DEF Working, CodeInv
  <2>4. QED
    BY <2>1, <2>2, <2>3, NewScope
<1>14. QED
  BY <1>1, <1>12, <1>13, ConstantsKept DEF Working, CodeInv, ConstantsGrow

(* The jumps of a function that is left have all been patched. *)
LEMMA FunctionMade ==
  ASSUME Working, todo[1].do = "leave", NEW numLocals, NEW numParameters
  PROVE  FunctionOK(CompiledFunction(ReturnAtEnd(Innermost), numLocals, numParameters))
<1> DEFINE n  == Len(scopes)
           s  == Innermost
           r  == ReturnAtEnd(s)
           fn == CompiledFunction(r, numLocals, numParameters)
<1>1. PICK levels : Good(todo, levels, scopes)
  BY DEF Working, CodeInv
<1>2. n \in DOMAIN scopes /\ s = scopes[n] /\ ScopeOK(s)
  <2>1. n \in Nat \ {0} /\ DOMAIN scopes = 1 .. n
    BY WorkingFacts
  <2> HIDE DEF n
  <2>2. n \in 1 .. n
    BY <2>1
  <2>3. QED
    BY <2>1, <2>2, InnermostFacts DEF n
<1>3. HoldsAt(todo, levels, n) = {}
  <2>1. Plan(todo, levels, n) /\ todo # <<>>
    BY <1>1 DEF Good, Working
  <2> HIDE DEF n
  <2>2. QED
    BY <2>1, LevelsFall
<1>4. ~Emits(todo)
  BY Traits DEF Emits, CompilesBlock
<1>5. JumpsCared(s, {}, FALSE)
  <2>1. JumpsCared(scopes[n], HoldsAt(todo, levels, n), n = Len(scopes) => Emits(todo))
    BY <1>1, <1>2 DEF Good
  <2>2. QED
    BY <1>2, <1>3, <1>4, <2>1 DEF JumpsCared
<1>6. \A p \in JumpsIn(s) : Lands(s, p)
  BY <1>5 DEF JumpsCared
<1>7. Ended(s, r)
  BY <1>2, Returning
<1>8. fn.ins = r.ins /\ fn.len = r.len
  BY DEF CompiledFunction
<1> HIDE DEF s, r, fn
<1>9. CodeOK(r) => CodeOK(fn)
  BY <1>8 DEF CodeOK, Tiled
<1>10. /\ JumpsIn(fn) = JumpsIn(r)
       /\ \A p : Lands(r, p) => Lands(fn, p)
  BY <1>8 DEF JumpsIn, Lands
<1>11. FunctionOK(fn)
  BY <1>6, <1>7, <1>8, <1>9, <1>10 DEF FunctionOK, Ended
<1>12. QED
  BY <1>11 DEF fn, r, s

LEMMA LeaveFunctionStep ==
  ASSUME Working, TablesInv, LeaveFunction PROVE CodeInv'
<1> DEFINE h == todo[1]
           free == tables[Len(tables)].free
           fn == CompiledFunction(ReturnAtEnd(Innermost), tables[Len(tables)].numDefinitions,
                                  h.numParameters)
           c == [i \in DOMAIN free |-> Load(free[i])]
           closure == [do |-> "closure", fn |-> fn, numFree |-> Len(free)]
           new == c \o <<closure>>
           n == Len(scopes)
<1>1. Task = h /\ n \in Nat \ {0} /\ IsList(scopes) /\ IsList(todo) /\ todo # <<>>
  BY WorkingFacts DEF Working
<1>2. h.do = "leave" /\ constants' = constants /\ scopes' = SubSeq(scopes, 1, n - 1) /\ Then(new)
  BY <1>1 DEF LeaveFunction, Resuming
<1>3. PICK levels : Good(todo, levels, scopes)
  BY DEF Working, CodeInv
<1>4. n - 1 \in Nat \ {0}
  <2>1. Plan(todo, levels, n)
    BY <1>3 DEF Good
  <2> HIDE DEF n
  <2>2. QED
    BY <1>1, <1>2, <2>1, LevelsFall
<1>5. FunctionOK(fn)
  BY <1>2, FunctionMade
<1>6. free \in Seq(Symbol)
  BY SymbolFacts
<1> HIDE DEF fn, free, n
<1>7. IsList(c) /\ Len(c) = Len(free) /\ Len(free) \in Nat /\ \A i \in 1 .. Len(free) : c[i] = Load(free[i]) /\ free[i] \in Symbol
  <2> DEFINE T == {Load(symbol) : symbol \in Symbol}
             k == Len(free)
  <2>1. k \in Nat /\ DOMAIN free = 1 .. k /\ \A i \in 1 .. k : free[i] \in Symbol
    BY <1>6
  <2>2. \A i \in 1 .. k : Load(free[i]) \in T
    BY <2>1
  <2>3. c = [i \in 1 .. k |-> Load(free[i])]
    BY <2>1
  <2> HIDE DEF T, k, c
  <2>4. c \in Seq(T) /\ Len(c) = k
    BY <2>1, <2>2, <2>3
  <2>5. IsList(c)
    BY <2>4, ListFacts
  <2>6. QED
    BY <2>1, <2>3, <2>4, <2>5 DEF k
<1> HIDE DEF c
<1>8. \A i \in 1 .. Len(c) :
        /\ TaskOK(c[i]) /\ c[i].do # "leave"
        /\ ~Waits(c[i]) /\ ~Needs(c[i]) /\ ~Holder(c[i]) /\ Emitting(c[i])
  <2>1. SUFFICES ASSUME NEW i \in 1 .. Len(c)
                 PROVE  TaskOK(c[i]) /\ c[i].do = "emit" /\ c[i].op # "OpPop"
    BY <2>1, Traits
  <2>2. c[i] = Load(free[i]) /\ free[i] \in Symbol
    BY <1>7
  <2>3. QED
    BY <2>2, LoadTask
<1>9. TaskOK(closure) /\ closure.do = "closure"
  <2>1. closure.do = "closure" /\ closure.fn = fn /\ closure.numFree = Len(free)
    OBVIOUS
  <2> HIDE DEF closure
  <2>2. QED
    BY <1>5, <1>7, <2>1 DEF TaskOK
<1> HIDE DEF closure
<1>10. /\ Continues(new, h, n, n - 1)
       /\ Holds(new) = {}
       /\ new # <<>>
       /\ ~Needs(new[1]) /\ Emitting(new[1])
  <2>1. LevelAfter(closure, n - 1) = n - 1 /\ LevelAfter(h, n) = n - 1
    BY <1>2, <1>9 DEF LevelAfter
  <2>2. ~Waits(closure) /\ ~Needs(closure) /\ ~Holder(closure) /\ Valued(closure) /\ Emitting(closure)
    BY <1>9, Traits
  <2> HIDE DEF h
  <2> DEFINE m == n - 1
  <2>3. m \in Nat \ {0} /\ LevelAfter(closure, m) = LevelAfter(h, n)
    BY <1>4, <2>1
  <2> HIDE DEF m
  <2>4. /\ Continues(new, h, n, m)
        /\ Holds(new) = {}
        /\ new # <<>>
        /\ ~Needs(new[1]) /\ Emitting(new[1])
    BY <1>7, <1>8, <1>9, <2>2, <2>3, RunThenLast
  <2>5. QED
    BY <2>4 DEF m
<1> HIDE DEF new
<1>11. \E lv : Good(todo', lv, scopes')
  <2>1. \E lv : Good(new \o Tail(todo), lv, SubSeq(scopes, 1, Len(scopes) - 1))
    BY <1>1, <1>2, <1>3, <1>10, LeaveGood DEF n
  <2>2. QED
    BY <1>2, <2>1 DEF Then, n
<1>12. IsList(scopes') /\ scopes' # <<>> /\ \A l \in DOMAIN scopes' : ScopeOK(scopes'[l])
  <2>1. /\ IsList(scopes') /\ scopes' # <<>> /\ DOMAIN scopes' = 1 .. n - 1
        /\ \A i \in 1 .. n - 1 : scopes'[i] = scopes[i]
    BY <1>1, <1>2, <1>4, ListChanges DEF n
  <2>2. \A l \in 1 .. n - 1 : l \in DOMAIN scopes
    BY <1>1, WorkingFacts DEF n
  <2>3. \A l \in DOMAIN scopes : ScopeOK(scopes[l])
    BY DEF Working, CodeInv
  <2>4. QED
    BY <2>1, <2>2, <2>3
<1>13. QED
  BY <1>2, <1>11, <1>12, ConstantsKept DEF Working, CodeInv, ConstantsGrow
--------------------------------------------------------------------------------
(***************************************************************************)
(* The steps without a task, the first state, and every step.              *)
(***************************************************************************)
LEMMA LastSteps ==
  /\ CodeInv /\ (\E name \in Names : UndefinedVariable(name)) => CodeInv'
  /\ CodeInv /\ (Returned \/ UNCHANGED vars) => CodeInv'
<1>1. ASSUME CodeInv, NEW name \in Names, UndefinedVariable(name) PROVE CodeInv'
  <2>1. constants' = constants /\ scopes' = scopes /\ status' = "undefined variable"
    BY <1>1 DEF UndefinedVariable
  <2>2. QED
    BY <1>1, <2>1 DEF CodeInv
<1>2. ASSUME CodeInv, UNCHANGED vars PROVE CodeInv'
  <2>1. constants' = constants /\ scopes' = scopes /\ status' = status /\ todo' = todo
    BY <1>2 DEF vars
  <2>2. QED
    BY <1>2, <2>1 DEF CodeInv
<1>3. QED
  BY <1>1, <1>2 DEF Returned

LEMMA CompiledStep ==
  ASSUME CodeInv, Compiled PROVE CodeInv'
<1>1. status = "compiling" /\ todo = <<>> /\ status' = "compiled" /\ constants' = constants /\ scopes' = scopes
  BY DEF Compiled
<1>2. PICK levels : Good(todo, levels, scopes)
  BY <1>1 DEF CodeInv
<1>3. Plan(todo, levels, Len(scopes))
  BY <1>2 DEF Good
<1>4. Len(scopes) = 1
  BY <1>1, <1>3 DEF Plan
<1>5. 1 \in DOMAIN scopes
  <2>1. IsList(scopes)
    BY DEF CodeInv
  <2> DEFINE k == Len(scopes)
  <2>2. DOMAIN scopes = 1 .. k /\ k = 1
    BY <1>4, <2>1, ListFacts
  <2> HIDE DEF k
  <2>3. QED
    BY <2>2
<1>6. HoldsAt(todo, levels, 1) = {}
  <2>1. DOMAIN todo = {}
    BY <1>1
  <2>2. QED
    BY <2>1 DEF HoldsAt
<1>7. ~Emits(todo)
  BY <1>1 DEF Emits
<1>8. JumpsCared(scopes[1], {}, FALSE)
  <2>1. JumpsCared(scopes[1], HoldsAt(todo, levels, 1), 1 = Len(scopes) => Emits(todo))
    BY <1>2, <1>5 DEF Good
  <2>2. QED
    BY <1>4, <1>6, <1>7, <2>1 DEF JumpsCared
<1>9. \A p \in JumpsIn(scopes[1]) : Lands(scopes[1], p)
  BY <1>8 DEF JumpsCared
<1>10. QED
  BY <1>1, <1>9 DEF CodeInv

LEMMA CodeStep ==
  ASSUME IInv, [Next]_vars PROVE CodeInv'
<1>0. TablesInv /\ CodeInv
  BY DEF IInv
<1>1. ASSUME status = "compiling", status' = status, todo # <<>> PROVE Working
  BY <1>0, <1>1 DEF Working
<1>2. CASE CompileLiteral
  BY <1>1, <1>2, CompileLiteralStep DEF CompileLiteral, Compiling
<1>3. CASE CompileBoolean
  BY <1>1, <1>3, CompileBooleanStep DEF CompileBoolean, Compiling
<1>4. CASE CompileParts
  BY <1>1, <1>4, CompilePartsStep DEF CompileParts, Compiling
<1>5. CASE EmitInstruction
  BY <1>1, <1>5, EmitInstructionStep DEF EmitInstruction, Resuming
<1>6. ASSUME NEW name \in Names, CompileLet(name) PROVE CodeInv'
  BY <1>0, <1>1, <1>6, CompileLetStep DEF CompileLet, Compiling
<1>7. ASSUME NEW name \in Names, CompileIdentifier(name) PROVE CodeInv'
  BY <1>0, <1>1, <1>7, CompileIdentifierStep DEF CompileIdentifier, Compiling
<1>8. ASSUME NEW name \in Names, DefineParameter(name) PROVE CodeInv'
  BY <1>1, <1>8, DefineParameterStep DEF DefineParameter, Resuming
<1>9. CASE CompileIf
  BY <1>1, <1>9, CompileIfStep DEF CompileIf, Compiling
<1>10. CASE JumpOverConsequence
  BY <1>1, <1>10, JumpOverConsequenceStep DEF JumpOverConsequence, Resuming
<1>11. CASE JumpOverAlternative
  BY <1>1, <1>11, JumpOverAlternativeStep DEF JumpOverAlternative, Resuming
<1>12. CASE EndIf
  BY <1>1, <1>12, EndIfStep DEF EndIf, Resuming
<1>13. CASE CompileFunction
  BY <1>1, <1>13, CompileFunctionStep DEF CompileFunction, Compiling
<1>14. CASE LeaveFunction
  BY <1>0, <1>1, <1>14, LeaveFunctionStep DEF LeaveFunction, Resuming
<1>15. CASE EmitClosure
  BY <1>1, <1>15, EmitClosureStep DEF EmitClosure, Resuming
<1>16. ASSUME NEW name \in Names, UndefinedVariable(name) PROVE CodeInv'
  BY <1>0, <1>16, LastSteps
<1>17. CASE Compiled
  BY <1>0, <1>17, CompiledStep
<1>18. CASE Returned \/ UNCHANGED vars
  BY <1>0, <1>18, LastSteps
<1>19. QED
  BY <1>2, <1>3, <1>4, <1>5, <1>6, <1>7, <1>8, <1>9, <1>10, <1>11, <1>12, <1>13, <1>14,
     <1>15, <1>16, <1>17, <1>18 DEF Next

(* What the compiler calls the symbol table for. *)
Calls ==
  \/ \E name \in Names : tables' = Define(tables, name) /\ reply' = <<>>
  \/ \E name \in Names : /\ Known(tables, name)
                         /\ tables' = Resolve(tables, name)
                         /\ reply' = <<name, ResolvedSymbol(tables, name)>>
  \/ \E name \in Names : ~Known(tables, name) /\ tables' = tables /\ reply' = <<name>>
  \/ tables' = NewEnclosedSymbolTable(tables) /\ reply' = <<>>
  \/ Len(tables) > 1 /\ tables' = OuterTables(tables) /\ reply' = <<>>
  \/ tables' = tables /\ reply' = reply

LEMMA CallsAllowed ==
  ASSUME TablesInv, Calls
  PROVE  [Proved!Next]_(Proved!vars) /\ [Scope!Next]_(Scope!vars)
<1>1. tables[Len(tables)].numDefinitions \in Nat /\ Len(tables) + 1 \in Nat
  BY SymbolFacts
<1>2. CASE \E name \in Names : tables' = Define(tables, name) /\ reply' = <<>>
  BY <1>1, <1>2, SameTables, SameScope
     DEF Proved!Next, Scope!Next, Proved!DefineName, Scope!DefineName, Proved!Current, Scope!Current
<1>3. CASE \E name \in Names : /\ Known(tables, name)
                               /\ tables' = Resolve(tables, name)
                               /\ reply' = <<name, ResolvedSymbol(tables, name)>>
  BY <1>3, SameTables, SameScope DEF Proved!Next, Scope!Next, Proved!ResolveName, Scope!ResolveName
<1>4. CASE \E name \in Names : ~Known(tables, name) /\ tables' = tables /\ reply' = <<name>>
  BY <1>4, SameTables, SameScope
     DEF Proved!Next, Scope!Next, Proved!ResolveUndefined, Scope!ResolveUndefined
<1>5. CASE tables' = NewEnclosedSymbolTable(tables) /\ reply' = <<>>
  BY <1>1, <1>5, SameTables, SameScope DEF Proved!Next, Scope!Next, Proved!EnterScope, Scope!EnterScope
<1>6. CASE Len(tables) > 1 /\ tables' = OuterTables(tables) /\ reply' = <<>>
  BY <1>6, SameTables, SameScope DEF Proved!Next, Scope!Next, Proved!LeaveScope, Scope!LeaveScope
<1>7. CASE tables' = tables /\ reply' = reply
  BY <1>7 DEF Proved!vars, Scope!vars
<1>8. QED
  BY <1>2, <1>3, <1>4, <1>5, <1>6, <1>7 DEF Calls

(* A compilation scope is entered and left together with a symbol table.   *)
Entered ==
  /\ scopes' = Append(scopes, NewCompilationScope)
  /\ tables' = NewEnclosedSymbolTable(tables)
  /\ reply' = <<>>

Left ==
  /\ Len(scopes) - 1 \in Nat \ {0}
  /\ scopes' = SubSeq(scopes, 1, Len(scopes) - 1)
  /\ tables' = OuterTables(tables)
  /\ reply' = <<>>

Stayed ==
  /\ DOMAIN scopes' = DOMAIN scopes
  /\ DOMAIN tables' = DOMAIN tables
  /\ \/ \E name \in Names : tables' = Define(tables, name) /\ reply' = <<>>
     \/ \E name \in Names : /\ Known(tables, name)
                            /\ tables' = Resolve(tables, name)
                            /\ reply' = <<name, ResolvedSymbol(tables, name)>>
     \/ \E name \in Names : ~Known(tables, name) /\ tables' = tables /\ reply' = <<name>>
     \/ tables' = tables /\ reply' = reply

LEMMA ScopeMoves ==
  ASSUME IInv, [Next]_vars
  PROVE  Entered \/ Left \/ Stayed
<1>0. TablesInv /\ CodeInv
  BY DEF IInv
<1>1. \A r : DOMAIN InScope(r) = DOMAIN scopes
  BY DEF InScope
<1>2. \A name : DOMAIN Define(tables, name) = DOMAIN tables
  BY DEF Define
<1>3. \A name : DOMAIN Resolve(tables, name) = DOMAIN tables
  BY DEF Resolve
<1>4. CASE UNCHANGED <<scopes, tables, reply>>
  BY <1>4 DEF Stayed
<1>5. CASE EmitInstruction \/ JumpOverConsequence \/ JumpOverAlternative \/ EndIf \/ EmitClosure
  <2>1. (\E r : scopes' = InScope(r)) /\ tables' = tables /\ reply' = reply
    BY <1>5 DEF EmitInstruction, JumpOverConsequence, JumpOverAlternative, EndIf, EmitClosure
  <2>2. QED
    BY <1>1, <2>1 DEF Stayed
<1>6. ASSUME NEW name \in Names, CompileLet(name) \/ DefineParameter(name) PROVE Stayed
  <2>1. scopes' = scopes /\ tables' = Define(tables, name) /\ reply' = <<>>
    BY <1>6 DEF CompileLet, DefineParameter
  <2>2. QED
    BY <1>2, <2>1 DEF Stayed
<1>7. ASSUME NEW name \in Names, CompileIdentifier(name) PROVE Stayed
  <2>1. /\ scopes' = scopes /\ Known(tables, name) /\ tables' = Resolve(tables, name)
        /\ reply' = <<name, ResolvedSymbol(tables, name)>>
    BY <1>7 DEF CompileIdentifier
  <2>2. QED
    BY <1>3, <2>1 DEF Stayed
<1>8. ASSUME NEW name \in Names, UndefinedVariable(name) PROVE Stayed
  <2>1. scopes' = scopes /\ ~Known(tables, name) /\ tables' = tables /\ reply' = <<name>>
    BY <1>8 DEF UndefinedVariable
  <2>2. QED
    BY <2>1 DEF Stayed
<1>9. CASE CompileFunction
  BY <1>9 DEF CompileFunction, Entered
<1>10. CASE LeaveFunction
  <2>1. status = "compiling" /\ todo # <<>> /\ Task.do = "leave"
    BY <1>10 DEF LeaveFunction, Resuming
  <2>2. PICK levels : Good(todo, levels, scopes)
    BY <1>0, <2>1 DEF CodeInv
  <2> DEFINE n == Len(scopes)
  <2>3. Plan(todo, levels, n)
    BY <2>2 DEF Good
  <2> HIDE DEF n
  <2>4. todo[1].do = "leave"
    BY <2>1, <2>3, FirstTask DEF Plan, Task
  <2>5. n - 1 \in Nat \ {0}
    BY <2>1, <2>3, <2>4, LevelsFall
  <2>6. QED
    BY <1>10, <2>5 DEF LeaveFunction, Left, n
<1>11. CASE CompileLiteral \/ CompileBoolean \/ CompileParts \/ CompileIf \/ Compiled \/ Returned \/ UNCHANGED vars
  BY <1>4, <1>11 DEF CompileLiteral, CompileBoolean, CompileParts, CompileIf, Compiled, Returned, vars
<1>12. QED
  BY <1>5, <1>6, <1>7, <1>8, <1>9, <1>10, <1>11 DEF Next

LEMMA TablesStep ==
  ASSUME IInv, [Next]_vars
  PROVE  [Scope!Next]_(Scope!vars) /\ TablesInv'
<1>1. TablesInv /\ CodeInv /\ CodeInv'
  BY CodeStep DEF IInv
<1>2. Entered \/ Left \/ Stayed
  BY ScopeMoves
<1>3. Calls
  BY <1>1, <1>2 DEF Entered, Left, Stayed, Calls, TablesInv
<1>4. [Proved!Next]_(Proved!vars) /\ [Scope!Next]_(Scope!vars)
  BY <1>1, <1>3, CallsAllowed
<1>5. Proved!IInv'
  <2>1. Nat \subseteq Nat /\ Nat \subseteq Nat
    OBVIOUS
  <2>2. Proved!IInv
    BY <1>1 DEF TablesInv
  <2>3. QED
    BY <1>4, <2>1, <2>2, BuiltinsAssumption, Proved!NextIInv, Zenon
<1>6. Len(tables') = Len(scopes')
  <2>1. Len(tables) = Len(scopes) /\ IsList(scopes) /\ IsList(scopes') /\ IsList(tables)
    BY <1>1, SymbolFacts, ListFacts DEF TablesInv, CodeInv
  <2>2. IsList(tables')
    BY <1>5, ListFacts DEF Proved!IInv, Proved!TypeOK
  <2>3. CASE Entered
    <3>1. \E table : tables' = Append(tables, table)
      BY <2>3 DEF Entered, NewEnclosedSymbolTable
    <3>2. QED
      BY <2>1, <2>3, <3>1, ListChanges DEF Entered
  <2>4. CASE Left
    <3>1. tables' = SubSeq(tables, 1, Len(tables) - 1)
      BY <2>4 DEF Left, OuterTables
    <3>2. QED
      BY <2>1, <2>4, <3>1, ListChanges DEF Left
  <2>5. CASE Stayed
    <3> DEFINE j == Len(tables')
               k == Len(scopes')
               m == Len(scopes)
    <3>1. j \in Nat /\ k \in Nat /\ m \in Nat /\ 1 .. j = 1 .. m /\ 1 .. k = 1 .. m
      BY <2>1, <2>2, <2>5, ListFacts DEF Stayed
    <3> HIDE DEF j, k, m
    <3>2. j = m /\ k = m
      BY <3>1
    <3>3. QED
      BY <3>2 DEF j, k
  <2>6. QED
    BY <1>2, <2>3, <2>4, <2>5
<1>7. QED
  BY <1>4, <1>5, <1>6 DEF TablesInv

LEMMA InitIInv == Init => IInv
<1> SUFFICES ASSUME Init PROVE IInv
  OBVIOUS
<1> DEFINE t == CompileTask(program)
           s == NewCompilationScope
           levels == [i \in 1 .. 1 |-> 1]
<1>1. /\ program \in Programs /\ todo = <<t>> /\ scopes = <<s>> /\ constants = <<>>
      /\ tables = <<BuiltinTable>> /\ reply = <<>> /\ status = "compiling"
  BY DEF Init
<1>2. CompilesBlock(t)
  BY <1>1, NodesWellFormed DEF CompilesBlock, CompileTask
<1>3. TaskOK(t) /\ ~Waits(t) /\ ~Needs(t) /\ ~Holder(t)
  BY <1>2, Traits
<1>4. ScopeOK(s) /\ JumpsIn(s) = {}
  BY NewScope
<1> HIDE DEF t, s
<1>5. \A x : IsList(<<x>>) /\ DOMAIN <<x>> = 1 .. 1 /\ Len(<<x>>) = 1 /\ <<x>>[1] = x /\ <<x>> # <<>>
  <2> SUFFICES ASSUME NEW x
               PROVE  IsList(<<x>>) /\ DOMAIN <<x>> = 1 .. 1 /\ Len(<<x>>) = 1 /\ <<x>>[1] = x /\ <<x>> # <<>>
    OBVIOUS
  <2>1. <<x>> \in Seq({x})
    OBVIOUS
  <2>2. IsList(<<x>>)
    BY <2>1, ListFacts
  <2>3. Len(<<x>>) = 1
    OBVIOUS
  <2>4. DOMAIN <<x>> = 1 .. 1 /\ <<x>>[1] = x /\ <<x>> # <<>>
    OBVIOUS
  <2>5. QED
    BY <2>2, <2>3, <2>4, Zenon
<1>6. IsList(todo) /\ DOMAIN todo = 1 .. 1 /\ Len(todo) = 1 /\ todo[1] = t /\ todo # <<>>
  BY <1>1, <1>5
<1>7. IsList(scopes) /\ DOMAIN scopes = 1 .. 1 /\ Len(scopes) = 1 /\ scopes[1] = s /\ scopes # <<>>
  BY <1>1, <1>5
<1>8. Plan(todo, levels, 1)
  <2>1. levels \in [DOMAIN todo -> Nat \ {0}] /\ levels[1] = 1 /\ \A i \in 1 .. 1 : i = 1
    BY <1>6
  <2> HIDE DEF levels
  <2>2. \A i \in DOMAIN todo :
          /\ TaskOK(todo[i])
          /\ i = Len(todo) => levels[i] = 1 /\ ~Waits(todo[i])
          /\ i < Len(todo) => /\ levels[i + 1] = LevelAfter(todo[i], levels[i])
                              /\ Follows(todo[i], todo[i + 1])
    BY <1>3, <1>6, <2>1
  <2>3. \A i, j \in DOMAIN todo : i < j => LevelAfter(todo[i], levels[i]) >= levels[j]
    BY <1>6, <2>1
  <2>4. 1 \in Nat \ {0}
    OBVIOUS
  <2>5. QED
    BY <1>6, <2>1, <2>2, <2>3, <2>4 DEF Plan
<1> HIDE DEF levels
<1>9. Good(todo, levels, scopes)
  <2>1. \A l : HoldsAt(todo, levels, l) = {}
    <3>1. \A i \in 1 .. 1 : i = 1
      OBVIOUS
    <3>2. QED
      BY <1>3, <1>6, <3>1 DEF HoldsAt
  <2>2. \A l \in DOMAIN scopes :
          JumpsCared(scopes[l], HoldsAt(todo, levels, l), l = Len(scopes) => Emits(todo))
    <3>1. \A l \in DOMAIN scopes : scopes[l] = s
      BY <1>7
    <3>2. QED
      BY <1>4, <2>1, <3>1 DEF JumpsCared
  <2>3. QED
    BY <1>3, <1>6, <1>7, <1>8, <2>2 DEF Good
<1>10. CodeInv
  <2>1. IsList(constants) /\ DOMAIN constants = {}
    <3>1. <<>> \in Seq({}) /\ DOMAIN <<>> = {}
      OBVIOUS
    <3>2. IsList(<<>>)
      BY <3>1, ListFacts
    <3>3. QED
      BY <1>1, <3>1, <3>2
  <2>2. \A l \in DOMAIN scopes : ScopeOK(scopes[l])
    BY <1>4, <1>7
  <2>3. QED
    BY <1>1, <1>7, <1>9, <2>1, <2>2 DEF CodeInv
<1>11. TablesInv
  <2>1. Nat \subseteq Nat /\ Nat \subseteq Nat
    OBVIOUS
  <2>2. Proved!Init
    BY <1>1, SameTables DEF Proved!Init
  <2>3. Proved!IInv
    BY <2>1, <2>2, BuiltinsAssumption, Proved!InitIInv, Zenon
  <2>4. Len(tables) = 1
    BY <1>1, <1>5
  <2>5. QED
    BY <1>7, <2>3, <2>4 DEF TablesInv
<1>12. QED
  BY <1>10, <1>11 DEF IInv

LEMMA NextIInv == IInv /\ [Next]_vars => IInv'
BY CodeStep, TablesStep DEF IInv

--------------------------------------------------------------------------------
(***************************************************************************)
(* The theorems.                                                           *)
(***************************************************************************)

(* The inductive invariant: the tasks that are left are a plan, every jump *)
(* without a target is in somebody's care, every scope's code is whole, and*)
(* the symbol table's own invariant holds beside them.                     *)
THEOREM Invariance == Spec => []IInv
<1>1. Init => IInv
  BY InitIInv
<1>2. IInv /\ [Next]_vars => IInv'
  BY NextIInv
<1>3. QED
  BY <1>1, <1>2, PTL DEF Spec

(* The compiler calls the symbol table as module Scoping allows: it never  *)
(* leaves the global scope, and there is a table to define and resolve in. *)
THEOREM UsesScoping == Spec => ImplementsScoping
<1>1. Init => Scope!Init
  BY SameScope DEF Init, Scope!Init
<1>2. IInv /\ [Next]_vars => [Scope!Next]_(Scope!vars)
  BY TablesStep
<1>3. QED
  BY <1>1, <1>2, Invariance, PTL DEF Spec, ImplementsScoping, Scope!Spec

LEMMA SameCalls ==
  /\ Scope!Init => Proved!Init
  /\ [Scope!Next]_(Scope!vars) => [Proved!Next]_(Proved!vars)
<1>1. Scope!Init => Proved!Init
  BY SameTables, SameScope DEF Scope!Init, Proved!Init
<1>2. ASSUME NEW name
      PROVE  /\ Scope!DefineName(name) => Proved!DefineName(name)
             /\ Scope!ResolveName(name) => Proved!ResolveName(name)
             /\ Scope!ResolveUndefined(name) => Proved!ResolveUndefined(name)
  BY SameTables, SameScope
     DEF Scope!DefineName, Proved!DefineName, Scope!Current, Proved!Current,
         Scope!ResolveName, Proved!ResolveName, Scope!ResolveUndefined, Proved!ResolveUndefined
<1>3. (Scope!EnterScope => Proved!EnterScope) /\ (Scope!LeaveScope => Proved!LeaveScope)
  BY SameTables, SameScope
     DEF Scope!EnterScope, Proved!EnterScope, Scope!LeaveScope, Proved!LeaveScope
<1>4. Scope!Next => Proved!Next
  BY <1>2, <1>3 DEF Scope!Next, Proved!Next
<1>5. Scope!vars = Proved!vars /\ (Scope!vars' = Scope!vars => Proved!vars' = Proved!vars)
  BY DEF Scope!vars, Proved!vars
<1>6. QED
  BY <1>1, <1>4, <1>5

(* A name in a program means the innermost definition around it: what the  *)
(* symbol that is loaded for it leads to, through the captures of the      *)
(* functions in between, is the slot of that definition.                   *)
THEOREM CompilesLexically == Spec => Proved!LexicalScoping
<1>1. Spec => Scope!Spec
  BY UsesScoping DEF ImplementsScoping
<1>2. Scope!Spec => Proved!Spec
  BY SameCalls, PTL DEF Scope!Spec, Proved!Spec
<1>3. Proved!Spec => Proved!LexicalScoping
  <2>1. Nat \subseteq Nat /\ Nat \subseteq Nat
    OBVIOUS
  <2>2. QED
    BY <2>1, BuiltinsAssumption, Proved!StaticScoping
<1>4. QED
  BY <1>1, <1>2, <1>3

(* So that all that is proved of the tables holds while a program is being *)
(* compiled: symbols are in scope, captures match, slots are not shared.   *)
THEOREM TablesStaySound ==
  Spec => [](Proved!WellScoped /\ Proved!FreeMatchesOuter /\ Proved!SlotsDistinct)
<1>1. IInv => Proved!WellScoped /\ Proved!FreeMatchesOuter /\ Proved!SlotsDistinct
  BY DEF IInv, TablesInv, Proved!IInv
<1>2. QED
  BY <1>1, Invariance, PTL

(* Every instruction has the operands of its opcode, each one within its   *)
(* width, and there are as many scopes as tables.                          *)
THEOREM TypesCorrect == Spec => []TypeOK
<1>1. IInv => TypeOK
  <2> SUFFICES ASSUME IInv PROVE TypeOK
    OBVIOUS
  <2>1. \A l \in DOMAIN scopes : CodeOK(scopes[l])
    BY DEF IInv, CodeInv, ScopeOK
  <2>2. tables \in Seq(Table) /\ Len(tables) = Len(scopes)
    BY SymbolFacts DEF IInv, TablesInv
  <2>3. scopes # <<>> /\ status \in {"compiling", "compiled", "undefined variable"}
    BY DEF IInv, CodeInv
  <2>4. QED
    BY <2>1, <2>2, <2>3 DEF TypeOK, CodeOK
<1>2. QED
  BY <1>1, Invariance, PTL

(* lastInstruction is the last instruction, and the instructions leave no  *)
(* gap and do not overlap, whatever was removed, replaced and patched.     *)
THEOREM LastInstructionKnown == Spec => []LastInstructionTracked
<1>1. IInv => LastInstructionTracked
  BY DEF IInv, CodeInv, ScopeOK, CodeOK, EndsWith, LastInstructionTracked
<1>2. QED
  BY <1>1, Invariance, PTL

LEMMA FirstScope ==
  ASSUME CodeInv PROVE 1 \in DOMAIN scopes
<1>1. IsList(scopes) /\ scopes # <<>>
  BY DEF CodeInv
<1> DEFINE k == Len(scopes)
<1>2. k \in Nat /\ DOMAIN scopes = 1 .. k /\ k > 0
  BY <1>1, ListFacts
<1> HIDE DEF k
<1>3. QED
  BY <1>2

(* Two bytes tell the positions in a code apart that is not longer than    *)
(* this: an operand of OpJump and OpJumpNotTruthy has no more (code.go).   *)
Addressable == \A code \in Finished : code.len <= Byte * Byte

LEMMA JumpsArrive ==
  ASSUME NEW code, CodeOK(code), code.len <= Byte * Byte,
         \A p \in JumpsIn(code) : Lands(code, p),
         NEW p \in DOMAIN code.ins, code.ins[p].op \in Jumps
  PROVE  code.ins[p].args[1] > p /\ code.ins[p].args[1] \in DOMAIN code.ins
<1>1. PICK t \in DOMAIN code.ins : t > p /\ code.ins[p].args[1] = t % Reach
  BY DEF JumpsIn, Lands
<1>2. t \in Nat /\ code.len \in Nat /\ IsInstruction(code.ins[t]) /\ t + InstrLen(code.ins[t].op) <= code.len
  BY DEF CodeOK
<1>3. InstrLen(code.ins[t].op) \in 1 .. 4
  BY <1>2, Opcode DEF IsInstruction
<1>4. Reach \in Nat \ {0} /\ code.len <= Reach
  BY ReachType DEF Reach
<1>5. t < Reach
  BY <1>2, <1>3, <1>4
<1>6. t % Reach = t
  BY <1>2, <1>4, <1>5
<1>7. QED
  BY <1>1, <1>6

(* Control never leaves the code that was compiled: every jump was patched *)
(* and leads forward to an instruction, and functions end in a return.     *)
THEOREM ControlConfined == Spec => [](Addressable => ControlStays)
<1>1. IInv => (Addressable => ControlStays)
  <2> SUFFICES ASSUME IInv, Addressable PROVE ControlStays
    OBVIOUS
  <2>1. \A k \in Functions : FunctionOK(constants[k])
    BY DEF IInv, CodeInv, Functions, IsFunction
  <2>2. ASSUME NEW code \in Finished
        PROVE  CodeOK(code) /\ \A p \in JumpsIn(code) : Lands(code, p)
    <3>1. CASE \E k \in Functions : code = [ins |-> constants[k].ins, len |-> constants[k].len]
      <4>1. PICK k \in Functions : code = [ins |-> constants[k].ins, len |-> constants[k].len]
        BY <3>1
      <4> DEFINE fn == constants[k]
      <4>2. FunctionOK(fn) /\ code.ins = fn.ins /\ code.len = fn.len
        BY <2>1, <4>1
      <4> HIDE DEF fn
      <4>3. QED
        BY <4>2 DEF FunctionOK, CodeOK, Tiled, JumpsIn, Lands
    <3>2. CASE status = "compiled" /\ code = [ins |-> scopes[1].ins, len |-> scopes[1].len]
      <4> DEFINE s == scopes[1]
      <4>1. CodeOK(s) /\ \A p \in JumpsIn(s) : Lands(s, p)
        <5>1. 1 \in DOMAIN scopes
          BY FirstScope DEF IInv
        <5>2. QED
          BY <3>2, <5>1 DEF IInv, CodeInv, ScopeOK
      <4>2. code.ins = s.ins /\ code.len = s.len
        BY <3>2
      <4> HIDE DEF s
      <4>3. QED
        BY <4>1, <4>2 DEF CodeOK, Tiled, JumpsIn, Lands
    <3>3. QED
      BY <3>1, <3>2 DEF Finished
  <2>3. JumpsLand
    <3>1. \A code \in Finished : code.len <= Byte * Byte
      BY DEF Addressable
    <3>2. QED
      BY <2>2, <3>1, JumpsArrive DEF JumpsLand
  <2>4. FunctionsReturn
    BY <2>1 DEF FunctionOK, FunctionsReturn
  <2>5. QED
    BY <2>3, <2>4 DEF ControlStays
<1>2. QED
  BY <1>1, Invariance, PTL

--------------------------------------------------------------------------------
(***************************************************************************)
(* Closures.  An instruction that refers to a local, to a captured value   *)
(* or to a function is right in the scope it was emitted in, and stays so: *)
(* while the scope is open its table only gains slots and captures, and    *)
(* when it is left the table's counts become those of the function and of  *)
(* the closure.  Tasks that will emit such an instruction are right at     *)
(* their level in the same way.                                            *)
(***************************************************************************)
OfLocal == {"OpGetLocal", "OpSetLocal"}

Neutral(op) == op \notin OfLocal \union {"OpGetFree", "OpClosure"}

(* The operands of OpClosure: a function, and as many values as it reads. *)
Closes(instruction, pool) ==
  LET k == instruction.args[1] + 1 IN
  /\ k \in DOMAIN pool /\ IsFunction(pool[k])
  /\ instruction.args[2] \in Nat
  /\ \A q \in DOMAIN pool[k].ins :
       pool[k].ins[q].op = "OpGetFree"
         => pool[k].ins[q].args[1] \in 0 .. instruction.args[2] - 1

Sound(instruction, locals, captured, pool) ==
  /\ instruction.op \in OfLocal => instruction.args[1] \in 0 .. locals - 1
  /\ instruction.op = "OpGetFree" => instruction.args[1] \in 0 .. captured - 1
  /\ instruction.op = "OpClosure" => Closes(instruction, pool)

AllSound(code, locals, captured, pool) ==
  \A p \in DOMAIN code.ins : Sound(code.ins[p], locals, captured, pool)

FunctionSound(fn, captured, pool) ==
  /\ fn.numLocals \in Nat /\ fn.numParameters <= fn.numLocals
  /\ AllSound(fn, fn.numLocals, captured, pool)

PoolSound(pool) ==
  \A k \in DOMAIN pool :
    IsFunction(pool[k]) => \E captured \in Nat : FunctionSound(pool[k], captured, pool)

TaskSound(t, locals, captured, pool) ==
  /\ t.do = "emit" => /\ t.op # "OpClosure"
                      /\ t.op \in OfLocal => t.operands[1] \in 0 .. locals - 1
                      /\ t.op = "OpGetFree" => t.operands[1] \in 0 .. captured - 1
  /\ t.do = "closure" => /\ IsFunction(t.fn)
                         /\ t.numFree \in 0 .. Byte - 1
                         /\ FunctionSound(t.fn, t.numFree, pool)

Slots(ts, l)    == ts[l].numDefinitions
Captures(ts, l) == Len(ts[l].free)

TasksSound(tasks, levels, ts, pool) ==
  \A i \in DOMAIN tasks :
    TaskSound(tasks[i], Slots(ts, levels[i]), Captures(ts, levels[i]), pool)

(* A function's parameters are the first tasks or have been defined.      *)
ParametersKnown(tasks, levels, n, ts) ==
  \E k \in Nat :
    /\ \A i \in DOMAIN tasks : tasks[i].do = "parameter" <=> i <= k
    /\ \A i \in DOMAIN tasks : tasks[i].do = "leave" =>
         /\ tasks[i].numParameters \in Nat
         /\ tasks[i].numParameters
              <= Slots(ts, levels[i]) + (IF levels[i] = n THEN k ELSE 0)

CodeSound ==
  \A l \in DOMAIN scopes : AllSound(scopes[l], Slots(tables, l), Captures(tables, l), constants)

TodoSound ==
  status = "compiling" =>
    \A levels : Plan(todo, levels, Len(scopes)) =>
      /\ TasksSound(todo, levels, tables, constants)
      /\ ParametersKnown(todo, levels, Len(scopes), tables)

ClosuresInv == CodeSound /\ PoolSound(constants) /\ TodoSound

(* Make can write the number of every constant and of a function's captures. *)
Writable ==
  /\ Len(constants) <= Byte * Byte
  /\ \A l \in DOMAIN tables : Len(tables[l].free) < Byte

--------------------------------------------------------------------------------
(* What was right stays so while slots, captures and constants are added. *)
PoolGrown(pool, more) == \A k \in DOMAIN pool : k \in DOMAIN more /\ more[k] = pool[k]

LEMMA SoundStays ==
  ASSUME NEW pool, NEW more, PoolGrown(pool, more),
         NEW a \in Nat, NEW b \in Nat, NEW c \in Nat, NEW d \in Nat, a <= c, b <= d
  PROVE  /\ \A i : Sound(i, a, b, pool) => Sound(i, c, d, more)
         /\ \A t : TaskSound(t, a, b, pool) => TaskSound(t, c, d, more)
         /\ \A fn, k : FunctionSound(fn, k, pool) => FunctionSound(fn, k, more)
<1>1. \A x : (x \in 0 .. a - 1 => x \in 0 .. c - 1) /\ (x \in 0 .. b - 1 => x \in 0 .. d - 1)
  OBVIOUS
<1>2. \A i : Closes(i, pool) => Closes(i, more)
  BY DEF Closes, PoolGrown
<1>3. \A i : Sound(i, a, b, pool) => Sound(i, c, d, more)
  BY <1>1, <1>2 DEF Sound
<1>4. \A fn, k : FunctionSound(fn, k, pool) => FunctionSound(fn, k, more)
  BY <1>2 DEF FunctionSound, AllSound, Sound
<1>5. \A t : TaskSound(t, a, b, pool) => TaskSound(t, c, d, more)
  BY <1>1, <1>4 DEF TaskSound
<1>6. QED
  BY <1>3, <1>4, <1>5

(* Levels lie within the open scopes, stay the same until a function is   *)
(* left, and are told by what comes after.                                 *)
LEMMA LevelsWithin ==
  ASSUME NEW ts, NEW levels, NEW n, Plan(ts, levels, n), NEW i \in DOMAIN ts
  PROVE  levels[i] \in 1 .. n
<1>1. IsList(ts) /\ n \in Nat \ {0} /\ levels \in [DOMAIN ts -> Nat \ {0}] /\ ts # <<>>
  <2>1. IsList(ts) /\ n \in Nat \ {0} /\ levels \in [DOMAIN ts -> Nat \ {0}]
    BY DEF Plan
  <2>2. DOMAIN <<>> = {}
    OBVIOUS
  <2>3. QED
    BY <2>1, <2>2
<1> DEFINE N == Len(ts)
<1>2. DOMAIN ts = 1 .. N /\ N \in Nat /\ N > 0
  BY <1>1, ListFacts
<1>3. levels[1] = n /\ \A j \in DOMAIN ts : 1 < j => LevelAfter(ts[1], n) >= levels[j]
  <2>1. 1 \in DOMAIN ts
    BY <1>2
  <2>2. QED
    BY <1>1, <2>1 DEF Plan
<1>4. levels[i] \in Nat \ {0}
  BY <1>1
<1> HIDE DEF N
<1>5. i = 1 \/ 1 < i
  BY <1>2
<1>6. QED
  BY <1>1, <1>3, <1>4, <1>5 DEF LevelAfter

LEMMA LevelsStay ==
  ASSUME NEW ts, NEW levels, NEW n, Plan(ts, levels, n),
         NEW k \in DOMAIN ts, \A j \in 1 .. k - 1 : ts[j].do # "leave"
  PROVE  \A i \in 1 .. k : levels[i] = n
<1> DEFINE N == Len(ts)
           D == {i \in 1 .. k : levels[i] # n}
<1>1. IsList(ts) /\ ts # <<>> /\ DOMAIN ts = 1 .. N /\ N \in Nat
  <2>1. IsList(ts)
    BY DEF Plan
  <2>2. DOMAIN <<>> = {}
    OBVIOUS
  <2>3. QED
    BY <2>1, <2>2, ListFacts
<1>2. levels[1] = n /\ \A i \in 1 .. N : i < N => levels[i + 1] = LevelAfter(ts[i], levels[i])
  BY <1>1 DEF Plan
<1> HIDE DEF N
<1>3. SUFFICES ASSUME D # {} PROVE FALSE
  OBVIOUS
<1>4. D \subseteq Nat
  OBVIOUS
<1>5. PICK i \in D : \A j \in D : i <= j
  <2> HIDE DEF D
  <2>1. QED
    BY <1>3, <1>4, LeastElement
<1>6. i \in 1 .. k /\ k \in 1 .. N /\ levels[i] # n
  BY <1>1
<1>7. i # 1
  BY <1>2, <1>6
<1>8. i - 1 \in 1 .. k /\ i - 1 \in 1 .. k - 1 /\ i - 1 \in 1 .. N /\ i - 1 < N /\ (i - 1) + 1 = i /\ ~(i <= i - 1)
  BY <1>1, <1>6, <1>7
<1>9. levels[i - 1] = n
  BY <1>5, <1>8
<1>10. levels[i] = LevelAfter(ts[i - 1], levels[i - 1])
  BY <1>2, <1>8
<1>11. ts[i - 1].do # "leave"
  BY <1>8
<1>12. QED
  BY <1>6, <1>9, <1>10, <1>11 DEF LevelAfter

LEMMA LevelsAgree ==
  ASSUME NEW ts, NEW levels, NEW n, Plan(ts, levels, n), ts # <<>>,
         NEW new, IsList(new), NEW lv, NEW m, Plan(new \o Tail(ts), lv, m)
  PROVE  \A i \in 2 .. Len(ts) : lv[Len(new) + i - 1] = levels[i]
<1> DEFINE r == new \o Tail(ts)
           K == Len(new)
           N == Len(ts)
           D == {i \in 2 .. N : lv[K + i - 1] # levels[i]}
<1>1. /\ IsList(ts) /\ N \in Nat /\ DOMAIN ts = 1 .. N /\ N > 0
      /\ K \in Nat /\ IsList(r) /\ Len(r) = K + N - 1
      /\ \A i \in 2 .. N : r[K + i - 1] = ts[i]
  <2>1. IsList(ts)
    BY DEF Plan
  <2>2. K \in Nat /\ N \in Nat /\ DOMAIN ts = 1 .. N /\ N > 0
    BY <2>1, ListFacts
  <2>3. /\ IsList(r) /\ Len(r) = K + N - 1
        /\ \A j \in 1 .. K : r[j] = new[j]
        /\ \A j \in 2 .. N : r[K + j - 1] = ts[j]
    BY <2>1, Joined
  <2>4. QED
    BY <2>1, <2>2, <2>3
<1>2. DOMAIN r = 1 .. K + N - 1
  BY <1>1, ListFacts
<1> HIDE DEF r
<1>3. \A i \in 1 .. N : /\ levels[i] \in Nat \ {0}
                        /\ i = N => levels[i] = 1
                        /\ i < N => levels[i + 1] = LevelAfter(ts[i], levels[i])
  BY <1>1 DEF Plan
<1>4. \A i \in 1 .. K + N - 1 :
        /\ lv[i] \in Nat \ {0}
        /\ i = K + N - 1 => lv[i] = 1
        /\ i < K + N - 1 => lv[i + 1] = LevelAfter(r[i], lv[i])
  <2>1. Plan(r, lv, m)
    BY DEF r
  <2>2. QED
    BY <1>1, <1>2, <2>1 DEF Plan
<1> HIDE DEF K, N
<1>5. SUFFICES ASSUME D # {} PROVE FALSE
  BY DEF K, N
<1>6. D \subseteq Nat /\ \A i \in D : i <= N
  BY <1>1
<1>7. PICK i \in D : \A j \in D : j <= i
  <2> HIDE DEF D
  <2>1. QED
    BY <1>1, <1>5, <1>6, GreatestElement
<1>8. i \in 2 .. N /\ i \in 1 .. N /\ lv[K + i - 1] # levels[i] /\ K + i - 1 \in 1 .. K + N - 1
  BY <1>1
<1>9. CASE i = N
  <2>1. levels[i] = 1 /\ lv[K + i - 1] = 1
    BY <1>3, <1>4, <1>8, <1>9
  <2>2. QED
    BY <1>8, <2>1
<1>10. CASE i < N
  <2>1. i + 1 \in 2 .. N /\ K + (i + 1) - 1 = (K + i - 1) + 1 /\ K + i - 1 < K + N - 1 /\ ~(i + 1 <= i)
    BY <1>1, <1>8, <1>10
  <2>2. lv[K + (i + 1) - 1] = levels[i + 1]
    BY <1>7, <2>1
  <2>3. levels[i + 1] = LevelAfter(ts[i], levels[i])
    BY <1>3, <1>8, <1>10
  <2>4. lv[(K + i - 1) + 1] = LevelAfter(ts[i], lv[K + i - 1])
    BY <1>1, <1>4, <1>8, <2>1
  <2>5. LevelAfter(ts[i], levels[i]) = LevelAfter(ts[i], lv[K + i - 1])
    BY <2>1, <2>2, <2>3, <2>4
  <2>6. levels[i] \in Nat /\ lv[K + i - 1] \in Nat
    BY <1>3, <1>4, <1>8
  <2>7. QED
    BY <1>8, <2>5, <2>6 DEF LevelAfter
<1>11. QED
  BY <1>1, <1>8, <1>9, <1>10

(* A task is a new one, or an old one at its old level. *)
Placed(r, lv, m, new, ts, levels, n, i) ==
  /\ lv[i] \in 1 .. m
  /\ \/ i \in 1 .. Len(new) /\ r[i] = new[i]
     \/ \E j \in DOMAIN ts : r[i] = ts[j] /\ lv[i] = levels[j] /\ levels[j] \in 1 .. n /\ j # 1

LEMMA NewOrOld ==
  ASSUME NEW ts, NEW levels, NEW n, Plan(ts, levels, n), ts # <<>>,
         NEW new, IsList(new), NEW lv, NEW m, Plan(new \o Tail(ts), lv, m),
         NEW i \in DOMAIN (new \o Tail(ts))
  PROVE  Placed(new \o Tail(ts), lv, m, new, ts, levels, n, i)
<1> DEFINE r == new \o Tail(ts)
           K == Len(new)
           N == Len(ts)
<1>1. /\ IsList(ts) /\ N \in Nat /\ DOMAIN ts = 1 .. N /\ N > 0
      /\ K \in Nat /\ IsList(r) /\ Len(r) = K + N - 1
      /\ \A j \in 1 .. K : r[j] = new[j]
      /\ \A j \in 2 .. N : r[K + j - 1] = ts[j]
  <2>1. IsList(ts)
    BY DEF Plan
  <2>2. K \in Nat /\ N \in Nat /\ DOMAIN ts = 1 .. N /\ N > 0
    BY <2>1, ListFacts
  <2>3. /\ IsList(r) /\ Len(r) = K + N - 1
        /\ \A j \in 1 .. K : r[j] = new[j]
        /\ \A j \in 2 .. N : r[K + j - 1] = ts[j]
    BY <2>1, Joined
  <2>4. QED
    BY <2>1, <2>2, <2>3
<1>2. DOMAIN r = 1 .. K + N - 1
  BY <1>1, ListFacts
<1>3. \A j \in 2 .. N : lv[K + j - 1] = levels[j]
  BY LevelsAgree
<1>4. lv[i] \in 1 .. m
  BY LevelsWithin
<1>5. \A j \in DOMAIN ts : levels[j] \in 1 .. n
  BY LevelsWithin
<1>6. i \in DOMAIN r
  OBVIOUS
<1> HIDE DEF r, K, N
<1>7. CASE i \in 1 .. K
  BY <1>1, <1>4, <1>7 DEF r, K, Placed
<1>8. CASE i \notin 1 .. K
  <2> DEFINE j == i - K + 1
  <2>1. j \in 2 .. N /\ j \in 1 .. N /\ j # 1 /\ i = K + j - 1
    BY <1>1, <1>2, <1>6, <1>8
  <2> HIDE DEF j
  <2>2. r[i] = ts[j] /\ lv[i] = levels[j] /\ j \in DOMAIN ts
    BY <1>1, <1>3, <2>1
  <2>3. QED
    BY <1>4, <1>5, <2>1, <2>2 DEF r, K, N, Placed
<1>9. QED
  BY <1>7, <1>8
--------------------------------------------------------------------------------
(* The scopes and the tables of a state, and of the state after a step.   *)
LEMMA RoomType ==
  ASSUME NEW ts \in Seq(Table), NEW ss, IsList(ss), ss # <<>>, Len(ts) = Len(ss)
  PROVE  /\ Len(ss) \in Nat \ {0} /\ DOMAIN ss = 1 .. Len(ss) /\ DOMAIN ts = DOMAIN ss
         /\ \A l \in DOMAIN ss : Slots(ts, l) \in Nat /\ Captures(ts, l) \in Nat
<1>1. IsList(ts)
  BY ListFacts
<1>2. DOMAIN ts = 1 .. Len(ts)
  BY <1>1, ListFacts
<1> DEFINE k == Len(ss)
<1>3. k \in Nat \ {0} /\ DOMAIN ss = 1 .. k
  BY ListFacts
<1>4. DOMAIN ts = DOMAIN ss
  BY <1>2, <1>3
<1>5. ASSUME NEW l \in DOMAIN ss PROVE Slots(ts, l) \in Nat /\ Captures(ts, l) \in Nat
  <2>1. ts[l] \in Table
    BY <1>4
  <2>2. ts[l].numDefinitions \in Nat /\ ts[l].free \in Seq(Symbol)
    BY <2>1 DEF Table
  <2>3. QED
    BY <2>2 DEF Slots, Captures
<1>6. QED
  BY <1>3, <1>4, <1>5

LEMMA Rooms ==
  ASSUME IInv, IInv', [Next]_vars
  PROVE  /\ Len(scopes) \in Nat \ {0} /\ DOMAIN scopes = 1 .. Len(scopes) /\ DOMAIN tables = DOMAIN scopes
         /\ Len(scopes') \in Nat \ {0} /\ DOMAIN scopes' = 1 .. Len(scopes') /\ DOMAIN tables' = DOMAIN scopes'
         /\ \A l \in DOMAIN scopes : Slots(tables, l) \in Nat /\ Captures(tables, l) \in Nat
         /\ \A l \in DOMAIN scopes' : Slots(tables', l) \in Nat /\ Captures(tables', l) \in Nat
         /\ \A l \in DOMAIN scopes : l \in DOMAIN scopes' =>
              Slots(tables, l) <= Slots(tables', l) /\ Captures(tables, l) <= Captures(tables', l)
<1>1. tables \in Seq(Table) /\ Len(tables) = Len(scopes) /\ IsList(scopes) /\ scopes # <<>>
  BY SymbolFacts DEF IInv, TablesInv, CodeInv
<1>2. tables' \in Seq(Table) /\ Len(tables') = Len(scopes') /\ IsList(scopes') /\ scopes' # <<>>
  <2>1. TablesInv' /\ CodeInv'
    BY DEF IInv
  <2>2. tables' \in Seq(Proved!Table)
    BY <2>1 DEF TablesInv, Proved!IInv, Proved!TypeOK
  <2>3. QED
    BY <2>1, <2>2, SameTables DEF TablesInv, CodeInv
<1>3. /\ Len(scopes) \in Nat \ {0} /\ DOMAIN scopes = 1 .. Len(scopes) /\ DOMAIN tables = DOMAIN scopes
      /\ \A l \in DOMAIN scopes : Slots(tables, l) \in Nat /\ Captures(tables, l) \in Nat
  BY <1>1, RoomType
<1>4. /\ Len(scopes') \in Nat \ {0} /\ DOMAIN scopes' = 1 .. Len(scopes') /\ DOMAIN tables' = DOMAIN scopes'
      /\ \A l \in DOMAIN scopes' : Slots(tables', l) \in Nat /\ Captures(tables', l) \in Nat
  BY <1>2, RoomType
<1>5. ASSUME NEW l \in DOMAIN scopes, l \in DOMAIN scopes'
      PROVE  Slots(tables, l) <= Slots(tables', l) /\ Captures(tables, l) <= Captures(tables', l)
  <2>1. Proved!IInv /\ [Proved!Next]_(Proved!vars)
    <3>1. [Scope!Next]_(Scope!vars)
      BY TablesStep
    <3>2. QED
      BY <3>1, SameCalls DEF IInv, TablesInv
  <2>2. l \in DOMAIN tables \intersect DOMAIN tables'
    BY <1>3, <1>4, <1>5
  <2>3. Proved!Extends(tables[l], tables'[l])
    <3>1. Nat \subseteq Nat /\ Nat \subseteq Nat
      OBVIOUS
    <3>2. QED
      BY <2>1, <2>2, <3>1, BuiltinsAssumption, Proved!StableStep, Zenon
  <2>4. QED
    BY <2>3 DEF Proved!Extends, Slots, Captures
<1>6. QED
  BY <1>3, <1>4, <1>5

(* An instruction that a step leaves where it is stays right. *)
LEMMA CodeStaysSound ==
  ASSUME IInv, IInv', [Next]_vars, CodeSound, PoolGrown(constants, constants'),
         \A l \in DOMAIN scopes' : \A p \in DOMAIN scopes'[l].ins :
           \/ /\ l \in DOMAIN scopes /\ p \in DOMAIN scopes[l].ins
              /\ scopes'[l].ins[p] = scopes[l].ins[p]
           \/ Neutral(scopes'[l].ins[p].op)
           \/ Sound(scopes'[l].ins[p], Slots(tables', l), Captures(tables', l), constants')
  PROVE  CodeSound'
<1>1. SUFFICES ASSUME NEW l \in DOMAIN scopes', NEW p \in DOMAIN scopes'[l].ins
               PROVE  Sound(scopes'[l].ins[p], Slots(tables', l), Captures(tables', l), constants')
  BY <1>1 DEF CodeSound, AllSound
<1>2. CASE Neutral(scopes'[l].ins[p].op)
  BY <1>2 DEF Neutral, Sound
<1>3. ASSUME l \in DOMAIN scopes, p \in DOMAIN scopes[l].ins, scopes'[l].ins[p] = scopes[l].ins[p]
      PROVE  Sound(scopes'[l].ins[p], Slots(tables', l), Captures(tables', l), constants')
  <2>1. Sound(scopes[l].ins[p], Slots(tables, l), Captures(tables, l), constants)
    BY <1>3 DEF CodeSound, AllSound
  <2> DEFINE a == Slots(tables, l)
             b == Captures(tables, l)
             c == Slots(tables', l)
             d == Captures(tables', l)
  <2>2. a \in Nat /\ b \in Nat /\ c \in Nat /\ d \in Nat /\ a <= c /\ b <= d
    BY <1>3, Rooms
  <2>3. Sound(scopes[l].ins[p], a, b, constants)
    BY <2>1
  <2> HIDE DEF a, b, c, d
  <2>4. Sound(scopes[l].ins[p], c, d, constants')
    BY <2>2, <2>3, SoundStays
  <2>5. QED
    BY <1>3, <2>4 DEF c, d
<1>4. QED
  BY <1>2, <1>3

(* The pool may get an object, if it is right when it is a function. *)
LEMMA PoolStaysSound ==
  ASSUME CodeInv, PoolSound(constants),
         \/ constants' = constants
         \/ \E object : /\ constants' = Append(constants, object)
                        /\ IsFunction(object) =>
                             \E captured \in Nat : FunctionSound(object, captured, constants)
  PROVE  PoolGrown(constants, constants') /\ PoolSound(constants')
<1>1. CASE constants' = constants
  BY <1>1 DEF PoolGrown
<1>2. ASSUME NEW object, constants' = Append(constants, object),
             IsFunction(object) => \E captured \in Nat : FunctionSound(object, captured, constants)
      PROVE  PoolGrown(constants, constants') /\ PoolSound(constants')
  <2>1. IsList(constants)
    BY DEF CodeInv
  <2> DEFINE n == Len(constants)
  <2>2. /\ n \in Nat /\ DOMAIN constants = 1 .. n /\ DOMAIN constants' = 1 .. n + 1
        /\ constants'[n + 1] = object
        /\ \A k \in 1 .. n : constants'[k] = constants[k]
    BY <1>2, <2>1, ListFacts, ListChanges
  <2> HIDE DEF n
  <2>3. \A k \in 1 .. n + 1 : k \in 1 .. n \/ k = n + 1
    BY <2>2
  <2>4. \A k \in 1 .. n : k \in 1 .. n + 1
    BY <2>2
  <2>5. PoolGrown(constants, constants')
    BY <2>2, <2>4 DEF PoolGrown
  <2>6. \A fn, captured : FunctionSound(fn, captured, constants) => FunctionSound(fn, captured, constants')
    <3>1. 0 \in Nat /\ 0 <= 0
      OBVIOUS
    <3>2. QED
      BY <2>5, <3>1, SoundStays
  <2>7. ASSUME NEW k \in DOMAIN constants', IsFunction(constants'[k])
        PROVE  \E captured \in Nat : FunctionSound(constants'[k], captured, constants')
    <3>1. CASE k \in 1 .. n
      BY <2>2, <2>6, <2>7, <3>1 DEF PoolSound
    <3>2. CASE k = n + 1
      BY <1>2, <2>2, <2>6, <2>7, <3>2
    <3>3. QED
      BY <2>2, <2>3, <3>1, <3>2
  <2>8. QED
    BY <2>5, <2>7 DEF PoolSound
<1>3. QED
  BY <1>1, <1>2

(* A handler's step: what is left to do was right, or is new. *)
Stepping(new) ==
  /\ IInv /\ IInv' /\ [Next]_vars
  /\ TodoSound /\ PoolGrown(constants, constants')
  /\ status = "compiling" /\ todo # <<>>
  /\ IsList(new) /\ Then(new)

StepPlan(lv, new, levels) ==
  /\ Plan(todo, levels, Len(scopes))
  /\ TasksSound(todo, levels, tables, constants)
  /\ ParametersKnown(todo, levels, Len(scopes), tables)
  /\ levels[1] = Len(scopes) /\ 1 \in DOMAIN todo
  /\ \A i \in DOMAIN todo' : Placed(todo', lv, Len(scopes'), new, todo, levels, Len(scopes), i)

LEMMA StepPlans ==
  ASSUME NEW new, Stepping(new), NEW lv, Plan(todo', lv, Len(scopes'))
  PROVE  \E levels : StepPlan(lv, new, levels)
<1>1. PICK levels : Good(todo, levels, scopes)
  BY DEF Stepping, IInv, CodeInv
<1>2. Plan(todo, levels, Len(scopes)) /\ todo # <<>>
  BY <1>1 DEF Good, Stepping
<1>3. TasksSound(todo, levels, tables, constants) /\ ParametersKnown(todo, levels, Len(scopes), tables)
  BY <1>2 DEF TodoSound, Stepping
<1>4. levels[1] = Len(scopes) /\ 1 \in DOMAIN todo
  BY <1>2, FirstTask DEF Plan
<1>5. todo' = new \o Tail(todo) /\ IsList(new)
  BY DEF Stepping, Then
<1>6. Plan(new \o Tail(todo), lv, Len(scopes'))
  BY <1>5
<1>7. \A i \in DOMAIN (new \o Tail(todo)) :
        Placed(new \o Tail(todo), lv, Len(scopes'), new, todo, levels, Len(scopes), i)
  BY <1>2, <1>5, <1>6, NewOrOld
<1>8. QED
  BY <1>2, <1>3, <1>4, <1>5, <1>7 DEF StepPlan

LEMMA TasksStaySound ==
  ASSUME NEW new, Stepping(new), NEW lv, Plan(todo', lv, Len(scopes')),
         \A i \in 1 .. Len(new) :
           TaskSound(new[i], Slots(tables', lv[i]), Captures(tables', lv[i]), constants')
  PROVE  TasksSound(todo', lv, tables', constants')
<1>1. PICK levels : StepPlan(lv, new, levels)
  BY StepPlans
<1>2. SUFFICES ASSUME NEW i \in DOMAIN todo'
               PROVE  TaskSound(todo'[i], Slots(tables', lv[i]), Captures(tables', lv[i]), constants')
  BY <1>2 DEF TasksSound
<1>3. Placed(todo', lv, Len(scopes'), new, todo, levels, Len(scopes), i)
  BY <1>1 DEF StepPlan
<1>4. CASE i \in 1 .. Len(new) /\ todo'[i] = new[i]
  BY <1>4
<1>5. ASSUME NEW j \in DOMAIN todo, todo'[i] = todo[j], lv[i] = levels[j],
             levels[j] \in 1 .. Len(scopes), lv[i] \in 1 .. Len(scopes')
      PROVE  TaskSound(todo'[i], Slots(tables', lv[i]), Captures(tables', lv[i]), constants')
  <2> DEFINE l == lv[i]
             a == Slots(tables, l)
             b == Captures(tables, l)
             c == Slots(tables', l)
             d == Captures(tables', l)
  <2>1. l \in DOMAIN scopes /\ l \in DOMAIN scopes'
    BY <1>5, Rooms DEF Stepping
  <2>2. TaskSound(todo[j], a, b, constants)
    BY <1>1, <1>5 DEF TasksSound, StepPlan
  <2> HIDE DEF l
  <2>3. a \in Nat /\ b \in Nat /\ c \in Nat /\ d \in Nat /\ a <= c /\ b <= d
    BY <2>1, Rooms DEF Stepping
  <2>4. PoolGrown(constants, constants')
    BY DEF Stepping
  <2> HIDE DEF a, b, c, d
  <2>5. TaskSound(todo[j], c, d, constants')
    BY <2>2, <2>3, <2>4, SoundStays
  <2>6. QED
    BY <1>5, <2>5 DEF c, d, l
<1>6. QED
  BY <1>3, <1>4, <1>5 DEF Placed
(* No parameter is left over, and a function that is left later has its    *)
(* parameters among its locals.                                            *)
Settled(t, level, ts) ==
  /\ t.do # "parameter"
  /\ t.do = "leave" => t.numParameters \in Nat /\ t.numParameters <= Slots(ts, level)

LEMMA OldTask ==
  ASSUME NEW new, Stepping(new), NEW lv, Plan(todo', lv, Len(scopes')),
         todo[1].do # "parameter", NEW i \in DOMAIN todo', i \notin 1 .. Len(new)
  PROVE  Settled(todo'[i], lv[i], tables') /\ lv[i] \in 1 .. Len(scopes)
<1>1. PICK levels : StepPlan(lv, new, levels)
  BY StepPlans
<1>2. PICK k \in Nat :
        /\ \A j \in DOMAIN todo : todo[j].do = "parameter" <=> j <= k
        /\ \A j \in DOMAIN todo : todo[j].do = "leave" =>
             /\ todo[j].numParameters \in Nat
             /\ todo[j].numParameters
                  <= Slots(tables, levels[j]) + (IF levels[j] = Len(scopes) THEN k ELSE 0)
  BY <1>1 DEF StepPlan, ParametersKnown
<1>3. k = 0
  <2>1. ~(1 <= k)
    BY <1>1, <1>2 DEF StepPlan
  <2>2. QED
    BY <1>2, <2>1
<1>4. PICK j \in DOMAIN todo :
        /\ todo'[i] = todo[j] /\ lv[i] = levels[j]
        /\ levels[j] \in 1 .. Len(scopes) /\ lv[i] \in 1 .. Len(scopes')
  BY <1>1 DEF StepPlan, Placed
<1>5. todo[j].do # "parameter"
  <2>1. IsList(todo)
    BY <1>1 DEF StepPlan, Plan
  <2>2. DOMAIN todo = 1 .. Len(todo) /\ Len(todo) \in Nat
    BY <2>1, ListFacts
  <2>3. ~(j <= 0)
    BY <2>2
  <2>4. QED
    BY <1>2, <1>3, <2>3
<1>6. ASSUME todo[j].do = "leave"
      PROVE  todo[j].numParameters \in Nat /\ todo[j].numParameters <= Slots(tables', lv[i])
  <2> DEFINE l == lv[i]
             a == Slots(tables, l)
             c == Slots(tables', l)
             q == todo[j].numParameters
  <2>1. l \in DOMAIN scopes /\ l \in DOMAIN scopes'
    BY <1>4, Rooms DEF Stepping
  <2>2. a \in Nat /\ c \in Nat /\ a <= c
    <3> HIDE DEF l
    <3>1. QED
      BY <2>1, Rooms DEF Stepping
  <2>3. q \in Nat /\ q <= a + 0
    BY <1>2, <1>3, <1>4, <1>6
  <2> HIDE DEF a, c, q
  <2>4. q <= c
    BY <2>2, <2>3
  <2>5. QED
    BY <2>3, <2>4 DEF c, q
<1>7. QED
  BY <1>4, <1>5, <1>6 DEF Settled

LEMMA ParametersStayKnown ==
  ASSUME NEW new, Stepping(new), NEW lv, Plan(todo', lv, Len(scopes')),
         todo[1].do # "parameter",
         \A i \in 1 .. Len(new) : new[i].do \notin {"parameter", "leave"}
  PROVE  ParametersKnown(todo', lv, Len(scopes'), tables')
<1>1. /\ IsList(new) /\ IsList(todo) /\ todo # <<>> /\ todo' = new \o Tail(todo)
  <2>1. IsList(todo)
    BY StepPlans DEF StepPlan, Plan
  <2>2. QED
    BY <2>1 DEF Stepping, Then
<1>2. \A i \in 1 .. Len(new) : todo'[i] = new[i]
  BY <1>1, Joined
<1>3. \A i \in DOMAIN todo' : ~(i <= 0)
  <2>1. IsList(todo')
    BY DEF Plan
  <2>2. DOMAIN todo' = 1 .. Len(todo') /\ Len(todo') \in Nat
    BY <2>1, ListFacts
  <2>3. QED
    BY <2>2
<1>4. ASSUME NEW i \in DOMAIN todo' PROVE todo'[i].do # "parameter"
  BY <1>2, OldTask DEF Settled
<1>5. ASSUME NEW i \in DOMAIN todo', todo'[i].do = "leave"
      PROVE  /\ todo'[i].numParameters \in Nat
             /\ todo'[i].numParameters
                  <= Slots(tables', lv[i]) + (IF lv[i] = Len(scopes') THEN 0 ELSE 0)
  <2> DEFINE l == lv[i]
             c == Slots(tables', l)
             q == todo'[i].numParameters
  <2>1. i \notin 1 .. Len(new)
    BY <1>2, <1>5
  <2>2. Settled(todo'[i], l, tables')
    BY <2>1, OldTask
  <2>3. q \in Nat /\ q <= c
    BY <1>5, <2>2 DEF Settled
  <2>4. l \in DOMAIN scopes'
    BY LevelsWithin, Rooms DEF Stepping
  <2>5. c \in Nat
    <3> HIDE DEF l
    <3>1. QED
      BY <2>4, Rooms DEF Stepping
  <2> HIDE DEF q, c
  <2>6. q <= c + 0
    BY <2>3, <2>5
  <2>7. QED
    BY <2>3, <2>6 DEF q, c
<1>6. QED
  BY <1>3, <1>4, <1>5 DEF ParametersKnown

(* Tasks that bind nothing. *)
Inert(t) ==
  /\ t.do \notin {"closure", "parameter", "leave"}
  /\ t.do = "emit" => Neutral(t.op)

LEMMA InertSound ==
  ASSUME NEW t, Inert(t), NEW a, NEW b, NEW pool PROVE TaskSound(t, a, b, pool)
BY DEF Inert, Neutral, TaskSound

Step ==
  /\ IInv /\ IInv' /\ [Next]_vars
  /\ ClosuresInv
  /\ Writable /\ Writable'

(* A handler at work.                                                      *)
Handling(new) ==
  /\ Step
  /\ status = "compiling" /\ todo # <<>> /\ todo[1].do # "parameter"
  /\ IsList(new) /\ Then(new)
  /\ \A i \in 1 .. Len(new) : new[i].do \notin {"parameter", "leave"}

LEMMA HandlingKeeps ==
  ASSUME NEW new, Handling(new),
         \/ constants' = constants
         \/ \E object : /\ constants' = Append(constants, object)
                        /\ IsFunction(object) =>
                             \E captured \in Nat : FunctionSound(object, captured, constants),
         CodeSound',
         \A lv : Plan(todo', lv, Len(scopes')) =>
           \A i \in 1 .. Len(new) :
             TaskSound(new[i], Slots(tables', lv[i]), Captures(tables', lv[i]), constants')
  PROVE  ClosuresInv'
<1>1. PoolGrown(constants, constants') /\ PoolSound(constants')
  BY PoolStaysSound DEF Handling, Step, ClosuresInv, IInv
<1>2. Stepping(new)
  BY <1>1 DEF Handling, Stepping, Step, ClosuresInv
<1>3. ASSUME NEW lv, Plan(todo', lv, Len(scopes'))
      PROVE  /\ TasksSound(todo', lv, tables', constants')
             /\ ParametersKnown(todo', lv, Len(scopes'), tables')
  <2>1. TasksSound(todo', lv, tables', constants')
    BY <1>2, <1>3, TasksStaySound
  <2>2. ParametersKnown(todo', lv, Len(scopes'), tables')
    BY <1>2, <1>3, ParametersStayKnown DEF Handling
  <2>3. QED
    BY <2>1, <2>2
<1>4. TodoSound'
  BY <1>3 DEF TodoSound
<1>5. QED
  BY <1>1, <1>4 DEF ClosuresInv

(* ... without emitting. *)
LEMMA CodeKept ==
  ASSUME Step, PoolGrown(constants, constants'), scopes' = scopes
  PROVE  CodeSound'
BY CodeStaysSound DEF Step, ClosuresInv

LEMMA QuietlyKeeps ==
  ASSUME NEW new, Handling(new), scopes' = scopes,
         \/ constants' = constants
         \/ \E object : constants' = Append(constants, object) /\ ~IsFunction(object),
         \A lv : Plan(todo', lv, Len(scopes')) =>
           \A i \in 1 .. Len(new) :
             TaskSound(new[i], Slots(tables', lv[i]), Captures(tables', lv[i]), constants')
  PROVE  ClosuresInv'
<1>1. PoolGrown(constants, constants')
  BY PoolStaysSound DEF Handling, Step, ClosuresInv, IInv
<1>2. CodeSound'
  BY <1>1, CodeKept DEF Handling
<1>3. QED
  BY <1>2, HandlingKeeps

(* ... emitting into the innermost scope. *)
LEMMA EmittingKeeps ==
  ASSUME NEW new, Handling(new), NEW r, scopes' = InScope(r),
         \/ constants' = constants
         \/ \E object : /\ constants' = Append(constants, object)
                        /\ IsFunction(object) =>
                             \E captured \in Nat : FunctionSound(object, captured, constants),
         \A p \in DOMAIN r.ins :
           \/ p \in DOMAIN Innermost.ins /\ r.ins[p] = Innermost.ins[p]
           \/ Neutral(r.ins[p].op)
           \/ Sound(r.ins[p], Slots(tables', Len(scopes)), Captures(tables', Len(scopes)), constants'),
         \A i \in 1 .. Len(new) : Inert(new[i])
  PROVE  ClosuresInv'
<1> DEFINE n == Len(scopes)
<1>1. PoolGrown(constants, constants')
  BY PoolStaysSound DEF Handling, Step, ClosuresInv, IInv
<1>2. n \in DOMAIN scopes /\ DOMAIN scopes' = DOMAIN scopes
  <2>1. DOMAIN scopes' = DOMAIN scopes
    BY DEF InScope
  <2>2. n \in Nat \ {0} /\ DOMAIN scopes = 1 .. n
    BY Rooms DEF Handling, Step
  <2> HIDE DEF n
  <2>3. QED
    BY <2>1, <2>2
<1>3. /\ scopes'[n] = r /\ Innermost = scopes[n]
      /\ \A l \in DOMAIN scopes : l # n => scopes'[l] = scopes[l]
  <2>1. scopes = [l \in DOMAIN scopes |-> scopes[l]]
    <3>1. IsList(scopes)
      BY DEF Handling, Step, IInv, CodeInv
    <3>2. QED
      BY <3>1, ListFacts
  <2>2. scopes' = [scopes EXCEPT ![n] = r]
    BY DEF InScope
  <2>3. Innermost = scopes[n]
    BY DEF Innermost
  <2> HIDE DEF n
  <2>4. QED
    BY <1>2, <2>1, <2>2, <2>3
<1>4. ASSUME NEW l \in DOMAIN scopes', NEW p \in DOMAIN scopes'[l].ins
      PROVE  \/ /\ l \in DOMAIN scopes /\ p \in DOMAIN scopes[l].ins
                /\ scopes'[l].ins[p] = scopes[l].ins[p]
             \/ Neutral(scopes'[l].ins[p].op)
             \/ Sound(scopes'[l].ins[p], Slots(tables', l), Captures(tables', l), constants')
  <2>1. CASE l # n
    BY <1>2, <1>3, <2>1
  <2>2. CASE l = n
    BY <1>2, <1>3, <2>2
  <2>3. QED
    BY <2>1, <2>2
<1>5. CodeSound'
  BY <1>1, <1>4, CodeStaysSound DEF Handling, Step, ClosuresInv
<1>6. \A lv : \A i \in 1 .. Len(new) :
        TaskSound(new[i], Slots(tables', lv[i]), Captures(tables', lv[i]), constants')
  BY InertSound
<1>7. QED
  BY <1>5, <1>6, HandlingKeeps
--------------------------------------------------------------------------------
(* What the handlers put on todo. *)
LEMMA FewItems ==
  /\ IsList(<<>>) /\ \A i : i \notin 1 .. Len(<<>>)
  /\ \A t : IsList(<<t>>) /\ \A i \in 1 .. Len(<<t>>) : i = 1 /\ <<t>>[i] = t
  /\ \A t, u : /\ IsList(<<t, u>>) /\ Len(<<t, u>>) = 2
               /\ \A i \in 1 .. Len(<<t, u>>) : (i = 1 /\ <<t, u>>[i] = t) \/ (i = 2 /\ <<t, u>>[i] = u)
<1>1. IsList(<<>>) /\ \A i : i \notin 1 .. Len(<<>>)
  <2>1. <<>> \in Seq({}) /\ Len(<<>>) = 0
    OBVIOUS
  <2>2. IsList(<<>>)
    BY <2>1, ListFacts
  <2>3. \A i : i \notin 1 .. 0
    OBVIOUS
  <2>4. QED
    BY <2>1, <2>2, <2>3
<1>2. ASSUME NEW t PROVE IsList(<<t>>) /\ \A i \in 1 .. Len(<<t>>) : i = 1 /\ <<t>>[i] = t
  <2>1. <<t>> \in Seq({t}) /\ Len(<<t>>) = 1
    OBVIOUS
  <2>2. IsList(<<t>>)
    BY <2>1, ListFacts
  <2>3. \A i \in 1 .. 1 : i = 1
    OBVIOUS
  <2>4. <<t>>[1] = t
    OBVIOUS
  <2>5. QED
    BY <2>1, <2>2, <2>3, <2>4
<1>3. ASSUME NEW t, NEW u
      PROVE  /\ IsList(<<t, u>>) /\ Len(<<t, u>>) = 2
             /\ \A i \in 1 .. Len(<<t, u>>) : (i = 1 /\ <<t, u>>[i] = t) \/ (i = 2 /\ <<t, u>>[i] = u)
  <2>1. <<t, u>> \in Seq({t, u}) /\ Len(<<t, u>>) = 2
    OBVIOUS
  <2>2. IsList(<<t, u>>)
    BY <2>1, ListFacts
  <2>3. \A i \in 1 .. 2 : i = 1 \/ i = 2
    OBVIOUS
  <2>4. <<t, u>>[1] = t /\ <<t, u>>[2] = u
    OBVIOUS
  <2>5. QED
    BY <2>1, <2>2, <2>3, <2>4
<1>4. QED
  BY <1>1, <1>2, <1>3

(* A handler runs on the first task. *)
LEMMA StepFacts ==
  ASSUME Step, status = "compiling", status' = status, todo # <<>>
  PROVE  Working /\ Task = todo[1] /\ IsList(todo)
<1>1. Working
  BY DEF Step, IInv, Working
<1>2. QED
  BY <1>1, WorkingFacts

LEMMA InertKeeps ==
  ASSUME NEW new, Handling(new), scopes' = scopes,
         \/ constants' = constants
         \/ \E object : constants' = Append(constants, object) /\ ~IsFunction(object),
         \A i \in 1 .. Len(new) : Inert(new[i])
  PROVE  ClosuresInv'
<1>1. \A lv : \A i \in 1 .. Len(new) :
        TaskSound(new[i], Slots(tables', lv[i]), Captures(tables', lv[i]), constants')
  BY InertSound
<1>2. QED
  BY <1>1, QuietlyKeeps

LEMMA InertTasks ==
  /\ \A node : Inert(CompileTask(node))
  /\ \A op, operands : Neutral(op) => Inert(EmitTask(op, operands))
BY DEF Inert, CompileTask, EmitTask

LEMMA NeutralOps ==
  \A op : op \notin {"OpGetLocal", "OpSetLocal", "OpGetFree", "OpClosure"} => Neutral(op)
BY DEF Neutral, OfLocal

LEMMA LiteralSound ==
  ASSUME Step, CompileLiteral PROVE ClosuresInv'
<1> DEFINE t == EmitTask("OpConstant", <<Len(constants)>>)
<1>1. Compiling(Literals) /\ scopes' = scopes /\ status' = status /\ Then(<<t>>)
      /\ constants' = Append(constants, Task.node.object)
  BY DEF CompileLiteral
<1>2. Working
  BY <1>1, StepFacts DEF Compiling
<1>3. /\ Task = todo[1] /\ todo[1].do = "compile"
      /\ todo[1].node.kind \in {"IntegerLiteral", "StringLiteral"}
      /\ WellFormed(todo[1].node, Expressions, Statements, Blocks)
  BY <1>1, <1>2, CompilingFacts DEF Literals
<1>4. ~IsFunction(todo[1].node.object)
  BY <1>3 DEF WellFormed, IsFunction
<1>5. Inert(t)
  BY InertTasks, NeutralOps
<1> HIDE DEF t
<1>6. \A i \in 1 .. Len(<<t>>) : Inert(<<t>>[i])
  BY <1>5, FewItems
<1>7. Handling(<<t>>)
  BY <1>1, <1>3, <1>6, FewItems DEF Handling, Compiling, Inert
<1>8. QED
  BY <1>1, <1>3, <1>4, <1>6, <1>7, InertKeeps

LEMMA BooleanSound ==
  ASSUME Step, CompileBoolean PROVE ClosuresInv'
<1> DEFINE t == EmitTask(IF Task.node.bool THEN "OpTrue" ELSE "OpFalse", <<>>)
<1>1. /\ Compiling({"Boolean"}) /\ scopes' = scopes /\ constants' = constants
      /\ status' = status /\ Then(<<t>>)
  BY DEF CompileBoolean
<1>2. Task = todo[1] /\ todo[1].do = "compile"
  BY <1>1, StepFacts DEF Compiling
<1>3. Inert(t)
  BY InertTasks, NeutralOps
<1> HIDE DEF t
<1>4. \A i \in 1 .. Len(<<t>>) : Inert(<<t>>[i])
  BY <1>3, FewItems
<1>5. Handling(<<t>>)
  BY <1>1, <1>2, <1>4, FewItems DEF Handling, Compiling, Inert
<1>6. QED
  BY <1>1, <1>4, <1>5, InertKeeps

LEMMA IfSound ==
  ASSUME Step, CompileIf PROVE ClosuresInv'
<1> DEFINE t == CompileTask(Task.node.condition)
           u == [do |-> "ifThen", node |-> Task.node]
<1>1. /\ Compiling({"IfExpression"}) /\ scopes' = scopes /\ constants' = constants
      /\ status' = status /\ Then(<<t, u>>)
  BY DEF CompileIf
<1>2. Task = todo[1] /\ todo[1].do = "compile"
  BY <1>1, StepFacts DEF Compiling
<1>3. Inert(t) /\ Inert(u)
  BY InertTasks DEF Inert
<1> HIDE DEF t, u
<1>4. \A i \in 1 .. Len(<<t, u>>) : Inert(<<t, u>>[i])
  BY <1>3, FewItems
<1>5. Handling(<<t, u>>)
  BY <1>1, <1>2, <1>4, FewItems DEF Handling, Compiling, Inert
<1>6. QED
  BY <1>1, <1>4, <1>5, InertKeeps

(* The instruction after a node's parts binds nothing. *)
LEMMA FinishInert ==
  ASSUME NEW node \in Nodes, node.kind \in Plain, node.kind # "BlockStatement",
         NEW t, Finish(node) = <<t>>
  PROVE  Inert(t)
<1>1. WellFormed(node, Expressions, Statements, Blocks)
  BY NodesWellFormed
<1>2. SUFFICES ASSUME NEW op, NEW operands,
                      op \notin {"OpGetLocal", "OpSetLocal", "OpGetFree", "OpClosure"},
                      Finish(node) = <<EmitTask(op, operands)>>
               PROVE  Inert(t)
  <2>1. CASE node.kind = "InfixExpression"
    <3>1. InfixOp[node.operator] \notin {"OpGetLocal", "OpSetLocal", "OpGetFree", "OpClosure"}
      BY <1>1, <2>1 DEF WellFormed, InfixOperators, InfixOp
    <3>2. QED
      BY <1>2, <2>1, <3>1 DEF Finish
  <2>2. CASE node.kind = "PrefixExpression"
    <3>1. PrefixOp[node.operator] \notin {"OpGetLocal", "OpSetLocal", "OpGetFree", "OpClosure"}
      BY <1>1, <2>2 DEF WellFormed, PrefixOperators, PrefixOp
    <3>2. QED
      BY <1>2, <2>2, <3>1 DEF Finish
  <2>3. CASE node.kind \in {"ExpressionStatement", "IndexExpression", "ReturnStatement"}
    BY <1>2, <2>3 DEF Finish
  <2>4. CASE node.kind \in {"ArrayLiteral", "HashLiteral", "CallExpression"}
    BY <1>2, <2>4 DEF Finish
  <2>5. QED
    BY <2>1, <2>2, <2>3, <2>4 DEF Plain
<1> DEFINE u == EmitTask(op, operands)
<1>3. Inert(u)
  BY <1>2, InertTasks, NeutralOps
<1>4. <<t>> = <<u>>
  BY <1>2
<1> HIDE DEF u
<1>5. t = u
  BY <1>4
<1>6. QED
  BY <1>3, <1>5

LEMMA PartsSound ==
  ASSUME Step, CompileParts PROVE ClosuresInv'
<1> DEFINE node == todo[1].node
           new  == CompileTasks(Parts(node)) \o Finish(node)
<1>1. /\ Compiling(Plain) /\ scopes' = scopes /\ constants' = constants /\ status' = status
  BY DEF CompileParts
<1>2. Working
  BY <1>1, StepFacts DEF Compiling
<1>3. /\ Task = todo[1] /\ todo[1].do = "compile" /\ node \in Nodes /\ node.kind \in Plain
      /\ WellFormed(node, Expressions, Statements, Blocks)
  BY <1>1, <1>2, CompilingFacts
<1>4. Then(new)
  BY <1>3 DEF CompileParts
<1>5. ASSUME NEW T, NEW p \in Seq(T)
      PROVE  /\ IsList(CompileTasks(p)) /\ Len(CompileTasks(p)) \in Nat
             /\ \A i \in 1 .. Len(CompileTasks(p)) : Inert(CompileTasks(p)[i])
  BY <1>5, CompileTasksType, InertTasks
<1>6. IsList(new) /\ \A i \in 1 .. Len(new) : Inert(new[i])
  <2>1. CASE node.kind = "BlockStatement"
    <3> DEFINE p == node.statements
               c == CompileTasks(p)
    <3>1. p \in Seq(Statements) /\ Parts(node) = p /\ Finish(node) = <<>>
      BY <1>3, <2>1 DEF WellFormed, Parts, Finish
    <3>2. IsList(c) /\ \A i \in 1 .. Len(c) : Inert(c[i])
      BY <1>5, <3>1
    <3>3. new = c \o <<>>
      BY <3>1
    <3>4. c \o <<>> = c
      <4> HIDE DEF c
      <4>1. c \in Seq(Elements(c))
        BY <3>2 DEF IsList
      <4>2. QED
        BY <4>1
    <3> HIDE DEF c, p
    <3>5. QED
      BY <3>2, <3>3, <3>4
  <2>2. CASE node.kind # "BlockStatement"
    <3> DEFINE p == Parts(node)
               c == CompileTasks(p)
    <3>1. p \in Seq(Expressions) /\ \E t : Finish(node) = <<t>>
      BY <1>3, <2>2, PartsType
    <3>2. PICK t : Finish(node) = <<t>>
      BY <3>1
    <3>3. Inert(t)
      BY <1>3, <2>2, <3>2, FinishInert
    <3>4. IsList(c) /\ Len(c) \in Nat /\ \A i \in 1 .. Len(c) : Inert(c[i])
      BY <1>5, <3>1
    <3>5. new = c \o <<t>>
      BY <3>2
    <3> HIDE DEF c, p
    <3> DEFINE n == Len(c)
               r == c \o <<t>>
    <3>6. IsList(r) /\ Len(r) = n + 1 /\ r[n + 1] = t /\ \A i \in 1 .. n : r[i] = c[i]
      BY <3>4, OneMore
    <3>7. n \in Nat
      BY <3>4
    <3> HIDE DEF n, r
    <3>8. \A i \in 1 .. n + 1 : i = n + 1 \/ i \in 1 .. n
      BY <3>7
    <3>9. \A i \in 1 .. Len(r) : Inert(r[i])
      BY <3>3, <3>4, <3>6, <3>8 DEF n
    <3>10. QED
      BY <3>5, <3>6, <3>9 DEF r
  <2>3. QED
    BY <2>1, <2>2
<1> HIDE DEF new, node
<1>7. Handling(new)
  BY <1>1, <1>3, <1>4, <1>6 DEF Handling, Compiling, Inert
<1>8. QED
  BY <1>1, <1>6, <1>7, InertKeeps
--------------------------------------------------------------------------------
(* New tasks work in the innermost scope up to the one that leaves it.    *)
LEMMA NewLevel ==
  ASSUME NEW ts, IsList(ts), ts # <<>>, NEW new, IsList(new), NEW lv, NEW m,
         Plan(new \o Tail(ts), lv, m),
         \A i \in 1 .. Len(new) : i < Len(new) => new[i].do # "leave"
  PROVE  \A i \in 1 .. Len(new) : lv[i] = m
<1> DEFINE r == new \o Tail(ts)
           K == Len(new)
           N == Len(ts)
<1>1. /\ K \in Nat /\ N \in Nat /\ N > 0
      /\ IsList(r) /\ Len(r) = K + N - 1
      /\ \A i \in 1 .. K : r[i] = new[i]
  BY ListFacts, Joined
<1>2. DOMAIN r = 1 .. K + N - 1
  BY <1>1, ListFacts
<1> HIDE DEF K, N
<1>3. SUFFICES ASSUME NEW i \in 1 .. K PROVE lv[i] = m
  BY DEF K
<1>4. K \in DOMAIN r /\ i \in 1 .. K
  BY <1>1, <1>2, <1>3
<1>5. ASSUME NEW j \in 1 .. K - 1 PROVE r[j].do # "leave"
  <2>1. j \in 1 .. K /\ j < K
    BY <1>1
  <2>2. new[j].do # "leave"
    BY <2>1 DEF K
  <2>3. QED
    BY <1>1, <2>1, <2>2
<1>6. Plan(r, lv, m)
  OBVIOUS
<1> HIDE DEF r
<1>7. QED
  BY <1>4, <1>5, <1>6, LevelsStay

(* What a bound name's symbol refers to is there. *)
InRoom(symbol, locals, captured) ==
  /\ symbol \in Symbol
  /\ symbol.scope = Local => symbol.index \in 0 .. locals - 1
  /\ symbol.scope = Free => symbol.index \in 0 .. captured - 1

LEMMA BoundInRoom ==
  ASSUME TablesInv, NEW l \in DOMAIN tables, NEW name \in Names, Bound(tables[l], name)
  PROVE  /\ InRoom(tables[l].store[name], Slots(tables, l), Captures(tables, l))
         /\ tables[l].store[name].name = name
<1> DEFINE s == tables[l].store[name]
<1>1. tables[l] \in Table
  BY SymbolFacts
<1>2. s \in Symbol
  BY <1>1 DEF Table, Bound
<1>3. Proved!TableFits(tables[l], l)
  BY DEF TablesInv, Proved!IInv, Proved!WellScoped
<1>4. Proved!SymbolFits(tables[l], l, name)
  BY <1>3, SameTables DEF Proved!TableFits, Proved!BoundNames
<1>5. /\ s.name = name
      /\ s.scope = Local => s.index < tables[l].numDefinitions
      /\ s.scope = Free => s.index < Len(tables[l].free)
  BY <1>4 DEF Proved!SymbolFits, Proved!Local, Local, Proved!Global, Proved!Free, Free
<1>6. s.index \in Nat /\ tables[l].numDefinitions \in Nat /\ Len(tables[l].free) \in Nat
  BY <1>1, <1>2 DEF Symbol, Table
<1>7. \A i, n \in Nat : i < n => i \in 0 .. n - 1
  OBVIOUS
<1>8. QED
  BY <1>2, <1>5, <1>6, <1>7 DEF InRoom, Slots, Captures

LEMMA LoadSound ==
  ASSUME NEW a, NEW b, NEW symbol, InRoom(symbol, a, b), NEW pool
  PROVE  TaskSound(Load(symbol), a, b, pool) /\ Load(symbol).do = "emit"
<1>1. symbol.scope \in {Global, Local, Builtin, Free}
  BY DEF InRoom, Symbol, Scopes
<1>2. CASE symbol.scope = Global
  <2>1. Load(symbol) = EmitTask("OpGetGlobal", <<symbol.index>>)
    BY <1>2 DEF Load, Global, Local, Builtin, Free
  <2>2. QED
    BY <2>1 DEF EmitTask, TaskSound, OfLocal
<1>3. CASE symbol.scope = Builtin
  <2>1. Load(symbol) = EmitTask("OpGetBuiltin", <<symbol.index>>)
    BY <1>3 DEF Load, Global, Local, Builtin, Free
  <2>2. QED
    BY <2>1 DEF EmitTask, TaskSound, OfLocal
<1>4. CASE symbol.scope = Local
  <2>1. Load(symbol) = EmitTask("OpGetLocal", <<symbol.index>>)
    BY <1>4 DEF Load, Global, Local, Builtin, Free
  <2>2. symbol.index \in 0 .. a - 1
    BY <1>4 DEF InRoom
  <2>3. QED
    BY <2>1, <2>2 DEF EmitTask, TaskSound, OfLocal
<1>5. CASE symbol.scope = Free
  <2>1. Load(symbol) = EmitTask("OpGetFree", <<symbol.index>>)
    BY <1>5 DEF Load, Global, Local, Builtin, Free
  <2>2. symbol.index \in 0 .. b - 1
    BY <1>5 DEF InRoom
  <2>3. QED
    BY <2>1, <2>2 DEF EmitTask, TaskSound, OfLocal
<1>6. QED
  BY <1>1, <1>2, <1>3, <1>4, <1>5

(* Define gives the name the next slot of the innermost scope. *)
LEMMA SlotDefined ==
  ASSUME Step, NEW name \in Names, tables' = Define(tables, name)
  PROVE  LET n == Len(scopes) IN
         /\ Slots(tables', n) = Slots(tables, n) + 1
         /\ Slots(tables, n) \in Nat
         /\ DefinedSymbol(tables, name).index = Slots(tables, n)
<1> DEFINE n == Len(scopes)
<1>1. tables \in Seq(Table) /\ tables # <<>> /\ Len(tables) = n /\ n \in DOMAIN tables
  BY SymbolFacts DEF Step, IInv, TablesInv
<1>2. Define(tables, name)[n].numDefinitions = tables[n].numDefinitions + 1
  <2>1. Nat \subseteq Nat /\ Nat \subseteq Nat
    OBVIOUS
  <2>2. tables \in Seq(Proved!Table)
    BY <1>1, SameTables
  <2>3. Proved!Define(tables, name)[Len(tables)].numDefinitions = tables[Len(tables)].numDefinitions + 1
    BY <1>1, <2>1, <2>2, BuiltinsAssumption, Proved!DefineShape, Zenon
  <2>4. QED
    BY <1>1, <2>3, SameTables
<1>3. tables[n].numDefinitions \in Nat
  BY <1>1, SymbolFacts DEF Step, IInv, TablesInv
<1>4. QED
  BY <1>1, <1>2, <1>3 DEF Slots, DefinedSymbol

LEMMA LetSound ==
  ASSUME Step, NEW name \in Names, CompileLet(name) PROVE ClosuresInv'
<1> DEFINE t == CompileTask(todo[1].node.value)
           symbol == DefinedSymbol(tables, name)
           u == Store(symbol)
           n == Len(scopes)
<1>1. /\ Compiling({"LetStatement"}) /\ scopes' = scopes /\ constants' = constants
      /\ status' = status /\ tables' = Define(tables, name)
  BY DEF CompileLet
<1>2. Task = todo[1] /\ todo[1].do = "compile" /\ IsList(todo) /\ todo # <<>>
  BY <1>1, StepFacts DEF Compiling
<1>3. Then(<<t, u>>)
  BY <1>2 DEF CompileLet
<1>4. Inert(t) /\ t.do # "leave"
  BY InertTasks DEF CompileTask
<1>5. Slots(tables', n) = Slots(tables, n) + 1 /\ Slots(tables, n) \in Nat
      /\ symbol.index = Slots(tables, n)
  BY <1>1, SlotDefined
<1>6. u.do = "emit"
  BY DEF Store, EmitTask
<1>7. TaskSound(u, Slots(tables', n), Captures(tables', n), constants')
  <2>1. symbol.index \in 0 .. Slots(tables', n) - 1
    BY <1>5
  <2>2. u = EmitTask("OpSetGlobal", <<symbol.index>>) \/ u = EmitTask("OpSetLocal", <<symbol.index>>)
    BY DEF Store
  <2> HIDE DEF symbol, u, n
  <2>3. QED
    BY <2>1, <2>2 DEF TaskSound, EmitTask, OfLocal
<1> HIDE DEF t, u, n, symbol
<1> DEFINE new == <<t, u>>
<1>8. IsList(new) /\ \A i \in 1 .. Len(new) : (i = 1 /\ new[i] = t) \/ (i = 2 /\ new[i] = u)
  BY FewItems
<1> HIDE DEF new
<1>9. \A i \in 1 .. Len(new) : new[i].do \notin {"parameter", "leave"}
  BY <1>4, <1>6, <1>8 DEF Inert
<1>10. Then(new)
  BY <1>3 DEF new
<1>11. Handling(new)
  BY <1>1, <1>2, <1>8, <1>9, <1>10 DEF Handling, Compiling
<1>12. ASSUME NEW lv, Plan(todo', lv, Len(scopes')), NEW i \in 1 .. Len(new)
       PROVE  TaskSound(new[i], Slots(tables', lv[i]), Captures(tables', lv[i]), constants')
  <2>1. CASE new[i] = t
    BY <1>4, <2>1, InertSound
  <2>2. CASE new[i] = u
    <3>1. Plan(new \o Tail(todo), lv, Len(scopes'))
      BY <1>10, <1>12 DEF Then
    <3>2. lv[i] = n
      BY <1>1, <1>2, <1>8, <1>9, <1>12, <3>1, NewLevel DEF n
    <3>3. QED
      BY <1>7, <2>2, <3>2
  <2>3. QED
    BY <1>8, <2>1, <2>2
<1>13. QED
  BY <1>1, <1>11, <1>12, QuietlyKeeps

LEMMA IdentifierSound ==
  ASSUME Step, NEW name \in Names, CompileIdentifier(name) PROVE ClosuresInv'
<1> DEFINE symbol == ResolvedSymbol(tables, name)
           t == Load(symbol)
           n == Len(scopes)
           o == OwnerLevel(tables, name)
<1>1. /\ Compiling({"Identifier"}) /\ scopes' = scopes /\ constants' = constants
      /\ status' = status /\ tables' = Resolve(tables, name) /\ Known(tables, name) /\ Then(<<t>>)
  BY DEF CompileIdentifier
<1>2. Task = todo[1] /\ todo[1].do = "compile" /\ IsList(todo) /\ todo # <<>>
  BY <1>1, StepFacts DEF Compiling
<1>3. /\ tables \in Seq(Table) /\ Len(tables) = n /\ n \in Nat \ {0} /\ DOMAIN tables = 1 .. n
      /\ TablesInv
  BY SymbolFacts DEF Step, IInv, TablesInv
<1>4. /\ o \in 1 .. n /\ Bound(tables[o], name)
      /\ Nat \subseteq Nat /\ tables \in Seq(Proved!Table) /\ Proved!Known(tables, name)
  <2>1. Nat \subseteq Nat /\ tables \in Seq(Proved!Table) /\ Proved!Known(tables, name)
    BY <1>1, <1>3, SameTables
  <2>2. /\ Proved!OwnerLevel(tables, name) \in 1 .. Len(tables)
        /\ Proved!Bound(tables[Proved!OwnerLevel(tables, name)], name)
    BY <2>1, BuiltinsAssumption, Proved!OwnerExists
  <2>3. QED
    BY <1>3, <2>1, <2>2, SameTables
<1>5. /\ InRoom(tables[o].store[name], Slots(tables, o), Captures(tables, o))
      /\ tables[o].store[name].name = name
  BY <1>3, <1>4, BoundInRoom
<1>6. InRoom(symbol, Slots(tables', n), Captures(tables', n))
  <2>1. CASE Captured(tables, name)
    <3>1. symbol = FreeSymbol(name, Captures(tables, n))
      BY <1>3, <2>1 DEF ResolvedSymbol, Captures
    <3>2. symbol.scope = Free /\ symbol.index = Captures(tables, n) /\ symbol \in Symbol
      BY <1>1, <1>3, <3>1, SymbolFacts DEF FreeSymbol
    <3>3. o < n
      BY <1>3, <2>1 DEF Captured
    <3>4. Captures(tables', n) = Captures(tables, n) + 1
      <4>1. \A l \in 1 .. n : l > o => tables'[l] = DefineFree(tables[l], Original(tables, name, l - 1))
        BY <1>1, <1>3, <2>1 DEF Resolve
      <4>2. n \in 1 .. n /\ n > o
        BY <1>3, <1>4, <3>3
      <4>3. tables'[n] = DefineFree(tables[n], Original(tables, name, n - 1))
        BY <4>1, <4>2
      <4>4. tables[n] \in Table
        BY <1>3
      <4>5. \A x : DefineFree(tables[n], x).free = Append(tables[n].free, x)
        BY <4>4 DEF DefineFree, Table
      <4>6. tables[n].free \in Seq(Symbol)
        BY <4>4 DEF Table
      <4> DEFINE x == Original(tables, name, n - 1)
                 f == tables[n].free
      <4>7. IsList(f)
        BY <4>6, ListFacts
      <4>8. tables'[n].free = Append(f, x)
        BY <4>3, <4>5
      <4> HIDE DEF f, x
      <4>9. Len(Append(f, x)) = Len(f) + 1
        BY <4>7, ListChanges
      <4>10. QED
        BY <4>8, <4>9 DEF Captures, f
    <3>5. Captures(tables, n) \in Nat
      BY <1>3, SymbolFacts DEF Captures
    <3>6. symbol.index \in 0 .. Captures(tables', n) - 1
      <4> DEFINE c == Captures(tables, n)
                 d == Captures(tables', n)
                 i == symbol.index
      <4>1. c \in Nat /\ d = c + 1 /\ i = c
        BY <3>2, <3>4, <3>5
      <4> HIDE DEF c, d, i
      <4>2. i \in 0 .. d - 1
        BY <4>1
      <4>3. QED
        BY <4>2 DEF i, d
    <3>7. symbol.scope # Local
      BY <3>2 DEF Local, Free
    <3> HIDE DEF symbol, n
    <3>8. QED
      BY <3>2, <3>6, <3>7 DEF InRoom
  <2>2. CASE ~Captured(tables, name)
    <3>1. tables' = tables /\ symbol = tables[o].store[name]
      BY <1>1, <2>2 DEF Resolve, ResolvedSymbol
    <3>2. CASE o = n
      BY <1>5, <3>1, <3>2
    <3>3. CASE o # n
      <4>1. o < n
        BY <1>3, <1>4, <3>3
      <4>2. symbol.scope \in {Global, Builtin}
        BY <1>3, <2>2, <3>1, <4>1 DEF Captured, InFrame
      <4>3. symbol.scope # Local /\ symbol.scope # Free
        BY <4>2 DEF Global, Builtin, Local, Free
      <4>4. symbol \in Symbol
        BY <1>5, <3>1 DEF InRoom
      <4> HIDE DEF symbol, n
      <4>5. QED
        BY <4>3, <4>4 DEF InRoom
    <3>4. QED
      BY <3>2, <3>3
  <2>3. QED
    BY <2>1, <2>2
<1> HIDE DEF symbol, n
<1> DEFINE a == Slots(tables', n)
           b == Captures(tables', n)
<1>7. InRoom(symbol, a, b)
  BY <1>6
<1> HIDE DEF a, b
<1>8. TaskSound(t, a, b, constants') /\ t.do = "emit"
  BY <1>7, LoadSound
<1> HIDE DEF t
<1> DEFINE new == <<t>>
<1>9. IsList(new) /\ \A i \in 1 .. Len(new) : new[i] = t
  BY FewItems
<1> HIDE DEF new
<1>10. Then(new)
  BY <1>1 DEF new
<1>11. \A i \in 1 .. Len(new) : new[i].do \notin {"parameter", "leave"}
  BY <1>8, <1>9
<1>12. Handling(new)
  BY <1>1, <1>2, <1>9, <1>10, <1>11 DEF Handling, Compiling
<1>13. ASSUME NEW lv, Plan(todo', lv, Len(scopes')), NEW i \in 1 .. Len(new)
       PROVE  TaskSound(new[i], Slots(tables', lv[i]), Captures(tables', lv[i]), constants')
  <2>1. Plan(new \o Tail(todo), lv, Len(scopes'))
    BY <1>10, <1>13 DEF Then
  <2>2. lv[i] = n
    BY <1>1, <1>2, <1>9, <1>11, <1>13, <2>1, NewLevel DEF n
  <2>3. QED
    BY <1>8, <1>9, <2>2 DEF a, b
<1>14. QED
  BY <1>1, <1>12, <1>13, QuietlyKeeps
--------------------------------------------------------------------------------
(* Code in which every instruction is an old one or binds nothing.        *)
Bare(r, s) ==
  \A p \in DOMAIN r.ins :
    \/ p \in DOMAIN s.ins /\ r.ins[p] = s.ins[p]
    \/ Neutral(r.ins[p].op)

LEMMA BareFollows ==
  ASSUME NEW q, NEW r, NEW s, Bare(q, r), Bare(r, s) PROVE Bare(q, s)
BY DEF Bare

LEMMA BareEmitted ==
  ASSUME NEW s, NEW i, Neutral(i.op) PROVE Bare(Emit(s, i), s)
BY DEF Bare, Emit

LEMMA BareKept ==
  ASSUME NEW s, ScopeOK(s) PROVE Bare(KeepValue(s), s)
<1> DEFINE r == KeepValue(s)
<1>1. Trimmed(s, r)
  BY Kept
<1> HIDE DEF r
<1>2. Bare(r, s)
  BY <1>1 DEF Trimmed, LostPop, Bare
<1>3. QED
  BY <1>2 DEF r

LEMMA BareChanged ==
  ASSUME NEW s, ScopeOK(s), NEW pos \in JumpsIn(s), NEW operand
  PROVE  Bare(ChangeOperand(s, pos, operand), s)
<1> DEFINE i == Make(s.ins[pos].op, <<operand>>)
           r == ChangeOperand(s, pos, operand)
<1>1. s = [ins |-> s.ins, len |-> s.len, last |-> s.last, previous |-> s.previous]
      /\ s.ins = [p \in DOMAIN s.ins |-> s.ins[p]]
  BY DEF ScopeOK, Formed
<1>2. i.op \in Jumps
  BY DEF Make, JumpsIn
<1>3. r = [s EXCEPT !.ins = [@ EXCEPT ![pos] = i]]
  BY DEF ChangeOperand
<1> HIDE DEF i, r
<1>4. r.ins = [s.ins EXCEPT ![pos] = i]
  BY <1>1, <1>3
<1>5. \A p \in DOMAIN r.ins : p \in DOMAIN s.ins /\ r.ins[p] = IF p = pos THEN i ELSE s.ins[p]
  BY <1>1, <1>4
<1>6. Neutral(i.op)
  BY <1>2 DEF Jumps, Neutral, OfLocal
<1>7. QED
  BY <1>5, <1>6 DEF Bare, r

LEMMA BareEnded ==
  ASSUME NEW s, ScopeOK(s) PROVE Bare(ReturnAtEnd(s), s)
<1> DEFINE i == Make("OpReturnValue", <<>>)
           j == Make("OpReturn", <<>>)
           r == IF LastInstructionIs(s, "OpPop") THEN ReplaceLastPopWithReturn(s) ELSE s
<1>1. i.op = "OpReturnValue" /\ j.op = "OpReturn" /\ Neutral(i.op) /\ Neutral(j.op)
  BY NeutralOps DEF Make
<1> HIDE DEF i, j
<1>2. Bare(r, s)
  <2>1. s = [ins |-> s.ins, len |-> s.len, last |-> s.last, previous |-> s.previous]
        /\ s.ins = [p \in DOMAIN s.ins |-> s.ins[p]]
    BY DEF ScopeOK, Formed
  <2>2. CASE LastInstructionIs(s, "OpPop")
    <3>1. r = [s EXCEPT !.ins = [@ EXCEPT ![s.last.pos] = i], !.last.op = "OpReturnValue"]
      BY <2>2 DEF ReplaceLastPopWithReturn, i
    <3> HIDE DEF r
    <3>2. r.ins = [s.ins EXCEPT ![s.last.pos] = i]
      BY <2>1, <3>1
    <3>3. \A p \in DOMAIN r.ins : p \in DOMAIN s.ins /\ (r.ins[p] = i \/ r.ins[p] = s.ins[p])
      BY <2>1, <3>2
    <3>4. QED
      BY <1>1, <3>3 DEF Bare
  <2>3. CASE ~LastInstructionIs(s, "OpPop")
    BY <2>3 DEF Bare
  <2>4. QED
    BY <2>2, <2>3
<1>3. ReturnAtEnd(s) = r \/ ReturnAtEnd(s) = Emit(r, j)
  BY DEF ReturnAtEnd, j
<1>4. Bare(Emit(r, j), r)
  BY <1>1, BareEmitted
<1> HIDE DEF r
<1>5. QED
  BY <1>2, <1>3, <1>4, BareFollows

LEMMA BareKeeps ==
  ASSUME NEW new, Handling(new), NEW r, scopes' = InScope(r), constants' = constants,
         Bare(r, Innermost), \A i \in 1 .. Len(new) : Inert(new[i])
  PROVE  ClosuresInv'
BY EmittingKeeps DEF Bare

LEMMA ConsequenceSound ==
  ASSUME Step, JumpOverConsequence PROVE ClosuresInv'
<1> DEFINE i == Make("OpJumpNotTruthy", <<Magic>>)
           t == CompileTask(Task.node.consequence)
           u == [do |-> "ifElse", node |-> Task.node, jumpNotTruthyPos |-> Innermost.len]
           r == Emit(Innermost, i)
<1>1. /\ Resuming("ifThen") /\ scopes' = InScope(r) /\ constants' = constants
      /\ status' = status /\ Then(<<t, u>>)
  BY DEF JumpOverConsequence
<1>2. Task = todo[1] /\ todo[1].do = "ifThen"
  BY <1>1, StepFacts DEF Resuming
<1>3. Inert(t) /\ Inert(u)
  BY InertTasks DEF Inert
<1>4. Bare(r, Innermost)
  <2>1. i.op = "OpJumpNotTruthy"
    BY DEF Make
  <2>2. Neutral(i.op)
    BY <2>1, NeutralOps
  <2> HIDE DEF i
  <2>3. QED
    BY <2>2, BareEmitted
<1> HIDE DEF t, u, r
<1>5. \A j \in 1 .. Len(<<t, u>>) : Inert(<<t, u>>[j])
  BY <1>3, FewItems
<1>6. Handling(<<t, u>>)
  BY <1>1, <1>2, <1>5, FewItems DEF Handling, Resuming, Inert
<1>7. QED
  BY <1>1, <1>4, <1>5, <1>6, BareKeeps

(* A task that patches a jump.                                             *)
LEMMA HolderHolds ==
  ASSUME Working, Holder(todo[1])
  PROVE  HeldBy(todo[1]) \in JumpsIn(Innermost) /\ ScopeOK(Innermost)
<1>1. PICK levels : Good(todo, levels, scopes)
  BY DEF Working, CodeInv
<1>2. QED
  BY <1>1, HolderFacts, InnermostFacts

LEMMA EndIfSound ==
  ASSUME Step, EndIf PROVE ClosuresInv'
<1> DEFINE s   == Innermost
           pos == todo[1].jumpPos
           k   == IF todo[1].node.alternative = NoBlock THEN s ELSE KeepValue(s)
           r   == ChangeOperand(k, pos, k.len)
<1>1. /\ Resuming("ifEnd") /\ constants' = constants /\ status' = status /\ Then(<<>>)
  BY DEF EndIf
<1>2. Task = todo[1] /\ todo[1].do = "ifEnd" /\ Working
  BY <1>1, StepFacts DEF Resuming
<1>3. scopes' = InScope(r)
  BY <1>2 DEF EndIf
<1>4. pos \in JumpsIn(s) /\ ScopeOK(s)
  BY <1>2, HolderHolds DEF Holder, HeldBy
<1> HIDE DEF s, pos
<1>5. Bare(k, s) /\ ScopeOK(k) /\ pos \in JumpsIn(k)
  <2>1. CASE k = s
    BY <1>4, <2>1 DEF Bare
  <2>2. CASE k = KeepValue(s)
    <3>1. Trimmed(s, KeepValue(s)) /\ Bare(KeepValue(s), s)
      BY <1>4, Kept, BareKept
    <3>2. QED
      BY <1>4, <2>2, <3>1 DEF Trimmed, LostPop
  <2>3. QED
    BY <2>1, <2>2
<1> HIDE DEF k
<1>6. Bare(r, k)
  BY <1>5, BareChanged
<1> HIDE DEF r
<1>7. Bare(r, Innermost)
  BY <1>5, <1>6, BareFollows DEF s
<1>8. Handling(<<>>)
  BY <1>1, <1>2, FewItems DEF Handling, Resuming
<1>9. QED
  BY <1>1, <1>3, <1>7, <1>8, FewItems, BareKeeps

LEMMA AlternativeSound ==
  ASSUME Step, JumpOverAlternative PROVE ClosuresInv'
<1> DEFINE h   == todo[1]
           s   == Innermost
           pos == h.jumpNotTruthyPos
           k   == KeepValue(s)
           i   == Make("OpJump", <<Magic>>)
           j   == Emit(k, i)
           r   == ChangeOperand(j, pos, j.len)
           t   == IF h.node.alternative = NoBlock THEN EmitTask("OpNull", <<>>)
                  ELSE CompileTask(h.node.alternative)
           u   == [do |-> "ifEnd", node |-> h.node, jumpPos |-> k.len]
<1>1. Resuming("ifElse") /\ constants' = constants /\ status' = status
  BY DEF JumpOverAlternative
<1>2. Task = h /\ h.do = "ifElse" /\ Working
  BY <1>1, StepFacts DEF Resuming
<1>3. scopes' = InScope(r) /\ Then(<<t, u>>)
  BY <1>2 DEF JumpOverAlternative
<1>4. pos \in JumpsIn(s) /\ ScopeOK(s)
  BY <1>2, HolderHolds DEF Holder, HeldBy
<1>5. Inert(t) /\ Inert(u)
  <2>1. Inert(EmitTask("OpNull", <<>>)) /\ Inert(CompileTask(h.node.alternative))
    BY InertTasks, NeutralOps
  <2>2. Inert(u)
    BY DEF Inert
  <2>3. QED
    BY <2>1, <2>2
<1> HIDE DEF s, pos, t, u
<1>6. Trimmed(s, k) /\ Bare(k, s)
  BY <1>4, Kept, BareKept
<1> HIDE DEF k
<1>7. IsInstruction(i) /\ i.op = "OpJump"
  BY JumpMade DEF Jumps
<1>8. Neutral(i.op)
  BY <1>7, NeutralOps
<1> HIDE DEF i
<1>9. Grown(k, i, j) /\ Bare(j, k)
  <2>1. ScopeOK(k) /\ i.op # "OpPop"
    BY <1>6, <1>7 DEF Trimmed, LostPop
  <2>2. QED
    BY <1>7, <1>8, <2>1, Emitted, BareEmitted
<1> HIDE DEF j
<1>10. pos \in JumpsIn(j) /\ ScopeOK(j)
  <2>1. pos \in JumpsIn(k)
    BY <1>4, <1>6 DEF Trimmed, LostPop
  <2>2. QED
    BY <1>9, <2>1 DEF Grown, JumpsIn
<1>11. Bare(r, j)
  BY <1>10, BareChanged
<1> HIDE DEF r
<1>12. Bare(r, Innermost)
  <2>1. Bare(r, k)
    BY <1>9, <1>11, BareFollows
  <2>2. QED
    BY <1>6, <2>1, BareFollows DEF s
<1>13. \A q \in 1 .. Len(<<t, u>>) : Inert(<<t, u>>[q])
  BY <1>5, FewItems
<1>14. Handling(<<t, u>>)
  BY <1>1, <1>2, <1>3, <1>13, FewItems DEF Handling, Resuming, Inert
<1>15. QED
  BY <1>1, <1>3, <1>12, <1>13, <1>14, BareKeeps

(* The first task is right in the innermost scope. *)
LEMMA FirstSound ==
  ASSUME Step, status = "compiling", todo # <<>>
  PROVE  TaskSound(todo[1], Slots(tables, Len(scopes)), Captures(tables, Len(scopes)), constants)
<1>1. PICK levels : Good(todo, levels, scopes)
  BY DEF Step, IInv, CodeInv
<1>2. Plan(todo, levels, Len(scopes))
  BY <1>1 DEF Good
<1>3. levels[1] = Len(scopes) /\ 1 \in DOMAIN todo
  BY <1>2, FirstTask DEF Plan
<1>4. TasksSound(todo, levels, tables, constants)
  BY <1>2 DEF Step, ClosuresInv, TodoSound
<1>5. QED
  BY <1>3, <1>4 DEF TasksSound

LEMMA InstructionSound ==
  ASSUME Step, EmitInstruction PROVE ClosuresInv'
<1> DEFINE t == todo[1]
           i == Make(t.op, t.operands)
           r == Emit(Innermost, i)
           n == Len(scopes)
           a == Slots(tables, n)
           b == Captures(tables, n)
<1>1. /\ Resuming("emit") /\ constants' = constants /\ tables' = tables
      /\ status' = status /\ Then(<<>>)
  BY DEF EmitInstruction
<1>2. Task = t /\ t.do = "emit" /\ Working
  BY <1>1, StepFacts DEF Resuming
<1>3. scopes' = InScope(r)
  BY <1>2 DEF EmitInstruction
<1>4. t.op \in Opcodes \ Jumps /\ t.operands \in Seq(Nat) /\ Len(t.operands) = Len(OperandWidth(t.op))
  BY <1>2, WorkingFacts, TaskFacts
<1>5. TaskSound(t, a, b, constants)
  BY <1>1, FirstSound DEF Resuming
<1>6. i.op = t.op
  BY DEF Make
<1>7. a \in Nat /\ b \in Nat
  <2>1. n \in DOMAIN scopes
    BY Rooms DEF Step
  <2>2. QED
    BY <2>1, Rooms DEF Step
<1> HIDE DEF a, b
<1>8. Sound(i, a, b, constants)
  <2>1. CASE t.op \in OfLocal \union {"OpGetFree"}
    <3>1. /\ t.op \in OneByteOperand /\ t.op \notin NoOperand
          /\ t.op \notin TwoByteOperand /\ t.op # "OpClosure"
      BY <2>1 DEF OfLocal, OneByteOperand, NoOperand, TwoByteOperand
    <3>2. OperandWidth(t.op) = <<1>>
      BY <3>1, Zenon DEF OperandWidth
    <3>3. Len(t.operands) = 1
      BY <1>4, <3>2
    <3>4. 1 \in DOMAIN t.operands /\ t.operands[1] \in Nat
      BY <1>4, <3>3
    <3>5. i.args[1] = t.operands[1] % Byte
      BY <3>2, <3>4 DEF Make, Capacity
    <3>6. \A x \in Nat, c \in Nat \ {0} : \A m \in Nat : x \in 0 .. m - 1 => x % c \in 0 .. m - 1
      OBVIOUS
    <3>7. Byte \in Nat \ {0}
      BY ByteAssumption
    <3>8. t.op \in OfLocal => t.operands[1] \in 0 .. a - 1
      BY <1>2, <1>5 DEF TaskSound
    <3>9. t.op = "OpGetFree" => t.operands[1] \in 0 .. b - 1
      BY <1>2, <1>5 DEF TaskSound
    <3>10. t.op \in OfLocal => i.args[1] \in 0 .. a - 1
      BY <1>7, <3>4, <3>5, <3>6, <3>7, <3>8
    <3>11. t.op = "OpGetFree" => i.args[1] \in 0 .. b - 1
      BY <1>7, <3>4, <3>5, <3>6, <3>7, <3>9
    <3>12. t.op # "OpClosure"
      BY <2>1 DEF OfLocal
    <3> HIDE DEF i
    <3>13. QED
      BY <1>6, <3>10, <3>11, <3>12 DEF Sound
  <2>2. CASE t.op \notin OfLocal \union {"OpGetFree"}
    <3>1. t.op # "OpClosure"
      BY <1>2, <1>5 DEF TaskSound
    <3> HIDE DEF i
    <3>2. QED
      BY <1>6, <2>2, <3>1 DEF Sound
  <2>3. QED
    BY <2>1, <2>2
<1> HIDE DEF i
<1>9. \A p \in DOMAIN r.ins : r.ins[p] = i \/ (p \in DOMAIN Innermost.ins /\ r.ins[p] = Innermost.ins[p])
  BY DEF Emit
<1> HIDE DEF r
<1>10. \A p \in DOMAIN r.ins :
         \/ p \in DOMAIN Innermost.ins /\ r.ins[p] = Innermost.ins[p]
         \/ Neutral(r.ins[p].op)
         \/ Sound(r.ins[p], Slots(tables', Len(scopes)), Captures(tables', Len(scopes)), constants')
  BY <1>1, <1>8, <1>9 DEF a, b
<1>11. Handling(<<>>)
  BY <1>1, <1>2, FewItems DEF Handling, Resuming
<1>12. QED
  BY <1>1, <1>3, <1>10, <1>11, FewItems, EmittingKeeps

LEMMA EmitClosureSound ==
  ASSUME Step, EmitClosure PROVE ClosuresInv'
<1> DEFINE t == todo[1]
           c == Len(constants)
           operands == <<c, t.numFree>>
           i == Make("OpClosure", operands)
           r == Emit(Innermost, i)
<1>1. Resuming("closure") /\ tables' = tables /\ status' = status /\ Then(<<>>)
  BY DEF EmitClosure
<1>2. Task = t /\ t.do = "closure" /\ Working
  BY <1>1, StepFacts DEF Resuming
<1>3. scopes' = InScope(r) /\ constants' = Append(constants, t.fn)
  BY <1>2 DEF EmitClosure
<1>4. TaskSound(t, Slots(tables, Len(scopes)), Captures(tables, Len(scopes)), constants)
  BY <1>1, FirstSound DEF Resuming
<1>5. IsFunction(t.fn) /\ t.numFree \in 0 .. Byte - 1 /\ FunctionSound(t.fn, t.numFree, constants)
  BY <1>2, <1>4 DEF TaskSound
<1>6. Byte \in Nat \ {0} /\ Reach \in Nat \ {0} /\ t.numFree \in Nat
  <2>1. Byte \in Nat \ {0} /\ Reach \in Nat \ {0}
    BY ReachType
  <2>2. \A m \in Nat \ {0} : \A x \in 0 .. m - 1 : x \in Nat
    OBVIOUS
  <2>3. QED
    BY <1>5, <2>1, <2>2
<1>7. /\ c \in Nat /\ c < Reach /\ c + 1 \in DOMAIN constants' /\ constants'[c + 1] = t.fn
  <2>1. IsList(constants)
    BY <1>2 DEF Working, CodeInv
  <2>2. /\ c \in Nat /\ Len(constants') = c + 1 /\ DOMAIN constants' = 1 .. c + 1
        /\ constants'[c + 1] = t.fn
    BY <1>3, <2>1, ListFacts, ListChanges
  <2>3. Len(constants') <= Reach
    BY DEF Step, Writable, Reach
  <2> HIDE DEF c
  <2>4. c + 1 \in 1 .. c + 1 /\ c < Reach
    BY <1>6, <2>2, <2>3
  <2>5. QED
    BY <2>2, <2>4
<1>8. i.op = "OpClosure" /\ i.args[1] = c /\ i.args[2] = t.numFree
  <2>1. "OpClosure" \notin NoOperand /\ "OpClosure" \notin OneByteOperand /\ "OpClosure" \notin TwoByteOperand
    BY DEF NoOperand, OneByteOperand, TwoByteOperand
  <2>2. OperandWidth("OpClosure") = <<2, 1>>
    BY <2>1, Zenon DEF OperandWidth
  <2>3. Capacity(2) = Reach /\ Capacity(1) = Byte
    BY DEF Capacity, Reach
  <2> HIDE DEF c
  <2>4. DOMAIN operands = 1 .. 2 /\ operands[1] = c /\ operands[2] = t.numFree
    OBVIOUS
  <2>5. i.op = "OpClosure" /\ i.args = [q \in DOMAIN operands |-> operands[q] % Capacity(OperandWidth("OpClosure")[q])]
    BY DEF Make
  <2>6. i.args[1] = c % Reach /\ i.args[2] = t.numFree % Byte
    BY <2>2, <2>3, <2>4, <2>5
  <2>7. \A m \in Nat \ {0} : \A x \in Nat : x < m => x % m = x
    OBVIOUS
  <2>8. c % Reach = c
    BY <1>6, <1>7, <2>7
  <2>9. t.numFree < Byte
    BY <1>5, <1>6
  <2>10. t.numFree % Byte = t.numFree
    BY <1>6, <2>7, <2>9
  <2>11. QED
    BY <2>5, <2>6, <2>8, <2>10
<1> HIDE DEF i
<1>9. Closes(i, constants')
  <2>1. \A q \in DOMAIN t.fn.ins :
          t.fn.ins[q].op = "OpGetFree" => t.fn.ins[q].args[1] \in 0 .. t.numFree - 1
    BY <1>5 DEF FunctionSound, AllSound, Sound
  <2> HIDE DEF c
  <2>2. QED
    BY <1>5, <1>6, <1>7, <1>8, <2>1 DEF Closes
<1>10. \A a, b : Sound(i, a, b, constants')
  BY <1>8, <1>9 DEF Sound, OfLocal
<1>11. \A p \in DOMAIN r.ins : r.ins[p] = i \/ (p \in DOMAIN Innermost.ins /\ r.ins[p] = Innermost.ins[p])
  BY DEF Emit
<1> HIDE DEF r
<1>12. \A p \in DOMAIN r.ins :
         \/ p \in DOMAIN Innermost.ins /\ r.ins[p] = Innermost.ins[p]
         \/ Neutral(r.ins[p].op)
         \/ Sound(r.ins[p], Slots(tables', Len(scopes)), Captures(tables', Len(scopes)), constants')
  BY <1>10, <1>11
<1>13. Handling(<<>>)
  BY <1>1, <1>2, FewItems DEF Handling, Resuming
<1>14. QED
  BY <1>3, <1>5, <1>6, <1>12, <1>13, FewItems, EmittingKeeps
--------------------------------------------------------------------------------
(* A parameter takes the next slot, and one less is to be defined.        *)
Moved(new, ts, levels, lv, j) ==
  /\ j \in Nat /\ j + 1 \in DOMAIN ts
  /\ (new \o Tail(ts))[j] = ts[j + 1] /\ lv[j] = levels[j + 1]

LEMMA MovedUp ==
  ASSUME NEW ts, NEW levels, NEW n, Plan(ts, levels, n), ts # <<>>,
         NEW new, IsList(new), NEW lv, NEW m, Plan(new \o Tail(ts), lv, m),
         NEW j \in DOMAIN (new \o Tail(ts))
  PROVE  Len(new) = 0 => Moved(new, ts, levels, lv, j)
<1> DEFINE r == new \o Tail(ts)
           K == Len(new)
           N == Len(ts)
<1>1. IsList(ts)
  BY DEF Plan
<1>2. N \in Nat /\ DOMAIN ts = 1 .. N
  BY <1>1, ListFacts
<1>3. IsList(r) /\ Len(r) = K + N - 1 /\ \A i \in 2 .. N : r[K + i - 1] = ts[i]
  BY <1>1, Joined
<1>4. \A i \in 2 .. N : lv[K + i - 1] = levels[i]
  BY LevelsAgree
<1>5. DOMAIN r = 1 .. K + N - 1
  BY <1>3, ListFacts
<1>6. j \in DOMAIN r
  OBVIOUS
<1> HIDE DEF r, K, N
<1> SUFFICES ASSUME K = 0 PROVE Moved(new, ts, levels, lv, j)
  BY DEF K
<1>7. /\ j \in Nat /\ j + 1 \in 2 .. N /\ j + 1 \in 1 .. N
      /\ 0 + (j + 1) - 1 = j
  BY <1>2, <1>5, <1>6
<1>8. r[j] = ts[j + 1] /\ lv[j] = levels[j + 1]
  <2>1. r[K + (j + 1) - 1] = ts[j + 1] /\ lv[K + (j + 1) - 1] = levels[j + 1]
    BY <1>3, <1>4, <1>7
  <2>2. QED
    BY <1>6, <1>7, <2>1
<1>9. QED
  BY <1>2, <1>7, <1>8 DEF Moved, r

LEMMA ParameterSound ==
  ASSUME Step, NEW name \in Names, DefineParameter(name) PROVE ClosuresInv'
<1> DEFINE n == Len(scopes)
<1>1. /\ Resuming("parameter") /\ scopes' = scopes /\ constants' = constants
      /\ status' = status /\ tables' = Define(tables, name) /\ Then(<<>>)
  BY DEF DefineParameter
<1>2. /\ Task = todo[1] /\ todo[1].do = "parameter" /\ IsList(todo) /\ todo # <<>>
      /\ todo' = <<>> \o Tail(todo) /\ IsList(<<>>)
  BY <1>1, StepFacts, FewItems DEF Resuming, Then
<1>3. /\ Slots(tables', n) = Slots(tables, n) + 1 /\ Slots(tables, n) \in Nat
  BY <1>1, SlotDefined
<1>4. PoolGrown(constants, constants') /\ PoolSound(constants')
  BY <1>1, PoolStaysSound DEF Step, ClosuresInv, IInv
<1>5. CodeSound'
  BY <1>1, <1>4, CodeKept
<1>6. Stepping(<<>>)
  BY <1>1, <1>2, <1>4 DEF Stepping, Step, ClosuresInv, Resuming
<1>7. ASSUME NEW lv, Plan(todo', lv, Len(scopes'))
      PROVE  TasksSound(todo', lv, tables', constants') /\ ParametersKnown(todo', lv, Len(scopes'), tables')
  <2>1. TasksSound(todo', lv, tables', constants')
    BY <1>6, <1>7, FewItems, TasksStaySound
  <2>2. PICK levels : StepPlan(lv, <<>>, levels)
    BY <1>6, <1>7, StepPlans
  <2>3. PICK k \in Nat :
          /\ \A i \in DOMAIN todo : todo[i].do = "parameter" <=> i <= k
          /\ \A i \in DOMAIN todo : todo[i].do = "leave" =>
               /\ todo[i].numParameters \in Nat
               /\ todo[i].numParameters
                    <= Slots(tables, levels[i]) + (IF levels[i] = n THEN k ELSE 0)
    BY <2>2 DEF StepPlan, ParametersKnown
  <2>4. Plan(todo, levels, n) /\ 1 \in DOMAIN todo
    BY <2>2 DEF StepPlan
  <2>5. 1 <= k
    BY <1>2, <2>3, <2>4
  <2>6. ASSUME NEW j \in DOMAIN todo'
        PROVE  /\ j + 1 \in DOMAIN todo /\ todo'[j] = todo[j + 1] /\ lv[j] = levels[j + 1]
               /\ j \in Nat
    <3>1. Plan(<<>> \o Tail(todo), lv, Len(scopes')) /\ j \in DOMAIN (<<>> \o Tail(todo))
      BY <1>2, <1>7, <2>6
    <3>2. Moved(<<>>, todo, levels, lv, j)
      BY <1>2, <2>4, <3>1, MovedUp, FewItems
    <3>3. QED
      BY <1>2, <3>2 DEF Moved
  <2>7. k - 1 \in Nat
    BY <2>5
  <2>8. ASSUME NEW j \in DOMAIN todo'
         PROVE  todo'[j].do = "parameter" <=> j <= k - 1
    <3>1. todo[j + 1].do = "parameter" <=> j + 1 <= k
      BY <2>3, <2>6
    <3>2. j \in Nat
      BY <2>6
    <3>3. j + 1 <= k <=> j <= k - 1
      BY <3>2
    <3>4. QED
      BY <2>6, <3>1, <3>3
  <2>9. ASSUME NEW j \in DOMAIN todo', todo'[j].do = "leave"
         PROVE  /\ todo'[j].numParameters \in Nat
                /\ todo'[j].numParameters
                     <= Slots(tables', lv[j]) + (IF lv[j] = Len(scopes') THEN k - 1 ELSE 0)
    <3> DEFINE l == levels[j + 1]
               a == Slots(tables, l)
               c == Slots(tables', l)
               q == todo[j + 1].numParameters
    <3>1. /\ q \in Nat
          /\ q <= a + (IF l = n THEN k ELSE 0)
          /\ todo'[j].numParameters = q /\ lv[j] = l
      BY <2>3, <2>6, <2>9
    <3>2. l \in DOMAIN scopes
      BY <2>4, <2>6, LevelsWithin, Rooms DEF Step
    <3>3. a \in Nat /\ c \in Nat /\ a <= c
      <4> HIDE DEF l
      <4>1. QED
        BY <1>1, <3>2, Rooms DEF Step
    <3>4. l = n => c = a + 1
      BY <1>3
    <3> HIDE DEF a, c, q, l, n
    <3>5. q <= c + (IF l = n THEN k - 1 ELSE 0)
      BY <3>1, <3>3, <3>4
    <3>6. QED
      BY <1>1, <3>1, <3>5 DEF c, n
  <2>10. QED
    BY <2>1, <2>7, <2>8, <2>9 DEF ParametersKnown
<1>8. TodoSound'
  BY <1>7 DEF TodoSound
<1>9. QED
  BY <1>4, <1>5, <1>8 DEF ClosuresInv

(* What a function is put on todo as. *)
ParametersThen(p, body, leave) ==
  [i \in DOMAIN p |-> [do |-> "parameter", name |-> p[i]]] \o <<body, leave>>

AreTasks(new, p, body, leave) ==
  /\ IsList(new) /\ Len(p) \in Nat /\ Len(new) = Len(p) + 2
  /\ \A i \in 1 .. Len(p) : new[i].do = "parameter"
  /\ new[Len(p) + 1] = body /\ new[Len(p) + 2] = leave

LEMMA FunctionTasks ==
  ASSUME NEW p, DOMAIN p = 1 .. Len(p), Len(p) \in Nat, NEW body, NEW leave
  PROVE  AreTasks(ParametersThen(p, body, leave), p, body, leave)
<1> DEFINE parameter(i) == [do |-> "parameter", name |-> p[i]]
           c == [i \in DOMAIN p |-> parameter(i)]
           K == Len(p)
           first == c \o <<body>>
           new == first \o <<leave>>
<1>1. K \in Nat /\ DOMAIN p = 1 .. K
  OBVIOUS
<1>2. IsList(c) /\ Len(c) = K /\ \A i \in 1 .. K : c[i].do = "parameter"
  <2> DEFINE T == {parameter(i) : i \in 1 .. K}
  <2>1. c = [i \in 1 .. K |-> parameter(i)]
    BY <1>1
  <2>2. \A i \in 1 .. K : parameter(i) \in T /\ parameter(i).do = "parameter"
    OBVIOUS
  <2> HIDE DEF T, K, parameter, c
  <2>3. c \in Seq(T) /\ Len(c) = K
    BY <1>1, <2>1, <2>2
  <2>4. IsList(c)
    BY <2>3, ListFacts
  <2>5. QED
    BY <2>1, <2>2, <2>3, <2>4
<1> HIDE DEF c, K
<1>3. /\ IsList(first) /\ Len(first) = K + 1
      /\ \A i \in 1 .. K : first[i] = c[i]
      /\ first[K + 1] = body
      /\ \A u : c \o <<body, u>> = first \o <<u>>
  <2>1. IsList(c)
    BY <1>2
  <2>2. /\ IsList(c \o <<body>>) /\ Len(c \o <<body>>) = Len(c) + 1
        /\ \A i \in 1 .. Len(c) : (c \o <<body>>)[i] = c[i]
        /\ (c \o <<body>>)[Len(c) + 1] = body
        /\ \A u : c \o <<body, u>> = (c \o <<body>>) \o <<u>>
    BY <2>1, OneMore
  <2>3. QED
    BY <1>2, <2>2
<1> HIDE DEF first
<1>4. /\ IsList(new) /\ Len(new) = Len(first) + 1
      /\ \A i \in 1 .. Len(first) : new[i] = first[i]
      /\ new[Len(first) + 1] = leave
  <2>1. IsList(first)
    BY <1>3
  <2>2. QED
    BY <2>1, OneMore
<1> HIDE DEF new
<1>5. /\ \A i \in 1 .. K : i \in 1 .. K + 1
      /\ K + 1 \in 1 .. K + 1 /\ (K + 1) + 1 = K + 2
  BY <1>1
<1>6. /\ IsList(new) /\ Len(new) = K + 2
      /\ \A i \in 1 .. K : new[i].do = "parameter"
      /\ new[K + 1] = body /\ new[K + 2] = leave
  BY <1>2, <1>3, <1>4, <1>5
<1>7. ParametersThen(p, body, leave) = new
  BY <1>3 DEF new, c, ParametersThen
<1>8. QED
  BY <1>1, <1>6, <1>7 DEF K, AreTasks

(* A function's parameters are the first to be defined in its scope.      *)
LEMMA EnterSound ==
  ASSUME Step, CompileFunction PROVE ClosuresInv'
<1> DEFINE h == todo[1]
           p == h.node.parameters
           body == CompileTask(h.node.body)
           leave == [do |-> "leave", numParameters |-> Len(p)]
           new == ParametersThen(p, body, leave)
           n == Len(scopes)
           K == Len(p)
<1>1. /\ Compiling({"FunctionLiteral"}) /\ scopes' = Append(scopes, NewCompilationScope)
      /\ constants' = constants /\ status' = status
  BY DEF CompileFunction
<1>2. Working
  BY <1>1, StepFacts DEF Compiling
<1>3. /\ Task = h /\ h.do = "compile"
      /\ h.node.kind = "FunctionLiteral"
      /\ WellFormed(h.node, Expressions, Statements, Blocks)
  BY <1>1, <1>2, CompilingFacts
<1>4. Then(new)
  BY <1>3 DEF CompileFunction, ParametersThen
<1>5. DOMAIN p = 1 .. Len(p) /\ Len(p) \in Nat
  BY <1>3 DEF WellFormed
<1>6. body.do = "compile" /\ leave.do = "leave" /\ leave.numParameters = K
  BY DEF CompileTask
<1> HIDE DEF body, leave
<1>7. /\ IsList(new) /\ K \in Nat /\ Len(new) = K + 2
      /\ \A i \in 1 .. K : new[i].do = "parameter"
      /\ new[K + 1] = body /\ new[K + 2] = leave
  <2> HIDE DEF p
  <2>1. AreTasks(new, p, body, leave)
    BY <1>5, FunctionTasks
  <2> HIDE DEF new
  <2>2. QED
    BY <2>1 DEF AreTasks
<1> HIDE DEF new, K, p
<1>8. \A i \in 1 .. Len(new) : i \in 1 .. K \/ i = K + 1 \/ i = K + 2
  BY <1>7
<1>9. /\ IsList(todo) /\ todo # <<>> /\ IsList(scopes) /\ n \in Nat \ {0} /\ DOMAIN scopes = 1 .. n
      /\ todo' = new \o Tail(todo)
  BY <1>2, <1>4, WorkingFacts DEF Working, Then
<1>10. PoolGrown(constants, constants') /\ PoolSound(constants')
  BY <1>1, PoolStaysSound DEF Step, ClosuresInv, IInv
<1>11. /\ DOMAIN scopes' = 1 .. n + 1 /\ Len(scopes') = n + 1
       /\ scopes'[n + 1] = NewCompilationScope /\ \A l \in 1 .. n : scopes'[l] = scopes[l]
  BY <1>1, <1>9, ListChanges
<1> HIDE DEF n
<1>12. CodeSound'
  <2>1. ASSUME NEW l \in DOMAIN scopes', NEW q \in DOMAIN scopes'[l].ins
        PROVE  l \in DOMAIN scopes /\ q \in DOMAIN scopes[l].ins /\ scopes'[l].ins[q] = scopes[l].ins[q]
    <3>1. l \in 1 .. n \/ l = n + 1
      BY <1>9, <1>11
    <3>2. DOMAIN NewCompilationScope.ins = {}
      BY DEF NewCompilationScope
    <3>3. QED
      BY <1>9, <1>11, <3>1, <3>2
  <2>2. QED
    BY <1>10, <2>1, CodeStaysSound DEF Step, ClosuresInv
<1>13. Stepping(new)
  BY <1>1, <1>4, <1>7, <1>10 DEF Stepping, Step, ClosuresInv, Compiling
<1>14. ASSUME NEW lv, Plan(todo', lv, Len(scopes'))
       PROVE  TasksSound(todo', lv, tables', constants') /\ ParametersKnown(todo', lv, Len(scopes'), tables')
  <2>1. \A i \in 1 .. Len(new) : new[i].do # "emit" /\ new[i].do # "closure"
    BY <1>6, <1>7, <1>8
  <2>2. TasksSound(todo', lv, tables', constants')
    <3>1. \A i \in 1 .. Len(new) : TaskSound(new[i], Slots(tables', lv[i]), Captures(tables', lv[i]), constants')
      BY <2>1 DEF TaskSound
    <3>2. QED
      BY <1>13, <1>14, <3>1, TasksStaySound
  <2>3. \A i \in 1 .. Len(new) : todo'[i] = new[i] /\ lv[i] = n + 1
    <3>1. Plan(new \o Tail(todo), lv, n + 1)
      BY <1>9, <1>11, <1>14
    <3>2. \A i \in 1 .. Len(new) : i < Len(new) => new[i].do # "leave"
      <4>1. \A i \in 1 .. Len(new) : i < Len(new) => i \in 1 .. K \/ i = K + 1
        BY <1>7, <1>8
      <4>2. QED
        BY <1>6, <1>7, <4>1
    <3>3. \A i \in 1 .. Len(new) : lv[i] = n + 1
      BY <1>7, <1>9, <3>1, <3>2, NewLevel
    <3>4. \A i \in 1 .. Len(new) : (new \o Tail(todo))[i] = new[i]
      BY <1>7, <1>9, Joined
    <3>5. QED
      BY <1>9, <3>3, <3>4
  <2>4. \A i \in DOMAIN todo' : i \in Nat
    <3>1. IsList(todo')
      BY <1>14 DEF Plan
    <3>2. DOMAIN todo' = 1 .. Len(todo')
      BY <3>1, ListFacts
    <3>3. QED
      BY <3>2
  <2>5. ASSUME NEW i \in DOMAIN todo', i \notin 1 .. Len(new)
        PROVE  /\ Settled(todo'[i], lv[i], tables') /\ lv[i] \in 1 .. n
    <3>1. h.do # "parameter"
      BY <1>3
    <3>2. QED
      BY <1>13, <1>14, <2>5, <3>1, OldTask DEF n
  <2>6. ASSUME NEW i \in DOMAIN todo'
        PROVE  todo'[i].do = "parameter" <=> i <= K
    <3>1. CASE i \in 1 .. K
      <4>1. i \in 1 .. Len(new) /\ i <= K
        BY <1>7, <3>1
      <4>2. QED
        BY <1>7, <2>3, <3>1, <4>1
    <3>2. CASE i \in 1 .. Len(new) /\ i \notin 1 .. K
      <4>1. i = K + 1 \/ i = K + 2
        BY <1>8, <3>2
      <4>2. ~(i <= K)
        BY <1>7, <4>1
      <4>3. QED
        BY <1>6, <1>7, <2>3, <3>2, <4>1, <4>2
    <3>3. CASE i \notin 1 .. Len(new)
      <4>1. ~(i <= K)
        <5>1. i # 0
          <6>1. IsList(todo')
            BY <1>14 DEF Plan
          <6>2. DOMAIN todo' = 1 .. Len(todo')
            BY <6>1, ListFacts
          <6>3. QED
            BY <6>2
        <5>2. i \in Nat
          BY <2>4
        <5>3. QED
          BY <1>7, <3>3, <5>1, <5>2
      <4>2. QED
        BY <2>5, <3>3, <4>1 DEF Settled
    <3>4. QED
      BY <3>1, <3>2, <3>3
  <2>7. ASSUME NEW i \in DOMAIN todo', todo'[i].do = "leave"
        PROVE  /\ todo'[i].numParameters \in Nat
               /\ todo'[i].numParameters
                    <= Slots(tables', lv[i]) + (IF lv[i] = Len(scopes') THEN K ELSE 0)
    <3> DEFINE c == Slots(tables', lv[i])
               q == todo'[i].numParameters
    <3>1. c \in Nat
      <4>1. lv[i] \in DOMAIN scopes'
        BY <1>14, LevelsWithin, Rooms DEF Step
      <4>2. QED
        BY <4>1, Rooms DEF Step
    <3>2. CASE i \in 1 .. Len(new)
      <4>1. i = K + 2
        BY <1>6, <1>7, <1>8, <2>3, <2>7, <3>2
      <4>2. q = K /\ lv[i] = Len(scopes')
        BY <1>6, <1>7, <1>11, <2>3, <3>2, <4>1
      <4> HIDE DEF c, q
      <4>3. q \in Nat /\ q <= c + K
        BY <1>7, <3>1, <4>2
      <4>4. QED
        BY <4>2, <4>3 DEF c, q
    <3>3. CASE i \notin 1 .. Len(new)
      <4>1. Settled(todo'[i], lv[i], tables') /\ lv[i] \in 1 .. n
        BY <2>5, <3>3
      <4>2. q \in Nat /\ q <= c
        BY <2>7, <4>1 DEF Settled
      <4>3. lv[i] # Len(scopes')
        BY <1>9, <1>11, <4>1
      <4> HIDE DEF c, q
      <4>4. q <= c + 0
        BY <3>1, <4>2
      <4>5. QED
        BY <4>2, <4>3, <4>4 DEF c, q
    <3>4. QED
      BY <3>2, <3>3
  <2>8. QED
    BY <1>7, <2>2, <2>6, <2>7 DEF ParametersKnown
<1>15. TodoSound'
  BY <1>14 DEF TodoSound
<1>16. QED
  BY <1>10, <1>12, <1>15 DEF ClosuresInv

(* What a function captures is loaded in the scope around it.             *)
LEMMA CapturedInRoom ==
  ASSUME TablesInv, NEW l \in DOMAIN tables, l - 1 \in DOMAIN tables, NEW i \in DOMAIN tables[l].free
  PROVE  InRoom(tables[l].free[i], Slots(tables, l - 1), Captures(tables, l - 1))
<1> DEFINE s == tables[l].free[i]
           m == l - 1
<1>1. Proved!MeansIn(s, tables[m])
  BY DEF TablesInv, Proved!IInv, Proved!FreeMatchesOuter
<1>2. s \in Symbol
  BY SymbolFacts DEF Table
<1>3. s.name \in Names /\ tables[m].store[s.name] = s
  BY <1>1, <1>2 DEF Proved!MeansIn, Symbol
<1>4. Bound(tables[m], s.name)
  BY <1>2, <1>3 DEF Bound, Unbound, Symbol, Scopes, Global, Local, Builtin, Free
<1> DEFINE name == s.name
<1>5. InRoom(tables[m].store[name], Slots(tables, m), Captures(tables, m))
  <2> HIDE DEF m, name, s
  <2>1. name \in Names /\ Bound(tables[m], name) /\ m \in DOMAIN tables
    BY <1>3, <1>4 DEF m, name
  <2>2. QED
    BY <2>1, BoundInRoom
<1>6. QED
  BY <1>3, <1>5

(* The function that is made fits the room its table has for it.          *)
LEMMA MadeSound ==
  ASSUME Step, status = "compiling", todo # <<>>, todo[1].do = "leave",
         NEW numLocals, numLocals = Slots(tables, Len(scopes))
  PROVE  FunctionSound(CompiledFunction(ReturnAtEnd(Innermost), numLocals, todo[1].numParameters),
                       Captures(tables, Len(scopes)), constants)
<1> DEFINE n  == Len(scopes)
           a  == Slots(tables, n)
           b  == Captures(tables, n)
           q  == todo[1].numParameters
           r  == ReturnAtEnd(Innermost)
           fn == CompiledFunction(r, numLocals, q)
<1>1. n \in DOMAIN scopes
  BY Rooms DEF Step
<1>2. a \in Nat
  BY <1>1, Rooms DEF Step
<1>3. q <= a
  <2>1. PICK levels : Good(todo, levels, scopes)
    BY DEF Step, IInv, CodeInv
  <2>2. Plan(todo, levels, n)
    BY <2>1 DEF Good
  <2>3. levels[1] = n /\ 1 \in DOMAIN todo
    BY <2>2, FirstTask DEF Plan
  <2>4. ParametersKnown(todo, levels, n, tables)
    BY <2>2 DEF Step, ClosuresInv, TodoSound
  <2>5. PICK k \in Nat :
          /\ \A i \in DOMAIN todo : todo[i].do = "parameter" <=> i <= k
          /\ \A i \in DOMAIN todo : todo[i].do = "leave" =>
               /\ todo[i].numParameters \in Nat
               /\ todo[i].numParameters
                    <= Slots(tables, levels[i]) + (IF levels[i] = n THEN k ELSE 0)
    BY <2>4 DEF ParametersKnown
  <2>6. ~(1 <= k)
    BY <2>3, <2>5
  <2>7. k = 0
    BY <2>5, <2>6
  <2>8. q \in Nat /\ q <= a + k
    BY <2>3, <2>5
  <2> HIDE DEF q, a
  <2>9. QED
    BY <1>2, <2>7, <2>8
<1>4. AllSound(fn, a, b, constants)
  <2>1. Innermost = scopes[n] /\ ScopeOK(Innermost)
    BY <1>1 DEF Innermost, Step, IInv, CodeInv
  <2>2. Bare(r, Innermost)
    BY <2>1, BareEnded
  <2>3. AllSound(Innermost, a, b, constants)
    BY <1>1, <2>1 DEF Step, ClosuresInv, CodeSound
  <2>4. fn.ins = r.ins
    BY DEF CompiledFunction
  <2>5. \A i : Neutral(i.op) => Sound(i, a, b, constants)
    BY DEF Neutral, Sound
  <2> HIDE DEF a, b, r, fn
  <2>6. QED
    BY <2>2, <2>3, <2>4, <2>5 DEF Bare, AllSound
<1>5. fn.numLocals = a /\ fn.numParameters = q
  BY DEF CompiledFunction
<1> HIDE DEF a, b, q, fn
<1>6. FunctionSound(fn, b, constants)
  BY <1>2, <1>3, <1>4, <1>5 DEF FunctionSound
<1>7. QED
  BY <1>6 DEF fn, b, q

LEMMA LeaveSound ==
  ASSUME Step, LeaveFunction PROVE ClosuresInv'
<1> DEFINE n == Len(scopes)
           m == n - 1
           free == tables[n].free
           numLocals == tables[n].numDefinitions
           fn == CompiledFunction(ReturnAtEnd(Innermost), numLocals, todo[1].numParameters)
           c == [i \in DOMAIN free |-> Load(free[i])]
           closure == [do |-> "closure", fn |-> fn, numFree |-> Len(free)]
           new == c \o <<closure>>
<1>1. /\ Resuming("leave") /\ constants' = constants /\ status' = status
      /\ scopes' = SubSeq(scopes, 1, n - 1) /\ tables' = OuterTables(tables)
  BY DEF LeaveFunction
<1>2. Working /\ Task = todo[1] /\ todo[1].do = "leave" /\ IsList(todo) /\ todo # <<>>
  BY <1>1, StepFacts DEF Resuming
<1>3. /\ tables \in Seq(Table) /\ Len(tables) = n /\ n \in Nat \ {0} /\ DOMAIN tables = 1 .. n
      /\ DOMAIN scopes = 1 .. n /\ IsList(scopes) /\ IsList(tables) /\ TablesInv
  BY <1>2, SymbolFacts, WorkingFacts, ListFacts DEF Step, IInv, TablesInv
<1>4. Then(new)
  BY <1>2, <1>3 DEF LeaveFunction
<1>5. m \in Nat \ {0}
  <2>1. PICK levels : Good(todo, levels, scopes)
    BY <1>2 DEF Working, CodeInv
  <2>2. Plan(todo, levels, n)
    BY <2>1 DEF Good
  <2> HIDE DEF n
  <2>3. QED
    BY <1>2, <2>2, LevelsFall
<1>6. /\ DOMAIN scopes' = 1 .. m /\ Len(scopes') = m /\ \A l \in 1 .. m : scopes'[l] = scopes[l]
      /\ \A l \in 1 .. m : tables'[l] = tables[l]
  <2>1. tables' = SubSeq(tables, 1, Len(tables) - 1)
    BY <1>1 DEF OuterTables
  <2>2. Len(tables) - 1 \in Nat \ {0} /\ Len(scopes) - 1 \in Nat \ {0}
    BY <1>3, <1>5
  <2>3. \A l \in 1 .. Len(tables) - 1 : tables'[l] = tables[l]
    BY <1>3, <2>1, <2>2, ListChanges
  <2>4. /\ DOMAIN scopes' = 1 .. Len(scopes) - 1 /\ Len(scopes') = Len(scopes) - 1
        /\ \A l \in 1 .. Len(scopes) - 1 : scopes'[l] = scopes[l]
    BY <1>1, <1>3, <2>2, ListChanges
  <2>5. QED
    BY <1>3, <2>3, <2>4
<1>7. /\ n \in DOMAIN tables /\ m \in DOMAIN tables /\ m \in DOMAIN scopes
      /\ \A l \in 1 .. m : l \in 1 .. n
  <2> HIDE DEF n
  <2>1. n \in 1 .. n /\ m \in 1 .. n /\ \A l \in 1 .. m : l \in 1 .. n
    BY <1>3, <1>5
  <2>2. QED
    BY <1>3, <2>1
<1>8. free \in Seq(Symbol) /\ Len(free) \in 0 .. Byte - 1
  <2>1. free \in Seq(Symbol)
    BY <1>3, SymbolFacts
  <2>2. Len(free) < Byte
    BY <1>7 DEF Step, Writable
  <2> HIDE DEF free
  <2>3. QED
    BY <2>1, <2>2, ByteAssumption
<1>9. FunctionSound(fn, Len(free), constants)
  <2>1. numLocals = Slots(tables, n) /\ Len(free) = Captures(tables, n)
    BY DEF Slots, Captures
  <2> HIDE DEF numLocals
  <2>2. FunctionSound(fn, Captures(tables, n), constants)
    BY <1>1, <1>2, <2>1, MadeSound DEF Resuming
  <2>3. QED
    BY <2>1, <2>2
<1>10. IsFunction(fn)
  BY DEF IsFunction, CompiledFunction
<1>11. \A i \in DOMAIN free : InRoom(free[i], Slots(tables', m), Captures(tables', m))
  <2>1. tables'[m] = tables[m]
    BY <1>5, <1>6
  <2>2. Slots(tables', m) = Slots(tables, m) /\ Captures(tables', m) = Captures(tables, m)
    BY <2>1 DEF Slots, Captures
  <2>3. \A i \in DOMAIN free : InRoom(free[i], Slots(tables, n - 1), Captures(tables, n - 1))
    <3> HIDE DEF n
    <3>1. QED
      BY <1>3, <1>7, CapturedInRoom
  <2>4. QED
    BY <2>2, <2>3
<1> HIDE DEF fn, free, numLocals
<1> DEFINE a == Slots(tables', m)
           b == Captures(tables', m)
<1> HIDE DEF a, b
<1>12. /\ IsList(c) /\ Len(c) \in Nat
       /\ \A i \in 1 .. Len(c) : TaskSound(c[i], a, b, constants') /\ c[i].do = "emit"
  <2> DEFINE T == {Load(symbol) : symbol \in Symbol}
             k == Len(free)
  <2>1. k \in Nat /\ DOMAIN free = 1 .. k /\ \A i \in 1 .. k : free[i] \in Symbol
    BY <1>8
  <2>2. \A i \in 1 .. k : Load(free[i]) \in T
    BY <2>1
  <2>3. c = [i \in 1 .. k |-> Load(free[i])]
    BY <2>1
  <2>4. \A i \in 1 .. k : TaskSound(Load(free[i]), a, b, constants') /\ Load(free[i]).do = "emit"
    <3>1. \A i \in 1 .. k : InRoom(free[i], a, b)
      BY <1>11, <2>1 DEF a, b
    <3> HIDE DEF k
    <3>2. QED
      BY <3>1, LoadSound
  <2> HIDE DEF T, k, c
  <2>5. c \in Seq(T) /\ Len(c) = k /\ \A i \in 1 .. k : c[i] = Load(free[i])
    BY <2>1, <2>2, <2>3
  <2>6. IsList(c)
    BY <2>5, ListFacts
  <2>7. QED
    BY <2>1, <2>4, <2>5, <2>6
<1> HIDE DEF c
<1>13. TaskSound(closure, a, b, constants') /\ closure.do = "closure"
  <2>1. closure.do = "closure" /\ closure.fn = fn /\ closure.numFree = Len(free)
    OBVIOUS
  <2> HIDE DEF closure
  <2>2. QED
    BY <1>1, <1>8, <1>9, <1>10, <2>1 DEF TaskSound
<1> HIDE DEF closure
<1>14. IsList(new) /\ \A i \in 1 .. Len(new) :
         TaskSound(new[i], a, b, constants') /\ new[i].do \in {"emit", "closure"}
  <2>1. IsList(c)
    BY <1>12
  <2>2. /\ IsList(new) /\ Len(new) = Len(c) + 1
        /\ \A i \in 1 .. Len(c) : new[i] = c[i]
        /\ new[Len(c) + 1] = closure
    BY <2>1, OneMore
  <2> HIDE DEF new
  <2>3. \A i \in 1 .. Len(c) + 1 : i \in 1 .. Len(c) \/ i = Len(c) + 1
    BY <1>12
  <2>4. QED
    BY <1>12, <1>13, <2>2, <2>3
<1> HIDE DEF new
<1>15. PoolGrown(constants, constants')
  BY <1>1 DEF PoolGrown
<1>16. CodeSound'
  <2>1. \A l \in DOMAIN scopes' : l \in DOMAIN scopes /\ scopes'[l] = scopes[l]
    BY <1>3, <1>6, <1>7
  <2>2. QED
    BY <1>15, <2>1, CodeStaysSound DEF Step, ClosuresInv
<1>17. Handling(new)
  BY <1>1, <1>2, <1>4, <1>14 DEF Handling, Resuming
<1>18. ASSUME NEW lv, Plan(todo', lv, Len(scopes')), NEW i \in 1 .. Len(new)
       PROVE  TaskSound(new[i], Slots(tables', lv[i]), Captures(tables', lv[i]), constants')
  <2>1. Plan(new \o Tail(todo), lv, m)
    BY <1>4, <1>6, <1>18 DEF Then
  <2>2. \A j \in 1 .. Len(new) : new[j].do # "leave"
    BY <1>14
  <2> HIDE DEF m
  <2>3. lv[i] = m
    BY <1>2, <1>14, <1>18, <2>1, <2>2, NewLevel
  <2>4. QED
    BY <1>14, <2>3 DEF a, b
<1>19. QED
  BY <1>1, <1>16, <1>17, <1>18, HandlingKeeps

--------------------------------------------------------------------------------
(* The last steps, the first state, and the invariant of the whole run.    *)
LEMMA EndingSound ==
  ASSUME Step,
         \/ \E name \in Names : UndefinedVariable(name)
         \/ Compiled
         \/ Returned
         \/ UNCHANGED vars
  PROVE  ClosuresInv'
<1>1. ClosuresInv
  BY DEF Step
<1>2. constants' = constants /\ scopes' = scopes /\ tables' = tables
  BY DEF UndefinedVariable, Compiled, Returned, vars
<1>3. \/ status' # "compiling"
      \/ status' = status /\ todo' = todo
  BY DEF UndefinedVariable, Compiled, Returned, vars
<1>4. CodeSound' /\ PoolSound(constants')
  BY <1>1, <1>2 DEF ClosuresInv, CodeSound
<1>5. TodoSound'
  BY <1>1, <1>2, <1>3 DEF ClosuresInv, TodoSound
<1>6. QED
  BY <1>4, <1>5 DEF ClosuresInv

LEMMA InitClosures == Init => ClosuresInv
<1> SUFFICES ASSUME Init PROVE ClosuresInv
  OBVIOUS
<1> DEFINE s == NewCompilationScope
           t == CompileTask(program)
<1>1. /\ scopes = <<s>> /\ todo = <<t>> /\ constants = <<>>
      /\ DOMAIN scopes = {1} /\ scopes[1] = s /\ DOMAIN todo = {1} /\ todo[1] = t
      /\ DOMAIN constants = {}
  BY DEF Init
<1>2. DOMAIN s.ins = {}
  BY DEF NewCompilationScope
<1>3. t.do = "compile"
  BY DEF CompileTask
<1> HIDE DEF s, t
<1>4. CodeSound
  BY <1>1, <1>2 DEF CodeSound, AllSound
<1>5. PoolSound(constants)
  BY <1>1 DEF PoolSound
<1>6. ASSUME NEW levels
      PROVE  /\ TasksSound(todo, levels, tables, constants)
             /\ ParametersKnown(todo, levels, Len(scopes), tables)
  <2>1. \A i \in DOMAIN todo : todo[i].do = "compile" /\ ~(i <= 0)
    BY <1>1, <1>3
  <2>2. TasksSound(todo, levels, tables, constants)
    BY <2>1 DEF TasksSound, TaskSound
  <2>3. 0 \in Nat
    OBVIOUS
  <2>4. ParametersKnown(todo, levels, Len(scopes), tables)
    BY <2>1, <2>3 DEF ParametersKnown
  <2>5. QED
    BY <2>2, <2>4
<1>7. QED
  BY <1>4, <1>5, <1>6 DEF ClosuresInv, TodoSound

LEMMA NextClosures ==
  ASSUME Step PROVE ClosuresInv'
<1>1. [Next]_vars
  BY DEF Step
<1>2. CASE CompileLiteral
  BY <1>2, LiteralSound
<1>3. CASE CompileBoolean
  BY <1>3, BooleanSound
<1>4. CASE CompileParts
  BY <1>4, PartsSound
<1>5. CASE EmitInstruction
  BY <1>5, InstructionSound
<1>6. ASSUME NEW name \in Names, CompileLet(name) PROVE ClosuresInv'
  BY <1>6, LetSound
<1>7. ASSUME NEW name \in Names, CompileIdentifier(name) PROVE ClosuresInv'
  BY <1>7, IdentifierSound
<1>8. ASSUME NEW name \in Names, DefineParameter(name) PROVE ClosuresInv'
  BY <1>8, ParameterSound
<1>9. CASE CompileIf
  BY <1>9, IfSound
<1>10. CASE JumpOverConsequence
  BY <1>10, ConsequenceSound
<1>11. CASE JumpOverAlternative
  BY <1>11, AlternativeSound
<1>12. CASE EndIf
  BY <1>12, EndIfSound
<1>13. CASE CompileFunction
  BY <1>13, EnterSound
<1>14. CASE LeaveFunction
  BY <1>14, LeaveSound
<1>15. CASE EmitClosure
  BY <1>15, EmitClosureSound
<1>16. ASSUME \/ \E name \in Names : UndefinedVariable(name)
              \/ Compiled \/ Returned \/ UNCHANGED vars
       PROVE  ClosuresInv'
  BY <1>16, EndingSound
<1>17. QED
  BY <1>1, <1>2, <1>3, <1>4, <1>5, <1>6, <1>7, <1>8, <1>9, <1>10, <1>11, <1>12, <1>13,
     <1>14, <1>15, <1>16 DEF Next

LEMMA SoundMatches ==
  ASSUME IInv, ClosuresInv PROVE ClosuresMatch
<1>1. \A x, y : x \in 0 .. y - 1 /\ y \in Nat => x < y
  OBVIOUS
<1>2. ASSUME NEW k \in Functions
      PROVE  /\ constants[k].numParameters <= constants[k].numLocals
             /\ \A p \in DOMAIN constants[k].ins :
                  /\ constants[k].ins[p].op \in OfLocal
                       => constants[k].ins[p].args[1] < constants[k].numLocals
                  /\ constants[k].ins[p].op = "OpClosure" => Closes(constants[k].ins[p], constants)
  <2>1. k \in DOMAIN constants /\ IsFunction(constants[k])
    BY DEF Functions, IsFunction
  <2>2. PICK captured \in Nat : FunctionSound(constants[k], captured, constants)
    BY <2>1 DEF ClosuresInv, PoolSound
  <2>3. QED
    BY <1>1, <2>2 DEF FunctionSound, AllSound, Sound
<1>3. status = "compiled" => \A p \in DOMAIN scopes[1].ins :
        scopes[1].ins[p].op = "OpClosure" => Closes(scopes[1].ins[p], constants)
  <2>1. 1 \in DOMAIN scopes
    BY FirstScope DEF IInv
  <2>2. QED
    BY <2>1 DEF ClosuresInv, CodeSound, AllSound, Sound
<1>4. ASSUME NEW code \in Finished, NEW p \in DOMAIN code.ins, code.ins[p].op = "OpClosure"
      PROVE  Closes(code.ins[p], constants)
  <2>1. CASE \E k \in Functions : code = [ins |-> constants[k].ins, len |-> constants[k].len]
    BY <1>2, <1>4, <2>1
  <2>2. CASE status = "compiled" /\ code = [ins |-> scopes[1].ins, len |-> scopes[1].len]
    BY <1>3, <1>4, <2>2
  <2>3. QED
    BY <2>1, <2>2 DEF Finished
<1>5. ASSUME NEW code \in Finished, NEW p \in DOMAIN code.ins, code.ins[p].op = "OpClosure"
      PROVE  LET k == code.ins[p].args[1] + 1 IN
             /\ k \in Functions
             /\ \A q \in DOMAIN constants[k].ins :
                  constants[k].ins[q].op = "OpGetFree"
                    => constants[k].ins[q].args[1] < code.ins[p].args[2]
  <2>1. Closes(code.ins[p], constants)
    BY <1>4, <1>5
  <2>2. QED
    BY <1>1, <2>1 DEF Closes, Functions, IsFunction
<1>6. QED
  BY <1>2, <1>5 DEF ClosuresMatch, OfLocal

(* The code that makes a closure and the function it is made of agree, as  *)
(* long as the operands of OpClosure can tell the constants and a          *)
(* function's captures apart: as many values are captured as the function  *)
(* reads, its locals have room, and its arguments are the first of them.   *)
THEOREM ClosuresFit == Spec /\ []Writable => []ClosuresMatch
<1>1. Init => ClosuresInv
  BY InitClosures
<1>2. IInv /\ IInv' /\ Writable /\ Writable' /\ ClosuresInv /\ [Next]_vars => ClosuresInv'
  BY NextClosures DEF Step
<1>3. IInv /\ ClosuresInv => ClosuresMatch
  BY SoundMatches
<1>4. Spec => []IInv
  BY Invariance
<1>5. QED
  BY <1>1, <1>2, <1>3, <1>4, PTL DEF Spec

================================================================================
