------------------------------ MODULE StackProofs ------------------------------
(***************************************************************************)
(* The code that the compiler finishes is what the verifier accepts, for   *)
(* all trees that the parser can make.  The plan of module CompilerProofs  *)
(* tells in which scope a task will emit.  Here each task is also given    *)
(* the number of values that are on the stack when it begins, and each     *)
(* position of the code the number when control comes there; every handler *)
(* keeps them in agreement.                                                *)
(***************************************************************************)
EXTENDS CompilerProofs, StackDiscipline

--------------------------------------------------------------------------------
(***************************************************************************)
(* The stack.  Every position of the code in a scope has a height, the     *)
(* number of values on the stack when control comes there: an instruction  *)
(* finds what it pops, and leaves the height of each position after it.    *)
(***************************************************************************)
FallsThrough(op) == op \notin Returns \union {"OpJump"}

After(instruction, height) == height - Pops(instruction) + Pushes(instruction)

(* A jump has a target, with the right height.  The end is one as long as  *)
(* something is certain to be emitted there.                               *)
Meets(s, h, p, t) ==
  t > p /\ s.ins[p].args[1] = t % Reach /\ h[t] = After(s.ins[p], h[p])

Levelled(s, held, h, joins) ==
  /\ h[0] = 0
  /\ \A p \in Ends(s) : h[p] \in Nat
  /\ \A p \in DOMAIN s.ins :
       /\ h[p] >= Pops(s.ins[p])
       /\ FallsThrough(s.ins[p].op) => h[p + InstrLen(s.ins[p].op)] = After(s.ins[p], h[p])
  /\ \A p \in JumpsIn(s) : p \notin held =>
       \E t \in Ends(s) : (t = s.len => joins) /\ Meets(s, h, p, t)

(* An instruction may be patched, but its effect stays. *)
Saw(s, h, r, g) ==
  \A p \in JumpsIn(s) : p \in JumpsIn(r) /\ After(r.ins[p], g[p]) = After(s.ins[p], h[p])

(* The opcodes by the widths of their operands.                            *)
LEMMA Widths ==
  ASSUME NEW op
  PROVE  /\ op \in NoOperand => OperandWidth(op) = <<>> /\ InstrLen(op) = 1
         /\ op \in OneByteOperand => OperandWidth(op) = <<1>> /\ InstrLen(op) = 2
         /\ op \in TwoByteOperand => OperandWidth(op) = <<2>> /\ InstrLen(op) = 3
         /\ op = "OpClosure" => OperandWidth(op) = <<2, 1>> /\ InstrLen(op) = 4
<1>1. /\ op \in NoOperand => op \notin OneByteOperand /\ op \notin TwoByteOperand /\ op # "OpClosure"
      /\ op \in OneByteOperand => op \notin TwoByteOperand /\ op # "OpClosure"
      /\ op \in TwoByteOperand => op # "OpClosure"
  BY DEF NoOperand, OneByteOperand, TwoByteOperand
<1>2. op \in NoOperand => OperandWidth(op) = <<>> /\ InstrLen(op) = 1
  BY <1>1, Zenon DEF OperandWidth, InstrLen
<1>3. op \in OneByteOperand => OperandWidth(op) = <<1>> /\ InstrLen(op) = 2
  BY <1>1, Zenon DEF OperandWidth, InstrLen
<1>4. op \in TwoByteOperand => OperandWidth(op) = <<2>> /\ InstrLen(op) = 3
  BY <1>1, Zenon DEF OperandWidth, InstrLen
<1>5. op = "OpClosure" => OperandWidth(op) = <<2, 1>> /\ InstrLen(op) = 4
  BY <1>1, Zenon DEF OperandWidth, InstrLen
<1>6. QED
  BY <1>2, <1>3, <1>4, <1>5

(* The effect of an instruction.  That of a jump depends on the opcode only.*)
LEMMA Effect ==
  ASSUME NEW i, IsInstruction(i)
  PROVE  /\ Pops(i) \in Nat /\ Pushes(i) \in {0, 1}
         /\ InstrLen(i.op) \in 1 .. 4
         /\ i.op \in Jumps => i.args[1] \in Nat /\ Pushes(i) = 0
<1>1. i.op \in Opcodes /\ DOMAIN i.args = DOMAIN OperandWidth(i.op)
      /\ \A k \in DOMAIN i.args : i.args[k] \in 0 .. Capacity(OperandWidth(i.op)[k]) - 1
  BY DEF IsInstruction
<1>2. \A w : Capacity(w) \in Nat
  <2>1. \A m \in Nat : m * m \in Nat
    OBVIOUS
  <2>2. QED
    BY <2>1, ByteAssumption DEF Capacity
<1>3. \A k \in DOMAIN OperandWidth(i.op) : i.args[k] \in Nat
  BY <1>1, <1>2
<1>4. 1 \in DOMAIN <<1>> /\ 1 \in DOMAIN <<2>> /\ 2 \in DOMAIN <<2, 1>>
  OBVIOUS
<1>5. i.op \in OneByteOperand \union TwoByteOperand => i.args[1] \in Nat
  BY <1>3, <1>4, Widths, Zenon
<1>6. i.op = "OpClosure" => i.args[2] \in Nat
  BY <1>3, <1>4, Widths, Zenon
<1>7. i.op \in {"OpArray", "OpHash", "OpCall", "OpJump", "OpJumpNotTruthy"} => i.args[1] \in Nat
  BY <1>5 DEF OneByteOperand, TwoByteOperand
<1>8. Pops(i) \in Nat
  BY <1>6, <1>7 DEF Pops
<1>9. Pushes(i) \in {0, 1}
  BY DEF Pushes
<1>10. i.op \in Jumps => i.args[1] \in Nat /\ Pushes(i) = 0
  BY <1>7 DEF Pushes, Jumps
<1>11. QED
  BY <1>1, <1>8, <1>9, <1>10, Opcode

(* Patching a jump does not change what it takes and leaves.               *)
LEMMA JumpEffect ==
  ASSUME NEW i, NEW j, i.op \in Jumps, j.op = i.op
  PROVE  Pops(i) = Pops(j) /\ Pushes(i) = Pushes(j)
BY DEF Jumps, Pops, Pushes

(* The code of a scope. *)
LEMMA CodeFacts ==
  ASSUME NEW s, CodeOK(s)
  PROVE  /\ s.len \in Nat
         /\ 0 \in Ends(s)
         /\ \A p \in DOMAIN s.ins :
              /\ p \in Nat /\ IsInstruction(s.ins[p])
              /\ p < s.len
              /\ InstrLen(s.ins[p].op) \in 1 .. 4
              /\ p + InstrLen(s.ins[p].op) \in Ends(s) /\ p + InstrLen(s.ins[p].op) <= s.len
              /\ Pops(s.ins[p]) \in Nat /\ Pushes(s.ins[p]) \in {0, 1}
         /\ \A p \in Ends(s) : p \in Nat /\ p <= s.len /\ (p # s.len => p \in DOMAIN s.ins)
         /\ \A p, q \in DOMAIN s.ins :
              p + InstrLen(s.ins[p].op) = s.len /\ q + InstrLen(s.ins[q].op) = s.len => p = q
<1>1. /\ s.len \in Nat
      /\ \A p \in DOMAIN s.ins : /\ p \in Nat /\ IsInstruction(s.ins[p])
                                 /\ p + InstrLen(s.ins[p].op) <= s.len
                                 /\ InstrLen(s.ins[p].op) \in 1 .. 4
                                 /\ Pops(s.ins[p]) \in Nat /\ Pushes(s.ins[p]) \in {0, 1}
  BY Effect DEF CodeOK
<1>2. /\ s.len > 0 => 0 \in DOMAIN s.ins
      /\ \A p \in DOMAIN s.ins : p + InstrLen(s.ins[p].op) \in Ends(s)
      /\ \A p, q \in DOMAIN s.ins : q <= p \/ q >= p + InstrLen(s.ins[p].op)
  BY DEF CodeOK, Tiled, Ends
<1>3. 0 \in Ends(s)
  BY <1>1, <1>2 DEF Ends
<1>4. \A p \in DOMAIN s.ins : p < s.len
  BY <1>1
<1>5. \A p \in Ends(s) : p \in Nat /\ p <= s.len /\ (p # s.len => p \in DOMAIN s.ins)
  BY <1>1, <1>4 DEF Ends
<1>6. ASSUME NEW p \in DOMAIN s.ins, NEW q \in DOMAIN s.ins,
             p + InstrLen(s.ins[p].op) = s.len, q + InstrLen(s.ins[q].op) = s.len
      PROVE  p = q
  <2>1. (q <= p \/ q >= s.len) /\ (p <= q \/ p >= s.len)
    BY <1>2, <1>6
  <2>2. QED
    BY <1>1, <1>4, <2>1
<1>7. QED
  BY <1>1, <1>2, <1>3, <1>4, <1>5, <1>6

(* More may be held, and the end joined.                                   *)
LEMMA LevelledStill ==
  ASSUME NEW s, NEW held, NEW h, NEW joins, Levelled(s, held, h, joins),
         NEW more, held \subseteq more, NEW joining, joins => joining
  PROVE  Levelled(s, more, h, joining)
BY DEF Levelled

--------------------------------------------------------------------------------
(* emit: the instruction finds what it pops, and what comes after it has   *)
(* the height it leaves, or any if control does not come there.            *)
Raised(s, held, h, i, e, r, g) ==
  /\ Levelled(r, held, g, FALSE)
  /\ g[r.len] = e
  /\ \A p \in Ends(s) : g[p] = h[p]
  /\ s.len \in DOMAIN r.ins /\ r.ins[s.len] = i
  /\ Saw(s, h, r, g)
  /\ JumpsIn(s) \subseteq JumpsIn(r)

(* The emitted instruction may be a jump that somebody will patch.         *)
LEMMA EmittedHeights ==
  ASSUME NEW s, ScopeOK(s), NEW held, NEW h, NEW joins, Levelled(s, held, h, joins),
         NEW i, IsInstruction(i), i.op = "OpPop" => Valuable(s),
         h[s.len] >= Pops(i),
         NEW e \in Nat, FallsThrough(i.op) => e = After(i, h[s.len]),
         NEW more, held \subseteq more, i.op \in Jumps => s.len \in more
  PROVE  \E g : Raised(s, more, h, i, e, Emit(s, i), g)
<1> DEFINE r == Emit(s, i)
           g == [p \in DOMAIN s.ins \union {s.len, r.len} |-> IF p = r.len THEN e ELSE h[p]]
<1>1. r.len = s.len + InstrLen(i.op)
  BY DEF Emit
<1>2. Grown(s, i, r)
  BY Emitted
<1> HIDE DEF r
<1>3. CodeOK(s) /\ CodeOK(r)
  BY <1>2 DEF ScopeOK, Grown
<1>4. /\ s.len \notin DOMAIN s.ins
      /\ DOMAIN r.ins = DOMAIN s.ins \union {s.len}
      /\ r.ins[s.len] = i
      /\ \A p \in DOMAIN s.ins : r.ins[p] = s.ins[p]
  BY <1>2 DEF Grown
<1>5. InstrLen(i.op) \in 1 .. 4 /\ s.len \in Nat
  BY <1>3, Effect DEF CodeOK
<1>6. r.len \in Nat /\ r.len > s.len
  BY <1>1, <1>5
<1>7. Ends(r) = Ends(s) \union {r.len} /\ Ends(s) = DOMAIN s.ins \union {s.len}
  BY <1>4 DEF Ends
<1>8. \A p \in Ends(s) : p \in Nat /\ p <= s.len
  BY <1>3, CodeFacts
<1>9. g[r.len] = e /\ \A p \in Ends(s) : g[p] = h[p]
  BY <1>6, <1>7, <1>8
<1> HIDE DEF g
<1>10. /\ h[0] = 0
       /\ \A p \in Ends(s) : h[p] \in Nat
       /\ \A p \in DOMAIN s.ins :
            /\ h[p] >= Pops(s.ins[p])
            /\ FallsThrough(s.ins[p].op) => h[p + InstrLen(s.ins[p].op)] = After(s.ins[p], h[p])
       /\ \A p \in JumpsIn(s) : p \notin held => \E t \in Ends(s) : Meets(s, h, p, t)
  BY DEF Levelled
<1>11. g[0] = 0 /\ \A p \in Ends(r) : g[p] \in Nat
  BY <1>3, <1>7, <1>9, <1>10, CodeFacts
<1>12. ASSUME NEW p \in DOMAIN r.ins
       PROVE  /\ g[p] >= Pops(r.ins[p])
              /\ FallsThrough(r.ins[p].op) => g[p + InstrLen(r.ins[p].op)] = After(r.ins[p], g[p])
  <2>1. CASE p \in DOMAIN s.ins
    <3>1. p \in Ends(s) /\ p + InstrLen(s.ins[p].op) \in Ends(s)
      BY <1>3, <1>7, <2>1, CodeFacts
    <3>2. QED
      BY <1>4, <1>9, <1>10, <2>1, <3>1
  <2>2. CASE p = s.len
    <3>1. s.len \in Ends(s)
      BY <1>7
    <3>2. QED
      BY <1>1, <1>4, <1>9, <2>2, <3>1
  <2>3. QED
    BY <1>4, <2>1, <2>2
<1>13. ASSUME NEW p \in JumpsIn(r), p \notin more
       PROVE  \E t \in Ends(r) : (t = r.len => FALSE) /\ Meets(r, g, p, t)
  <2>1. p \in JumpsIn(s) /\ p \in DOMAIN s.ins /\ p \notin held
    BY <1>4, <1>13 DEF JumpsIn
  <2>2. PICK t \in Ends(s) : Meets(s, h, p, t)
    BY <1>10, <2>1
  <2>3. t \in Ends(r) /\ t # r.len /\ p \in Ends(s)
    BY <1>6, <1>7, <1>8, <2>1
  <2>4. Meets(r, g, p, t)
    BY <1>4, <1>9, <2>1, <2>2, <2>3 DEF Meets
  <2>5. QED
    BY <2>3, <2>4
<1>14. Levelled(r, more, g, FALSE)
  BY <1>11, <1>12, <1>13 DEF Levelled
<1>15. JumpsIn(s) \subseteq JumpsIn(r) /\ Saw(s, h, r, g)
  BY <1>4, <1>7, <1>9 DEF Saw, JumpsIn
<1>16. Raised(s, more, h, i, e, r, g)
  BY <1>4, <1>9, <1>14, <1>15 DEF Raised
<1>17. QED
  BY <1>16 DEF r

(* KeepValue, after an expression or a return: the value of the last       *)
(* expression stays, or control does not come to the end anyway.           *)
LastYields(s) == s.len > 0 /\ s.last.op \in {"OpPop", "OpReturnValue"}

KeptSo(s, held, h, r, g) ==
  /\ Levelled(r, held, g, TRUE)
  /\ g[r.len] = h[s.len] + 1
  /\ \A p \in JumpsIn(s) : g[p] = h[p]
  /\ Saw(s, h, r, g)

(* The cut-off pop has left one value less than there is now.              *)
LEMMA KeptHeights ==
  ASSUME NEW s, ScopeOK(s), LastYields(s), NEW held, NEW h, Levelled(s, held, h, FALSE)
  PROVE  \E g : KeptSo(s, held, h, KeepValue(s), g)
<1> DEFINE r == KeepValue(s)
<1>1. Trimmed(s, r)
  BY Kept
<1>2. r = s \/ s.last.op = "OpPop"
  BY DEF KeepValue, LastInstructionIs
<1> HIDE DEF r
<1>3. CodeOK(s) /\ CodeOK(r) /\ s.len > 0 /\ EndsWith(s, s.last, s.len)
  BY <1>1 DEF ScopeOK, Trimmed, LastYields
<1>4. /\ h[0] = 0
      /\ \A p \in Ends(s) : h[p] \in Nat
      /\ \A p \in DOMAIN s.ins :
           /\ h[p] >= Pops(s.ins[p])
           /\ FallsThrough(s.ins[p].op) => h[p + InstrLen(s.ins[p].op)] = After(s.ins[p], h[p])
      /\ \A p \in JumpsIn(s) : p \notin held => \E t \in Ends(s) : t # s.len /\ Meets(s, h, p, t)
  BY DEF Levelled
<1>5. CASE s.last.op = "OpPop"
  <2>1. /\ r.len \in DOMAIN s.ins /\ s.ins[r.len].op = "OpPop"
        /\ r.len + InstrLen("OpPop") = s.len
        /\ DOMAIN s.ins = DOMAIN r.ins \union {r.len}
        /\ \A p \in DOMAIN r.ins : r.ins[p] = s.ins[p]
        /\ JumpsIn(r) = JumpsIn(s)
    <3>1. r # s
      BY <1>1, <1>3, <1>5 DEF Trimmed, Valuable
    <3>2. QED
      BY <1>1, <3>1 DEF Trimmed, LostPop
  <2>2. Ends(r) = DOMAIN s.ins
    BY <2>1 DEF Ends
  <2>3. h[r.len] = h[s.len] + 1
    <3>1. FallsThrough("OpPop") /\ Pops(s.ins[r.len]) = 1 /\ Pushes(s.ins[r.len]) = 0
      BY <2>1 DEF FallsThrough, Returns, Pops, Pushes
    <3>2. h[s.len] = h[r.len] - 1 + 0
      BY <1>4, <2>1, <3>1 DEF After
    <3>3. h[r.len] \in Nat
      BY <1>4, <2>1 DEF Ends
    <3>4. QED
      BY <3>2, <3>3
  <2>4. \A p \in Ends(r) : p \in Ends(s) /\ p # s.len
    BY <1>3, <2>2, CodeFacts DEF Ends
  <2>5. \A p \in DOMAIN r.ins :
          /\ h[p] >= Pops(r.ins[p])
          /\ FallsThrough(r.ins[p].op) => h[p + InstrLen(r.ins[p].op)] = After(r.ins[p], h[p])
    BY <1>4, <2>1
  <2>6. ASSUME NEW p \in JumpsIn(r), p \notin held
        PROVE  \E t \in Ends(r) : Meets(r, h, p, t)
    <3>1. PICK t \in Ends(s) : t # s.len /\ Meets(s, h, p, t)
      BY <1>4, <2>1, <2>6
    <3>2. t \in Ends(r)
      BY <2>2, <3>1 DEF Ends
    <3>3. r.ins[p] = s.ins[p]
      BY <2>1, <2>6 DEF JumpsIn
    <3>4. QED
      BY <3>1, <3>2, <3>3 DEF Meets
  <2>7. Levelled(r, held, h, TRUE)
    BY <1>4, <2>4, <2>5, <2>6 DEF Levelled
  <2>8. Saw(s, h, r, h)
    BY <2>1 DEF Saw, JumpsIn
  <2>9. KeptSo(s, held, h, r, h)
    BY <2>3, <2>7, <2>8 DEF KeptSo
  <2>10. QED
    BY <2>9 DEF r
<1>6. CASE s.last.op # "OpPop"
  <2>1. r = s /\ s.last.op = "OpReturnValue"
    BY <1>2, <1>6 DEF LastYields
  <2> DEFINE last == s.last.pos
             g == [p \in Ends(s) |-> IF p = s.len THEN h[p] + 1 ELSE h[p]]
  <2>2. last \in DOMAIN s.ins /\ ~FallsThrough(s.ins[last].op) /\ last + InstrLen(s.ins[last].op) = s.len
    BY <1>3, <2>1 DEF EndsWith, FallsThrough, Returns
  <2>3. g[s.len] = h[s.len] + 1 /\ \A p \in Ends(s) : p # s.len => g[p] = h[p]
    BY DEF Ends
  <2> HIDE DEF g, last
  <2>4. \A p \in DOMAIN s.ins : p \in Ends(s) /\ p # s.len
    BY <1>3, CodeFacts DEF Ends
  <2>5. ASSUME NEW p \in DOMAIN s.ins, FallsThrough(s.ins[p].op)
        PROVE  g[p + InstrLen(s.ins[p].op)] = After(s.ins[p], g[p])
    <3>1. p + InstrLen(s.ins[p].op) \in Ends(s)
      BY <1>3, CodeFacts
    <3>2. p + InstrLen(s.ins[p].op) # s.len
      BY <1>3, <2>2, <2>5, CodeFacts
    <3>3. QED
      BY <1>4, <2>3, <2>4, <2>5, <3>1, <3>2
  <2>6. ASSUME NEW p \in JumpsIn(s), p \notin held
        PROVE  \E t \in Ends(s) : Meets(s, g, p, t)
    <3>1. PICK t \in Ends(s) : t # s.len /\ Meets(s, h, p, t)
      BY <1>4, <2>6
    <3>2. p \in DOMAIN s.ins
      BY DEF JumpsIn
    <3>3. QED
      BY <2>3, <2>4, <3>1, <3>2 DEF Meets
  <2>7. g[0] = 0 /\ \A p \in Ends(s) : g[p] \in Nat
    <3>1. 0 \in Ends(s) /\ 0 # s.len
      BY <1>3, CodeFacts
    <3>2. QED
      BY <1>4, <2>3, <3>1
  <2>8. Levelled(s, held, g, TRUE)
    BY <1>4, <2>3, <2>4, <2>5, <2>6, <2>7 DEF Levelled
  <2>9. \A p \in JumpsIn(s) : g[p] = h[p]
    BY <2>3, <2>4 DEF JumpsIn
  <2>10. Saw(s, h, s, g)
    BY <2>9 DEF Saw
  <2>11. KeptSo(s, held, h, r, g)
    BY <2>1, <2>3, <2>8, <2>9, <2>10 DEF KeptSo
  <2>12. QED
    BY <2>11 DEF r
<1>7. QED
  BY <1>5, <1>6

(* changeOperand: a jump that leaves the height of the end is made to lead *)
(* there.                                                                  *)
LEMMA ChangedHeights ==
  ASSUME NEW s, ScopeOK(s), NEW held, NEW h, NEW joins, Levelled(s, held, h, joins),
         NEW pos \in JumpsIn(s), h[s.len] = After(s.ins[pos], h[pos])
  PROVE  /\ Levelled(ChangeOperand(s, pos, s.len), held \ {pos}, h, TRUE)
         /\ Saw(s, h, ChangeOperand(s, pos, s.len), h)
<1> DEFINE r == ChangeOperand(s, pos, s.len)
<1>1. s.len \in Nat /\ CodeOK(s)
  BY DEF ScopeOK, CodeOK
<1>2. Patched(s, pos, s.len, r)
  BY <1>1, ChangedJump
<1> HIDE DEF r
<1>3. /\ r.len = s.len /\ JumpsIn(r) = JumpsIn(s) /\ DOMAIN r.ins = DOMAIN s.ins
      /\ \A p \in DOMAIN s.ins : r.ins[p].op = s.ins[p].op /\ (p # pos => r.ins[p] = s.ins[p])
      /\ r.ins[pos].args[1] = r.len % Reach
  BY <1>2 DEF Patched, LandsAtEnd
<1>4. Ends(r) = Ends(s)
  BY <1>3 DEF Ends
<1>5. \A p \in DOMAIN s.ins : Pops(r.ins[p]) = Pops(s.ins[p]) /\ Pushes(r.ins[p]) = Pushes(s.ins[p])
  <2>1. s.ins[pos].op \in Jumps
    BY DEF JumpsIn
  <2>2. Pops(r.ins[pos]) = Pops(s.ins[pos]) /\ Pushes(r.ins[pos]) = Pushes(s.ins[pos])
    <3>1. r.ins[pos].op = s.ins[pos].op
      BY <1>3 DEF JumpsIn
    <3>2. QED
      BY <2>1, <3>1, JumpEffect
  <2>3. QED
    BY <1>3, <2>2
<1>6. \A p \in DOMAIN s.ins : After(r.ins[p], h[p]) = After(s.ins[p], h[p])
  BY <1>5 DEF After
<1>7. ASSUME NEW p \in JumpsIn(r), p \notin held \ {pos}
      PROVE  \E t \in Ends(r) : Meets(r, h, p, t)
  <2>1. p \in DOMAIN s.ins
    BY <1>3 DEF JumpsIn
  <2>2. CASE p = pos
    <3>1. r.len \in Ends(r) /\ r.len > p
      BY <1>1, <1>3, <2>1, CodeFacts DEF Ends
    <3>2. Meets(r, h, p, r.len)
      BY <1>3, <1>6, <2>1, <2>2, <3>1 DEF Meets
    <3>3. QED
      BY <3>1, <3>2
  <2>3. CASE p # pos
    <3>1. PICK t \in Ends(s) : Meets(s, h, p, t)
      BY <1>3, <1>7, <2>3 DEF Levelled
    <3>2. QED
      BY <1>3, <1>4, <2>1, <2>3, <3>1 DEF Meets
  <2>4. QED
    BY <2>2, <2>3
<1>8. Levelled(r, held \ {pos}, h, TRUE)
  BY <1>3, <1>4, <1>5, <1>6, <1>7 DEF Levelled
<1>9. Saw(s, h, r, h)
  BY <1>3, <1>6 DEF Saw, JumpsIn
<1>10. QED
  BY <1>8, <1>9 DEF r

(* leaveScope: what is left of the function's value is returned.           *)
LEMMA ReturnHeights ==
  ASSUME NEW s, ScopeOK(s), NEW h, NEW joins, Levelled(s, {}, h, joins),
         joins => ~LastYields(s)
  PROVE  \E g : Levelled(ReturnAtEnd(s), {}, g, TRUE)
<1> DEFINE r == ReturnAtEnd(s)
<1>1. Ended(s, r)
  BY Returning
<1> HIDE DEF r
<1>2. CodeOK(s) /\ CodeOK(r) /\ JumpsIn(r) = JumpsIn(s) /\ ReturnMade(s, r)
  BY <1>1 DEF Ended, ScopeOK
<1>3. CASE LastYields(s)
  <2>1. /\ r.len = s.len /\ DOMAIN r.ins = DOMAIN s.ins
        /\ \A p \in DOMAIN s.ins :
             r.ins[p] = s.ins[p] \/ (s.ins[p].op = "OpPop" /\ r.ins[p].op = "OpReturnValue")
    BY <1>2, <1>3 DEF ReturnMade, LastYields
  <2>2. Ends(r) = Ends(s)
    BY <2>1 DEF Ends
  <2>3. /\ h[0] = 0
        /\ \A p \in Ends(s) : h[p] \in Nat
        /\ \A p \in DOMAIN s.ins :
             /\ h[p] >= Pops(s.ins[p])
             /\ FallsThrough(s.ins[p].op) => h[p + InstrLen(s.ins[p].op)] = After(s.ins[p], h[p])
        /\ \A p \in JumpsIn(s) : \E t \in Ends(s) : Meets(s, h, p, t)
    BY DEF Levelled
  <2>4. ASSUME NEW p \in DOMAIN r.ins
        PROVE  /\ h[p] >= Pops(r.ins[p])
               /\ FallsThrough(r.ins[p].op) => h[p + InstrLen(r.ins[p].op)] = After(r.ins[p], h[p])
    <3>1. CASE r.ins[p] = s.ins[p]
      BY <2>1, <2>3, <3>1
    <3>2. CASE s.ins[p].op = "OpPop" /\ r.ins[p].op = "OpReturnValue"
      <4>1. Pops(s.ins[p]) = 1 /\ Pops(r.ins[p]) = 1 /\ ~FallsThrough(r.ins[p].op)
        BY <3>2 DEF Pops, FallsThrough, Returns
      <4>2. QED
        BY <2>1, <2>3, <4>1
    <3>3. QED
      BY <2>1, <3>1, <3>2
  <2>5. ASSUME NEW p \in JumpsIn(r) PROVE \E t \in Ends(r) : Meets(r, h, p, t)
    <3>1. p \in DOMAIN s.ins /\ r.ins[p] = s.ins[p]
      BY <1>2, <2>1 DEF JumpsIn, Jumps
    <3>2. PICK t \in Ends(s) : Meets(s, h, p, t)
      BY <1>2, <2>3
    <3>3. QED
      BY <2>2, <3>1, <3>2 DEF Meets
  <2>6. Levelled(r, {}, h, TRUE)
    BY <2>2, <2>3, <2>4, <2>5 DEF Levelled
  <2>7. QED
    BY <2>6 DEF r
<1>4. CASE ~LastYields(s)
  <2> DEFINE i == Make("OpReturn", <<>>)
  <2>1. r = Emit(s, i)
    BY <1>2, <1>4 DEF ReturnMade, LastYields
  <2>2. IsInstruction(i) /\ i.op = "OpReturn"
    <3>1. "OpReturn" \in Opcodes /\ OperandWidth("OpReturn") = <<>>
      BY Widths DEF Opcodes, NoOperand
    <3>2. <<>> \in Seq(Nat)
      OBVIOUS
    <3>3. QED
      BY <3>1, <3>2, Made
  <2> HIDE DEF i
  <2>3. Pops(i) = 0 /\ ~FallsThrough(i.op) /\ i.op \notin Jumps
    BY <2>2 DEF Pops, FallsThrough, Returns, Jumps
  <2>4. h[s.len] \in Nat
    BY DEF Levelled, Ends
  <2>5. h[s.len] >= Pops(i)
    BY <2>3, <2>4
  <2>6. PICK g : Raised(s, {}, h, i, 0, Emit(s, i), g)
    BY <2>2, <2>3, <2>5, EmittedHeights
  <2>7. Levelled(r, {}, g, FALSE)
    BY <2>1, <2>6 DEF Raised
  <2>8. Levelled(r, {}, g, TRUE)
    BY <2>7 DEF Levelled
  <2>9. QED
    BY <2>8 DEF r
<1>5. QED
  BY <1>3, <1>4

--------------------------------------------------------------------------------
(* The heights that the verifier computes are those of the code.           *)
(* The heights at p, when f has those at the positions before.             *)
HeightsAt(code, f, p) ==
  IF p = 0 THEN {0}
  ELSE UNION { {h - Pops(code.ins[q]) + Pushes(code.ins[q]) : h \in f[q]} :
               q \in {r \in DOMAIN code.ins : r < p /\ p \in Successors(code, r)} }

(* The verifier's recursion has a solution: it only goes back.             *)
LEMMA HeightsEquation ==
  ASSUME NEW code, CodeOK(code)
  PROVE  \A p \in Ends(code) : Heights(code)[p] = HeightsAt(code, Heights(code), p)
<1> DEFINE S == Ends(code)
           Coming(p) == {r \in DOMAIN code.ins : r < p /\ p \in Successors(code, r)}
           From(f, q) == {h - Pops(code.ins[q]) + Pushes(code.ins[q]) : h \in f[q]}
           step == [f \in [S -> SUBSET Int] |-> [p \in S |-> HeightsAt(code, f, p)]]
<1>1. /\ S \subseteq Nat /\ DOMAIN code.ins \subseteq S
      /\ \A p \in S : p < code.len + 1
      /\ code.len + 1 \in Nat
      /\ \A q \in DOMAIN code.ins : Pops(code.ins[q]) \in Int /\ Pushes(code.ins[q]) \in Int
  <2>1. \A p \in S : p \in Nat /\ p <= code.len
    BY CodeFacts
  <2>2. code.len \in Nat /\ \A q \in DOMAIN code.ins : Pops(code.ins[q]) \in Nat /\ Pushes(code.ins[q]) \in {0, 1}
    BY CodeFacts
  <2>3. QED
    BY <2>1, <2>2 DEF Ends
<1>2. \A f, p : HeightsAt(code, f, p) = IF p = 0 THEN {0} ELSE UNION {From(f, q) : q \in Coming(p)}
  BY DEF HeightsAt
<1>3. \A f \in [S -> SUBSET Int] : \A p \in S : HeightsAt(code, f, p) \in SUBSET Int
  <2>1. SUFFICES ASSUME NEW f \in [S -> SUBSET Int], NEW p \in S, NEW x \in HeightsAt(code, f, p)
                 PROVE  x \in Int
    OBVIOUS
  <2>2. CASE p = 0
    BY <1>2, <2>2
  <2>3. CASE p # 0
    <3>1. x \in UNION {From(f, q) : q \in Coming(p)}
      <4> HIDE DEF From, Coming
      <4>1. QED
        BY <1>2, <2>3
    <3>2. PICK q \in Coming(p) : x \in From(f, q)
      BY <3>1
    <3>3. PICK h \in f[q] : x = h - Pops(code.ins[q]) + Pushes(code.ins[q])
      BY <3>2
    <3>4. q \in DOMAIN code.ins /\ q \in S
      BY <1>1, <3>2
    <3>5. h \in Int
      BY <3>3, <3>4
    <3>6. QED
      BY <1>1, <3>3, <3>4, <3>5
  <2>4. QED
    BY <2>2, <2>3
<1>4. step \in [[S -> SUBSET Int] -> [S -> SUBSET Int]]
      /\ \A f \in [S -> SUBSET Int] : step[f] = [p \in S |-> HeightsAt(code, f, p)]
  BY <1>3
<1>5. ASSUME NEW f \in [S -> SUBSET Int], NEW g \in [S -> SUBSET Int], NEW p \in S,
             \A q \in S : q < p => f[q] = g[q]
      PROVE  step[f][p] = step[g][p]
  <2>1. \A q \in Coming(p) : f[q] = g[q]
    BY <1>1, <1>5
  <2>2. \A q \in Coming(p) : From(f, q) = From(g, q)
    BY <2>1
  <2>3. {From(f, q) : q \in Coming(p)} = {From(g, q) : q \in Coming(p)}
    <3> HIDE DEF From, Coming
    <3>1. QED
      BY <2>2
  <2>4. HeightsAt(code, f, p) = HeightsAt(code, g, p)
    <3> HIDE DEF From, Coming
    <3>1. QED
      BY <1>2, <2>3
  <2>5. QED
    BY <1>4, <2>4
<1> HIDE DEF step
<1>6. PICK f \in [S -> SUBSET Int] : step[f] = f
  <2> DEFINE V == SUBSET Int
             b == code.len + 1
  <2>1. V # {} /\ b \in Nat /\ S \subseteq Nat /\ step \in [[S -> V] -> [S -> V]]
    BY <1>1, <1>4
  <2>2. \A p \in S : p < b
    BY <1>1
  <2>3. \A u, v \in [S -> V] : \A p \in S :
          (\A q \in S : q < p => u[q] = v[q]) => step[u][p] = step[v][p]
    BY <1>5
  <2>4. Recurs(step, S, V, b)
    <3> HIDE DEF S, V, b
    <3>1. QED
      BY <2>1, <2>2, <2>3 DEF Recurs
  <2>5. Solvable(step, S, V)
    BY <2>4, RecursionSolved
  <2>6. QED
    BY <2>5 DEF Solvable
<1>7. f = [p \in S |-> HeightsAt(code, f, p)]
  BY <1>4, <1>6
<1>8. Heights(code) = CHOOSE g : g = [p \in S |-> HeightsAt(code, g, p)]
  BY DEF Heights, HeightsAt
<1> HIDE DEF S
<1>9. Heights(code) = [p \in S |-> HeightsAt(code, Heights(code), p)]
  BY <1>7, <1>8
<1>10. \A p \in S : Heights(code)[p] = HeightsAt(code, Heights(code), p)
  BY <1>9, Zenon
<1>11. QED
  BY <1>10 DEF S

(* Where control goes. *)
LEMMA Going ==
  ASSUME NEW code, CodeOK(code), code.len <= Byte * Byte,
         \A p \in JumpsIn(code) : Lands(code, p),
         NEW p \in DOMAIN code.ins, NEW q \in Successors(code, p)
  PROVE  /\ q > p /\ q \in Ends(code)
         /\ \/ q = p + InstrLen(code.ins[p].op) /\ FallsThrough(code.ins[p].op)
            \/ q = code.ins[p].args[1] /\ p \in JumpsIn(code) /\ q \in DOMAIN code.ins
<1>1. p \in Nat /\ p + InstrLen(code.ins[p].op) \in Ends(code) /\ InstrLen(code.ins[p].op) \in 1 .. 4
  BY CodeFacts
<1>2. \/ q = p + InstrLen(code.ins[p].op) /\ FallsThrough(code.ins[p].op)
      \/ q = code.ins[p].args[1] /\ code.ins[p].op \in Jumps
  BY DEF Successors, FallsThrough, Returns, Jumps
<1>3. CASE q = p + InstrLen(code.ins[p].op) /\ FallsThrough(code.ins[p].op)
  BY <1>1, <1>3
<1>4. CASE q = code.ins[p].args[1] /\ code.ins[p].op \in Jumps
  <2>1. q > p /\ q \in DOMAIN code.ins
    BY <1>4, JumpsArrive
  <2>2. QED
    BY <1>4, <2>1 DEF Ends, JumpsIn
<1>5. QED
  BY <1>2, <1>3, <1>4

(* A jump's target is told by its operand. *)
LEMMA MeetsThere ==
  ASSUME NEW code, CodeOK(code), code.len <= Byte * Byte,
         \A p \in JumpsIn(code) : Lands(code, p),
         NEW h, NEW joins, Levelled(code, {}, h, joins),
         NEW p \in JumpsIn(code)
  PROVE  h[code.ins[p].args[1]] = After(code.ins[p], h[p])
<1>1. PICK t \in Ends(code) : t > p /\ code.ins[p].args[1] = t % Reach /\ h[t] = After(code.ins[p], h[p])
  BY DEF Levelled, Meets
<1>2. PICK u \in DOMAIN code.ins : u > p /\ code.ins[p].args[1] = u % Reach
  BY DEF Lands
<1>3. t \in Nat /\ t <= code.len /\ u \in Nat /\ u < code.len /\ p \in Nat /\ code.len \in Nat
  BY CodeFacts DEF JumpsIn
<1>4. Reach \in Nat \ {0} /\ code.len <= Reach
  BY ReachType DEF Reach
<1>5. \A k \in Nat : k < Reach => k % Reach = k
  BY <1>4
<1>6. u % Reach = u
  BY <1>3, <1>4, <1>5
<1>7. t < Reach
  <2>1. SUFFICES ASSUME t = Reach PROVE FALSE
    BY <1>3, <1>4
  <2>2. t % Reach = 0
    BY <1>4, <2>1
  <2>3. QED
    BY <1>1, <1>2, <1>3, <1>6, <2>2
<1>8. t % Reach = t
  BY <1>3, <1>5, <1>7
<1>9. QED
  BY <1>1, <1>8

(* Levelled code is balanced. *)
LEMMA Balances ==
  ASSUME NEW code, CodeOK(code), code.len <= Byte * Byte,
         \A p \in JumpsIn(code) : Lands(code, p),
         NEW h, NEW joins, Levelled(code, {}, h, joins)
  PROVE  /\ Balanced(code)
         /\ \A p \in Ends(code) : Heights(code)[p] \subseteq {h[p]}
<1> DEFINE H == Heights(code)
           Coming(p) == {r \in DOMAIN code.ins : r < p /\ p \in Successors(code, r)}
           From(q) == {x - Pops(code.ins[q]) + Pushes(code.ins[q]) : x \in H[q]}
           Bad == {p \in Ends(code) : ~(H[p] \subseteq {h[p]})}
<1>1. \A p \in Ends(code) : H[p] = IF p = 0 THEN {0} ELSE UNION {From(q) : q \in Coming(p)}
  BY HeightsEquation DEF HeightsAt
<1> HIDE DEF H
<1>2. /\ h[0] = 0
      /\ \A p \in DOMAIN code.ins :
           /\ h[p] >= Pops(code.ins[p])
           /\ FallsThrough(code.ins[p].op) => h[p + InstrLen(code.ins[p].op)] = After(code.ins[p], h[p])
  BY DEF Levelled
<1>3. /\ \A p \in Ends(code) : p \in Nat
      /\ DOMAIN code.ins \subseteq Ends(code)
  BY CodeFacts DEF Ends
<1>4. Bad = {}
  <2>1. SUFFICES ASSUME Bad # {} PROVE FALSE
    OBVIOUS
  <2>2. PICK p \in Bad : \A q \in Bad : p <= q
    <3>1. Bad \subseteq Nat
      BY <1>3
    <3> HIDE DEF Bad
    <3>2. QED
      BY <2>1, <3>1, LeastElement
  <2>3. PICK x \in H[p] : x # h[p]
    OBVIOUS
  <2>4. p # 0
    BY <1>1, <1>2, <2>3
  <2>5. x \in UNION {From(q) : q \in Coming(p)}
    <3> HIDE DEF From, Coming
    <3>1. QED
      BY <1>1, <2>3, <2>4
  <2>6. PICK q \in Coming(p) : x \in From(q)
    BY <2>5
  <2>7. q \in DOMAIN code.ins /\ q < p /\ p \in Successors(code, q) /\ q \in Ends(code)
    BY <1>3, <2>6
  <2>8. q \notin Bad
    BY <1>3, <2>2, <2>7
  <2>9. H[q] \subseteq {h[q]}
    BY <2>7, <2>8
  <2>10. x = After(code.ins[q], h[q])
    BY <2>6, <2>9 DEF After
  <2>11. h[p] = After(code.ins[q], h[q])
    BY <1>2, <2>7, Going, MeetsThere
  <2>12. QED
    BY <2>3, <2>10, <2>11
<1>5. \A p \in Ends(code) : H[p] \subseteq {h[p]}
  BY <1>4
<1>6. Written(code) /\ 0 \in Ends(code)
  BY CodeFacts DEF Written
<1>7. ForwardOnly(code)
  BY Going DEF ForwardOnly
<1>8. /\ \A p \in Ends(code) : \A x, y \in H[p] : x = y
      /\ \A p \in DOMAIN code.ins : \A x \in H[p] : x >= Pops(code.ins[p])
  BY <1>2, <1>3, <1>5
<1>9. Balanced(code)
  BY <1>6, <1>7, <1>8 DEF Balanced, H
<1>10. QED
  BY <1>5, <1>9 DEF H

(* Control does not come to the end of a function.                         *)
LEMMA EndUnreached ==
  ASSUME NEW fn, FunctionOK(fn), fn.len <= Byte * Byte
  PROVE  Heights(fn)[fn.len] = {}
<1>1. CodeOK(fn) /\ \A p \in JumpsIn(fn) : Lands(fn, p)
  BY DEF FunctionOK
<1>2. PICK p \in DOMAIN fn.ins : p + InstrLen(fn.ins[p].op) = fn.len /\ fn.ins[p].op \in Returns
  BY DEF FunctionOK
<1>3. fn.len # 0 /\ fn.len \in Ends(fn) /\ \A q \in DOMAIN fn.ins : q # fn.len
  BY <1>1, <1>2, CodeFacts DEF Ends
<1>4. {r \in DOMAIN fn.ins : r < fn.len /\ fn.len \in Successors(fn, r)} = {}
  <2>1. SUFFICES ASSUME NEW r \in DOMAIN fn.ins, fn.len \in Successors(fn, r) PROVE FALSE
    OBVIOUS
  <2>2. fn.len = r + InstrLen(fn.ins[r].op) /\ FallsThrough(fn.ins[r].op)
    BY <1>1, <1>3, <2>1, Going
  <2>3. r = p
    BY <1>1, <1>2, <2>2, CodeFacts
  <2>4. QED
    BY <1>2, <2>2, <2>3 DEF FallsThrough
<1>5. Heights(fn)[fn.len] = HeightsAt(fn, Heights(fn), fn.len)
  BY <1>1, <1>3, HeightsEquation
<1>6. QED
  BY <1>3, <1>4, <1>5 DEF HeightsAt

--------------------------------------------------------------------------------
(***************************************************************************)
(* What instructions refer to: constants that can be pushed, pairs for a   *)
(* hash, built-in functions.  The main code, at level 1, has no locals and *)
(* does not return.                                                        *)
(***************************************************************************)
Leads(instruction, level, pool) ==
  /\ instruction.op = "OpConstant" =>
       /\ instruction.args[1] + 1 \in DOMAIN pool
       /\ pool[instruction.args[1] + 1].type \in {"INTEGER", "STRING"}
  /\ instruction.op = "OpHash" => instruction.args[1] % 2 = 0
  /\ instruction.op = "OpGetBuiltin" => instruction.args[1] < Len(Builtins)
  /\ level = 1 => instruction.op \notin OfLocal \union {"OpGetFree"} \union Returns

Tied(code, level, pool) == \A p \in DOMAIN code.ins : Leads(code.ins[p], level, pool)

FunctionGood(fn, pool) ==
  /\ fn.numParameters \in Nat
  /\ Tied(fn, 2, pool)
  /\ \E h : Levelled(fn, {}, h, TRUE)

PoolGood(pool) == \A k \in DOMAIN pool : IsFunction(pool[k]) => FunctionGood(pool[k], pool)

(***************************************************************************)
(* Tasks.  One that begins with h values on the stack ends with k: an      *)
(* expression adds one, a statement none.                                  *)
(***************************************************************************)
Fits(t, level, h, k, pool) ==
  /\ t.do = "compile" => k = h + (IF t.node \in Expressions THEN 1 ELSE 0)
  /\ t.do = "parameter" => k = h
  /\ t.do = "emit" => LET i == Make(t.op, t.operands) IN
       h >= Pops(i) /\ k = After(i, h) /\ Leads(i, level, pool)
  /\ t.do \in {"ifThen", "ifElse", "ifEnd"} => BranchesHaveValues(t.node)
  /\ t.do = "ifThen" => h >= 1 /\ k = h
  /\ t.do = "ifElse" => k = h + 1
  /\ t.do = "ifEnd" => k = h + (IF t.node.alternative = NoBlock THEN 0 ELSE 1)
  /\ t.do = "leave" => k >= 1
  /\ t.do = "closure" => h >= t.numFree /\ k = h - t.numFree + 1 /\ FunctionGood(t.fn, pool)

(* A jump that a task will patch leaves the height that the end then has.  *)
SeenIn(t, s, f, h, k) ==
  /\ HeldBy(t) \in JumpsIn(s)
  /\ After(s.ins[HeldBy(t)], f[HeldBy(t)]) = IF t.do = "ifElse" THEN h ELSE k

(* A function's value comes on top of what its surroundings have pushed.   *)
Seen(t, level, h, k, ss, hs) ==
  /\ t.do = "leave" => level > 1 /\ hs[level - 1][ss[level - 1].len] = k - 1
  /\ Holder(t) => SeenIn(t, ss[level], hs[level], h, k)

(* A task that makes the last value stay comes after a pop or a return.    *)
Joins(t) == t.do = "ifElse" \/ (t.do = "ifEnd" /\ t.node.alternative # NoBlock)

Yields(t) ==
  \/ t.do = "compile" /\ t.node.kind \in {"ExpressionStatement", "ReturnStatement"}
  \/ t.do = "compile" /\ t.node.kind = "BlockStatement" /\ HasValue(t.node)
  \/ t.do = "emit" /\ t.op \in {"OpPop", "OpReturnValue"}

(* A jump leads to the end only when something will be emitted there, and  *)
(* never when the end can still be cut off.                                *)
Uses(t) == Consumes(t) \/ t.do = "closure"

MayJoin(tasks, s) == (tasks # <<>> /\ Uses(tasks[1])) \/ ~LastYields(s)

Heighted(tasks, levels, b, ss, hs, pool) ==
  /\ b[Len(tasks) + 1] = 0
  /\ \A i \in 1 .. Len(tasks) + 1 : b[i] \in Nat
  /\ \A i \in DOMAIN tasks :
       /\ Fits(tasks[i], levels[i], b[i], b[i + 1], pool)
       /\ Seen(tasks[i], levels[i], b[i], b[i + 1], ss, hs)
       /\ i < Len(tasks) => (Joins(tasks[i + 1]) => Yields(tasks[i]))
  /\ \A l \in DOMAIN ss :
       /\ Tied(ss[l], l, pool)
       /\ Levelled(ss[l], HoldsAt(tasks, levels, l), hs[l], l = Len(ss) => MayJoin(tasks, ss[l]))
  /\ hs[Len(ss)][ss[Len(ss)].len] = b[1]
  /\ tasks # <<>> => (Joins(tasks[1]) => LastYields(ss[Len(ss)]))

--------------------------------------------------------------------------------
(* Tasks in the place of the first one: where they are, and where they     *)
(* begin.                                                                  *)
Begins(new, ts, d, b) ==
  [i \in 1 .. Len(new) + Len(ts) |-> IF i <= Len(new) THEN d[i] ELSE b[i - Len(new) + 1]]

Same(r, lv, e, i, ts, levels, b, j) ==
  r[i] = ts[j] /\ lv[i] = levels[j] /\ e[i] = b[j] /\ e[i + 1] = b[j + 1]

SplicedSo(r, lv, e, new, m, d, ts, levels, b) ==
  /\ DOMAIN r = 1 .. Len(r) /\ Len(r) \in Nat /\ DOMAIN ts = 1 .. Len(ts)
  /\ e[1] = d[1] /\ e[Len(r) + 1] = b[Len(ts) + 1]
  /\ \A i \in 1 .. Len(new) : i \in DOMAIN r /\ Same(r, lv, e, i, new, [k \in 1 .. Len(new) |-> m], d, i)
  /\ \A i \in DOMAIN r : i \in 1 .. Len(new) \/ \E j \in DOMAIN ts : j # 1 /\ Same(r, lv, e, i, ts, levels, b, j)
  /\ \A j \in DOMAIN ts : j # 1 => \E i \in DOMAIN r : Same(r, lv, e, i, ts, levels, b, j)
  /\ \A i \in DOMAIN r : i < Len(r) =>
       \/ i \in 1 .. Len(new) /\ i < Len(new) /\ r[i + 1] = new[i + 1]
       \/ new # <<>> /\ r[i] = new[Len(new)] /\ 1 < Len(ts) /\ r[i + 1] = ts[2]
       \/ \E j \in DOMAIN ts : j < Len(ts) /\ r[i] = ts[j] /\ r[i + 1] = ts[j + 1]
  /\ r # <<>> => \/ new # <<>> /\ r[1] = new[1]
                 \/ new = <<>> /\ 1 < Len(ts) /\ r[1] = ts[2]

(* Every task of the new list is new, or was behind the first one.         *)
LEMMA Spliced ==
  ASSUME NEW ts, NEW levels, NEW n, Plan(ts, levels, n), ts # <<>>,
         NEW new, IsList(new), NEW lv, NEW m, Plan(new \o Tail(ts), lv, m),
         \A i \in 1 .. Len(new) : i < Len(new) => new[i].do # "leave",
         NEW d, NEW b, d[Len(new) + 1] = b[2]
  PROVE  SplicedSo(new \o Tail(ts), lv, Begins(new, ts, d, b), new, m, d, ts, levels, b)
<1> DEFINE r == new \o Tail(ts)
           e == Begins(new, ts, d, b)
           K == Len(new)
           N == Len(ts)
           ms == [k \in 1 .. K |-> m]
<1>1. IsList(ts)
  BY DEF Plan
<1>2. /\ IsList(r) /\ Len(r) = K + N - 1
      /\ \A i \in 1 .. K : r[i] = new[i]
      /\ \A j \in 2 .. N : r[K + j - 1] = ts[j]
  BY <1>1, Joined
<1>3. /\ K \in Nat /\ N \in Nat /\ N > 0 /\ DOMAIN ts = 1 .. N /\ DOMAIN r = 1 .. Len(r)
      /\ new # <<>> <=> K > 0
      /\ r # <<>> <=> Len(r) > 0
  BY <1>1, <1>2, ListFacts
<1>4. \A j \in 2 .. N : lv[K + j - 1] = levels[j]
  BY LevelsAgree
<1>5. \A i \in 1 .. K : lv[i] = m
  BY <1>1, NewLevel
<1>6. e = [i \in 1 .. K + N |-> IF i <= K THEN d[i] ELSE b[i - K + 1]] /\ d[K + 1] = b[2]
  BY DEF Begins
<1>7. ms = [k \in 1 .. K |-> m]
  OBVIOUS
<1> HIDE DEF r, e, K, N, ms
<1>8. /\ \A i \in 1 .. K : e[i] = d[i]
      /\ \A j \in 2 .. N + 1 : e[K + j - 1] = b[j]
  <2>1. ASSUME NEW i \in 1 .. K PROVE e[i] = d[i]
    <3>1. i \in 1 .. K + N /\ i <= K
      BY <1>3
    <3>2. QED
      BY <1>6, <3>1
  <2>2. ASSUME NEW j \in 2 .. N + 1 PROVE e[K + j - 1] = b[j]
    <3> DEFINE i == K + j - 1
    <3>1. i \in 1 .. K + N /\ ~(i <= K) /\ i - K + 1 = j
      BY <1>3
    <3> HIDE DEF i
    <3>2. e[i] = b[i - K + 1]
      BY <1>6, <3>1
    <3>3. QED
      BY <3>1, <3>2 DEF i
  <2>3. QED
    BY <2>1, <2>2
<1>9. \A i \in 1 .. K : i \in DOMAIN r /\ Same(r, lv, e, i, new, ms, d, i)
  <2>1. SUFFICES ASSUME NEW i \in 1 .. K PROVE i \in DOMAIN r /\ Same(r, lv, e, i, new, ms, d, i)
    OBVIOUS
  <2>2. i \in DOMAIN r /\ i \in 1 .. K + N /\ i + 1 \in 1 .. K + N
    BY <1>2, <1>3
  <2>3. e[i] = d[i]
    BY <1>3, <1>8, <2>2
  <2>4. e[i + 1] = d[i + 1]
    <3>1. CASE i < K
      <4>1. i + 1 \in 1 .. K
        BY <1>3, <3>1
      <4>2. QED
        BY <1>8, <4>1
    <3>2. CASE i = K
      <4>1. 2 \in 2 .. N + 1 /\ i + 1 = K + 2 - 1
        BY <1>3, <3>2
      <4>2. e[i + 1] = b[2]
        BY <1>8, <4>1
      <4>3. QED
        BY <1>6, <3>2, <4>2
    <3>3. QED
      BY <1>3, <3>1, <3>2
  <2>5. QED
    BY <1>2, <1>5, <1>7, <2>2, <2>3, <2>4 DEF Same
<1>10. ASSUME NEW j \in 2 .. N
       PROVE  K + j - 1 \in DOMAIN r /\ Same(r, lv, e, K + j - 1, ts, levels, b, j)
  <2> DEFINE i == K + j - 1
  <2>1. i \in 1 .. K + N - 1 /\ i + 1 = K + (j + 1) - 1 /\ j \in 2 .. N + 1 /\ j + 1 \in 2 .. N + 1
    BY <1>3
  <2>2. r[i] = ts[j] /\ lv[i] = levels[j] /\ e[i] = b[j]
    BY <1>2, <1>4, <1>8, <2>1
  <2>3. e[i + 1] = b[j + 1]
    BY <1>8, <2>1
  <2>4. i \in DOMAIN r
    BY <1>2, <1>3, <2>1
  <2>5. QED
    BY <2>2, <2>3, <2>4 DEF Same
<1>11. ASSUME NEW i \in DOMAIN r
       PROVE  i \in 1 .. K \/ \E j \in 2 .. N : i = K + j - 1
  <2>1. i \in 1 .. K + N - 1
    BY <1>2, <1>3
  <2>2. CASE i <= K
    BY <1>3, <2>1, <2>2
  <2>3. CASE i > K
    <3>1. i - K + 1 \in 2 .. N /\ i = K + (i - K + 1) - 1
      BY <1>3, <2>1, <2>3
    <3>2. QED
      BY <3>1
  <2>4. QED
    BY <1>3, <2>1, <2>2, <2>3
<1>12. \A j \in 2 .. N : j \in DOMAIN ts /\ j # 1
  BY <1>3
<1>13. \A j \in DOMAIN ts : j # 1 => j \in 2 .. N
  BY <1>3
<1>14. \A i \in DOMAIN r : i \in 1 .. K \/ \E j \in DOMAIN ts : j # 1 /\ Same(r, lv, e, i, ts, levels, b, j)
  BY <1>10, <1>11, <1>12
<1>15. \A j \in DOMAIN ts : j # 1 => \E i \in DOMAIN r : Same(r, lv, e, i, ts, levels, b, j)
  BY <1>10, <1>13
<1>16. e[1] = d[1]
  <2>1. CASE K = 0
    <3>1. 2 \in 2 .. N + 1 /\ K + 2 - 1 = 1
      BY <1>3, <2>1
    <3>2. e[1] = b[2]
      BY <1>8, <3>1
    <3>3. QED
      BY <1>6, <2>1, <3>2
  <2>2. CASE K > 0
    <3>1. 1 \in 1 .. K
      BY <1>3, <2>2
    <3>2. QED
      BY <1>8, <3>1
  <2>3. QED
    BY <1>3, <2>1, <2>2
<1>17. e[Len(r) + 1] = b[N + 1]
  <2>1. Len(r) + 1 = K + (N + 1) - 1 /\ N + 1 \in 2 .. N + 1
    BY <1>2, <1>3
  <2>2. QED
    BY <1>8, <2>1
<1>18. ASSUME NEW i \in DOMAIN r, i < Len(r)
       PROVE  \/ i \in 1 .. K /\ i < K /\ r[i + 1] = new[i + 1]
              \/ new # <<>> /\ r[i] = new[K] /\ 1 < N /\ r[i + 1] = ts[2]
              \/ \E j \in DOMAIN ts : j < N /\ r[i] = ts[j] /\ r[i + 1] = ts[j + 1]
  <2>1. i \in Nat /\ i > 0 /\ i < K + N - 1
    BY <1>2, <1>3, <1>18
  <2>2. CASE i < K
    <3>1. i \in 1 .. K /\ i + 1 \in 1 .. K
      BY <1>3, <2>1, <2>2
    <3>2. QED
      BY <1>2, <2>2, <3>1
  <2>3. CASE i = K
    <3>1. K > 0 /\ 1 < N /\ 2 \in 2 .. N /\ i \in 1 .. K /\ K + 2 - 1 = i + 1
      BY <1>3, <2>1, <2>3
    <3>2. r[i + 1] = ts[2] /\ r[i] = new[K]
      BY <1>2, <2>3, <3>1
    <3>3. QED
      BY <1>3, <3>1, <3>2
  <2>4. CASE i > K
    <3>0. PICK j \in 2 .. N : i = K + j - 1
      BY <1>3, <1>11, <2>4
    <3>1. j < N /\ j + 1 \in 2 .. N /\ i + 1 = K + (j + 1) - 1
      BY <1>3, <2>1, <3>0
    <3>2. r[i] = ts[j]
      BY <1>2, <3>0
    <3>3. r[i + 1] = ts[j + 1]
      BY <1>2, <3>1
    <3>4. QED
      BY <1>12, <3>0, <3>1, <3>2, <3>3
  <2>5. QED
    BY <1>3, <2>1, <2>2, <2>3, <2>4
<1>19. r # <<>> => \/ new # <<>> /\ r[1] = new[1]
                   \/ new = <<>> /\ 1 < N /\ r[1] = ts[2]
  <2>1. SUFFICES ASSUME r # <<>> PROVE \/ new # <<>> /\ r[1] = new[1]
                                       \/ new = <<>> /\ 1 < N /\ r[1] = ts[2]
    OBVIOUS
  <2>2. CASE K > 0
    <3>1. 1 \in 1 .. K
      BY <1>3, <2>2
    <3>2. QED
      BY <1>2, <1>3, <2>2, <3>1
  <2>3. CASE K = 0
    <3>1. 2 \in 2 .. N /\ K + 2 - 1 = 1 /\ 1 < N /\ new = <<>>
      BY <1>2, <1>3, <2>1, <2>3
    <3>2. QED
      BY <1>2, <3>1
  <2>4. QED
    BY <1>3, <2>2, <2>3
<1>20. Len(r) \in Nat
  BY <1>2, <1>3
<1>21. SplicedSo(r, lv, e, new, m, d, ts, levels, b)
  BY <1>3, <1>9, <1>14, <1>15, <1>16, <1>17, <1>18, <1>19, <1>20 DEF SplicedSo, K, N, ms
<1>22. QED
  BY <1>21 DEF r, e

--------------------------------------------------------------------------------
(* Only the first task's jump is no longer held.                           *)
HeldStill(ts, levels, n, new, r, lv, m) ==
  /\ \A l : l # n \/ ~Holder(ts[1]) => HoldsAt(ts, levels, l) \subseteq HoldsAt(r, lv, l)
  /\ \A l : HoldsAt(ts, levels, l) \ HoldsOf(ts[1]) \subseteq HoldsAt(r, lv, l)
  /\ Holds(new) \subseteq HoldsAt(r, lv, m)

(* A scope's jumps are held by the tasks that held them, and new ones.     *)
LEMMA HoldsKept ==
  ASSUME NEW ts, NEW levels, NEW n, levels[1] = n, NEW new, DOMAIN new = 1 .. Len(new),
         NEW r, NEW lv, NEW e, NEW m, NEW d, NEW b,
         SplicedSo(r, lv, e, new, m, d, ts, levels, b)
  PROVE  HeldStill(ts, levels, n, new, r, lv, m)
<1>1. ASSUME NEW l, NEW p \in HoldsAt(ts, levels, l)
      PROVE  /\ p \notin HoldsAt(r, lv, l) => p \in HoldsOf(ts[1]) /\ l = n /\ Holder(ts[1])
  <2>1. PICK j \in DOMAIN ts : Holder(ts[j]) /\ levels[j] = l /\ p = HeldBy(ts[j])
    BY DEF HoldsAt
  <2>2. CASE j = 1
    BY <2>1, <2>2 DEF HoldsOf
  <2>3. CASE j # 1
    <3>1. PICK i \in DOMAIN r : Same(r, lv, e, i, ts, levels, b, j)
      BY <2>3 DEF SplicedSo
    <3>2. QED
      BY <2>1, <3>1 DEF HoldsAt, Same
  <2>4. QED
    BY <2>2, <2>3
<1>2. ASSUME NEW p \in Holds(new) PROVE p \in HoldsAt(r, lv, m)
  <2>1. PICK i \in DOMAIN new : Holder(new[i]) /\ p = HeldBy(new[i])
    BY DEF Holds
  <2>2. i \in DOMAIN r /\ r[i] = new[i] /\ lv[i] = m
    BY DEF SplicedSo, Same
  <2>3. QED
    BY <2>1, <2>2 DEF HoldsAt
<1>3. QED
  BY <1>1, <1>2 DEF HeldStill

(* The pool of constants grows. *)
LEMMA FitsStill ==
  ASSUME NEW pool, NEW more, PoolGrown(pool, more)
  PROVE  /\ \A i, l : Leads(i, l, pool) => Leads(i, l, more)
         /\ \A s, l : Tied(s, l, pool) => Tied(s, l, more)
         /\ \A fn : FunctionGood(fn, pool) => FunctionGood(fn, more)
         /\ \A t, l, h, k : Fits(t, l, h, k, pool) => Fits(t, l, h, k, more)
<1>1. \A i, l : Leads(i, l, pool) => Leads(i, l, more)
  BY DEF PoolGrown, Leads
<1>2. \A s, l : Tied(s, l, pool) => Tied(s, l, more)
  BY <1>1 DEF Tied
<1>3. \A fn : FunctionGood(fn, pool) => FunctionGood(fn, more)
  BY <1>2 DEF FunctionGood
<1>4. \A t, l, h, k : Fits(t, l, h, k, pool) => Fits(t, l, h, k, more)
  BY <1>1, <1>3 DEF Fits
<1>5. QED
  BY <1>1, <1>2, <1>3, <1>4

--------------------------------------------------------------------------------
(***************************************************************************)
(* A step: new tasks in the place of the first one, which work in the      *)
(* scope m of the scopes zs, and more constants.  The other scopes stay.   *)
(***************************************************************************)
NewFit(new, m, d, zs, gs, more) ==
  /\ \A i \in 1 .. Len(new) :
       /\ d[i] \in Nat
       /\ Fits(new[i], m, d[i], d[i + 1], more)
       /\ Seen(new[i], m, d[i], d[i + 1], zs, gs)
       /\ i < Len(new) => new[i].do # "leave" /\ (Joins(new[i + 1]) => Yields(new[i]))
  /\ new # <<>> => ~Joins(new[1])

Yielding(t, new, s) ==
  Yields(t) => IF new = <<>> THEN LastYields(s) ELSE Yields(new[Len(new)])

OthersStay(n, ss, hs, m, zs, gs) ==
  /\ m \in Nat \ {0} /\ DOMAIN zs = 1 .. m /\ Len(zs) = m
  /\ \A l \in 1 .. m : l # m => l \in 1 .. n /\ zs[l] = ss[l] /\ gs[l] = hs[l]
  /\ m <= n => Saw(ss[m], hs[m], zs[m], gs[m])

InnermostRight(ts, levels, new, m, d, s, g, more) ==
  /\ Tied(s, m, more)
  /\ Levelled(s, (HoldsAt(ts, levels, m) \ HoldsOf(ts[1])) \union Holds(new), g,
              MayJoin(new \o Tail(ts), s))
  /\ g[s.len] = d[1]

Succeeds(ts, levels, n, b, ss, hs, pool, new, m, d, zs, gs, more) ==
  /\ IsList(new) /\ d[Len(new) + 1] = b[2]
  /\ NewFit(new, m, d, zs, gs, more)
  /\ Yielding(ts[1], new, zs[m])
  /\ OthersStay(n, ss, hs, m, zs, gs)
  /\ InnermostRight(ts, levels, new, m, d, zs[m], gs[m], more)
  /\ m # n => ~Holder(ts[1])
  /\ PoolGrown(pool, more)

(* What a scope's height has been before is known of it still. *)
LEMMA SeenStill ==
  ASSUME NEW n \in Nat, NEW ss, NEW hs, NEW m, NEW zs, NEW gs, OthersStay(n, ss, hs, m, zs, gs),
         NEW level \in 1 .. n, level <= m,
         NEW t, NEW h, NEW k, Seen(t, level, h, k, ss, hs)
  PROVE  Seen(t, level, h, k, zs, gs)
<1>1. ASSUME t.do = "leave" PROVE level > 1 /\ gs[level - 1][zs[level - 1].len] = k - 1
  <2>1. level > 1 /\ hs[level - 1][ss[level - 1].len] = k - 1
    BY <1>1 DEF Seen
  <2>2. level - 1 \in 1 .. m /\ level - 1 # m
    BY <2>1 DEF OthersStay
  <2>3. QED
    BY <2>1, <2>2 DEF OthersStay
<1>2. ASSUME Holder(t) PROVE SeenIn(t, zs[level], gs[level], h, k)
  <2>1. SeenIn(t, ss[level], hs[level], h, k)
    BY <1>2 DEF Seen
  <2>2. CASE level = m
    BY <2>1, <2>2 DEF OthersStay, Saw, SeenIn
  <2>3. CASE level # m
    <3>1. level \in 1 .. m
      BY DEF OthersStay
    <3>2. QED
      BY <2>1, <2>3, <3>1 DEF OthersStay
  <2>4. QED
    BY <2>2, <2>3
<1>3. QED
  BY <1>1, <1>2 DEF Seen

(* Tasks that succeed the first one fit what is behind them.               *)
LEMMA Continued ==
  ASSUME NEW ts, NEW levels, NEW n, Plan(ts, levels, n), ts # <<>>,
         NEW b, NEW ss, NEW hs, NEW pool, Heighted(ts, levels, b, ss, hs, pool),
         DOMAIN ss = 1 .. n, Len(ss) = n,
         NEW new, NEW m, NEW d, NEW zs, NEW gs, NEW more,
         Succeeds(ts, levels, n, b, ss, hs, pool, new, m, d, zs, gs, more),
         NEW lv, Plan(new \o Tail(ts), lv, m)
  PROVE  Heighted(new \o Tail(ts), lv, Begins(new, ts, d, b), zs, gs, more)
<1> DEFINE r == new \o Tail(ts)
           e == Begins(new, ts, d, b)
<1>1. SplicedSo(r, lv, e, new, m, d, ts, levels, b)
  <2>1. \A i \in 1 .. Len(new) : i < Len(new) => new[i].do # "leave"
    BY DEF Succeeds, NewFit
  <2>2. IsList(new) /\ d[Len(new) + 1] = b[2]
    BY DEF Succeeds
  <2>3. QED
    BY <2>1, <2>2, Spliced
<1>2. HeldStill(ts, levels, n, new, r, lv, m)
  <2>1. levels[1] = n
    BY DEF Plan
  <2>2. DOMAIN new = 1 .. Len(new)
    BY ListFacts DEF Succeeds
  <2> HIDE DEF r, e
  <2>3. QED
    BY <1>1, <2>1, <2>2, HoldsKept
<1>3. n \in Nat \ {0} /\ \A j \in DOMAIN ts : levels[j] \in 1 .. n
  BY LevelsWithin DEF Plan
<1>4. \A i \in DOMAIN r : lv[i] \in 1 .. m
  BY LevelsWithin
<1>5. m \in Nat \ {0} /\ DOMAIN zs = 1 .. m /\ Len(zs) = m
  BY DEF Succeeds, OthersStay
<1> HIDE DEF r, e
<1>6. ASSUME NEW i \in DOMAIN r
      PROVE  /\ e[i] \in Nat
             /\ Fits(r[i], lv[i], e[i], e[i + 1], more)
             /\ Seen(r[i], lv[i], e[i], e[i + 1], zs, gs)
  <2>1. CASE i \in 1 .. Len(new)
    <3>1. r[i] = new[i] /\ lv[i] = m /\ e[i] = d[i] /\ e[i + 1] = d[i + 1]
      BY <1>1, <2>1 DEF SplicedSo, Same
    <3>2. QED
      BY <2>1, <3>1 DEF Succeeds, NewFit
  <2>2. CASE i \notin 1 .. Len(new)
    <3>1. PICK j \in DOMAIN ts : r[i] = ts[j] /\ lv[i] = levels[j] /\ e[i] = b[j] /\ e[i + 1] = b[j + 1]
      BY <1>1, <2>2 DEF SplicedSo, Same
    <3>2. DOMAIN ts = 1 .. Len(ts) /\ Len(ts) \in Nat
      BY ListFacts DEF Plan
    <3>3. j \in 1 .. Len(ts) + 1
      BY <3>2
    <3>4. /\ b[j] \in Nat
          /\ Fits(ts[j], levels[j], b[j], b[j + 1], pool)
          /\ Seen(ts[j], levels[j], b[j], b[j + 1], ss, hs)
      BY <3>3 DEF Heighted
    <3>5. levels[j] \in 1 .. n /\ levels[j] <= m /\ n \in Nat
      BY <1>3, <1>4, <1>5, <3>1
    <3>6. OthersStay(n, ss, hs, m, zs, gs) /\ PoolGrown(pool, more)
      BY DEF Succeeds
    <3>7. Seen(ts[j], levels[j], b[j], b[j + 1], zs, gs)
      BY <3>4, <3>5, <3>6, SeenStill
    <3>8. Fits(ts[j], levels[j], b[j], b[j + 1], more)
      BY <3>4, <3>6, FitsStill
    <3>9. QED
      BY <3>1, <3>4, <3>7, <3>8
  <2>3. QED
    BY <2>1, <2>2
<1>7. /\ e[Len(r) + 1] = 0
      /\ \A i \in 1 .. Len(r) + 1 : e[i] \in Nat
  <2>1. e[Len(r) + 1] = 0
    BY <1>1 DEF SplicedSo, Heighted
  <2>2. DOMAIN r = 1 .. Len(r) /\ Len(r) \in Nat
    BY <1>1 DEF SplicedSo
  <2>3. ASSUME NEW i \in 1 .. Len(r) + 1 PROVE i \in DOMAIN r \/ i = Len(r) + 1
    BY <2>2
  <2>4. QED
    BY <1>6, <2>1, <2>3
<1>8. ASSUME NEW i \in DOMAIN r, i < Len(r), Joins(r[i + 1]) PROVE Yields(r[i])
  <2>1. CASE i \in 1 .. Len(new) /\ i < Len(new) /\ r[i + 1] = new[i + 1]
    <3>1. r[i] = new[i]
      BY <1>1, <2>1 DEF SplicedSo, Same
    <3>2. QED
      BY <1>8, <2>1, <3>1 DEF Succeeds, NewFit
  <2>2. CASE new # <<>> /\ r[i] = new[Len(new)] /\ 1 < Len(ts) /\ r[i + 1] = ts[2]
    <3>1. Yields(ts[1])
      BY <1>1, <1>8, <2>2, ListFacts DEF Heighted, Plan
    <3>2. QED
      BY <2>2, <3>1 DEF Succeeds, Yielding
  <2>3. CASE \E j \in DOMAIN ts : j < Len(ts) /\ r[i] = ts[j] /\ r[i + 1] = ts[j + 1]
    BY <1>8, <2>3 DEF Heighted
  <2>4. QED
    BY <1>1, <1>8, <2>1, <2>2, <2>3 DEF SplicedSo
<1>9. ASSUME NEW l \in DOMAIN zs
      PROVE  /\ Tied(zs[l], l, more)
             /\ Levelled(zs[l], HoldsAt(r, lv, l), gs[l], l = Len(zs) => MayJoin(r, zs[l]))
  <2>1. CASE l = m
    <3>1. /\ Tied(zs[m], m, more)
          /\ Levelled(zs[m], (HoldsAt(ts, levels, m) \ HoldsOf(ts[1])) \union Holds(new), gs[m],
                      MayJoin(r, zs[m]))
      BY DEF Succeeds, InnermostRight, r
    <3>2. (HoldsAt(ts, levels, m) \ HoldsOf(ts[1])) \union Holds(new) \subseteq HoldsAt(r, lv, m)
      BY <1>2 DEF HeldStill
    <3>3. QED
      BY <1>5, <2>1, <3>1, <3>2 DEF Levelled
  <2>2. CASE l # m
    <3>1. l \in 1 .. n /\ zs[l] = ss[l] /\ gs[l] = hs[l]
      BY <1>5, <2>2 DEF Succeeds, OthersStay
    <3>2. Tied(ss[l], l, pool) /\ Levelled(ss[l], HoldsAt(ts, levels, l), hs[l], l = Len(ss) => MayJoin(ts, ss[l]))
      BY <3>1 DEF Heighted
    <3>3. Tied(zs[l], l, more)
      BY <3>1, <3>2, FitsStill DEF Succeeds
    <3>4. HoldsAt(ts, levels, l) \subseteq HoldsAt(r, lv, l)
      <4>1. l # n \/ ~Holder(ts[1])
        BY <2>2 DEF Succeeds
      <4>2. QED
        BY <1>2, <4>1 DEF HeldStill
    <3>5. l # Len(zs)
      BY <1>5, <2>2
    <3>6. QED
      BY <3>1, <3>2, <3>3, <3>4, <3>5 DEF Levelled
  <2>3. QED
    BY <2>1, <2>2
<1>10. gs[Len(zs)][zs[Len(zs)].len] = e[1]
  BY <1>1, <1>5 DEF SplicedSo, Succeeds, InnermostRight
<1>11. ASSUME r # <<>>, Joins(r[1]) PROVE LastYields(zs[Len(zs)])
  <2>1. CASE new # <<>> /\ r[1] = new[1]
    BY <1>11, <2>1 DEF Succeeds, NewFit
  <2>2. CASE new = <<>> /\ 1 < Len(ts) /\ r[1] = ts[2]
    <3>1. Yields(ts[1])
      BY <1>1, <1>11, <2>2, ListFacts DEF Heighted, Plan
    <3>2. QED
      BY <1>5, <2>2, <3>1 DEF Succeeds, Yielding
  <2>3. QED
    BY <1>1, <1>11, <2>1, <2>2 DEF SplicedSo
<1>12. Heighted(r, lv, e, zs, gs, more)
  BY <1>6, <1>7, <1>8, <1>9, <1>10, <1>11 DEF Heighted
<1>13. QED
  BY <1>12 DEF r, e

--------------------------------------------------------------------------------
(***************************************************************************)
(* The inductive invariant: as long as no branch was without a value and   *)
(* no return outside of functions, the code of each open scope has         *)
(* heights, and the tasks that are left fit them.  The code that is        *)
(* finished has heights, and the main code ends where it began.            *)
(***************************************************************************)
MainGood(ss, pool) ==
  /\ Len(ss) = 1
  /\ Tied(ss[1], 1, pool)
  /\ \E h : Levelled(ss[1], {}, h, TRUE) /\ h[ss[1].len] = 0

TodoHeighted ==
  \A levels : Plan(todo, levels, Len(scopes)) =>
    \E b, hs : Heighted(todo, levels, b, scopes, hs, constants)

StackInv ==
  ~flawed =>
    /\ PoolGood(constants)
    /\ status = "compiling" => TodoHeighted
    /\ status = "compiled" => MainGood(scopes, constants)

(* Counts that the operands of OpArray, OpHash and OpCall can hold.        *)
CountsFit ==
  \A n \in Nodes :
    /\ n.kind = "ArrayLiteral" => Len(n.elements) < Byte * Byte
    /\ n.kind = "HashLiteral" => Len(n.keysAndValues) < Byte * Byte
    /\ n.kind = "CallExpression" => Len(n.arguments) < Byte

(* A handler at work.                                                      *)
AtWork(new) ==
  /\ Step /\ StackInv /\ ~flawed /\ CountsFit
  /\ status = "compiling" /\ status' = status /\ todo # <<>>
  /\ IsList(new) /\ Then(new)

(* Where the first task stands. *)
Stands(levels, b, h) ==
  /\ Plan(todo, levels, Len(scopes))
  /\ b[1] \in Nat /\ b[2] \in Nat
  /\ Fits(todo[1], Len(scopes), b[1], b[2], constants)
  /\ Holder(todo[1]) => SeenIn(todo[1], Innermost, h, b[1], b[2])
  /\ Joins(todo[1]) => LastYields(Innermost)
  /\ Tied(Innermost, Len(scopes), constants)
  /\ Levelled(Innermost, HoldsAt(todo, levels, Len(scopes)), h, MayJoin(todo, Innermost))
  /\ h[Innermost.len] = b[1]

(* What is known when a handler is at work.                                *)
LEMMA AtWorkFacts ==
  ASSUME NEW new, AtWork(new)
  PROVE  /\ Working /\ Task = todo[1] /\ IsList(todo) /\ TaskOK(todo[1])
         /\ Len(scopes) \in Nat \ {0} /\ DOMAIN scopes = 1 .. Len(scopes) /\ IsList(scopes)
         /\ Innermost = scopes[Len(scopes)] /\ ScopeOK(Innermost)
         /\ PoolGood(constants)
         /\ todo' = new \o Tail(todo)
         /\ new # <<>> => todo' # <<>> /\ todo'[1] = new[1]
<1>1. Working
  BY StepFacts DEF AtWork
<1>2. todo' = new \o Tail(todo) /\ IsList(new) /\ PoolGood(constants) /\ todo # <<>>
  BY DEF AtWork, Then, StackInv
<1>3. QED
  BY <1>1, <1>2, WorkingFacts, InnermostFacts, FirstTask

(* The invariant says where the first task stands.                         *)
LEMMA StandsSo ==
  ASSUME NEW new, AtWork(new), NEW levels, NEW b, NEW hs,
         Plan(todo, levels, Len(scopes)), Heighted(todo, levels, b, scopes, hs, constants)
  PROVE  Stands(levels, b, hs[Len(scopes)])
<1>1. /\ Len(scopes) \in Nat \ {0} /\ DOMAIN scopes = 1 .. Len(scopes)
      /\ Innermost = scopes[Len(scopes)] /\ IsList(todo) /\ todo # <<>>
  BY AtWorkFacts DEF AtWork
<1>2. /\ Len(todo) \in Nat /\ DOMAIN todo = 1 .. Len(todo) /\ Len(todo) > 0
      /\ levels[1] = Len(scopes)
  BY <1>1, ListFacts DEF Plan
<1>3. 1 \in DOMAIN todo /\ 1 \in 1 .. Len(todo) + 1 /\ 2 \in 1 .. Len(todo) + 1
      /\ Len(scopes) \in DOMAIN scopes
  BY <1>1, <1>2
<1>4. /\ b[1] \in Nat /\ b[2] \in Nat
      /\ Fits(todo[1], Len(scopes), b[1], b[2], constants)
      /\ Seen(todo[1], Len(scopes), b[1], b[2], scopes, hs)
  BY <1>2, <1>3 DEF Heighted
<1>5. Holder(todo[1]) => SeenIn(todo[1], Innermost, hs[Len(scopes)], b[1], b[2])
  BY <1>1, <1>4 DEF Seen
<1>6. /\ Tied(Innermost, Len(scopes), constants)
      /\ Levelled(Innermost, HoldsAt(todo, levels, Len(scopes)), hs[Len(scopes)], MayJoin(todo, Innermost))
  <2>1. Levelled(Innermost, HoldsAt(todo, levels, Len(scopes)), hs[Len(scopes)],
                 Len(scopes) = Len(scopes) => MayJoin(todo, Innermost))
    BY <1>1, <1>3 DEF Heighted
  <2>2. QED
    BY <1>1, <1>3, <2>1 DEF Heighted, Levelled
<1>7. hs[Len(scopes)][Innermost.len] = b[1] /\ (Joins(todo[1]) => LastYields(Innermost))
  BY <1>1 DEF Heighted
<1>8. QED
  BY <1>4, <1>5, <1>6, <1>7 DEF Stands

--------------------------------------------------------------------------------
(* A handler whose tasks succeed the first one keeps the invariant.        *)
Goes(new) ==
  \A levels, b, hs :
    /\ Plan(todo, levels, Len(scopes))
    /\ Heighted(todo, levels, b, scopes, hs, constants)
    => \E d, gs : Succeeds(todo, levels, Len(scopes), b, scopes, hs, constants,
                           new, Len(scopes'), d, scopes', gs, constants')

(* The handler may open a scope or close one.                              *)
LEMMA GoesOn ==
  ASSUME NEW new, AtWork(new), PoolGood(constants'), Goes(new)
  PROVE  StackInv'
<1>1. /\ Working /\ todo' = new \o Tail(todo) /\ todo # <<>>
      /\ Len(scopes) \in Nat \ {0} /\ DOMAIN scopes = 1 .. Len(scopes)
  BY AtWorkFacts DEF AtWork
<1>2. status' = "compiling" /\ TodoHeighted
  BY DEF AtWork, StackInv
<1>3. PICK levels : Plan(todo, levels, Len(scopes))
  BY <1>1 DEF Working, CodeInv, Good
<1>4. PICK b, hs : Heighted(todo, levels, b, scopes, hs, constants)
  BY <1>2, <1>3 DEF TodoHeighted
<1>5. PICK d, gs : Succeeds(todo, levels, Len(scopes), b, scopes, hs, constants,
                            new, Len(scopes'), d, scopes', gs, constants')
  BY <1>3, <1>4 DEF Goes
<1>6. ASSUME NEW lv, Plan(todo', lv, Len(scopes'))
      PROVE  Heighted(todo', lv, Begins(new, todo, d, b), scopes', gs, constants')
  BY <1>1, <1>3, <1>4, <1>5, <1>6, Continued
<1>7. TodoHeighted'
  BY <1>6 DEF TodoHeighted
<1>8. QED
  BY <1>2, <1>7 DEF StackInv

(* ... when only the innermost scope changes.                              *)
InnermostFit(new, n, d, r, g, more) ==
  /\ \A i \in 1 .. Len(new) :
       /\ d[i] \in Nat
       /\ Fits(new[i], n, d[i], d[i + 1], more)
       /\ Holder(new[i]) => SeenIn(new[i], r, g, d[i], d[i + 1])
       /\ new[i].do # "leave"
       /\ i < Len(new) => (Joins(new[i + 1]) => Yields(new[i]))
  /\ new # <<>> => ~Joins(new[1])

Turns(new, levels, b, h, d, r, g) ==
  /\ d[Len(new) + 1] = b[2]
  /\ InnermostFit(new, Len(scopes), d, r, g, constants')
  /\ Yielding(todo[1], new, r)
  /\ Saw(Innermost, h, r, g)
  /\ InnermostRight(todo, levels, new, Len(scopes), d, r, g, constants')

InnermostGoes(new, r) ==
  \A levels, b, h : Stands(levels, b, h) => \E d, g : Turns(new, levels, b, h, d, r, g)

(* The other scopes and their heights stay.                                *)
LEMMA InnermostGoesOn ==
  ASSUME NEW new, AtWork(new), PoolGood(constants'), PoolGrown(constants, constants'),
         NEW r, scopes' = InScope(r) \/ (scopes' = scopes /\ r = Innermost),
         InnermostGoes(new, r)
  PROVE  StackInv'
<1> DEFINE n == Len(scopes)
           N == Len(scopes')
<1>1. n \in Nat \ {0} /\ DOMAIN scopes = 1 .. n /\ Innermost = scopes[n] /\ IsList(scopes)
  BY AtWorkFacts
<1>2. InScope(r) = [scopes EXCEPT ![n] = r]
  BY DEF InScope
<1>3. N \in Nat /\ DOMAIN scopes' = 1 .. N
  BY ListFacts DEF AtWork, Step, IInv, CodeInv
<1> HIDE DEF n, N
<1>4. /\ DOMAIN scopes' = 1 .. n /\ scopes'[n] = r
      /\ \A l \in 1 .. n : l # n => scopes'[l] = scopes[l]
  <2>1. n \in DOMAIN scopes
    BY <1>1
  <2>2. CASE scopes' = InScope(r)
    BY <1>1, <1>2, <2>1, <2>2
  <2>3. CASE scopes' = scopes /\ r = Innermost
    BY <1>1, <2>3
  <2>4. QED
    BY <2>2, <2>3
<1>5. N = n
  BY <1>1, <1>3, <1>4
<1>6. ASSUME NEW levels, NEW b, NEW hs, Plan(todo, levels, n),
             Heighted(todo, levels, b, scopes, hs, constants)
      PROVE  \E d, gs : Succeeds(todo, levels, n, b, scopes, hs, constants,
                                 new, N, d, scopes', gs, constants')
  <2>1. Stands(levels, b, hs[n])
    BY <1>6, StandsSo DEF n
  <2>2. PICK d, g : Turns(new, levels, b, hs[n], d, r, g)
    BY <2>1 DEF InnermostGoes
  <2> DEFINE gs == [l \in 1 .. n |-> IF l = n THEN g ELSE hs[l]]
  <2>3. gs[n] = g /\ \A l \in 1 .. n : l # n => gs[l] = hs[l]
    BY <1>1
  <2> HIDE DEF gs
  <2>4. /\ d[Len(new) + 1] = b[2] /\ InnermostFit(new, n, d, r, g, constants')
        /\ Yielding(todo[1], new, r) /\ Saw(scopes[n], hs[n], r, g)
        /\ InnermostRight(todo, levels, new, n, d, r, g, constants')
    BY <1>1, <2>2 DEF Turns, n
  <2>5. IsList(new)
    BY DEF AtWork
  <2>6. NewFit(new, n, d, scopes', gs, constants')
    BY <1>4, <2>3, <2>4 DEF NewFit, InnermostFit, Seen
  <2>7. OthersStay(n, scopes, hs, n, scopes', gs)
    BY <1>1, <1>4, <1>5, <2>3, <2>4 DEF OthersStay, N
  <2>8. Succeeds(todo, levels, n, b, scopes, hs, constants, new, n, d, scopes', gs, constants')
    BY <1>4, <2>3, <2>4, <2>5, <2>6, <2>7 DEF Succeeds
  <2>9. QED
    BY <1>5, <2>8
<1>7. Goes(new)
  BY <1>6 DEF Goes, n, N
<1>8. QED
  BY <1>7, GoesOn

(* ... and when none does. *)
QuietFit(new, n, d, h, k, more) ==
  /\ d[1] = h /\ d[Len(new) + 1] = k
  /\ \A i \in 1 .. Len(new) :
       /\ d[i] \in Nat
       /\ Fits(new[i], n, d[i], d[i + 1], more)
       /\ ~Holder(new[i]) /\ new[i].do # "leave"

QuietlyFits(new) ==
  \A h, k : h \in Nat /\ k \in Nat /\ Fits(todo[1], Len(scopes), h, k, constants)
              => \E d : QuietFit(new, Len(scopes), d, h, k, constants')

(* The code stays as it is; only the tasks are others.                     *)
LEMMA QuietGoesOn ==
  ASSUME NEW new, AtWork(new), PoolGood(constants'), PoolGrown(constants, constants'),
         scopes' = scopes, ~Holder(todo[1]),
         Uses(todo[1]) => new # <<>> /\ Uses(new[1]),
         Yielding(todo[1], new, Innermost),
         QuietlyFits(new)
  PROVE  StackInv'
<1>1. ASSUME NEW levels, NEW b, NEW h, Stands(levels, b, h)
      PROVE  \E d, g : Turns(new, levels, b, h, d, Innermost, g)
  <2>1. PICK d : QuietFit(new, Len(scopes), d, b[1], b[2], constants')
    BY <1>1 DEF Stands, QuietlyFits
  <2>2. IsList(new) /\ DOMAIN new = 1 .. Len(new) /\ Len(new) \in Nat /\ (new # <<>> <=> Len(new) > 0)
    BY ListFacts DEF AtWork
  <2>3. \A t : Joins(t) => Holder(t)
    BY DEF Joins, Holder
  <2>4. Holds(new) = {} /\ HoldsOf(todo[1]) = {}
    BY <2>1, <2>2 DEF QuietFit, Holds, HoldsOf
  <2>5. /\ \A i \in 1 .. Len(new) : ~Joins(new[i])
        /\ new # <<>> => ~Joins(new[1])
    BY <2>1, <2>2, <2>3 DEF QuietFit
  <2>6. ASSUME NEW i \in 1 .. Len(new), i < Len(new) PROVE ~Joins(new[i + 1])
    <3>1. i + 1 \in 1 .. Len(new)
      BY <2>2, <2>6
    <3>2. QED
      BY <2>5, <3>1
  <2>7. InnermostFit(new, Len(scopes), d, Innermost, h, constants')
    BY <2>1, <2>5, <2>6 DEF QuietFit, InnermostFit
  <2>8. Saw(Innermost, h, Innermost, h)
    BY DEF Saw
  <2>9. MayJoin(todo, Innermost) => MayJoin(new \o Tail(todo), Innermost)
    BY AtWorkFacts DEF MayJoin
  <2>10. Levelled(Innermost, (HoldsAt(todo, levels, Len(scopes)) \ HoldsOf(todo[1])) \union Holds(new), h,
                  MayJoin(new \o Tail(todo), Innermost))
    BY <1>1, <2>4, <2>9 DEF Stands, Levelled
  <2>11. h[Innermost.len] = d[1]
    BY <1>1, <2>1 DEF Stands, QuietFit
  <2>12. Tied(Innermost, Len(scopes), constants')
    BY <1>1, FitsStill DEF Stands
  <2>13. InnermostRight(todo, levels, new, Len(scopes), d, Innermost, h, constants')
    BY <2>10, <2>11, <2>12 DEF InnermostRight
  <2>14. d[Len(new) + 1] = b[2]
    BY <2>1 DEF QuietFit
  <2>15. Turns(new, levels, b, h, d, Innermost, h)
    BY <2>7, <2>8, <2>13, <2>14 DEF Turns
  <2>16. QED
    BY <2>15
<1>2. InnermostGoes(new, Innermost)
  BY <1>1 DEF InnermostGoes
<1>3. QED
  BY <1>2, InnermostGoesOn

--------------------------------------------------------------------------------
(***************************************************************************)
(* What the emitted instructions are and do.                               *)
(***************************************************************************)
LEMMA MadeWith ==
  /\ \A op, operands : Make(op, operands).op = op
  /\ \A op \in TwoByteOperand : \A k \in Nat : k < Byte * Byte => Make(op, <<k>>).args[1] = k
  /\ \A op \in OneByteOperand : \A k \in Nat :
       /\ Make(op, <<k>>).args[1] \in Nat /\ Make(op, <<k>>).args[1] <= k
       /\ k < Byte => Make(op, <<k>>).args[1] = k
<1>1. Byte \in Nat \ {0} /\ Reach \in Nat \ {0} /\ Reach = Byte * Byte
  BY ReachType DEF Reach
<1>2. \A k \in Nat : DOMAIN <<k>> = {1} /\ <<k>>[1] = k
  OBVIOUS
<1>3. Capacity(2) = Byte * Byte /\ Capacity(1) = Byte
  BY DEF Capacity
<1>4. \A m \in Nat \ {0} : \A k \in Nat : /\ k % m \in Nat /\ k % m <= k
                                          /\ k < m => k % m = k
  OBVIOUS
<1>5. \A op \in TwoByteOperand : OperandWidth(op)[1] = 2
  BY Widths
<1>6. \A op \in OneByteOperand : OperandWidth(op)[1] = 1
  BY Widths
<1>7. \A op : \A k \in Nat : Make(op, <<k>>).args[1] = k % Capacity(OperandWidth(op)[1])
  BY <1>2 DEF Make
<1>8. \A op, operands : Make(op, operands).op = op
  BY DEF Make
<1>9. ASSUME NEW op \in TwoByteOperand, NEW k \in Nat, k < Byte * Byte
      PROVE  Make(op, <<k>>).args[1] = k
  <2>1. Make(op, <<k>>).args[1] = k % Reach
    BY <1>1, <1>3, <1>5, <1>7
  <2>2. k < Reach
    BY <1>1, <1>9
  <2>3. QED
    BY <1>1, <1>4, <2>1, <2>2
<1>10. ASSUME NEW op \in OneByteOperand, NEW k \in Nat
       PROVE  /\ Make(op, <<k>>).args[1] \in Nat /\ Make(op, <<k>>).args[1] <= k
              /\ k < Byte => Make(op, <<k>>).args[1] = k
  <2>1. Make(op, <<k>>).args[1] = k % Byte
    BY <1>3, <1>6, <1>7
  <2>2. QED
    BY <1>1, <1>4, <2>1
<1>11. QED
  BY <1>8, <1>9, <1>10

Operators2 == {"OpAdd", "OpSub", "OpMul", "OpDiv", "OpEqual", "OpNotEqual", "OpGreaterThan", "OpIndex"}
Operators1 == {"OpPrefixMinus", "OpBang"}
Loads == {"OpConstant", "OpTrue", "OpFalse", "OpNull",
          "OpGetGlobal", "OpGetLocal", "OpGetBuiltin", "OpGetFree"}
Stores == {"OpPop", "OpSetGlobal", "OpSetLocal", "OpReturnValue", "OpJumpNotTruthy"}

(* The opcodes by their effect.                                            *)
LEMMA Takes ==
  ASSUME NEW i
  PROVE  /\ i.op \in Operators2 => Pops(i) = 2 /\ Pushes(i) = 1
         /\ i.op \in Operators1 => Pops(i) = 1 /\ Pushes(i) = 1
         /\ i.op \in Loads => Pops(i) = 0 /\ Pushes(i) = 1
         /\ i.op \in Stores => Pops(i) = 1 /\ Pushes(i) = 0
         /\ i.op = "OpJump" => Pops(i) = 0 /\ Pushes(i) = 0
         /\ i.op \in {"OpArray", "OpHash"} => Pops(i) = i.args[1] /\ Pushes(i) = 1
         /\ i.op = "OpCall" => Pops(i) = i.args[1] + 1 /\ Pushes(i) = 1
         /\ i.op = "OpClosure" => Pops(i) = i.args[2] /\ Pushes(i) = 1
<1>1. i.op \in Operators2 => Pops(i) = 2 /\ Pushes(i) = 1
  BY DEF Pops, Pushes, Operators2
<1>2. i.op \in Operators1 => Pops(i) = 1 /\ Pushes(i) = 1
  BY DEF Pops, Pushes, Operators1
<1>3. i.op \in Loads => Pops(i) = 0 /\ Pushes(i) = 1
  BY DEF Pops, Pushes, Loads
<1>4. i.op \in Stores => Pops(i) = 1 /\ Pushes(i) = 0
  BY DEF Pops, Pushes, Stores
<1>5. i.op = "OpJump" => Pops(i) = 0 /\ Pushes(i) = 0
  BY DEF Pops, Pushes
<1>6. i.op \in {"OpArray", "OpHash"} => Pops(i) = i.args[1] /\ Pushes(i) = 1
  BY DEF Pops, Pushes
<1>7. i.op = "OpCall" => Pops(i) = i.args[1] + 1 /\ Pushes(i) = 1
  BY DEF Pops, Pushes
<1>8. i.op = "OpClosure" => Pops(i) = i.args[2] /\ Pushes(i) = 1
  BY DEF Pops, Pushes
<1>9. QED
  BY <1>1, <1>2, <1>3, <1>4, <1>5, <1>6, <1>7, <1>8

(* Instructions that refer to nothing. *)
Plainly(op) == op \notin {"OpConstant", "OpHash", "OpGetBuiltin", "OpGetFree"} \union OfLocal \union Returns

(* They are right everywhere.                                              *)
LEMMA PlainLeads ==
  ASSUME NEW i, Plainly(i.op), NEW l, NEW pool PROVE Leads(i, l, pool)
BY DEF Plainly, Leads

(* A task that emits has its instruction's effect.                         *)
LEMMA EmitFits ==
  ASSUME NEW op, NEW operands, NEW l, NEW h, NEW k, NEW pool,
         h >= Pops(Make(op, operands)), k = After(Make(op, operands), h),
         Leads(Make(op, operands), l, pool)
  PROVE  /\ Fits(EmitTask(op, operands), l, h, k, pool)
         /\ ~Holder(EmitTask(op, operands)) /\ EmitTask(op, operands).do # "leave"
<1> DEFINE t == EmitTask(op, operands)
<1>1. t.do = "emit" /\ t.op = op /\ t.operands = operands
  BY DEF EmitTask
<1> HIDE DEF t
<1>2. Fits(t, l, h, k, pool) /\ ~Holder(t) /\ t.do # "leave"
  BY <1>1 DEF Fits, Holder
<1>3. QED
  BY <1>2 DEF t

(* A task that compiles adds a value, or none.                             *)
LEMMA CompileFits ==
  ASSUME NEW node, NEW l, NEW h, NEW k, NEW pool
  PROVE  /\ Fits(CompileTask(node), l, h, k, pool)
              <=> k = h + (IF node \in Expressions THEN 1 ELSE 0)
         /\ ~Holder(CompileTask(node)) /\ CompileTask(node).do # "leave"
         /\ ~Joins(CompileTask(node))
<1> DEFINE t == CompileTask(node)
<1>1. t.do = "compile" /\ t.node = node
  BY DEF CompileTask
<1> HIDE DEF t
<1>2. /\ Fits(t, l, h, k, pool) <=> k = h + (IF node \in Expressions THEN 1 ELSE 0)
      /\ ~Holder(t) /\ t.do # "leave" /\ ~Joins(t)
  BY <1>1 DEF Fits, Holder, Joins
<1>3. QED
  BY <1>2 DEF t

(* One new task, or two. *)
LEMMA OneFits ==
  ASSUME NEW t, NEW n, NEW h \in Nat, NEW k, NEW pool, Fits(t, n, h, k, pool),
         ~Holder(t), t.do # "leave"
  PROVE  \E d : QuietFit(<<t>>, n, d, h, k, pool)
<1> DEFINE d == [i \in 1 .. 2 |-> IF i = 1 THEN h ELSE k]
           new == <<t>>
<1>1. d[1] = h /\ d[2] = k
  OBVIOUS
<1>2. Len(new) = 1 /\ new[1] = t /\ \A i \in 1 .. Len(new) : i = 1
  OBVIOUS
<1> HIDE DEF d, new
<1>3. d[Len(new) + 1] = k
  BY <1>1, <1>2
<1>4. \A i \in 1 .. Len(new) : i = 1 /\ i + 1 = 2
  BY <1>2
<1>5. QuietFit(new, n, d, h, k, pool)
  BY <1>1, <1>2, <1>3, <1>4 DEF QuietFit
<1>6. QED
  BY <1>5 DEF new

(* The first one adds to what the second one begins with.                  *)
LEMMA TwoFit ==
  ASSUME NEW t, NEW u, NEW n, NEW h \in Nat, NEW j \in Nat, NEW k, NEW pool,
         Fits(t, n, h, j, pool), Fits(u, n, j, k, pool),
         ~Holder(t), t.do # "leave", ~Holder(u), u.do # "leave"
  PROVE  \E d : QuietFit(<<t, u>>, n, d, h, k, pool)
<1> DEFINE d == [i \in 1 .. 3 |-> IF i = 1 THEN h ELSE IF i = 2 THEN j ELSE k]
           new == <<t, u>>
<1>1. d[1] = h /\ d[2] = j /\ d[3] = k
  OBVIOUS
<1>2. Len(new) = 2 /\ new[1] = t /\ new[2] = u
  OBVIOUS
<1> HIDE DEF d, new
<1>3. d[Len(new) + 1] = k
  BY <1>1, <1>2
<1>4. \A i \in 1 .. Len(new) : (i = 1 /\ i + 1 = 2) \/ (i = 2 /\ i + 1 = 3)
  BY <1>2
<1>5. QuietFit(new, n, d, h, k, pool)
  BY <1>1, <1>2, <1>3, <1>4 DEF QuietFit
<1>6. QED
  BY <1>5 DEF new

(* The pool may get an object, if it is good when it is a function.        *)
LEMMA PoolStaysGood ==
  ASSUME NEW pool, IsList(pool), PoolGood(pool), NEW object,
         IsFunction(object) => FunctionGood(object, pool)
  PROVE  /\ PoolGrown(pool, Append(pool, object)) /\ PoolGood(Append(pool, object))
         /\ Len(Append(pool, object)) = Len(pool) + 1 /\ Len(pool) \in Nat
         /\ Len(pool) + 1 \in DOMAIN Append(pool, object)
         /\ Append(pool, object)[Len(pool) + 1] = object
<1> DEFINE n == Len(pool)
           more == Append(pool, object)
<1>1. /\ n \in Nat /\ DOMAIN pool = 1 .. n /\ DOMAIN more = 1 .. n + 1
      /\ more[n + 1] = object /\ Len(more) = n + 1
      /\ \A k \in 1 .. n : more[k] = pool[k]
  BY ListFacts, ListChanges
<1> HIDE DEF n, more
<1>2. /\ \A k \in 1 .. n + 1 : k \in 1 .. n \/ k = n + 1
      /\ \A k \in 1 .. n : k \in 1 .. n + 1
      /\ n + 1 \in 1 .. n + 1
  BY <1>1
<1>3. PoolGrown(pool, more)
  BY <1>1, <1>2 DEF PoolGrown
<1>4. PoolGood(more)
  BY <1>1, <1>2, <1>3, FitsStill DEF PoolGood
<1>5. QED
  BY <1>1, <1>2, <1>3, <1>4 DEF n, more

--------------------------------------------------------------------------------
(***************************************************************************)
(* The handlers that emit nothing.                                         *)
(***************************************************************************)
Balancing ==
  Step /\ StackInv /\ ~flawed /\ CountsFit /\ Proved!BuiltinsKnown(tables)

(* An expression that loads a value. *)
LEMMA LoadKeeps ==
  ASSUME NEW op \in Loads, NEW operands, AtWork(<<EmitTask(op, operands)>>),
         PoolGood(constants'), PoolGrown(constants, constants'), scopes' = scopes,
         CompilesExpression(todo[1]),
         Leads(Make(op, operands), Len(scopes), constants')
  PROVE  StackInv'
<1> DEFINE t == EmitTask(op, operands)
           new == <<t>>
           n == Len(scopes)
<1>1. Pops(Make(op, operands)) = 0 /\ Pushes(Make(op, operands)) = 1
  <2> DEFINE i == Make(op, operands)
  <2>1. i.op = op
    BY MadeWith
  <2> HIDE DEF i
  <2>2. Pops(i) = 0 /\ Pushes(i) = 1
    BY <2>1, Takes
  <2>3. QED
    BY <2>2 DEF i
<1>2. ASSUME NEW h, NEW k, h \in Nat, k \in Nat, Fits(todo[1], n, h, k, constants)
      PROVE  \E d : QuietFit(new, n, d, h, k, constants')
  <2>1. k = h + 1
    BY <1>2 DEF Fits, CompilesExpression
  <2>2. h >= Pops(Make(op, operands)) /\ k = After(Make(op, operands), h)
    BY <1>1, <1>2, <2>1 DEF After
  <2>3. Fits(t, n, h, k, constants') /\ ~Holder(t) /\ t.do # "leave"
    BY <2>2, EmitFits
  <2> HIDE DEF t
  <2>4. QED
    BY <1>2, <2>3, OneFits
<1>3. QuietlyFits(new)
  BY <1>2 DEF QuietlyFits
<1>4. t.do = "emit"
  BY DEF EmitTask
<1>5. new # <<>> /\ new[1] = t
  OBVIOUS
<1>6. Uses(new[1])
  BY <1>4, <1>5 DEF Uses, Consumes
<1>7. ~Holder(todo[1]) /\ ~Yields(todo[1])
  <2>1. todo[1].do = "compile" /\ todo[1].node.kind \in ExpressionKinds
    BY DEF CompilesExpression, Expressions, ExpressionsIn
  <2>2. QED
    BY <2>1 DEF Holder, Yields, ExpressionKinds
<1>8. Yielding(todo[1], new, Innermost)
  BY <1>7 DEF Yielding
<1>9. AtWork(new)
  OBVIOUS
<1> HIDE DEF new
<1>10. QED
  BY <1>3, <1>5, <1>6, <1>7, <1>8, <1>9, QuietGoesOn

(* A literal: a constant that can be pushed, and its load.                 *)
LEMMA LiteralHeights ==
  ASSUME Balancing, CompileLiteral PROVE StackInv'
<1> DEFINE c == Len(constants)
           t == EmitTask("OpConstant", <<c>>)
           object == todo[1].node.object
<1>1. Compiling(Literals) /\ scopes' = scopes /\ status' = status /\ Then(<<t>>)
      /\ constants' = Append(constants, Task.node.object)
  BY DEF CompileLiteral
<1>2. Working
  BY <1>1, StepFacts DEF Compiling, Balancing
<1>3. /\ Task = todo[1] /\ todo[1].do = "compile"
      /\ todo[1].node.kind \in {"IntegerLiteral", "StringLiteral"}
      /\ WellFormed(todo[1].node, Expressions, Statements, Blocks)
      /\ CompilesExpression(todo[1])
  BY <1>1, <1>2, CompilingFacts DEF Literals, ExpressionKinds
<1>4. object.type \in {"INTEGER", "STRING"} /\ ~IsFunction(object)
  BY <1>3 DEF WellFormed, IsFunction
<1>5. AtWork(<<t>>)
  BY <1>1, FewItems DEF Balancing, AtWork, Compiling
<1>6. IsList(constants) /\ PoolGood(constants)
  BY <1>2, <1>5, AtWorkFacts DEF Working, CodeInv
<1>7. constants' = Append(constants, object)
  BY <1>1, <1>3
<1> HIDE DEF object
<1>8. /\ PoolGrown(constants, constants') /\ PoolGood(constants')
      /\ Len(constants') = c + 1 /\ c \in Nat
      /\ c + 1 \in DOMAIN constants' /\ constants'[c + 1] = object
  BY <1>4, <1>6, <1>7, PoolStaysGood
<1>9. c < Byte * Byte
  <2>1. Len(constants') <= Reach /\ Reach \in Nat
    BY ReachType DEF Balancing, Step, Writable, Reach
  <2> HIDE DEF c
  <2>2. c < Reach
    BY <1>8, <2>1
  <2>3. QED
    BY <2>2 DEF Reach
<1> HIDE DEF c
<1>10. Leads(Make("OpConstant", <<c>>), Len(scopes), constants')
  <2> DEFINE i == Make("OpConstant", <<c>>)
  <2>1. i.op = "OpConstant" /\ i.args[1] = c
    BY <1>8, <1>9, MadeWith DEF TwoByteOperand
  <2> HIDE DEF i
  <2>2. Leads(i, Len(scopes), constants')
    BY <1>4, <1>8, <2>1 DEF Leads, OfLocal, Returns
  <2>3. QED
    BY <2>2 DEF i
<1>11. "OpConstant" \in Loads
  BY DEF Loads
<1>12. QED
  BY <1>1, <1>3, <1>5, <1>8, <1>10, <1>11, LoadKeeps

(* The pool that stays is good.                                            *)
LEMMA SameConstants ==
  ASSUME constants' = constants, NEW new, AtWork(new)
  PROVE  PoolGrown(constants, constants') /\ PoolGood(constants')
BY AtWorkFacts DEF PoolGrown

(* true and false.                                                         *)
LEMMA BooleanHeights ==
  ASSUME Balancing, CompileBoolean PROVE StackInv'
<1> DEFINE op == IF Task.node.bool THEN "OpTrue" ELSE "OpFalse"
           t == EmitTask(op, <<>>)
<1>1. /\ Compiling({"Boolean"}) /\ scopes' = scopes /\ constants' = constants
      /\ status' = status /\ Then(<<t>>)
  BY DEF CompileBoolean
<1>2. CompilesExpression(todo[1])
  BY <1>1, StepFacts, CompilingFacts DEF Compiling, Balancing, ExpressionKinds
<1>3. AtWork(<<t>>)
  BY <1>1, FewItems DEF Balancing, AtWork, Compiling
<1>4. op \in Loads /\ Plainly(op)
  BY DEF Loads, Plainly, OfLocal, Returns
<1> HIDE DEF op
<1>5. Leads(Make(op, <<>>), Len(scopes), constants')
  <2> DEFINE i == Make(op, <<>>)
  <2>1. i.op = op
    BY MadeWith
  <2> HIDE DEF i
  <2>2. Leads(i, Len(scopes), constants')
    BY <1>4, <2>1, PlainLeads
  <2>3. QED
    BY <2>2 DEF i
<1>6. PoolGrown(constants, constants') /\ PoolGood(constants')
  BY <1>1, <1>3, SameConstants
<1>7. QED
  BY <1>1, <1>2, <1>3, <1>4, <1>5, <1>6, LoadKeeps

(* An if compiles its condition and then tests it.                         *)
LEMMA IfHeights ==
  ASSUME Balancing, CompileIf, BranchesHaveValues(Task.node) PROVE StackInv'
<1> DEFINE node == todo[1].node
           t == CompileTask(node.condition)
           u == [do |-> "ifThen", node |-> node]
           n == Len(scopes)
<1>1. /\ Compiling({"IfExpression"}) /\ scopes' = scopes /\ constants' = constants
      /\ status' = status
  BY DEF CompileIf
<1>2. Working
  BY <1>1, StepFacts DEF Compiling, Balancing
<1>3. /\ Task = todo[1] /\ CompilesExpression(todo[1]) /\ node.kind = "IfExpression"
      /\ todo[1].do = "compile"
      /\ WellFormed(node, Expressions, Statements, Blocks)
  BY <1>1, <1>2, CompilingFacts DEF ExpressionKinds
<1>4. Then(<<t, u>>) /\ BranchesHaveValues(node)
  BY <1>3 DEF CompileIf
<1>5. node.condition \in Expressions
  BY <1>3 DEF WellFormed
<1>6. AtWork(<<t, u>>)
  BY <1>1, <1>4, FewItems DEF Balancing, AtWork, Compiling
<1>7. /\ u.do = "ifThen" /\ u.node = node /\ t.do = "compile" /\ t.node = node.condition
  BY DEF CompileTask
<1> HIDE DEF u, node
<1>8. ASSUME NEW h, NEW k, h \in Nat, k \in Nat, Fits(todo[1], n, h, k, constants)
      PROVE  \E d : QuietFit(<<t, u>>, n, d, h, k, constants')
  <2>1. k = h + 1
    BY <1>3, <1>8 DEF Fits, CompilesExpression
  <2>2. Fits(t, n, h, k, constants') /\ ~Holder(t) /\ t.do # "leave"
    BY <1>5, <2>1, CompileFits
  <2>3. Fits(u, n, k, k, constants') /\ ~Holder(u) /\ u.do # "leave"
    BY <1>4, <1>7, <1>8, <2>1 DEF Fits, Holder
  <2> HIDE DEF t
  <2>4. QED
    BY <1>8, <2>2, <2>3, TwoFit
<1> HIDE DEF t
<1>9. QuietlyFits(<<t, u>>)
  BY <1>8 DEF QuietlyFits
<1>10. Uses(t) /\ <<t, u>> # <<>> /\ <<t, u>>[1] = t
  BY <1>5, <1>7 DEF Uses, Consumes, CompilesExpression
<1>11. ~Holder(todo[1]) /\ ~Yields(todo[1])
  BY <1>3 DEF Holder, Yields, node
<1>12. Yielding(todo[1], <<t, u>>, Innermost)
  BY <1>11 DEF Yielding
<1>13. PoolGrown(constants, constants') /\ PoolGood(constants')
  BY <1>1, <1>6, SameConstants
<1>14. QED
  BY <1>1, <1>6, <1>9, <1>10, <1>11, <1>12, <1>13, QuietGoesOn

(* A let compiles its value and then stores it.                            *)
LEMMA LetHeights ==
  ASSUME Balancing, NEW name \in Names, CompileLet(name) PROVE StackInv'
<1> DEFINE node == todo[1].node
           t == CompileTask(node.value)
           symbol == DefinedSymbol(tables, name)
           op == IF symbol.scope = Global THEN "OpSetGlobal" ELSE "OpSetLocal"
           u == EmitTask(op, <<symbol.index>>)
           n == Len(scopes)
<1>1. /\ Compiling({"LetStatement"}) /\ scopes' = scopes /\ constants' = constants
      /\ status' = status
  BY DEF CompileLet
<1>2. Working
  BY <1>1, StepFacts DEF Compiling, Balancing
<1>3. /\ Task = todo[1] /\ node.kind = "LetStatement" /\ todo[1].do = "compile"
      /\ node \in Statements
      /\ WellFormed(node, Expressions, Statements, Blocks)
  BY <1>1, <1>2, CompilingFacts DEF StatementKinds
<1>4. Then(<<t, u>>)
  BY <1>3 DEF CompileLet, Store
<1>5. node.value \in Expressions /\ node \notin Expressions
  BY <1>3 DEF WellFormed, Expressions, ExpressionsIn, ExpressionKinds
<1>6. AtWork(<<t, u>>)
  BY <1>1, <1>4, FewItems DEF Balancing, AtWork, Compiling
<1>7. n = 1 => op = "OpSetGlobal"
  <2>1. Len(tables) = n
    BY DEF Balancing, Step, IInv, TablesInv
  <2>2. n = 1 => symbol.scope = Global
    BY <2>1 DEF DefinedSymbol
  <2>3. QED
    BY <2>2
<1>8. op \in {"OpSetGlobal", "OpSetLocal"}
  OBVIOUS
<1> DEFINE i == Make(op, <<symbol.index>>)
<1>9. i.op = op
  BY MadeWith
<1> HIDE DEF i, op
<1>10. Pops(i) = 1 /\ Pushes(i) = 0 /\ Leads(i, n, constants')
  <2>1. Pops(i) = 1 /\ Pushes(i) = 0
    BY <1>8, <1>9, Takes DEF Stores
  <2>2. Leads(i, n, constants')
    BY <1>7, <1>8, <1>9 DEF Leads, OfLocal, Returns
  <2>3. QED
    BY <2>1, <2>2
<1>11. ASSUME NEW h, NEW k, h \in Nat, k \in Nat, Fits(todo[1], n, h, k, constants)
       PROVE  \E d : QuietFit(<<t, u>>, n, d, h, k, constants')
  <2>1. k = h
    BY <1>3, <1>5, <1>11 DEF Fits
  <2>2. Fits(t, n, h, h + 1, constants') /\ ~Holder(t) /\ t.do # "leave"
    BY <1>5, CompileFits
  <2>3. h + 1 >= Pops(i) /\ k = After(i, h + 1) /\ h + 1 \in Nat
    BY <1>10, <1>11, <2>1 DEF After
  <2>4. Fits(u, n, h + 1, k, constants') /\ ~Holder(u) /\ u.do # "leave"
    BY <1>10, <2>3, EmitFits DEF i
  <2> HIDE DEF t, u
  <2>5. QED
    BY <1>11, <2>2, <2>3, <2>4, TwoFit
<1> HIDE DEF t, u
<1>12. QuietlyFits(<<t, u>>)
  BY <1>11 DEF QuietlyFits
<1>13. ~Holder(todo[1]) /\ ~Yields(todo[1]) /\ ~Uses(todo[1])
  BY <1>3, <1>5 DEF Holder, Yields, Uses, Consumes, CompilesExpression
<1>14. Yielding(todo[1], <<t, u>>, Innermost)
  BY <1>13 DEF Yielding
<1>15. PoolGrown(constants, constants') /\ PoolGood(constants')
  BY <1>1, <1>6, SameConstants
<1>16. QED
  BY <1>1, <1>6, <1>12, <1>13, <1>14, <1>15, QuietGoesOn

(* A parameter only gets a slot.                                           *)
LEMMA ParameterHeights ==
  ASSUME Balancing, NEW name, DefineParameter(name) PROVE StackInv'
<1> DEFINE n == Len(scopes)
<1>1. /\ Resuming("parameter") /\ scopes' = scopes /\ constants' = constants
      /\ status' = status /\ Then(<<>>)
  BY DEF DefineParameter
<1>2. AtWork(<<>>)
  BY <1>1, FewItems DEF Balancing, AtWork, Resuming
<1>3. todo[1].do = "parameter"
  BY <1>1, <1>2, AtWorkFacts DEF Resuming
<1>4. ASSUME NEW h, NEW k, h \in Nat, k \in Nat, Fits(todo[1], n, h, k, constants)
      PROVE  \E d : QuietFit(<<>>, n, d, h, k, constants')
  <2>1. k = h
    BY <1>3, <1>4 DEF Fits
  <2> DEFINE d == [i \in {1} |-> h]
  <2>2. d[1] = h
    OBVIOUS
  <2> HIDE DEF d
  <2>3. Len(<<>>) = 0 /\ 0 + 1 = 1
    OBVIOUS
  <2>4. QuietFit(<<>>, n, d, h, k, constants')
    BY <2>1, <2>2, <2>3 DEF QuietFit
  <2>5. QED
    BY <2>4
<1>5. QuietlyFits(<<>>)
  BY <1>4 DEF QuietlyFits
<1>6. ~Holder(todo[1]) /\ ~Yields(todo[1]) /\ ~Uses(todo[1])
  BY <1>3 DEF Holder, Yields, Uses, Consumes, CompilesExpression
<1>7. Yielding(todo[1], <<>>, Innermost)
  BY <1>6 DEF Yielding
<1>8. PoolGrown(constants, constants') /\ PoolGood(constants')
  BY <1>1, <1>2, SameConstants
<1>9. QED
  BY <1>1, <1>2, <1>5, <1>6, <1>7, <1>8, QuietGoesOn
(* A symbol that is loaded at a level: only functions have locals and free *)
(* symbols, and a built-in has a place in object.Builtins.                 *)
Loadable(symbol, level) ==
  /\ symbol \in Symbol
  /\ symbol.scope = Builtin => symbol.index < Len(Builtins)
  /\ level = 1 => symbol.scope \in {Global, Builtin}

(* A symbol in the table of a scope can be loaded in it.                   *)
LEMMA BoundLoadable ==
  ASSUME TablesInv, Proved!BuiltinsKnown(tables),
         NEW l \in DOMAIN tables, NEW name \in Names, Bound(tables[l], name)
  PROVE  Loadable(tables[l].store[name], l)
<1> DEFINE s == tables[l].store[name]
<1>1. tables[l] \in Table
  BY SymbolFacts
<1>2. s \in Symbol
  BY <1>1 DEF Table, Bound
<1>3. Proved!TableFits(tables[l], l)
  BY DEF TablesInv, Proved!IInv, Proved!WellScoped
<1>4. Proved!SymbolFits(tables[l], l, name)
  BY <1>3, SameTables DEF Proved!TableFits, Proved!BoundNames
<1>5. /\ s.scope \in IF l = 1 THEN {Global, Builtin} ELSE {Local, Free}
      /\ s.scope = Builtin => s = Proved!BuiltinSymbol(name)
  BY <1>4 DEF Proved!SymbolFits, Proved!Local, Local, Proved!Global, Global,
              Proved!Builtin, Builtin, Proved!Free, Free
<1>6. ASSUME s.scope = Builtin PROVE s.index < Len(Builtins)
  <2>1. l = 1
    BY <1>5, <1>6 DEF Builtin, Local, Free
  <2>2. Proved!IsBuiltin(name)
    BY <1>6, <2>1 DEF Proved!BuiltinsKnown, Proved!Builtin, Builtin
  <2> DEFINE c == Proved!BuiltinSymbol(name).index
  <2>3. c + 1 \in DOMAIN Builtins
    <3>1. Nat \subseteq Nat /\ Nat \subseteq Nat
      OBVIOUS
    <3>2. QED
      BY <2>2, <3>1, BuiltinsAssumption, Proved!BuiltinSymbolType
  <2>4. Len(Builtins) \in Nat /\ DOMAIN Builtins = 1 .. Len(Builtins)
    BY BuiltinsAssumption
  <2>5. s.index = c /\ c \in Nat
    BY <1>2, <1>5, <1>6 DEF Symbol
  <2> HIDE DEF c
  <2>6. c < Len(Builtins)
    BY <2>3, <2>4, <2>5
  <2>7. QED
    BY <2>5, <2>6
<1>7. QED
  BY <1>2, <1>5, <1>6 DEF Loadable

(* Such a symbol's load pushes it.                                         *)
LEMMA LoadLeads ==
  ASSUME NEW symbol, NEW n, Loadable(symbol, n), NEW pool
  PROVE  \E op \in Loads : /\ Load(symbol) = EmitTask(op, <<symbol.index>>)
                           /\ Leads(Make(op, <<symbol.index>>), n, pool)
<1> DEFINE k == symbol.index
           i(op) == Make(op, <<k>>)
<1>1. symbol.scope \in {Global, Local, Builtin, Free} /\ k \in Nat
  BY DEF Loadable, Symbol, Scopes
<1>2. \A op : i(op).op = op
  BY MadeWith
<1>3. k \in Nat => i("OpGetBuiltin").args[1] \in Nat /\ i("OpGetBuiltin").args[1] <= k
  BY MadeWith DEF OneByteOperand
<1> HIDE DEF i, k
<1>4. CASE symbol.scope = Global
  <2>1. Load(symbol) = EmitTask("OpGetGlobal", <<k>>)
    BY <1>4 DEF Load, Global, Local, Builtin, Free, k
  <2>2. Leads(i("OpGetGlobal"), n, pool)
    BY <1>2 DEF Leads, OfLocal, Returns
  <2>3. QED
    BY <2>1, <2>2 DEF i, k, Loads
<1>5. CASE symbol.scope = Local
  <2>1. Load(symbol) = EmitTask("OpGetLocal", <<k>>)
    BY <1>5 DEF Load, Global, Local, Builtin, Free, k
  <2>2. n # 1
    BY <1>5 DEF Loadable, Global, Local, Builtin
  <2>3. Leads(i("OpGetLocal"), n, pool)
    BY <1>2, <2>2 DEF Leads
  <2>4. QED
    BY <2>1, <2>3 DEF i, k, Loads
<1>6. CASE symbol.scope = Free
  <2>1. Load(symbol) = EmitTask("OpGetFree", <<k>>)
    BY <1>6 DEF Load, Global, Local, Builtin, Free, k
  <2>2. n # 1
    BY <1>6 DEF Loadable, Global, Free, Builtin
  <2>3. Leads(i("OpGetFree"), n, pool)
    BY <1>2, <2>2 DEF Leads
  <2>4. QED
    BY <2>1, <2>3 DEF i, k, Loads
<1>7. CASE symbol.scope = Builtin
  <2>1. Load(symbol) = EmitTask("OpGetBuiltin", <<k>>)
    BY <1>7 DEF Load, Global, Local, Builtin, Free, k
  <2>2. k < Len(Builtins) /\ Len(Builtins) \in Nat
    BY <1>7, BuiltinsAssumption DEF Loadable, k
  <2>3. i("OpGetBuiltin").args[1] < Len(Builtins)
    BY <1>1, <1>3, <2>2
  <2>4. Leads(i("OpGetBuiltin"), n, pool)
    BY <1>2, <2>3 DEF Leads, OfLocal, Returns
  <2>5. QED
    BY <2>1, <2>4 DEF i, k, Loads
<1>8. QED
  BY <1>1, <1>4, <1>5, <1>6, <1>7

(* What resolve returns can be loaded in the innermost scope.              *)
LEMMA ResolvedLoadable ==
  ASSUME TablesInv, Proved!BuiltinsKnown(tables), NEW name \in Names, Known(tables, name)
  PROVE  Loadable(ResolvedSymbol(tables, name), Len(tables))
<1> DEFINE symbol == ResolvedSymbol(tables, name)
           n == Len(tables)
           o == OwnerLevel(tables, name)
<1>1. /\ tables \in Seq(Table) /\ n \in Nat \ {0} /\ DOMAIN tables = 1 .. n
      /\ symbol \in Symbol
  BY SymbolFacts
<1>2. /\ o \in 1 .. n /\ Bound(tables[o], name)
  <2>1. Nat \subseteq Nat /\ tables \in Seq(Proved!Table) /\ Proved!Known(tables, name)
    BY <1>1, SameTables
  <2>2. /\ Proved!OwnerLevel(tables, name) \in 1 .. Len(tables)
        /\ Proved!Bound(tables[Proved!OwnerLevel(tables, name)], name)
    BY <2>1, BuiltinsAssumption, Proved!OwnerExists
  <2>3. QED
    BY <1>1, <2>1, <2>2, SameTables
<1>3. Loadable(tables[o].store[name], o)
  BY <1>1, <1>2, BoundLoadable
<1>4. CASE Captured(tables, name)
  <2>1. symbol.scope = Free
    BY <1>4 DEF ResolvedSymbol, FreeSymbol
  <2>2. n # 1
    BY <1>1, <1>2, <1>4 DEF Captured
  <2> HIDE DEF symbol, n
  <2>3. Loadable(symbol, n)
    BY <1>1, <2>1, <2>2 DEF Loadable, Free, Builtin
  <2>4. QED
    BY <2>3 DEF symbol, n
<1>5. CASE ~Captured(tables, name)
  <2>1. symbol = tables[o].store[name]
    BY <1>5 DEF ResolvedSymbol
  <2>2. n = 1 => o = 1
    BY <1>2
  <2> HIDE DEF symbol, n, o
  <2>3. Loadable(symbol, n)
    BY <1>3, <2>1, <2>2 DEF Loadable
  <2>4. QED
    BY <2>3 DEF symbol, n
<1>6. QED
  BY <1>4, <1>5

(* An identifier loads the symbol that it is resolved to.                  *)
LEMMA IdentifierHeights ==
  ASSUME Balancing, NEW name \in Names, CompileIdentifier(name) PROVE StackInv'
<1> DEFINE symbol == ResolvedSymbol(tables, name)
           t == Load(symbol)
<1>1. /\ Compiling({"Identifier"}) /\ scopes' = scopes /\ constants' = constants
      /\ status' = status /\ Known(tables, name) /\ Then(<<t>>)
  BY DEF CompileIdentifier
<1>2. CompilesExpression(todo[1])
  BY <1>1, StepFacts, CompilingFacts DEF Compiling, Balancing, ExpressionKinds
<1>3. AtWork(<<t>>)
  BY <1>1, FewItems DEF Balancing, AtWork, Compiling
<1>4. Loadable(symbol, Len(scopes))
  BY <1>1, ResolvedLoadable DEF Balancing, Step, IInv, TablesInv
<1>5. PICK op \in Loads : /\ t = EmitTask(op, <<symbol.index>>)
                          /\ Leads(Make(op, <<symbol.index>>), Len(scopes), constants')
  BY <1>4, LoadLeads
<1>6. PoolGrown(constants, constants') /\ PoolGood(constants')
  BY <1>1, <1>3, SameConstants
<1> HIDE DEF t
<1>7. AtWork(<<EmitTask(op, <<symbol.index>>)>>)
  BY <1>3, <1>5
<1> HIDE DEF symbol
<1>8. QED
  BY <1>1, <1>2, <1>5, <1>6, <1>7, LoadKeeps
--------------------------------------------------------------------------------
(***************************************************************************)
(* The nodes that compile their parts and emit one instruction.            *)
(***************************************************************************)

(* The instruction takes the values of the parts, and leaves one if the    *)
(* node is an expression.                                                  *)
Completes(op, operands, node) ==
  LET i == Make(op, operands) IN
  /\ Pops(i) = Len(Parts(node))
  /\ Pushes(i) = IF node.kind \in ExpressionKinds THEN 1 ELSE 0
  /\ \A n, pool : (n = 1 => node.kind # "ReturnStatement") => Leads(i, n, pool)
  /\ node.kind \in {"ExpressionStatement", "ReturnStatement"} => op \in {"OpPop", "OpReturnValue"}

FinishedBy(node, op, operands) ==
  Finish(node) = <<EmitTask(op, operands)>> /\ Completes(op, operands, node)

(* Operators and pops.                                                     *)
LEMMA PlainlyCompletes ==
  ASSUME NEW node, NEW op, Plainly(op), Len(Parts(node)) \in Nat,
         \/ op \in Operators2 /\ Len(Parts(node)) = 2 /\ node.kind \in ExpressionKinds
         \/ op \in Operators1 /\ Len(Parts(node)) = 1 /\ node.kind \in ExpressionKinds
         \/ op = "OpPop" /\ Len(Parts(node)) = 1 /\ node.kind = "ExpressionStatement"
  PROVE  Completes(op, <<>>, node)
<1> DEFINE i == Make(op, <<>>)
<1>1. i.op = op
  BY MadeWith
<1> HIDE DEF i
<1>2. \A n, pool : Leads(i, n, pool)
  BY <1>1, PlainLeads
<1>3. /\ op \in Operators2 => Pops(i) = 2 /\ Pushes(i) = 1
      /\ op \in Operators1 => Pops(i) = 1 /\ Pushes(i) = 1
      /\ op = "OpPop" => Pops(i) = 1 /\ Pushes(i) = 0
  BY <1>1, Takes DEF Stores
<1>4. "ExpressionStatement" \notin ExpressionKinds
  BY DEF ExpressionKinds
<1>5. node.kind \in {"ExpressionStatement", "ReturnStatement"} => op = "OpPop"
  BY DEF ExpressionKinds
<1>6. Pops(i) = Len(Parts(node)) /\ Pushes(i) = IF node.kind \in ExpressionKinds THEN 1 ELSE 0
  BY <1>3, <1>4
<1>7. QED
  BY <1>2, <1>5, <1>6 DEF Completes, i

(* A return takes its value.                                               *)
LEMMA ReturnCompletes ==
  ASSUME NEW node, node.kind = "ReturnStatement", Len(Parts(node)) = 1
  PROVE  Completes("OpReturnValue", <<>>, node)
<1> DEFINE i == Make("OpReturnValue", <<>>)
<1>1. i.op = "OpReturnValue"
  BY MadeWith
<1> HIDE DEF i
<1>2. \A n, pool : n # 1 => Leads(i, n, pool)
  BY <1>1 DEF Leads
<1>3. Pops(i) = 1 /\ Pushes(i) = 0
  BY <1>1, Takes DEF Stores
<1>4. "ReturnStatement" \notin ExpressionKinds
  BY DEF ExpressionKinds
<1>5. QED
  BY <1>2, <1>3, <1>4 DEF Completes, i

(* The number of parts is an operand, and the code has room for it.        *)
LEMMA CountCompletes ==
  ASSUME NEW node, node.kind \in ExpressionKinds, NEW k \in Nat, NEW op,
         \/ op \in {"OpArray", "OpHash"} /\ k < Byte * Byte /\ Len(Parts(node)) = k
         \/ op = "OpCall" /\ k < Byte /\ Len(Parts(node)) = k + 1,
         op = "OpHash" => k % 2 = 0
  PROVE  Completes(op, <<k>>, node)
<1> DEFINE i == Make(op, <<k>>)
<1>1. i.op = op /\ i.args[1] = k
  BY MadeWith DEF OneByteOperand, TwoByteOperand
<1> HIDE DEF i
<1>2. op \notin {"OpConstant", "OpGetBuiltin", "OpGetFree"} \union OfLocal \union Returns
  BY DEF OfLocal, Returns
<1>3. \A n, pool : Leads(i, n, pool)
  BY <1>1, <1>2 DEF Leads
<1>4. Pops(i) = Len(Parts(node)) /\ Pushes(i) = 1
  BY <1>1, Takes
<1>5. node.kind \notin {"ExpressionStatement", "ReturnStatement"}
  BY DEF ExpressionKinds
<1>6. QED
  BY <1>3, <1>4, <1>5 DEF Completes, i

(* Every node that only compiles its parts.                                *)
LEMMA FinishFits ==
  ASSUME NEW node \in Nodes, node.kind \in Plain, node.kind # "BlockStatement", CountsFit
  PROVE  \E op, operands : FinishedBy(node, op, operands)
<1>1. WellFormed(node, Expressions, Statements, Blocks)
  BY NodesWellFormed
<1>2. \A e, f : Len(<<e>>) = 1 /\ Len(<<e, f>>) = 2
  OBVIOUS
<1>3. \A l \in Seq(Expressions) : Len(l) \in Nat
  OBVIOUS
<1>4. CASE node.kind = "ExpressionStatement"
  <2>1. Len(Parts(node)) = 1 /\ Finish(node) = <<EmitTask("OpPop", <<>>)>>
    BY <1>2, <1>4 DEF Parts, Finish
  <2>2. Plainly("OpPop")
    BY DEF Plainly, OfLocal, Returns
  <2>3. QED
    BY <1>4, <2>1, <2>2, PlainlyCompletes DEF FinishedBy
<1>5. CASE node.kind = "InfixExpression"
  <2> DEFINE op == InfixOp[node.operator]
  <2>1. Len(Parts(node)) = 2
    BY <1>2, <1>5 DEF Parts
  <2>2. Finish(node) = <<EmitTask(op, <<>>)>>
    BY <1>5 DEF Finish
  <2>3. op \in Operators2
    BY <1>1, <1>5 DEF WellFormed, InfixOperators, InfixOp, Operators2
  <2> HIDE DEF op
  <2>4. Plainly(op) /\ node.kind \in ExpressionKinds
    BY <1>5, <2>3 DEF Plainly, OfLocal, Returns, Operators2, ExpressionKinds
  <2>5. QED
    BY <2>1, <2>2, <2>3, <2>4, PlainlyCompletes DEF FinishedBy
<1>6. CASE node.kind = "PrefixExpression"
  <2> DEFINE op == PrefixOp[node.operator]
  <2>1. Len(Parts(node)) = 1
    BY <1>2, <1>6 DEF Parts
  <2>2. Finish(node) = <<EmitTask(op, <<>>)>>
    BY <1>6 DEF Finish
  <2>3. op \in Operators1
    BY <1>1, <1>6 DEF WellFormed, PrefixOperators, PrefixOp, Operators1
  <2> HIDE DEF op
  <2>4. Plainly(op) /\ node.kind \in ExpressionKinds
    BY <1>6, <2>3 DEF Plainly, OfLocal, Returns, Operators1, ExpressionKinds
  <2>5. QED
    BY <2>1, <2>2, <2>3, <2>4, PlainlyCompletes DEF FinishedBy
<1>7. CASE node.kind = "IndexExpression"
  <2>1. Len(Parts(node)) = 2 /\ Finish(node) = <<EmitTask("OpIndex", <<>>)>>
    BY <1>2, <1>7 DEF Parts, Finish
  <2>2. Plainly("OpIndex") /\ "OpIndex" \in Operators2 /\ node.kind \in ExpressionKinds
    BY <1>7 DEF Plainly, OfLocal, Returns, Operators2, ExpressionKinds
  <2>3. QED
    BY <2>1, <2>2, PlainlyCompletes DEF FinishedBy
<1>8. CASE node.kind = "ReturnStatement"
  <2>1. Len(Parts(node)) = 1 /\ Finish(node) = <<EmitTask("OpReturnValue", <<>>)>>
    BY <1>2, <1>8 DEF Parts, Finish
  <2>2. QED
    BY <1>8, <2>1, ReturnCompletes DEF FinishedBy
<1>9. CASE node.kind = "ArrayLiteral"
  <2> DEFINE k == Len(node.elements)
  <2>1. k \in Nat /\ Len(Parts(node)) = k
    BY <1>1, <1>3, <1>9 DEF WellFormed, Parts
  <2>2. Finish(node) = <<EmitTask("OpArray", <<k>>)>>
    BY <1>9 DEF Finish
  <2>3. k < Byte * Byte
    BY <1>9 DEF CountsFit
  <2> HIDE DEF k
  <2>4. Completes("OpArray", <<k>>, node)
    BY <1>9, <2>1, <2>3, CountCompletes DEF ExpressionKinds
  <2>5. QED
    BY <2>2, <2>4 DEF FinishedBy
<1>10. CASE node.kind = "HashLiteral"
  <2> DEFINE k == Len(node.keysAndValues)
  <2>1. k \in Nat /\ Len(Parts(node)) = k /\ k % 2 = 0
    BY <1>1, <1>3, <1>10 DEF WellFormed, Parts
  <2>2. Finish(node) = <<EmitTask("OpHash", <<k>>)>>
    BY <1>10 DEF Finish
  <2>3. k < Byte * Byte
    BY <1>10 DEF CountsFit
  <2> HIDE DEF k
  <2>4. Completes("OpHash", <<k>>, node)
    BY <1>10, <2>1, <2>3, CountCompletes DEF ExpressionKinds
  <2>5. QED
    BY <2>2, <2>4 DEF FinishedBy
<1>11. CASE node.kind = "CallExpression"
  <2> DEFINE k == Len(node.arguments)
  <2>1. node.function \in Expressions /\ node.arguments \in Seq(Expressions)
    BY <1>1, <1>11 DEF WellFormed
  <2>2. Len(<<node.function>> \o node.arguments) = k + 1
    BY <2>1
  <2>3. k \in Nat /\ Len(Parts(node)) = k + 1
    BY <1>3, <1>11, <2>1, <2>2 DEF Parts
  <2>4. Finish(node) = <<EmitTask("OpCall", <<k>>)>>
    BY <1>11 DEF Finish
  <2>5. k < Byte
    BY <1>11 DEF CountsFit
  <2> HIDE DEF k
  <2>6. Completes("OpCall", <<k>>, node)
    BY <1>11, <2>3, <2>5, CountCompletes DEF ExpressionKinds
  <2>7. QED
    BY <2>4, <2>6 DEF FinishedBy
<1>12. QED
  BY <1>4, <1>5, <1>6, <1>7, <1>8, <1>9, <1>10, <1>11 DEF Plain
(* The parts one after the other, each adding a value, and the instruction.*)
LEMMA PartsFit ==
  ASSUME NEW node, NEW p \in Seq(Expressions), NEW op, NEW operands,
         LET i == Make(op, operands) IN Pops(i) = Len(p) /\ Pushes(i) \in {0, 1},
         NEW n, NEW pool, Leads(Make(op, operands), n, pool),
         NEW h \in Nat, NEW k, k = h + Pushes(Make(op, operands)),
         NEW new, new = CompileTasks(p) \o <<EmitTask(op, operands)>>
  PROVE  \E d : QuietFit(new, n, d, h, k, pool)
<1> DEFINE K == Len(p)
           t == EmitTask(op, operands)
           c == CompileTasks(p)
           i == Make(op, operands)
           d == [j \in 1 .. K + 2 |-> IF j = K + 2 THEN k ELSE h + j - 1]
<1>1. /\ IsList(c) /\ Len(c) = K /\ K \in Nat
      /\ \A j \in 1 .. K : c[j] = CompileTask(p[j]) /\ p[j] \in Expressions
  BY CompileTasksType
<1>2. Pops(i) = K /\ Pushes(i) \in {0, 1} /\ k = h + Pushes(i) /\ Leads(i, n, pool)
  OBVIOUS
<1>3. Fits(t, n, h + K, k, pool) /\ ~Holder(t) /\ t.do # "leave"
  <2>1. h + K >= Pops(i) /\ k = After(i, h + K)
    BY <1>1, <1>2 DEF After
  <2>2. QED
    BY <1>2, <2>1, EmitFits
<1>4. new = c \o <<t>>
  OBVIOUS
<1> HIDE DEF i, t, c, K
<1>5. d[K + 2] = k /\ d[1] = h /\ \A j \in 1 .. K + 1 : d[j] = h + j - 1 /\ d[j] \in Nat
  BY <1>1
<1> HIDE DEF d
<1>6. /\ Len(new) = K + 1 /\ new[K + 1] = t
      /\ \A j \in 1 .. K : new[j] = c[j]
  <2> DEFINE r == c \o <<t>>
  <2>1. IsList(c)
    BY <1>1
  <2>2. /\ Len(r) = Len(c) + 1 /\ r[Len(c) + 1] = t
        /\ \A j \in 1 .. Len(c) : r[j] = c[j]
    BY <2>1, OneMore
  <2>3. new = r
    BY <1>4
  <2> HIDE DEF r
  <2>4. QED
    BY <1>1, <2>2, <2>3
<1>7. ASSUME NEW j \in 1 .. Len(new)
      PROVE  /\ d[j] \in Nat /\ Fits(new[j], n, d[j], d[j + 1], pool)
             /\ ~Holder(new[j]) /\ new[j].do # "leave"
  <2>1. CASE j = K + 1
    <3>1. d[j] = h + K /\ d[j + 1] = k /\ d[j] \in Nat
      BY <1>1, <1>5, <2>1
    <3>2. QED
      BY <1>3, <1>6, <2>1, <3>1
  <2>2. CASE j # K + 1
    <3>1. j \in 1 .. K
      BY <1>1, <1>6, <2>2
    <3>2. d[j + 1] = d[j] + 1 /\ d[j] \in Nat
      BY <1>1, <1>5, <3>1
    <3>3. new[j] = CompileTask(p[j]) /\ p[j] \in Expressions
      BY <1>1, <1>6, <3>1
    <3> DEFINE e == p[j]
               f == d[j]
               g == d[j + 1]
    <3>4. e \in Expressions /\ g = f + 1 /\ new[j] = CompileTask(e)
      BY <3>2, <3>3
    <3> HIDE DEF e, f, g
    <3>5. Fits(CompileTask(e), n, f, g, pool) /\ ~Holder(CompileTask(e)) /\ CompileTask(e).do # "leave"
      BY <3>4, CompileFits
    <3>6. QED
      BY <3>2, <3>4, <3>5 DEF f, g
  <2>3. QED
    BY <2>1, <2>2
<1>8. d[Len(new) + 1] = k
  BY <1>1, <1>5, <1>6
<1>9. QuietFit(new, n, d, h, k, pool)
  BY <1>5, <1>7, <1>8 DEF QuietFit
<1>10. QED
  BY <1>9

(* Statements one after the other, each leaving the height.                *)
LEMMA StatementsFit ==
  ASSUME NEW p \in Seq(Statements), NEW n, NEW pool, NEW h \in Nat
  PROVE  \E d : QuietFit(CompileTasks(p), n, d, h, h, pool)
<1> DEFINE K == Len(p)
           new == CompileTasks(p)
           d == [j \in 1 .. K + 1 |-> h]
<1>1. /\ Len(new) = K /\ K \in Nat
      /\ \A j \in 1 .. K : new[j] = CompileTask(p[j]) /\ p[j] \in Statements
  BY CompileTasksType
<1>2. \A s \in Statements : s \notin Expressions
  BY DEF Statements, StatementsIn, Expressions, ExpressionsIn, StatementKinds, ExpressionKinds
<1> HIDE DEF K, new
<1>3. \A j \in 1 .. K + 1 : d[j] = h
  OBVIOUS
<1> HIDE DEF d
<1>4. 1 \in 1 .. K + 1 /\ K + 1 \in 1 .. K + 1 /\ \A j \in 1 .. K : j \in 1 .. K + 1 /\ j + 1 \in 1 .. K + 1
  BY <1>1
<1>5. d[1] = h /\ d[K + 1] = h
  BY <1>3, <1>4
<1>6. ASSUME NEW j \in 1 .. K
      PROVE  /\ d[j] \in Nat /\ Fits(new[j], n, d[j], d[j + 1], pool)
             /\ ~Holder(new[j]) /\ new[j].do # "leave"
  <2>1. d[j] = h /\ d[j + 1] = h /\ h + 0 = h
    BY <1>3, <1>4
  <2>2. new[j] = CompileTask(p[j]) /\ p[j] \notin Expressions
    BY <1>1, <1>2
  <2>3. Fits(CompileTask(p[j]), n, h, h, pool)
    BY <2>1, <2>2, CompileFits
  <2>4. QED
    BY <2>1, <2>2, <2>3, CompileFits
<1>7. QuietFit(new, n, d, h, h, pool)
  BY <1>1, <1>5, <1>6 DEF QuietFit
<1>8. QED
  BY <1>7 DEF new

(* Programs and blocks only have statements.                               *)
LEMMA BlockHeights ==
  ASSUME Balancing, CompileParts, todo[1].node.kind = "BlockStatement" PROVE StackInv'
<1> DEFINE node == todo[1].node
           p == node.statements
           new == CompileTasks(p)
           n == Len(scopes)
<1>1. /\ Compiling(Plain) /\ scopes' = scopes /\ constants' = constants /\ status' = status
  BY DEF CompileParts
<1>2. Working
  BY <1>1, StepFacts DEF Compiling, Balancing
<1>3. /\ Task = todo[1] /\ todo[1].do = "compile" /\ node.kind = "BlockStatement"
      /\ WellFormed(node, Expressions, Statements, Blocks)
  BY <1>1, <1>2, CompilingFacts
<1>4. p \in Seq(Statements) /\ Parts(node) = p /\ Finish(node) = <<>>
  BY <1>3 DEF WellFormed, Parts, Finish
<1>5. /\ IsList(new) /\ Len(new) = Len(p) /\ Len(p) \in Nat
      /\ \A j \in 1 .. Len(p) : new[j] = CompileTask(p[j]) /\ p[j] \in Statements
  BY <1>4, CompileTasksType
<1>6. Then(new)
  <2>1. new \o <<>> = new
    <3> HIDE DEF new
    <3>1. new \in Seq(Elements(new))
      BY <1>5 DEF IsList
    <3>2. \A T : \A s \in Seq(T) : s \o <<>> = s
      OBVIOUS
    <3>3. QED
      BY <3>1, <3>2
  <2>2. QED
    BY <1>3, <1>4, <2>1 DEF CompileParts
<1>7. node \notin Expressions
  BY <1>3 DEF Expressions, ExpressionsIn, ExpressionKinds
<1>8. ASSUME NEW h, NEW k, h \in Nat, k \in Nat, Fits(todo[1], n, h, k, constants)
      PROVE  \E d : QuietFit(new, n, d, h, k, constants')
  <2>1. k = h
    BY <1>3, <1>7, <1>8 DEF Fits
  <2>2. QED
    BY <1>4, <1>8, <2>1, StatementsFit
<1>9. Yielding(todo[1], new, Innermost)
  <2>1. SUFFICES ASSUME Yields(todo[1])
                 PROVE  IF new = <<>> THEN LastYields(Innermost) ELSE Yields(new[Len(new)])
    BY DEF Yielding
  <2>2. HasValue(node)
    BY <1>3, <2>1 DEF Yields
  <2>3. p # <<>> /\ p[Len(p)].kind # "LetStatement"
    BY <2>2 DEF HasValue
  <2> DEFINE K == Len(p)
             s == p[K]
  <2>4. K > 0
    BY <1>4, <2>3
  <2>5. K \in 1 .. K
    BY <1>5, <2>4
  <2>6. new[K] = CompileTask(s) /\ s \in Statements
    BY <1>5, <2>5
  <2>7. s.kind \in {"ReturnStatement", "ExpressionStatement"}
    BY <2>3, <2>6 DEF Statements, StatementsIn, StatementKinds
  <2> HIDE DEF s
  <2>8. Yields(CompileTask(s))
    BY <2>7 DEF Yields, CompileTask
  <2>9. Yields(new[Len(new)])
    BY <1>5, <2>6, <2>8
  <2>10. new # <<>>
    BY <1>5, <2>4, ListFacts
  <2>11. QED
    BY <2>9, <2>10
<1>10. ~Holder(todo[1]) /\ ~Uses(todo[1])
  BY <1>3, <1>7 DEF Holder, Uses, Consumes, CompilesExpression
<1> HIDE DEF new
<1>11. AtWork(new)
  BY <1>1, <1>5, <1>6 DEF Balancing, AtWork, Compiling
<1>12. QuietlyFits(new)
  BY <1>8 DEF QuietlyFits
<1>13. PoolGrown(constants, constants') /\ PoolGood(constants')
  BY <1>1, <1>11, SameConstants
<1>14. QED
  BY <1>1, <1>9, <1>10, <1>11, <1>12, <1>13, QuietGoesOn

(* The parts leave what the instruction takes.                             *)
LEMMA PartsHeights ==
  ASSUME Balancing, CompileParts,
         Compiling({"ReturnStatement"}) => Len(scopes) # 1
  PROVE  StackInv'
<1> DEFINE node == todo[1].node
           p == Parts(node)
           n == Len(scopes)
<1>1. /\ Compiling(Plain) /\ scopes' = scopes /\ constants' = constants /\ status' = status
  BY DEF CompileParts
<1>2. Working
  BY <1>1, StepFacts DEF Compiling, Balancing
<1>3. /\ Task = todo[1] /\ todo[1].do = "compile" /\ node \in Nodes /\ node.kind \in Plain
      /\ CountsFit
  BY <1>1, <1>2, CompilingFacts DEF Balancing
<1>4. CASE node.kind = "BlockStatement"
  BY <1>4, BlockHeights
<1>5. CASE node.kind # "BlockStatement"
  <2>1. p \in Seq(Expressions)
    BY <1>3, <1>5, PartsType
  <2>2. PICK op, operands : FinishedBy(node, op, operands)
    BY <1>3, <1>5, FinishFits
  <2> DEFINE t == EmitTask(op, operands)
             c == CompileTasks(p)
             new == c \o <<t>>
             i == Make(op, operands)
  <2>3. Then(new)
    BY <1>3, <2>2 DEF CompileParts, FinishedBy
  <2>4. n = 1 => node.kind # "ReturnStatement"
    BY <1>1, <1>3 DEF Compiling
  <2>5. /\ Pops(i) = Len(p) /\ Pushes(i) = IF node.kind \in ExpressionKinds THEN 1 ELSE 0
        /\ Leads(i, n, constants')
        /\ node.kind \in {"ExpressionStatement", "ReturnStatement"} => op \in {"OpPop", "OpReturnValue"}
    BY <2>2, <2>4 DEF FinishedBy, Completes
  <2>6. node \in Expressions <=> node.kind \in ExpressionKinds
    BY <1>3 DEF Expressions, ExpressionsIn
  <2>7. ASSUME NEW h, NEW k, h \in Nat, k \in Nat, Fits(todo[1], n, h, k, constants)
        PROVE  \E d : QuietFit(new, n, d, h, k, constants')
    <3>1. k = h + (IF node \in Expressions THEN 1 ELSE 0)
      BY <1>3, <2>7 DEF Fits
    <3>2. k = h + Pushes(i)
      BY <2>5, <2>6, <3>1
    <3>3. Pushes(i) \in {0, 1} /\ Pops(i) = Len(p) /\ Leads(i, n, constants')
      BY <2>5
    <3> HIDE DEF p, node
    <3>4. QED
      BY <2>1, <2>7, <3>2, <3>3, PartsFit
  <2> DEFINE K == Len(p)
  <2>8. /\ IsList(c) /\ Len(c) = K /\ K \in Nat
        /\ \A j \in 1 .. K : c[j] = CompileTask(p[j]) /\ p[j] \in Expressions
    BY <2>1, CompileTasksType
  <2>9. t.do = "emit" /\ t.op = op
    BY DEF EmitTask
  <2> HIDE DEF t, c, K
  <2>10. /\ IsList(new) /\ Len(new) = K + 1 /\ new[K + 1] = t
         /\ \A j \in 1 .. K : new[j] = c[j]
    <3>1. IsList(c)
      BY <2>8
    <3>2. /\ IsList(new) /\ Len(new) = Len(c) + 1 /\ new[Len(c) + 1] = t
          /\ \A j \in 1 .. Len(c) : new[j] = c[j]
      BY <3>1, OneMore
    <3> HIDE DEF new
    <3>3. QED
      BY <2>8, <3>2
  <2> HIDE DEF new, p
  <2>11. AtWork(new)
    BY <1>1, <2>3, <2>10 DEF Balancing, AtWork, Compiling
  <2>12. new # <<>>
    BY <2>8, <2>10, ListFacts
  <2>13. Uses(new[1])
    <3>1. CASE K = 0
      BY <2>9, <2>10, <3>1 DEF Uses, Consumes
    <3>2. CASE K # 0
      <4>1. 1 \in 1 .. K
        BY <2>8, <3>2
      <4>2. new[1] = CompileTask(p[1]) /\ p[1] \in Expressions
        BY <2>8, <2>10, <4>1
      <4>3. QED
        BY <4>2 DEF Uses, Consumes, CompilesExpression, CompileTask
    <3>3. QED
      BY <3>1, <3>2
  <2>14. Yielding(todo[1], new, Innermost)
    <3>1. ASSUME Yields(todo[1]) PROVE Yields(new[Len(new)])
      <4>1. node.kind \in {"ExpressionStatement", "ReturnStatement"}
        BY <1>3, <1>5, <3>1 DEF Yields
      <4>2. Yields(t)
        BY <2>5, <2>9, <4>1 DEF Yields
      <4>3. QED
        BY <2>10, <4>2
    <3>2. QED
      BY <2>12, <3>1 DEF Yielding
  <2>15. ~Holder(todo[1])
    BY <1>3 DEF Holder
  <2>16. QuietlyFits(new)
    BY <2>7 DEF QuietlyFits
  <2>17. PoolGrown(constants, constants') /\ PoolGood(constants')
    BY <1>1, <2>11, SameConstants
  <2>18. QED
    BY <1>1, <2>11, <2>12, <2>13, <2>14, <2>15, <2>16, <2>17, QuietGoesOn
<1>6. QED
  BY <1>4, <1>5
--------------------------------------------------------------------------------
(***************************************************************************)
(* The handlers that emit.                                                 *)
(***************************************************************************)
EmissionFits(new, i, b, h) ==
  \E d : /\ b[1] >= Pops(i) /\ d[1] \in Nat
         /\ FallsThrough(i.op) => d[1] = After(i, b[1])
         /\ d[Len(new) + 1] = b[2]
         /\ Leads(i, Len(scopes), constants')
         /\ \A held, g : Raised(Innermost, held, h, i, d[1], Emit(Innermost, i), g)
              => InnermostFit(new, Len(scopes), d, Emit(Innermost, i), g, constants')

(* The new tasks go on from what the instruction leaves.                   *)
LEMMA EmissionGoesOn ==
  ASSUME NEW new, AtWork(new), PoolGood(constants'), PoolGrown(constants, constants'),
         NEW i, IsInstruction(i), scopes' = InScope(Emit(Innermost, i)),
         i.op = "OpPop" => Valuable(Innermost),
         ~Holder(todo[1]), i.op \in Jumps => Innermost.len \in Holds(new),
         Yielding(todo[1], new, Emit(Innermost, i)),
         \A levels, b, h : Stands(levels, b, h) => EmissionFits(new, i, b, h)
  PROVE  StackInv'
<1> DEFINE s == Innermost
           r == Emit(s, i)
           n == Len(scopes)
<1>1. ScopeOK(s)
  BY AtWorkFacts
<1>2. Grown(s, i, r)
  BY <1>1, Emitted
<1>3. /\ IsInstruction(i) /\ i.op = "OpPop" => Valuable(s)
      /\ i.op \in Jumps => s.len \in Holds(new)
      /\ Yielding(todo[1], new, r)
      /\ \A levels, b, h : Stands(levels, b, h) => EmissionFits(new, i, b, h)
  OBVIOUS
<1>4. ASSUME NEW levels, NEW b, NEW h, Stands(levels, b, h)
      PROVE  \E d, g : Turns(new, levels, b, h, d, r, g)
  <2>1. PICK d : /\ b[1] >= Pops(i) /\ d[1] \in Nat
                 /\ FallsThrough(i.op) => d[1] = After(i, b[1])
                 /\ d[Len(new) + 1] = b[2]
                 /\ Leads(i, n, constants')
                 /\ \A held, g : Raised(s, held, h, i, d[1], r, g)
                      => InnermostFit(new, n, d, r, g, constants')
    BY <1>3, <1>4 DEF EmissionFits
  <2> DEFINE before == HoldsAt(todo, levels, n)
             more == before \union Holds(new)
             joins == MayJoin(todo, s)
             e == d[1]
  <2>2. Tied(s, n, constants) /\ Levelled(s, before, h, joins) /\ h[s.len] = b[1]
    BY <1>4 DEF Stands
  <2>3. \E g : Raised(s, more, h, i, e, r, g)
    <3>1. before \subseteq more /\ (i.op \in Jumps => s.len \in more)
      BY <1>3
    <3>2. h[s.len] >= Pops(i) /\ e \in Nat /\ (FallsThrough(i.op) => e = After(i, h[s.len]))
      BY <2>1, <2>2
    <3> HIDE DEF s, r, before, more, joins, e
    <3>3. \E g : Raised(s, more, h, i, e, Emit(s, i), g)
      BY <1>1, <1>3, <2>2, <3>1, <3>2, EmittedHeights
    <3>4. QED
      BY <3>3 DEF r
  <2>4. PICK g : Raised(s, more, h, i, e, r, g)
    BY <2>3
  <2>5. InnermostFit(new, n, d, r, g, constants')
    BY <2>1, <2>4
  <2>6. Levelled(r, more, g, FALSE) /\ g[r.len] = e /\ Saw(s, h, r, g)
    BY <2>4 DEF Raised
  <2>7. before \ HoldsOf(todo[1]) = before
    BY DEF HoldsOf
  <2>8. Levelled(r, (before \ HoldsOf(todo[1])) \union Holds(new), g, MayJoin(new \o Tail(todo), r))
    BY <2>6, <2>7, LevelledStill
  <2>9. Tied(r, n, constants')
    <3>1. Tied(s, n, constants')
      BY <2>2, FitsStill
    <3>2. QED
      BY <1>2, <2>1, <3>1 DEF Tied, Grown
  <2>10. InnermostRight(todo, levels, new, n, d, r, g, constants')
    BY <2>6, <2>8, <2>9 DEF InnermostRight
  <2>11. Turns(new, levels, b, h, d, r, g)
    BY <1>3, <2>1, <2>5, <2>6, <2>10 DEF Turns
  <2>12. QED
    BY <2>11
<1>5. InnermostGoes(new, r)
  BY <1>4 DEF InnermostGoes
<1>6. scopes' = InScope(r)
  OBVIOUS
<1> HIDE DEF r
<1>7. QED
  BY <1>5, <1>6, InnermostGoesOn

(* ... when nothing else is to be done.                                    *)
LEMMA OnlyEmits ==
  ASSUME AtWork(<<>>), PoolGood(constants'), PoolGrown(constants, constants'),
         NEW i, IsInstruction(i), scopes' = InScope(Emit(Innermost, i)),
         i.op = "OpPop" => Valuable(Innermost),
         ~Holder(todo[1]), i.op \notin Jumps,
         Yields(todo[1]) => i.op \in {"OpPop", "OpReturnValue"},
         \A n, h, k : Fits(todo[1], n, h, k, constants)
                        => h >= Pops(i) /\ k = After(i, h) /\ Leads(i, n, constants')
  PROVE  StackInv'
<1> DEFINE r == Emit(Innermost, i)
           n == Len(scopes)
<1>1. ASSUME NEW levels, NEW b, NEW h, Stands(levels, b, h)
      PROVE  EmissionFits(<<>>, i, b, h)
  <2>1. b[2] \in Nat /\ Fits(todo[1], n, b[1], b[2], constants)
    BY <1>1 DEF Stands
  <2>2. b[1] >= Pops(i) /\ b[2] = After(i, b[1]) /\ Leads(i, n, constants')
    BY <2>1
  <2> DEFINE d == [j \in {1} |-> b[2]]
  <2>3. d[1] = b[2]
    OBVIOUS
  <2> HIDE DEF d
  <2>4. Len(<<>>) = 0 /\ 0 + 1 = 1 /\ \A j : j \notin 1 .. 0
    OBVIOUS
  <2>5. \A g : InnermostFit(<<>>, n, d, r, g, constants')
    BY <2>4 DEF InnermostFit
  <2>6. d[Len(<<>>) + 1] = b[2]
    BY <2>3, <2>4
  <2> HIDE DEF r
  <2>7. \A held, g : Raised(Innermost, held, h, i, d[1], r, g) => InnermostFit(<<>>, n, d, r, g, constants')
    BY <2>5
  <2>8. QED
    BY <2>1, <2>2, <2>3, <2>6, <2>7 DEF EmissionFits, r
<1>2. Grown(Innermost, i, r)
  BY AtWorkFacts, Emitted
<1>3. Yielding(todo[1], <<>>, r)
  BY <1>2 DEF Yielding, Grown, LastYields
<1>4. QED
  BY <1>1, <1>3, EmissionGoesOn

(* Needs of the first task are met.                                        *)
LEMMA NeedsMet ==
  ASSUME Working, Needs(todo[1]) PROVE Valuable(Innermost)
BY DEF Working, CodeInv, Good, Innermost

(* The second half of a handler.                                           *)
LEMMA InstructionHeights ==
  ASSUME Balancing, EmitInstruction PROVE StackInv'
<1> DEFINE t == todo[1]
           i == Make(t.op, t.operands)
<1>1. /\ Resuming("emit") /\ constants' = constants /\ status' = status /\ Then(<<>>)
  BY DEF EmitInstruction
<1>2. Task = t /\ t.do = "emit" /\ Working
  BY <1>1, StepFacts DEF Resuming, Balancing
<1>3. scopes' = InScope(Emit(Innermost, i))
  BY <1>2 DEF EmitInstruction
<1>4. t.op \in Opcodes \ Jumps /\ t.operands \in Seq(Nat) /\ Len(t.operands) = Len(OperandWidth(t.op))
  BY <1>2, WorkingFacts, TaskFacts
<1>5. IsInstruction(i) /\ i.op = t.op
  BY <1>4, Made
<1>6. ~Holder(t) /\ (Needs(t) <=> t.op = "OpPop")
  BY <1>2, Traits
<1>7. AtWork(<<>>)
  BY <1>1, FewItems DEF Balancing, AtWork, Resuming
<1>8. PoolGrown(constants, constants') /\ PoolGood(constants')
  BY <1>1, <1>7, SameConstants
<1>9. \A n, h, k : Fits(t, n, h, k, constants)
                     => h >= Pops(i) /\ k = After(i, h) /\ Leads(i, n, constants')
  BY <1>1, <1>2 DEF Fits
<1>10. Yields(t) => t.op \in {"OpPop", "OpReturnValue"}
  BY <1>2 DEF Yields
<1> HIDE DEF i
<1>11. i.op = "OpPop" => Valuable(Innermost)
  BY <1>2, <1>5, <1>6, NeedsMet
<1>12. QED
  BY <1>3, <1>4, <1>5, <1>6, <1>7, <1>8, <1>9, <1>10, <1>11, OnlyEmits

(* The values that the closure takes have been loaded.                     *)
LEMMA ClosureHeights ==
  ASSUME Balancing, EmitClosure PROVE StackInv'
<1> DEFINE t == todo[1]
           c == Len(constants)
           operands == <<c, t.numFree>>
           i == Make("OpClosure", operands)
<1>1. Resuming("closure") /\ status' = status /\ Then(<<>>)
  BY DEF EmitClosure
<1>2. Task = t /\ t.do = "closure" /\ Working
  BY <1>1, StepFacts DEF Resuming, Balancing
<1>3. scopes' = InScope(Emit(Innermost, i)) /\ constants' = Append(constants, t.fn)
  BY <1>2 DEF EmitClosure
<1>4. TaskSound(t, Slots(tables, Len(scopes)), Captures(tables, Len(scopes)), constants)
  BY <1>1, FirstSound DEF Resuming, Balancing
<1>5. t.numFree \in 0 .. Byte - 1 /\ c \in Nat
  BY <1>2, <1>4, WorkingFacts DEF TaskSound
<1>6. t.numFree \in Nat /\ t.numFree < Byte /\ Byte \in Nat \ {0}
  BY <1>5, ReachType
<1>7. i.op = "OpClosure" /\ i.args[2] = t.numFree /\ IsInstruction(i)
  <2>1. "OpClosure" \notin NoOperand /\ "OpClosure" \notin OneByteOperand /\ "OpClosure" \notin TwoByteOperand
    BY DEF NoOperand, OneByteOperand, TwoByteOperand
  <2>2. OperandWidth("OpClosure") = <<2, 1>> /\ "OpClosure" \in Opcodes
    BY <2>1, Zenon DEF OperandWidth, Opcodes
  <2>3. Capacity(1) = Byte
    BY DEF Capacity
  <2> HIDE DEF c
  <2>4. /\ operands \in Seq(Nat) /\ Len(operands) = 2 /\ Len(<<2, 1>>) = 2
        /\ DOMAIN operands = 1 .. 2 /\ operands[2] = t.numFree
    BY <1>5, <1>6
  <2>5. i.op = "OpClosure" /\ i.args = [q \in DOMAIN operands |-> operands[q] % Capacity(OperandWidth("OpClosure")[q])]
    BY DEF Make
  <2>6. i.args[2] = t.numFree % Byte
    BY <2>2, <2>3, <2>4, <2>5
  <2>7. \A m \in Nat \ {0} : \A x \in Nat : x < m => x % m = x
    OBVIOUS
  <2>8. t.numFree % Byte = t.numFree
    BY <1>6, <2>7
  <2> HIDE DEF operands
  <2>9. Len(operands) = Len(OperandWidth("OpClosure"))
    BY <2>2, <2>4, Zenon
  <2>10. IsInstruction(i)
    BY <2>2, <2>4, <2>9, Made
  <2>11. QED
    BY <2>5, <2>6, <2>8, <2>10
<1> HIDE DEF i
<1>8. Pops(i) = t.numFree /\ Pushes(i) = 1 /\ Plainly(i.op)
  BY <1>7, Takes DEF Plainly, OfLocal, Returns
<1>9. \A n, pool : Leads(i, n, pool)
  BY <1>8, PlainLeads
<1>10. AtWork(<<>>)
  BY <1>1, FewItems DEF Balancing, AtWork, Resuming
<1>11. ASSUME NEW n, NEW h, NEW k, Fits(t, n, h, k, constants)
       PROVE  h >= Pops(i) /\ k = After(i, h) /\ Leads(i, n, constants') /\ FunctionGood(t.fn, constants)
  BY <1>2, <1>8, <1>9, <1>11 DEF Fits, After
<1>12. FunctionGood(t.fn, constants)
  <2>1. PICK levels : Plan(todo, levels, Len(scopes))
    BY <1>2 DEF Working, CodeInv, Good
  <2>2. PICK b, hs : Heighted(todo, levels, b, scopes, hs, constants)
    BY <1>10, <2>1 DEF AtWork, StackInv, TodoHeighted
  <2>3. Stands(levels, b, hs[Len(scopes)])
    BY <1>10, <2>1, <2>2, StandsSo
  <2>4. QED
    BY <1>11, <2>3 DEF Stands
<1>13. PoolGrown(constants, constants') /\ PoolGood(constants')
  <2>1. IsList(constants) /\ PoolGood(constants)
    BY <1>2, <1>10, AtWorkFacts DEF Working, CodeInv
  <2>2. QED
    BY <1>3, <1>12, <2>1, PoolStaysGood
<1>14. ~Holder(t) /\ ~Yields(t)
  BY <1>2 DEF Holder, Yields
<1>15. i.op \notin Jumps /\ i.op # "OpPop"
  BY <1>7 DEF Jumps
<1>16. QED
  BY <1>3, <1>7, <1>10, <1>11, <1>13, <1>14, <1>15, OnlyEmits
--------------------------------------------------------------------------------
(***************************************************************************)
(* The handlers of an if.                                                  *)
(***************************************************************************)
LEMMA TwoInnermost ==
  ASSUME NEW t, NEW u, NEW n, NEW r, NEW g, NEW more, NEW d,
         d[1] \in Nat, d[2] \in Nat,
         Fits(t, n, d[1], d[2], more), Fits(u, n, d[2], d[3], more),
         ~Holder(t), t.do # "leave", u.do # "leave",
         Holder(u) => SeenIn(u, r, g, d[2], d[3]),
         Joins(u) => Yields(t)
  PROVE  InnermostFit(<<t, u>>, n, d, r, g, more)
<1> DEFINE new == <<t, u>>
<1>1. Len(new) = 2 /\ new[1] = t /\ new[2] = u /\ new # <<>>
  OBVIOUS
<1>2. ~Joins(t)
  BY DEF Joins, Holder
<1> HIDE DEF new
<1>3. \A i \in 1 .. Len(new) : (i = 1 /\ i + 1 = 2) \/ (i = 2 /\ i + 1 = 3 /\ ~(i < Len(new)))
  BY <1>1
<1>4. InnermostFit(new, n, d, r, g, more)
  BY <1>1, <1>2, <1>3 DEF InnermostFit
<1>5. QED
  BY <1>4 DEF new

(* What two changes of a scope leave, both together do.                    *)
LEMMA SawFollows ==
  ASSUME NEW s, NEW h, NEW r, NEW g, NEW q, NEW f, Saw(s, h, r, g), Saw(r, g, q, f)
  PROVE  Saw(s, h, q, f)
BY DEF Saw

(* What instructions refer to stays when code is cut, or a jump patched.   *)
LEMMA TiedStill ==
  ASSUME NEW s, NEW l, NEW pool, Tied(s, l, pool)
  PROVE  /\ \A r : Trimmed(s, r) => Tied(r, l, pool)
         /\ \A i, r : Grown(s, i, r) /\ Leads(i, l, pool) => Tied(r, l, pool)
         /\ \A pos, operand, r : pos \in JumpsIn(s) /\ Patched(s, pos, operand, r) => Tied(r, l, pool)
<1>1. \A r : Trimmed(s, r) => Tied(r, l, pool)
  BY DEF Tied, Trimmed
<1>2. \A i, r : Grown(s, i, r) /\ Leads(i, l, pool) => Tied(r, l, pool)
  BY DEF Tied, Grown
<1>3. ASSUME NEW pos \in JumpsIn(s), NEW operand, NEW r, Patched(s, pos, operand, r)
      PROVE  Tied(r, l, pool)
  <2>1. s.ins[pos].op \in Jumps /\ r.ins[pos].op = s.ins[pos].op
    BY <1>3 DEF JumpsIn, Patched
  <2>2. Plainly(r.ins[pos].op)
    BY <2>1 DEF Plainly, Jumps, OfLocal, Returns
  <2>3. Leads(r.ins[pos], l, pool)
    BY <2>2, PlainLeads
  <2>4. \A p \in DOMAIN r.ins : p \in DOMAIN s.ins /\ (p # pos => r.ins[p] = s.ins[p])
    BY <1>3 DEF Patched
  <2>5. QED
    BY <2>3, <2>4 DEF Tied
<1>4. QED
  BY <1>1, <1>2, <1>3

(* The jump over the consequence leaves what was there before the          *)
(* condition; so does the consequence, before its value is kept.           *)
LEMMA ConsequenceHeights ==
  ASSUME Balancing, JumpOverConsequence PROVE StackInv'
<1> DEFINE c == todo[1]
           s == Innermost
           i == Make("OpJumpNotTruthy", <<Magic>>)
           t == CompileTask(c.node.consequence)
           u == [do |-> "ifElse", node |-> c.node, jumpNotTruthyPos |-> s.len]
           r == Emit(s, i)
           n == Len(scopes)
           new == <<t, u>>
<1>1. Resuming("ifThen") /\ constants' = constants /\ status' = status
  BY DEF JumpOverConsequence
<1>2. Task = c /\ c.do = "ifThen" /\ Working
  BY <1>1, StepFacts DEF Resuming, Balancing
<1>3. scopes' = InScope(r) /\ Then(new)
  BY <1>2 DEF JumpOverConsequence
<1>4. c.node \in Nodes /\ c.node.kind = "IfExpression"
  BY <1>2, WorkingFacts, TaskFacts
<1>5. c.node.consequence \in Blocks
  BY <1>4, NodesWellFormed DEF WellFormed
<1>6. IsInstruction(i) /\ i.op = "OpJumpNotTruthy" /\ i.op \in Jumps /\ i.op # "OpPop"
  BY JumpMade DEF Jumps
<1>7. /\ t.do = "compile" /\ t.node = c.node.consequence
      /\ t.node.kind = "BlockStatement" /\ t.node \notin Expressions
  BY <1>5, NodesWellFormed DEF CompileTask, ExpressionKinds
<1>8. u.do = "ifElse" /\ u.node = c.node /\ u.jumpNotTruthyPos = s.len
  OBVIOUS
<1>9. AtWork(new)
  BY <1>1, <1>3, FewItems DEF Balancing, AtWork, Resuming
<1>10. PoolGrown(constants, constants') /\ PoolGood(constants')
  BY <1>1, <1>9, SameConstants
<1> HIDE DEF i, t, u
<1>11. ~Holder(t) /\ Holder(u) /\ HeldBy(u) = s.len /\ t.do # "leave" /\ u.do # "leave"
  BY <1>7, <1>8 DEF Holder, HeldBy
<1>12. s.len \in Holds(new)
  <2>1. Len(scopes) \in Nat \ {0} /\ c.do # "leave"
    BY <1>2, WorkingFacts
  <2>2. Holds(new) = HoldsOf(t) \union HoldsOf(u)
    BY <2>1, FewTasks
  <2>3. QED
    BY <1>11, <2>2 DEF HoldsOf
<1>13. Pops(i) = 1 /\ Pushes(i) = 0 /\ Plainly(i.op)
  BY <1>6, Takes DEF Stores, Plainly, OfLocal, Returns
<1>14. Leads(i, n, constants')
  BY <1>13, PlainLeads
<1>15. ASSUME NEW levels, NEW b, NEW h, Stands(levels, b, h)
       PROVE  EmissionFits(new, i, b, h)
  <2>1. /\ b[1] \in Nat /\ b[2] \in Nat /\ b[1] >= 1 /\ b[2] = b[1]
        /\ BranchesHaveValues(c.node) /\ h[s.len] = b[1]
    BY <1>2, <1>15 DEF Stands, Fits
  <2> DEFINE d == [q \in 1 .. 3 |-> IF q = 3 THEN b[2] ELSE b[1] - 1]
  <2>2. d[1] = b[1] - 1 /\ d[2] = b[1] - 1 /\ d[3] = b[2]
    OBVIOUS
  <2> HIDE DEF d
  <2>3. b[1] >= Pops(i) /\ d[1] \in Nat /\ d[2] \in Nat /\ d[1] = After(i, b[1])
        /\ d[2] = d[1] + 0 /\ d[3] = d[2] + 1
    BY <1>13, <2>1, <2>2 DEF After
  <2>4. Fits(t, n, d[1], d[2], constants')
    BY <1>7, <2>3 DEF Fits
  <2>5. Fits(u, n, d[2], d[3], constants')
    BY <1>8, <2>1, <2>3 DEF Fits
  <2>6. Joins(u) => Yields(t)
    BY <1>7, <2>1 DEF Yields, BranchesHaveValues
  <2>7. ASSUME NEW held, NEW g, Raised(s, held, h, i, d[1], r, g)
        PROVE  InnermostFit(new, n, d, r, g, constants')
    <3>1. s.len \in DOMAIN r.ins /\ r.ins[s.len] = i /\ g[s.len] = h[s.len]
      BY <2>7 DEF Raised, Ends
    <3>2. s.len \in JumpsIn(r)
      BY <1>6, <3>1 DEF JumpsIn
    <3>3. After(r.ins[s.len], g[s.len]) = d[2]
      BY <2>1, <2>2, <2>3, <3>1
    <3> HIDE DEF r
    <3>4. SeenIn(u, r, g, d[2], d[3])
      BY <1>8, <1>11, <3>2, <3>3 DEF SeenIn
    <3>5. QED
      BY <1>11, <2>3, <2>4, <2>5, <2>6, <3>4, TwoInnermost
  <2>8. Len(new) = 2
    OBVIOUS
  <2> HIDE DEF new, r
  <2>9. d[Len(new) + 1] = b[2]
    BY <2>2, <2>8
  <2>10. QED
    BY <1>14, <2>3, <2>7, <2>9 DEF EmissionFits, r
<1>16. ~Holder(c) /\ ~Yields(c)
  BY <1>2 DEF Holder, Yields
<1> HIDE DEF r, new
<1>17. Yielding(c, new, r)
  BY <1>16 DEF Yielding
<1>18. QED
  BY <1>3, <1>6, <1>9, <1>10, <1>12, <1>15, <1>16, <1>17, EmissionGoesOn DEF r
(* The value of the consequence stays, and the alternative begins with     *)
(* what was there before it.                                               *)
LEMMA AlternativeTasks ==
  ASSUME NEW node \in Nodes, node.kind = "IfExpression", BranchesHaveValues(node),
         NEW t, t = IF node.alternative = NoBlock THEN EmitTask("OpNull", <<>>)
                    ELSE CompileTask(node.alternative),
         NEW u, u.do = "ifEnd", u.node = node,
         NEW n, NEW pool, NEW h \in Nat
  PROVE  /\ ~Holder(t) /\ t.do # "leave" /\ (Joins(u) => Yields(t))
         /\ \E j \in Nat : Fits(t, n, h, j, pool) /\ Fits(u, n, j, h + 1, pool)
<1>1. CASE node.alternative = NoBlock
  <2> DEFINE i == Make("OpNull", <<>>)
  <2>1. t = EmitTask("OpNull", <<>>)
    BY <1>1
  <2>2. i.op = "OpNull"
    BY MadeWith
  <2> HIDE DEF i
  <2>3. Pops(i) = 0 /\ Pushes(i) = 1 /\ Plainly(i.op)
    BY <2>2, Takes DEF Loads, Plainly, OfLocal, Returns
  <2>4. Leads(i, n, pool)
    BY <2>3, PlainLeads
  <2>5. h >= Pops(i) /\ h + 1 = After(i, h)
    BY <2>3 DEF After
  <2>6. Fits(t, n, h, h + 1, pool) /\ ~Holder(t) /\ t.do # "leave"
    BY <2>1, <2>4, <2>5, EmitFits DEF i
  <2>7. Fits(u, n, h + 1, h + 1, pool)
    <3>1. h + 1 = (h + 1) + 0
      OBVIOUS
    <3>2. QED
      BY <1>1, <3>1 DEF Fits
  <2>8. ~Joins(u)
    BY <1>1 DEF Joins
  <2>9. h + 1 \in Nat
    OBVIOUS
  <2>10. QED
    BY <2>6, <2>7, <2>8, <2>9
<1>2. CASE node.alternative # NoBlock
  <2>1. t = CompileTask(node.alternative)
    BY <1>2
  <2>2. node.alternative \in Blocks
    BY <1>2, NodesWellFormed DEF WellFormed
  <2>3. node.alternative.kind = "BlockStatement" /\ node.alternative \notin Expressions
    BY <2>2, NodesWellFormed DEF ExpressionKinds
  <2>4. h = h + 0
    OBVIOUS
  <2>5. Fits(t, n, h, h, pool) /\ ~Holder(t) /\ t.do # "leave"
    BY <2>1, <2>3, <2>4, CompileFits
  <2>6. Fits(u, n, h, h + 1, pool)
    BY <1>2 DEF Fits
  <2>7. t.do = "compile" /\ t.node = node.alternative
    BY <2>1 DEF CompileTask
  <2>8. Yields(t)
    BY <1>2, <2>3, <2>7 DEF Yields, BranchesHaveValues
  <2>9. QED
    BY <2>5, <2>6, <2>8
<1>3. QED
  BY <1>1, <1>2
JumpedOver(s, held, h, pos, at, b, l, pool, r, g) ==
  /\ Levelled(r, (held \ {pos}) \union {at}, g, TRUE)
  /\ g[r.len] = b
  /\ Saw(s, h, r, g)
  /\ at \in JumpsIn(r) /\ After(r.ins[at], g[at]) = b + 1
  /\ Tied(r, l, pool)
  /\ ~LastYields(r)

(* The alternative begins where the jump over the consequence leads.       *)
LEMMA AlternativeScope ==
  ASSUME NEW s, ScopeOK(s), LastYields(s), NEW held, NEW h, Levelled(s, held, h, FALSE),
         NEW b \in Nat, h[s.len] = b,
         NEW pos \in JumpsIn(s), After(s.ins[pos], h[pos]) = b,
         NEW l, NEW pool, Tied(s, l, pool),
         NEW k, k = KeepValue(s),
         NEW j, j = Emit(k, Make("OpJump", <<Magic>>)),
         NEW r, r = ChangeOperand(j, pos, j.len)
  PROVE  \E g : JumpedOver(s, held, h, pos, k.len, b, l, pool, r, g)
<1> DEFINE i == Make("OpJump", <<Magic>>)
<1>1. IsInstruction(i) /\ i.op = "OpJump" /\ i.op \in Jumps /\ i.op # "OpPop"
  BY JumpMade DEF Jumps
<1>2. Pops(i) = 0 /\ Pushes(i) = 0 /\ Plainly(i.op) /\ ~FallsThrough(i.op)
  BY <1>1, Takes DEF Plainly, OfLocal, Returns, FallsThrough
<1> HIDE DEF i
<1>3. Trimmed(s, k)
  BY Kept
<1>4. PICK f : KeptSo(s, held, h, k, f)
  BY KeptHeights
<1>5. /\ Levelled(k, held, f, TRUE) /\ f[k.len] = b + 1 /\ Saw(s, h, k, f)
  BY <1>4 DEF KeptSo
<1>6. ScopeOK(k)
  BY <1>3 DEF Trimmed
<1> DEFINE more == held \union {k.len}
<1>7. PICK g : Raised(k, more, f, i, b, j, g)
  <2>1. f[k.len] >= Pops(i)
    BY <1>2, <1>5
  <2>2. \E g : Raised(k, more, f, i, b, Emit(k, i), g)
    <3>1. held \subseteq more /\ k.len \in more
      OBVIOUS
    <3> HIDE DEF more
    <3>2. QED
      BY <1>1, <1>2, <1>5, <1>6, <2>1, <3>1, EmittedHeights
  <2>3. QED
    BY <2>2 DEF i
<1>8. Grown(k, i, j)
  BY <1>1, <1>6, Emitted DEF i
<1>9. /\ Levelled(j, more, g, FALSE) /\ g[j.len] = b /\ g[k.len] = b + 1
      /\ k.len \in DOMAIN j.ins /\ j.ins[k.len] = i /\ Saw(k, f, j, g)
  <2>1. k.len \in Ends(k)
    BY DEF Ends
  <2>2. QED
    BY <1>5, <1>7, <2>1 DEF Raised
<1>10. Saw(s, h, j, g)
  BY <1>5, <1>9, SawFollows
<1>11. pos \in JumpsIn(j) /\ g[j.len] = After(j.ins[pos], g[pos])
  BY <1>9, <1>10 DEF Saw
<1>12. ScopeOK(j) /\ j.last.op = "OpJump" /\ j.len \in Nat
  BY <1>1, <1>8 DEF Grown, ScopeOK, CodeOK
<1>13. Patched(j, pos, j.len, r)
  BY <1>11, <1>12, ChangedJump
<1>14. Levelled(r, more \ {pos}, g, TRUE) /\ Saw(j, g, r, g)
  <2> HIDE DEF more
  <2>1. QED
    BY <1>9, <1>11, <1>12, ChangedHeights
<1>15. Levelled(r, (held \ {pos}) \union {k.len}, g, TRUE)
  <2> DEFINE less == more \ {pos}
             wider == (held \ {pos}) \union {k.len}
  <2>1. less \subseteq wider
    OBVIOUS
  <2>2. Levelled(r, less, g, TRUE)
    BY <1>14
  <2> HIDE DEF less, wider
  <2>3. Levelled(r, wider, g, TRUE)
    BY <2>1, <2>2, LevelledStill
  <2>4. QED
    BY <2>3 DEF wider
<1>16. r.len = j.len /\ r.last = j.last /\ JumpsIn(r) = JumpsIn(j)
       /\ \A p \in DOMAIN j.ins : p # pos => r.ins[p] = j.ins[p]
  BY <1>13 DEF Patched
<1>17. Saw(s, h, r, g)
  BY <1>10, <1>14, SawFollows
<1>18. k.len \in JumpsIn(j) /\ k.len # pos
  <2>1. k.len \in JumpsIn(j)
    BY <1>1, <1>9 DEF JumpsIn
  <2>2. pos \in DOMAIN k.ins
    BY <1>3 DEF Trimmed, JumpsIn
  <2>3. k.len \notin DOMAIN k.ins
    BY <1>8 DEF Grown
  <2>4. QED
    BY <2>1, <2>2, <2>3
<1>19. r.ins[k.len] = i /\ k.len \in JumpsIn(r)
  BY <1>9, <1>16, <1>18
<1>20. After(r.ins[k.len], g[k.len]) = b + 1
  BY <1>2, <1>9, <1>19 DEF After
<1>21. Tied(r, l, pool)
  <2>1. Tied(k, l, pool)
    BY <1>3, TiedStill
  <2>2. Leads(i, l, pool)
    BY <1>2, PlainLeads
  <2>3. Tied(j, l, pool)
    BY <1>8, <2>1, <2>2, TiedStill
  <2>4. QED
    BY <1>11, <1>13, <2>3, TiedStill
<1>22. ~LastYields(r)
  BY <1>12, <1>16 DEF LastYields
<1>23. g[r.len] = b
  BY <1>9, <1>16
<1>24. JumpedOver(s, held, h, pos, k.len, b, l, pool, r, g)
  BY <1>15, <1>17, <1>19, <1>20, <1>21, <1>22, <1>23 DEF JumpedOver
<1>25. QED
  BY <1>24
(* What the innermost scope is before a jump in it is patched. *)
LEMMA BeforePatch ==
  ASSUME NEW levels, NEW b, NEW h, Stands(levels, b, h), todo # <<>>, Joins(todo[1]),
         Holder(todo[1])
  PROVE  LastYields(Innermost) /\ Levelled(Innermost, HoldsAt(todo, levels, Len(scopes)), h, FALSE)
<1>1. LastYields(Innermost)
  BY DEF Stands
<1>2. ~Uses(todo[1])
  BY DEF Uses, Consumes, CompilesExpression, Holder
<1>3. ~MayJoin(todo, Innermost)
  BY <1>1, <1>2 DEF MayJoin
<1> DEFINE joins == MayJoin(todo, Innermost)
<1>4. joins => FALSE
  BY <1>3
<1>5. Levelled(Innermost, HoldsAt(todo, levels, Len(scopes)), h, joins)
  BY DEF Stands
<1> HIDE DEF joins
<1>6. QED
  BY <1>1, <1>4, <1>5 DEF Levelled

(* The jump over the alternative has the consequence's value.              *)
LEMMA AlternativeHeights ==
  ASSUME Balancing, JumpOverAlternative PROVE StackInv'
<1> DEFINE c   == todo[1]
           s   == Innermost
           pos == c.jumpNotTruthyPos
           k   == KeepValue(s)
           j   == Emit(k, Make("OpJump", <<Magic>>))
           r   == ChangeOperand(j, pos, j.len)
           t   == IF c.node.alternative = NoBlock THEN EmitTask("OpNull", <<>>)
                  ELSE CompileTask(c.node.alternative)
           u   == [do |-> "ifEnd", node |-> c.node, jumpPos |-> k.len]
           n   == Len(scopes)
           new == <<t, u>>
<1>1. Resuming("ifElse") /\ constants' = constants /\ status' = status
  BY DEF JumpOverAlternative
<1>2. Task = c /\ c.do = "ifElse" /\ Working /\ todo # <<>>
  BY <1>1, StepFacts DEF Resuming, Balancing
<1>3. scopes' = InScope(r) /\ Then(new)
  BY <1>2 DEF JumpOverAlternative
<1>4. pos \in JumpsIn(s) /\ ScopeOK(s) /\ Holder(c) /\ HeldBy(c) = pos /\ HoldsOf(c) = {pos}
      /\ Joins(c) /\ ~Yields(c)
  BY <1>2, HolderHolds DEF Holder, HeldBy, HoldsOf, Joins, Yields
<1>5. c.node \in Nodes /\ c.node.kind = "IfExpression"
  BY <1>2, WorkingFacts, TaskFacts
<1>6. u.do = "ifEnd" /\ u.node = c.node /\ u.jumpPos = k.len
  OBVIOUS
<1>7. AtWork(new)
  BY <1>1, <1>3, FewItems DEF Balancing, AtWork, Resuming
<1>8. PoolGrown(constants, constants') /\ PoolGood(constants')
  BY <1>1, <1>7, SameConstants
<1>9. Holder(u) /\ HeldBy(u) = k.len /\ u.do # "leave"
  BY <1>6 DEF Holder, HeldBy
<1>10. t = IF c.node.alternative = NoBlock THEN EmitTask("OpNull", <<>>)
           ELSE CompileTask(c.node.alternative)
  OBVIOUS
<1> HIDE DEF t, u
<1>11. Len(new) = 2
  OBVIOUS
<1>12. ASSUME NEW levels, NEW b, NEW h, Stands(levels, b, h)
       PROVE  \E d, g : Turns(new, levels, b, h, d, r, g)
  <2>1. /\ b[1] \in Nat /\ b[2] \in Nat /\ b[2] = b[1] + 1
        /\ BranchesHaveValues(c.node) /\ h[s.len] = b[1]
        /\ After(s.ins[pos], h[pos]) = b[1]
        /\ Tied(s, n, constants')
    BY <1>1, <1>2, <1>4, <1>12 DEF Stands, Fits, SeenIn
  <2> DEFINE held == HoldsAt(todo, levels, n)
  <2>2. LastYields(s) /\ Levelled(s, held, h, FALSE)
    BY <1>2, <1>4, <1>12, BeforePatch
  <2>3. \E g : JumpedOver(s, held, h, pos, k.len, b[1], n, constants', r, g)
    <3> DEFINE e == b[1]
               at == k.len
               pool == constants'
    <3>1. e \in Nat /\ h[s.len] = e /\ After(s.ins[pos], h[pos]) = e /\ Tied(s, n, pool)
      BY <2>1
    <3> HIDE DEF held, e, n, pool, pos, s
    <3>2. \E g : JumpedOver(s, held, h, pos, at, e, n, pool, r, g)
      BY <1>4, <2>2, <3>1, AlternativeScope
    <3>3. QED
      BY <3>2 DEF e, pool
  <2>4. PICK g : JumpedOver(s, held, h, pos, k.len, b[1], n, constants', r, g)
    BY <2>3
  <2>5. /\ ~Holder(t) /\ t.do # "leave" /\ (Joins(u) => Yields(t))
        /\ \E x \in Nat : Fits(t, n, b[1], x, constants') /\ Fits(u, n, x, b[1] + 1, constants')
    <3> DEFINE node == c.node
               e == b[1]
               pool == constants'
    <3>1. node \in Nodes /\ node.kind = "IfExpression" /\ BranchesHaveValues(node)
          /\ u.do = "ifEnd" /\ u.node = node /\ e \in Nat
          /\ t = IF node.alternative = NoBlock THEN EmitTask("OpNull", <<>>)
                 ELSE CompileTask(node.alternative)
      BY <1>5, <1>6, <1>10, <2>1
    <3> HIDE DEF node, e, pool, n
    <3>2. /\ ~Holder(t) /\ t.do # "leave" /\ (Joins(u) => Yields(t))
          /\ \E x \in Nat : Fits(t, n, e, x, pool) /\ Fits(u, n, x, e + 1, pool)
      BY <3>1, AlternativeTasks
    <3>3. QED
      BY <3>2 DEF e, pool
  <2>6. PICK x \in Nat : Fits(t, n, b[1], x, constants') /\ Fits(u, n, x, b[1] + 1, constants')
    BY <2>5
  <2> DEFINE d == [q \in 1 .. 3 |-> IF q = 1 THEN b[1] ELSE IF q = 2 THEN x ELSE b[1] + 1]
  <2>7. d[1] = b[1] /\ d[2] = x /\ d[3] = b[1] + 1
    OBVIOUS
  <2> HIDE DEF d
  <2>8. SeenIn(u, r, g, d[2], d[3])
    <3>1. k.len \in JumpsIn(r) /\ After(r.ins[k.len], g[k.len]) = b[1] + 1
      BY <2>4 DEF JumpedOver
    <3>2. u.do # "ifElse"
      BY <1>6
    <3> HIDE DEF r, k
    <3>3. QED
      BY <1>9, <2>7, <3>1, <3>2 DEF SeenIn
  <2>9. InnermostFit(new, n, d, r, g, constants')
    BY <1>9, <2>1, <2>5, <2>6, <2>7, <2>8, TwoInnermost
  <2>10. Holds(new) = {k.len}
    <3>1. Len(scopes) \in Nat \ {0} /\ c.do # "leave"
      BY <1>2, WorkingFacts
    <3>2. Holds(new) = HoldsOf(t) \union HoldsOf(u)
      BY <3>1, FewTasks
    <3>3. QED
      BY <1>9, <2>5, <3>2 DEF HoldsOf
  <2> HIDE DEF new, r, k, held
  <2>11. InnermostRight(todo, levels, new, n, d, r, g, constants')
    <3>1. /\ Levelled(r, (held \ {pos}) \union {k.len}, g, TRUE) /\ g[r.len] = b[1]
          /\ Tied(r, n, constants') /\ ~LastYields(r)
      BY <2>4 DEF JumpedOver
    <3>2. MayJoin(new \o Tail(todo), r) = TRUE
      BY <3>1 DEF MayJoin
    <3>3. Levelled(r, (held \ HoldsOf(c)) \union Holds(new), g, MayJoin(new \o Tail(todo), r))
      BY <1>4, <2>10, <3>1, <3>2
    <3>4. QED
      BY <2>7, <3>1, <3>3 DEF InnermostRight, held
  <2>12. Saw(s, h, r, g)
    BY <2>4 DEF JumpedOver
  <2>13. d[Len(new) + 1] = b[2]
    BY <1>11, <2>1, <2>7
  <2>14. Yielding(c, new, r)
    BY <1>4 DEF Yielding
  <2>15. Turns(new, levels, b, h, d, r, g)
    BY <2>9, <2>11, <2>12, <2>13, <2>14 DEF Turns
  <2>16. QED
    BY <2>15
<1>13. InnermostGoes(new, r)
  BY <1>12 DEF InnermostGoes
<1> HIDE DEF new, r
<1>14. QED
  BY <1>3, <1>7, <1>8, <1>13, InnermostGoesOn
(* Both ways through an if meet at its end, at the same height.            *)
Met(s, held, h, pos, b, l, pool, r, g) ==
  /\ Levelled(r, held \ {pos}, g, TRUE)
  /\ g[r.len] = b
  /\ Saw(s, h, r, g)
  /\ Tied(r, l, pool)

(* The last value of the alternative stays, or OpNull is there.            *)
LEMMA EndScope ==
  ASSUME NEW s, ScopeOK(s), NEW held, NEW h, NEW joins, Levelled(s, held, h, joins),
         NEW b \in Nat, NEW pos \in JumpsIn(s), After(s.ins[pos], h[pos]) = b,
         NEW l, NEW pool, Tied(s, l, pool),
         NEW k, \/ k = s /\ h[s.len] = b
                \/ k = KeepValue(s) /\ LastYields(s) /\ Levelled(s, held, h, FALSE) /\ h[s.len] + 1 = b,
         NEW r, r = ChangeOperand(k, pos, k.len)
  PROVE  \E g : Met(s, held, h, pos, b, l, pool, r, g)
<1>1. \E f, may : /\ Levelled(k, held, f, may) /\ f[k.len] = b /\ Saw(s, h, k, f)
                  /\ ScopeOK(k) /\ Tied(k, l, pool)
  <2>1. CASE k = s /\ h[s.len] = b
    <3>1. Saw(s, h, k, h)
      BY <2>1 DEF Saw
    <3>2. QED
      BY <2>1, <3>1
  <2>2. CASE k = KeepValue(s) /\ LastYields(s) /\ Levelled(s, held, h, FALSE) /\ h[s.len] + 1 = b
    <3>1. PICK f : KeptSo(s, held, h, k, f)
      BY <2>2, KeptHeights
    <3>2. Levelled(k, held, f, TRUE) /\ f[k.len] = b /\ Saw(s, h, k, f)
      BY <2>2, <3>1 DEF KeptSo
    <3>3. Trimmed(s, k)
      BY <2>2, Kept
    <3>4. ScopeOK(k) /\ Tied(k, l, pool)
      BY <3>3, TiedStill DEF Trimmed
    <3>5. QED
      BY <3>2, <3>4
  <2>3. QED
    BY <2>1, <2>2
<1>2. PICK f, may : /\ Levelled(k, held, f, may) /\ f[k.len] = b /\ Saw(s, h, k, f)
                    /\ ScopeOK(k) /\ Tied(k, l, pool)
  BY <1>1
<1>3. pos \in JumpsIn(k) /\ f[k.len] = After(k.ins[pos], f[pos])
  BY <1>2 DEF Saw
<1>4. Levelled(r, held \ {pos}, f, TRUE) /\ Saw(k, f, r, f)
  BY <1>2, <1>3, ChangedHeights
<1>5. k.len \in Nat
  BY <1>2 DEF ScopeOK, CodeOK
<1>6. Patched(k, pos, k.len, r)
  BY <1>2, <1>3, <1>5, ChangedJump
<1>7. Tied(r, l, pool)
  BY <1>2, <1>3, <1>6, TiedStill
<1>8. f[r.len] = b
  BY <1>2, <1>6 DEF Patched
<1>9. Saw(s, h, r, f)
  BY <1>2, <1>4, SawFollows
<1>10. QED
  BY <1>4, <1>7, <1>8, <1>9 DEF Met

(* The if has its value, whichever way it took.                            *)
LEMMA EndIfHeights ==
  ASSUME Balancing, EndIf PROVE StackInv'
<1> DEFINE c   == todo[1]
           s   == Innermost
           pos == c.jumpPos
           k   == IF c.node.alternative = NoBlock THEN s ELSE KeepValue(s)
           r   == ChangeOperand(k, pos, k.len)
           n   == Len(scopes)
<1>1. Resuming("ifEnd") /\ constants' = constants /\ status' = status /\ Then(<<>>)
  BY DEF EndIf
<1>2. Task = c /\ c.do = "ifEnd" /\ Working /\ todo # <<>>
  BY <1>1, StepFacts DEF Resuming, Balancing
<1>3. scopes' = InScope(r)
  BY <1>2 DEF EndIf
<1>4. pos \in JumpsIn(s) /\ ScopeOK(s) /\ Holder(c) /\ HeldBy(c) = pos /\ HoldsOf(c) = {pos}
      /\ ~Yields(c)
  BY <1>2, HolderHolds DEF Holder, HeldBy, HoldsOf, Yields
<1>5. AtWork(<<>>)
  BY <1>1, <1>2, FewItems DEF Balancing, AtWork, Resuming
<1>6. PoolGrown(constants, constants') /\ PoolGood(constants')
  BY <1>1, <1>5, SameConstants
<1>7. <<>> \o Tail(todo) # <<>> /\ Uses((<<>> \o Tail(todo))[1])
  <2>1. PICK levels : Good(todo, levels, scopes)
    BY <1>2 DEF Working, CodeInv
  <2>2. 2 \in DOMAIN todo /\ Follows(c, todo[2])
    BY <1>2, <1>4, <2>1, HolderFacts
  <2>3. Uses(todo[2])
    BY <1>2, <2>2 DEF Follows, Waits, Uses
  <2>4. IsList(todo) /\ IsList(<<>>)
    BY <1>5, AtWorkFacts, FewItems
  <2>5. <<>> \o Tail(todo) = Tail(todo) /\ Tail(todo) # <<>> /\ Tail(todo)[1] = todo[2]
    BY <1>2, <2>2, <2>4, FirstTask
  <2>6. QED
    BY <2>3, <2>5
<1>8. Holds(<<>>) = {}
  <2>1. Len(scopes) \in Nat \ {0} /\ c.do # "leave"
    BY <1>2, WorkingFacts
  <2>2. QED
    BY <2>1, FewTasks
<1>9. ASSUME NEW levels, NEW b, NEW h, Stands(levels, b, h)
       PROVE  \E d, g : Turns(<<>>, levels, b, h, d, r, g)
  <2>1. /\ b[1] \in Nat /\ b[2] \in Nat
        /\ b[2] = b[1] + (IF c.node.alternative = NoBlock THEN 0 ELSE 1)
        /\ h[s.len] = b[1]
        /\ After(s.ins[pos], h[pos]) = b[2]
        /\ Tied(s, n, constants')
    BY <1>1, <1>2, <1>4, <1>9 DEF Stands, Fits, SeenIn
  <2> DEFINE held == HoldsAt(todo, levels, n)
             joins == MayJoin(todo, s)
  <2>2. Levelled(s, held, h, joins)
    BY <1>9 DEF Stands
  <2>3. \/ k = s /\ h[s.len] = b[2]
        \/ k = KeepValue(s) /\ LastYields(s) /\ Levelled(s, held, h, FALSE) /\ h[s.len] + 1 = b[2]
    <3>1. CASE c.node.alternative = NoBlock
      <4>1. k = s
        BY <3>1
      <4>2. b[2] = b[1] + 0
        BY <2>1, <3>1
      <4>3. h[s.len] = b[2]
        BY <2>1, <4>2
      <4>4. QED
        BY <4>1, <4>3
    <3>2. CASE c.node.alternative # NoBlock
      <4>1. Joins(c)
        BY <1>2, <3>2 DEF Joins
      <4>2. LastYields(s) /\ Levelled(s, held, h, FALSE)
        BY <1>2, <1>4, <1>9, <4>1, BeforePatch
      <4>3. h[s.len] + 1 = b[2]
        BY <2>1, <3>2
      <4>4. QED
        BY <3>2, <4>2, <4>3
    <3>3. QED
      BY <3>1, <3>2
  <2>4. \E g : Met(s, held, h, pos, b[2], n, constants', r, g)
    <3> DEFINE e == b[2]
               pool == constants'
    <3>1. /\ e \in Nat /\ After(s.ins[pos], h[pos]) = e /\ Tied(s, n, pool)
          /\ \/ k = s /\ h[s.len] = e
             \/ k = KeepValue(s) /\ LastYields(s) /\ Levelled(s, held, h, FALSE) /\ h[s.len] + 1 = e
      BY <2>1, <2>3
    <3> HIDE DEF held, e, n, pool, pos, s, joins, k
    <3>2. \E g : Met(s, held, h, pos, e, n, pool, r, g)
      BY <1>4, <2>2, <3>1, EndScope
    <3>3. QED
      BY <3>2 DEF e, pool
  <2>5. PICK g : Met(s, held, h, pos, b[2], n, constants', r, g)
    BY <2>4
  <2> DEFINE d == [q \in {1} |-> b[2]]
  <2>6. d[1] = b[2] /\ d[Len(<<>>) + 1] = b[2]
    OBVIOUS
  <2> HIDE DEF d, r, held
  <2>7. InnermostFit(<<>>, n, d, r, g, constants')
    BY FewItems DEF InnermostFit
  <2>8. InnermostRight(todo, levels, <<>>, n, d, r, g, constants')
    <3>1. Levelled(r, held \ {pos}, g, TRUE) /\ g[r.len] = b[2] /\ Tied(r, n, constants')
      BY <2>5 DEF Met
    <3>2. MayJoin(<<>> \o Tail(todo), r) = TRUE
      BY <1>7 DEF MayJoin
    <3>3. (held \ HoldsOf(c)) \union Holds(<<>>) = held \ {pos}
      BY <1>4, <1>8
    <3>4. Levelled(r, (held \ HoldsOf(c)) \union Holds(<<>>), g, MayJoin(<<>> \o Tail(todo), r))
      BY <3>1, <3>2, <3>3
    <3>5. QED
      BY <2>6, <3>1, <3>4 DEF InnermostRight, held
  <2>9. Saw(s, h, r, g)
    BY <2>5 DEF Met
  <2>10. Yielding(c, <<>>, r)
    BY <1>4 DEF Yielding
  <2>11. Turns(<<>>, levels, b, h, d, r, g)
    BY <2>6, <2>7, <2>8, <2>9, <2>10 DEF Turns
  <2>12. QED
    BY <2>11
<1>10. InnermostGoes(<<>>, r)
  BY <1>9 DEF InnermostGoes
<1> HIDE DEF r
<1>11. QED
  BY <1>3, <1>5, <1>6, <1>10, InnermostGoesOn
--------------------------------------------------------------------------------
(***************************************************************************)
(* The handlers that enter and leave a scope.                              *)
(***************************************************************************)

(* A function's code begins with nothing on the stack, and its parameters  *)
(* and its body leave nothing there.                                       *)
LEMMA EnteredFits ==
  ASSUME NEW new, NEW p, NEW body, NEW leave, AreTasks(new, p, body, leave),
         body.do = "compile", body.node \in Blocks, leave.do = "leave",
         NEW m, m > 1, NEW e \in Nat, NEW zs, NEW gs, gs[m - 1][zs[m - 1].len] = e, NEW pool
  PROVE  \E d : d[1] = 0 /\ d[Len(new) + 1] = e + 1 /\ NewFit(new, m, d, zs, gs, pool)
<1> DEFINE K == Len(p)
           d == [i \in 1 .. K + 3 |-> IF i = K + 3 THEN e + 1 ELSE 0]
<1>1. /\ K \in Nat /\ Len(new) = K + 2
      /\ \A i \in 1 .. K : new[i].do = "parameter"
      /\ new[K + 1] = body /\ new[K + 2] = leave
  BY DEF AreTasks
<1> HIDE DEF K
<1>2. /\ \A i \in 1 .. Len(new) : d[i] = 0
      /\ \A i \in 1 .. Len(new) : i < Len(new) => d[i + 1] = 0 /\ i + 1 \in 1 .. Len(new)
      /\ d[1] = 0 /\ d[Len(new) + 1] = e + 1
      /\ \A i \in 1 .. Len(new) : i \in 1 .. K \/ i = K + 1 \/ i = K + 2
      /\ \A i \in 1 .. Len(new) : i < Len(new) => i # K + 2
      /\ K + 2 \in 1 .. Len(new) /\ K + 1 \in 1 .. Len(new) /\ K + 1 < Len(new)
      /\ \A i \in 1 .. K : i \in 1 .. Len(new) /\ i < Len(new)
      /\ 1 \in 1 .. Len(new)
  BY <1>1
<1> HIDE DEF d
<1>3. \A i \in 1 .. Len(new) : new[i].do \in {"parameter", "compile", "leave"}
  BY <1>1, <1>2
<1>4. \A i \in 1 .. Len(new) : ~Holder(new[i]) /\ ~Joins(new[i])
  BY <1>3 DEF Holder, Joins
<1>5. \A i \in 1 .. Len(new) : i < Len(new) => new[i].do # "leave"
  BY <1>1, <1>2
<1>6. ASSUME NEW i \in 1 .. Len(new)
      PROVE  Fits(new[i], m, d[i], d[i + 1], pool) /\ Seen(new[i], m, d[i], d[i + 1], zs, gs)
  <2> DEFINE t == new[i]
             x == d[i]
             y == d[i + 1]
  <2>1. ~Holder(t)
    BY <1>4
  <2>2. CASE i \in 1 .. K
    <3>1. t.do = "parameter" /\ x = y
      BY <1>1, <1>2, <2>2
    <3> HIDE DEF t, x, y
    <3>2. Fits(t, m, x, y, pool) /\ Seen(t, m, x, y, zs, gs)
      BY <2>1, <3>1 DEF Fits, Seen
    <3>3. QED
      BY <3>2 DEF t, x, y
  <2>3. CASE i = K + 1
    <3>1. t.do = "compile" /\ t.node \in Blocks /\ x = 0 /\ y = 0
      BY <1>1, <1>2, <2>3
    <3> HIDE DEF t, x, y
    <3>2. t.node \notin Expressions
      BY <3>1, NodesWellFormed DEF ExpressionKinds
    <3>3. y = x + (IF t.node \in Expressions THEN 1 ELSE 0)
      BY <3>1, <3>2
    <3>4. Fits(t, m, x, y, pool) /\ Seen(t, m, x, y, zs, gs)
      BY <2>1, <3>1, <3>3 DEF Fits, Seen
    <3>5. QED
      BY <3>4 DEF t, x, y
  <2>4. CASE i = K + 2
    <3>1. t.do = "leave" /\ y = e + 1
      BY <1>1, <1>2, <2>4
    <3> HIDE DEF t, x, y
    <3>2. y >= 1 /\ y - 1 = e
      BY <3>1
    <3>3. Fits(t, m, x, y, pool) /\ Seen(t, m, x, y, zs, gs)
      BY <2>1, <3>1, <3>2 DEF Fits, Seen
    <3>4. QED
      BY <3>3 DEF t, x, y
  <2>5. QED
    BY <1>2, <2>2, <2>3, <2>4
<1>7. \A i \in 1 .. Len(new) : i < Len(new) => ~Joins(new[i + 1])
  BY <1>2, <1>4
<1>8. NewFit(new, m, d, zs, gs, pool)
  BY <1>2, <1>4, <1>5, <1>6, <1>7 DEF NewFit
<1>9. QED
  BY <1>2, <1>8

(* No code, no heights but that of the end. *)
LEMMA NewLevelled ==
  ASSUME NEW held, NEW joins, NEW l, NEW pool
  PROVE  LET s == NewCompilationScope
             h == [p \in {0} |-> 0]
         IN  Levelled(s, held, h, joins) /\ Tied(s, l, pool) /\ h[s.len] = 0
<1> DEFINE s == NewCompilationScope
           h == [p \in {0} |-> 0]
<1>1. s.len = 0 /\ DOMAIN s.ins = {}
  BY DEF NewCompilationScope
<1>2. h[0] = 0
  OBVIOUS
<1> HIDE DEF s, h
<1>3. Ends(s) = {0} /\ JumpsIn(s) = {}
  BY <1>1 DEF Ends, JumpsIn
<1>4. Levelled(s, held, h, joins) /\ Tied(s, l, pool) /\ h[s.len] = 0
  BY <1>1, <1>2, <1>3 DEF Levelled, Tied
<1>5. QED
  BY <1>4 DEF s, h

(* The new scope is empty, and what is around it waits.                    *)
LEMMA FunctionHeights ==
  ASSUME Balancing, CompileFunction PROVE StackInv'
<1> DEFINE c == todo[1]
           p == c.node.parameters
           body == CompileTask(c.node.body)
           leave == [do |-> "leave", numParameters |-> Len(p)]
           new == ParametersThen(p, body, leave)
           n == Len(scopes)
           N == Len(scopes')
           empty == [q \in {0} |-> 0]
<1>1. /\ Compiling({"FunctionLiteral"}) /\ scopes' = Append(scopes, NewCompilationScope)
      /\ constants' = constants /\ status' = status
  BY DEF CompileFunction
<1>2. Working
  BY <1>1, StepFacts DEF Compiling, Balancing
<1>3. /\ Task = c /\ c.do = "compile" /\ c.node \in Nodes
      /\ c.node.kind = "FunctionLiteral" /\ ~Holder(c)
      /\ WellFormed(c.node, Expressions, Statements, Blocks)
  BY <1>1, <1>2, CompilingFacts
<1>4. Then(new)
  BY <1>3 DEF CompileFunction, ParametersThen
<1>5. DOMAIN p = 1 .. Len(p) /\ Len(p) \in Nat /\ c.node.body \in Blocks /\ c.node \in Expressions
  BY <1>3, NodesWellFormed DEF WellFormed, ExpressionKinds
<1>6. body.do = "compile" /\ body.node \in Blocks /\ leave.do = "leave"
  BY <1>5 DEF CompileTask
<1>7. AreTasks(new, p, body, leave)
  <2> HIDE DEF body, leave, p
  <2>1. QED
    BY <1>5, FunctionTasks
<1>8. IsList(new)
  BY <1>7 DEF AreTasks
<1> HIDE DEF new, p, body, leave
<1>9. AtWork(new)
  BY <1>1, <1>4, <1>8 DEF Balancing, AtWork, Compiling
<1>10. PoolGrown(constants, constants') /\ PoolGood(constants')
  BY <1>1, <1>9, SameConstants
<1>11. n \in Nat \ {0} /\ DOMAIN scopes = 1 .. n /\ IsList(scopes) /\ todo # <<>>
  BY <1>9, AtWorkFacts DEF AtWork
<1>12. /\ DOMAIN scopes' = 1 .. n + 1 /\ N = n + 1
       /\ scopes'[n + 1] = NewCompilationScope /\ \A l \in 1 .. n : scopes'[l] = scopes[l]
  BY <1>1, <1>11, ListChanges
<1> HIDE DEF n, N
<1>13. ASSUME NEW levels, NEW b, NEW hs, Plan(todo, levels, n),
              Heighted(todo, levels, b, scopes, hs, constants)
       PROVE  \E d, gs : Succeeds(todo, levels, n, b, scopes, hs, constants,
                                  new, N, d, scopes', gs, constants')
  <2>1. Stands(levels, b, hs[n])
    BY <1>9, <1>13, StandsSo DEF n
  <2>2. b[1] \in Nat /\ b[2] = b[1] + 1 /\ hs[n][scopes[n].len] = b[1]
    BY <1>3, <1>5, <2>1 DEF Stands, Fits, Innermost, n
  <2> DEFINE gs == [l \in 1 .. n + 1 |-> IF l = n + 1 THEN empty ELSE hs[l]]
  <2>3. gs[n + 1] = empty /\ \A l \in 1 .. n : gs[l] = hs[l]
    BY <1>11
  <2> HIDE DEF gs
  <2>4. N > 1 /\ N - 1 = n /\ n \in 1 .. n /\ N \in Nat \ {0}
    BY <1>11, <1>12
  <2>5. gs[N - 1][scopes'[N - 1].len] = b[1]
    BY <1>12, <2>2, <2>3, <2>4
  <2>6. \E d : d[1] = 0 /\ d[Len(new) + 1] = b[1] + 1 /\ NewFit(new, N, d, scopes', gs, constants')
    <3> DEFINE e == b[1]
               zs == scopes'
               pool == constants'
    <3>1. e \in Nat /\ gs[N - 1][zs[N - 1].len] = e
      BY <2>2, <2>5
    <3> HIDE DEF e, zs, pool
    <3>2. \E d : d[1] = 0 /\ d[Len(new) + 1] = e + 1 /\ NewFit(new, N, d, zs, gs, pool)
      BY <1>6, <1>7, <2>4, <3>1, EnteredFits
    <3>3. QED
      BY <3>2 DEF e, zs, pool
  <2>7. PICK d : d[1] = 0 /\ d[Len(new) + 1] = b[1] + 1 /\ NewFit(new, N, d, scopes', gs, constants')
    BY <2>6
  <2>8. Yielding(c, new, scopes'[N])
    BY <1>3 DEF Yielding, Yields
  <2>9. OthersStay(n, scopes, hs, N, scopes', gs)
    <3>1. \A l \in 1 .. N : l # N => l \in 1 .. n
      BY <1>11, <1>12
    <3>2. ~(N <= n)
      BY <1>11, <1>12
    <3>3. DOMAIN scopes' = 1 .. N /\ Len(scopes') = N
      BY <1>12 DEF N
    <3>4. QED
      BY <1>12, <2>3, <2>4, <3>1, <3>2, <3>3 DEF OthersStay
  <2>10. InnermostRight(todo, levels, new, N, d, scopes'[N], gs[N], constants')
    <3>1. scopes'[N] = NewCompilationScope /\ gs[N] = empty
      BY <1>12, <2>3
    <3>2. \A held, joins, l, pool :
            /\ Levelled(NewCompilationScope, held, empty, joins)
            /\ Tied(NewCompilationScope, l, pool) /\ empty[NewCompilationScope.len] = 0
      BY NewLevelled
    <3> HIDE DEF empty
    <3>3. QED
      BY <2>7, <3>1, <3>2 DEF InnermostRight
  <2>11. d[Len(new) + 1] = b[2]
    BY <2>2, <2>7
  <2>12. Succeeds(todo, levels, n, b, scopes, hs, constants, new, N, d, scopes', gs, constants')
    BY <1>3, <1>8, <1>10, <2>7, <2>8, <2>9, <2>10, <2>11 DEF Succeeds
  <2>13. QED
    BY <2>12
<1>14. Goes(new)
  BY <1>13 DEF Goes, n, N
<1>15. QED
  BY <1>9, <1>10, <1>14, GoesOn
(* What a function captures can be loaded in the scope around it.          *)
LEMMA CapturedLoadable ==
  ASSUME TablesInv, Proved!BuiltinsKnown(tables),
         NEW l \in DOMAIN tables, l - 1 \in DOMAIN tables, NEW i \in DOMAIN tables[l].free
  PROVE  Loadable(tables[l].free[i], l - 1)
<1> DEFINE s == tables[l].free[i]
           m == l - 1
<1>1. Proved!MeansIn(s, tables[m])
  BY DEF TablesInv, Proved!IInv, Proved!FreeMatchesOuter
<1>2. s \in Symbol
  BY SymbolFacts DEF Table
<1>3. s.name \in Names /\ tables[m].store[s.name] = s
  BY <1>1, <1>2 DEF Proved!MeansIn, Symbol
<1>4. Bound(tables[m], s.name)
  BY <1>2, <1>3 DEF Bound, Unbound, Symbol, Scopes, Global, Local, Builtin, Free
<1> DEFINE name == s.name
<1>5. Loadable(tables[m].store[name], m)
  <2> HIDE DEF m, name, s
  <2>1. name \in Names /\ Bound(tables[m], name) /\ m \in DOMAIN tables
    BY <1>3, <1>4 DEF m, name
  <2>2. QED
    BY <2>1, BoundLoadable
<1>6. QED
  BY <1>3, <1>5

(* The loads one after the other, each adding a value, and the closure,    *)
(* which takes them all.                                                   *)
LeavesFit(new, m, h, zs, gs, pool) ==
  /\ \E d : d[1] = h /\ d[Len(new) + 1] = h + 1 /\ NewFit(new, m, d, zs, gs, pool)
  /\ new # <<>> /\ Uses(new[1])

(* The values that the function captures are loaded around it.             *)
LEMMA LeftFits ==
  ASSUME NEW f, NEW F \in Nat, DOMAIN f = 1 .. F, NEW m, \A i \in 1 .. F : Loadable(f[i], m),
         NEW u, u.do = "closure", u.numFree = F, NEW pool, FunctionGood(u.fn, pool),
         NEW new, IsList(new), Len(new) = F + 1,
         \A i \in 1 .. F : new[i] = Load(f[i]), new[F + 1] = u,
         NEW h \in Nat, NEW zs, NEW gs
  PROVE  LeavesFit(new, m, h, zs, gs, pool)
<1> DEFINE d == [i \in 1 .. F + 2 |-> IF i = F + 2 THEN h + 1 ELSE h + (i - 1)]
<1>1. /\ \A i \in 1 .. F : /\ d[i] \in Nat /\ d[i + 1] = d[i] + 1
                           /\ i \in 1 .. Len(new) /\ i < Len(new)
      /\ d[F + 1] = h + F /\ d[F + 2] = h + 1 /\ d[1] = h /\ F + 1 \in 1 .. Len(new)
      /\ \A i \in 1 .. Len(new) : i \in 1 .. F \/ i = F + 1
      /\ Len(new) + 1 = F + 2 /\ 1 \in 1 .. Len(new) /\ (F + 1) + 1 = F + 2
      /\ \A i \in 1 .. Len(new) : i < Len(new) => i \in 1 .. F /\ i + 1 \in 1 .. Len(new)
  OBVIOUS
<1> HIDE DEF d
<1>2. ASSUME NEW i \in 1 .. F
      PROVE  /\ new[i].do = "emit" /\ ~Holder(new[i])
             /\ Fits(new[i], m, d[i], d[i + 1], pool)
  <2> DEFINE x == d[i]
             y == d[i + 1]
  <2>1. x \in Nat /\ y = x + 1
    BY <1>1
  <2> HIDE DEF x, y
  <2>2. PICK op \in Loads : /\ Load(f[i]) = EmitTask(op, <<f[i].index>>)
                            /\ Leads(Make(op, <<f[i].index>>), m, pool)
    BY LoadLeads
  <2> DEFINE operands == <<f[i].index>>
             o == Make(op, operands)
  <2>3. o.op \in Loads
    BY MadeWith
  <2>4. Pops(o) = 0 /\ Pushes(o) = 1 /\ Leads(o, m, pool)
    <3> HIDE DEF o
    <3>1. Pops(o) = 0 /\ Pushes(o) = 1
      BY <2>3, Takes
    <3>2. QED
      BY <2>2, <3>1 DEF o
  <2> HIDE DEF o
  <2>5. x >= Pops(o) /\ y = After(o, x)
    BY <2>1, <2>4 DEF After
  <2> HIDE DEF operands
  <2>6. Fits(EmitTask(op, operands), m, x, y, pool) /\ ~Holder(EmitTask(op, operands))
    BY <2>4, <2>5, EmitFits DEF o
  <2>7. new[i] = EmitTask(op, operands)
    BY <2>2 DEF operands
  <2>8. EmitTask(op, operands).do = "emit"
    BY DEF EmitTask
  <2>9. QED
    BY <2>6, <2>7, <2>8 DEF x, y
<1>3. ~Holder(u) /\ Fits(u, m, d[F + 1], d[F + 2], pool)
  <2> DEFINE x == d[F + 1]
             y == d[F + 2]
  <2>1. x >= u.numFree /\ y = x - u.numFree + 1
    BY <1>1
  <2> HIDE DEF x, y
  <2>2. Fits(u, m, x, y, pool)
    BY <2>1 DEF Fits
  <2>3. QED
    BY <2>2 DEF Holder, x, y
<1>4. ASSUME NEW i \in 1 .. Len(new)
      PROVE  /\ d[i] \in Nat /\ Fits(new[i], m, d[i], d[i + 1], pool)
             /\ ~Holder(new[i]) /\ new[i].do \in {"emit", "closure"}
  <2>1. CASE i \in 1 .. F
    BY <1>1, <1>2, <2>1
  <2>2. CASE i = F + 1
    <3>1. d[i] \in Nat
      BY <1>1, <2>2
    <3>2. QED
      BY <1>1, <1>3, <2>2, <3>1
  <2>3. QED
    BY <1>1, <2>1, <2>2
<1>5. \A i \in 1 .. Len(new) : ~Joins(new[i]) /\ new[i].do # "leave"
  BY <1>4 DEF Joins
<1>6. NewFit(new, m, d, zs, gs, pool)
  BY <1>1, <1>4, <1>5 DEF NewFit, Seen
<1>7. new # <<>> /\ Uses(new[1])
  <2>1. new[1].do \in {"emit", "closure"}
    BY <1>1, <1>4
  <2>2. Uses(new[1])
    BY <2>1 DEF Uses, Consumes
  <2>3. new # <<>>
    BY <1>1, ListFacts
  <2>4. QED
    BY <2>2, <2>3
<1>8. QED
  BY <1>1, <1>6, <1>7 DEF LeavesFit
(* A function's parameters have been counted.                              *)
LEMMA ParametersCounted ==
  ASSUME Step, status = "compiling", todo # <<>>, todo[1].do = "leave"
  PROVE  todo[1].numParameters \in Nat
<1>1. PICK levels : Good(todo, levels, scopes)
  BY DEF Step, IInv, CodeInv
<1>2. Plan(todo, levels, Len(scopes))
  BY <1>1 DEF Good
<1>3. 1 \in DOMAIN todo
  BY <1>2, FirstTask DEF Plan
<1>4. ParametersKnown(todo, levels, Len(scopes), tables)
  BY <1>2 DEF Step, ClosuresInv, TodoSound
<1>5. QED
  BY <1>3, <1>4 DEF ParametersKnown

(* The code of a function that is left.                                    *)
LEMMA ReturnTied ==
  ASSUME NEW s, ScopeOK(s), NEW n, n # 1, NEW pool, Tied(s, n, pool)
  PROVE  Tied(ReturnAtEnd(s), 2, pool)
<1> DEFINE r == ReturnAtEnd(s)
<1>1. ReturnMade(s, r)
  BY Returning DEF Ended
<1> HIDE DEF r
<1>2. \A i : Leads(i, n, pool) => Leads(i, 2, pool)
  BY DEF Leads
<1>3. \A i : i.op \in {"OpReturn", "OpReturnValue"} => Leads(i, 2, pool)
  BY DEF Leads
<1>4. ASSUME NEW p \in DOMAIN r.ins
      PROVE  Leads(r.ins[p], 2, pool)
  <2>1. CASE /\ r.len = s.len /\ DOMAIN r.ins = DOMAIN s.ins
             /\ \A q \in DOMAIN s.ins :
                  r.ins[q] = s.ins[q] \/ (s.ins[q].op = "OpPop" /\ r.ins[q].op = "OpReturnValue")
    BY <1>2, <1>3, <1>4, <2>1 DEF Tied
  <2>2. CASE r = Emit(s, Make("OpReturn", <<>>))
    <3> DEFINE i == Make("OpReturn", <<>>)
    <3>1. i.op = "OpReturn"
      BY MadeWith
    <3> HIDE DEF i
    <3>2. r.ins[p] = i \/ (p \in DOMAIN s.ins /\ r.ins[p] = s.ins[p])
      BY <1>4, <2>2 DEF Emit, i
    <3>3. QED
      BY <1>2, <1>3, <3>1, <3>2 DEF Tied
  <2>3. QED
    BY <1>1, <2>1, <2>2 DEF ReturnMade
<1>5. QED
  BY <1>4 DEF Tied, r

(* The function goes into the pool with heights of its own.                *)
LEMMA FunctionLeft ==
  ASSUME NEW s, ScopeOK(s), NEW n, n # 1, NEW pool, Tied(s, n, pool),
         NEW h, NEW joins, Levelled(s, {}, h, joins), joins => ~LastYields(s),
         NEW numLocals, NEW numParameters \in Nat
  PROVE  FunctionGood(CompiledFunction(ReturnAtEnd(s), numLocals, numParameters), pool)
<1> DEFINE r == ReturnAtEnd(s)
           fn == CompiledFunction(r, numLocals, numParameters)
<1>1. PICK g : Levelled(r, {}, g, TRUE)
  BY ReturnHeights
<1>2. Tied(r, 2, pool)
  BY ReturnTied
<1> HIDE DEF r
<1>3. fn.ins = r.ins /\ fn.len = r.len /\ fn.numParameters = numParameters
  BY DEF CompiledFunction
<1> HIDE DEF fn
<1>4. Ends(fn) = Ends(r) /\ JumpsIn(fn) = JumpsIn(r)
  BY <1>3 DEF Ends, JumpsIn
<1>5. Levelled(fn, {}, g, TRUE)
  BY <1>1, <1>3, <1>4 DEF Levelled, Meets
<1>6. Tied(fn, 2, pool)
  BY <1>2, <1>3 DEF Tied
<1>7. FunctionGood(fn, pool)
  BY <1>3, <1>5, <1>6 DEF FunctionGood
<1>8. QED
  BY <1>7 DEF fn, r

(* The scope around the function goes on from where it was.                *)
LEMMA LeaveHeights ==
  ASSUME Balancing, LeaveFunction PROVE StackInv'
<1> DEFINE n == Len(scopes)
           m == n - 1
           c == todo[1]
           s == Innermost
           free == tables[n].free
           F == Len(free)
           numLocals == tables[n].numDefinitions
           fn == CompiledFunction(ReturnAtEnd(s), numLocals, c.numParameters)
           loads == [i \in DOMAIN free |-> Load(free[i])]
           closure == [do |-> "closure", fn |-> fn, numFree |-> F]
           new == loads \o <<closure>>
           N == Len(scopes')
<1>1. /\ Resuming("leave") /\ constants' = constants /\ status' = status
      /\ scopes' = SubSeq(scopes, 1, n - 1) /\ tables' = OuterTables(tables)
  BY DEF LeaveFunction
<1>2. Working /\ Task = c /\ c.do = "leave" /\ IsList(todo) /\ todo # <<>> /\ Step
  BY <1>1, StepFacts DEF Resuming, Balancing
<1>3. /\ tables \in Seq(Table) /\ Len(tables) = n /\ n \in Nat \ {0} /\ DOMAIN tables = 1 .. n
      /\ DOMAIN scopes = 1 .. n /\ IsList(scopes) /\ TablesInv
  BY <1>2, SymbolFacts, WorkingFacts, ListFacts DEF Step, IInv, TablesInv
<1>4. Then(new)
  BY <1>2, <1>3 DEF LeaveFunction
<1>5. ASSUME NEW levels, Plan(todo, levels, n)
      PROVE  HoldsAt(todo, levels, n) = {} /\ m \in Nat \ {0}
  <2> HIDE DEF n
  <2>1. QED
    BY <1>2, <1>5, LevelsFall
<1>6. m \in Nat \ {0}
  <2>1. PICK levels : Good(todo, levels, scopes)
    BY <1>2 DEF Working, CodeInv
  <2>2. QED
    BY <1>5, <2>1 DEF Good
<1>7. /\ DOMAIN scopes' = 1 .. m /\ N = m /\ \A l \in 1 .. m : scopes'[l] = scopes[l]
  BY <1>1, <1>3, <1>6, ListChanges
<1>8. /\ n \in DOMAIN tables /\ n - 1 \in DOMAIN tables /\ m \in DOMAIN scopes
      /\ (\A l \in 1 .. m : l \in 1 .. n) /\ m \in 1 .. m /\ m < n /\ n # 1 /\ m # n
  <2> HIDE DEF n
  <2>1. /\ n \in 1 .. n /\ m \in 1 .. n /\ (\A l \in 1 .. m : l \in 1 .. n) /\ m \in 1 .. m
        /\ m < n /\ n # 1 /\ m # n
    BY <1>3, <1>6
  <2>2. QED
    BY <1>3, <2>1
<1>9. free \in Seq(Symbol) /\ F \in Nat /\ DOMAIN free = 1 .. F
  <2>1. free \in Seq(Symbol)
    BY <1>3, SymbolFacts
  <2> HIDE DEF free
  <2>2. QED
    BY <2>1
<1>10. \A i \in 1 .. F : Loadable(free[i], m)
  <2>1. Proved!BuiltinsKnown(tables)
    BY DEF Balancing
  <2> HIDE DEF n, F
  <2>2. \A i \in DOMAIN tables[n].free : Loadable(tables[n].free[i], n - 1)
    BY <1>3, <1>8, <2>1, CapturedLoadable
  <2>3. QED
    BY <1>9, <2>2
<1>11. c.numParameters \in Nat
  BY <1>1, <1>2, ParametersCounted DEF Resuming
<1>12. closure.do = "closure" /\ closure.fn = fn /\ closure.numFree = F
  OBVIOUS
<1> HIDE DEF fn, numLocals, closure, free, m
<1>13. IsList(loads) /\ Len(loads) = F /\ \A i \in 1 .. F : loads[i] = Load(free[i])
  <2> DEFINE T == {Load(symbol) : symbol \in Symbol}
  <2>1. \A i \in 1 .. F : free[i] \in Symbol
    BY <1>9
  <2>2. \A i \in 1 .. F : Load(free[i]) \in T
    BY <2>1
  <2>3. loads = [i \in 1 .. F |-> Load(free[i])]
    BY <1>9
  <2> HIDE DEF T, loads
  <2>4. loads \in Seq(T) /\ Len(loads) = F /\ \A i \in 1 .. F : loads[i] = Load(free[i])
    BY <1>9, <2>2, <2>3
  <2>5. QED
    BY <2>4, ListFacts
<1> HIDE DEF loads
<1>14. IsList(loads)
  BY <1>13
<1>15. /\ IsList(new) /\ Len(new) = Len(loads) + 1
       /\ \A i \in 1 .. Len(loads) : new[i] = loads[i]
       /\ new[Len(loads) + 1] = closure
  BY <1>14, OneMore
<1> HIDE DEF new
<1>16. /\ IsList(new) /\ Len(new) = F + 1
       /\ \A i \in 1 .. F : new[i] = Load(free[i])
       /\ new[F + 1] = closure
  BY <1>13, <1>15
<1>17. AtWork(new)
  BY <1>1, <1>4, <1>16 DEF Balancing, AtWork, Resuming
<1>18. PoolGrown(constants, constants') /\ PoolGood(constants')
  BY <1>1, <1>17, SameConstants
<1>19. ~Holder(c) /\ ~Yields(c) /\ ~Uses(c) /\ HoldsOf(c) = {}
  BY <1>2 DEF Holder, Yields, Uses, Consumes, CompilesExpression, HoldsOf
<1>20. ScopeOK(s) /\ s = scopes[n]
  BY <1>17, AtWorkFacts
<1> HIDE DEF n, N, F, s
<1>21. ASSUME NEW levels, NEW b, NEW hs, Plan(todo, levels, n),
              Heighted(todo, levels, b, scopes, hs, constants)
       PROVE  \E d, gs : Succeeds(todo, levels, n, b, scopes, hs, constants,
                                  new, N, d, scopes', gs, constants')
  <2>1. /\ 1 \in DOMAIN todo /\ levels[1] = n
    BY <1>2, <1>21, FirstTask DEF Plan
  <2>2. /\ b[2] \in Nat
        /\ Fits(c, n, b[1], b[2], constants) /\ Seen(c, n, b[1], b[2], scopes, hs)
    <3>1. IsList(todo) /\ todo # <<>>
      BY <1>2
    <3>2. 1 \in 1 .. Len(todo) + 1 /\ 2 \in 1 .. Len(todo) + 1 /\ 1 + 1 = 2
      BY <3>1, ListFacts
    <3>3. Fits(c, levels[1], b[1], b[1 + 1], constants) /\ Seen(c, levels[1], b[1], b[1 + 1], scopes, hs)
      BY <1>21, <2>1 DEF Heighted
    <3>4. \A i \in 1 .. Len(todo) + 1 : b[i] \in Nat
      BY <1>21 DEF Heighted
    <3>5. QED
      BY <2>1, <3>2, <3>3, <3>4
  <2> DEFINE h == hs[m][scopes[m].len]
  <2>3. h \in Nat /\ b[2] = h + 1
    <3>1. b[2] >= 1 /\ hs[n - 1][scopes[n - 1].len] = b[2] - 1
      BY <1>2, <2>2 DEF Fits, Seen
    <3>2. h = b[2] - 1
      BY <3>1 DEF m
    <3>3. QED
      BY <2>2, <3>1, <3>2
  <2> HIDE DEF h
  <2>4. FunctionGood(fn, constants)
    <3> DEFINE joins == MayJoin(todo, s)
               g == hs[n]
    <3>1. HoldsAt(todo, levels, n) = {}
      BY <1>5, <1>21
    <3>2. /\ n \in DOMAIN scopes /\ n = Len(scopes)
      BY <1>3 DEF n
    <3>3. Tied(scopes[n], n, constants)
          /\ Levelled(scopes[n], HoldsAt(todo, levels, n), hs[n], n = Len(scopes) => MayJoin(todo, scopes[n]))
      BY <1>21, <3>2 DEF Heighted
    <3>4. (n = Len(scopes) => MayJoin(todo, scopes[n])) = joins
      BY <1>20, <3>2 DEF MayJoin
    <3>5. Tied(s, n, constants) /\ Levelled(s, {}, g, joins)
      BY <1>20, <3>1, <3>3, <3>4
    <3>6. joins => ~LastYields(s)
      BY <1>19 DEF MayJoin
    <3> DEFINE q == c.numParameters
    <3>7. q \in Nat
      BY <1>11
    <3> HIDE DEF joins, g, q
    <3>8. FunctionGood(CompiledFunction(ReturnAtEnd(s), numLocals, q), constants)
      BY <1>8, <1>20, <3>5, <3>6, <3>7, FunctionLeft
    <3>9. QED
      BY <3>8 DEF fn, q
  <2>5. /\ \E d : d[1] = h /\ d[Len(new) + 1] = h + 1 /\ NewFit(new, m, d, scopes', hs, constants')
        /\ new # <<>> /\ Uses(new[1])
    <3> DEFINE zs == scopes'
               pool == constants'
    <3>1. FunctionGood(closure.fn, pool)
      BY <1>1, <1>12, <2>4
    <3>2. closure.do = "closure" /\ closure.numFree = F
      BY <1>12
    <3> HIDE DEF zs, pool, c
    <3>3. LeavesFit(new, m, h, zs, hs, pool)
      BY <1>9, <1>10, <1>16, <2>3, <3>1, <3>2, LeftFits
    <3>4. QED
      BY <3>3 DEF LeavesFit, zs, pool
  <2>6. PICK d : d[1] = h /\ d[Len(new) + 1] = h + 1 /\ NewFit(new, m, d, scopes', hs, constants')
    BY <2>5
  <2>7. OthersStay(n, scopes, hs, m, scopes', hs)
    <3>1. Saw(scopes[m], hs[m], scopes'[m], hs[m])
      BY <1>7, <1>8 DEF Saw
    <3>2. DOMAIN scopes' = 1 .. m /\ Len(scopes') = m
      BY <1>7 DEF N
    <3>3. QED
      BY <1>6, <1>7, <1>8, <3>1, <3>2 DEF OthersStay
  <2>8. InnermostRight(todo, levels, new, m, d, scopes'[m], hs[m], constants')
    <3> DEFINE z == scopes'[m]
               joins == MayJoin(new \o Tail(todo), z)
               held == HoldsAt(todo, levels, m)
    <3>1. z = scopes[m] /\ m # Len(scopes)
      BY <1>7, <1>8 DEF n
    <3>2. Tied(scopes[m], m, constants)
          /\ Levelled(scopes[m], held, hs[m], m = Len(scopes) => MayJoin(todo, scopes[m]))
      BY <1>8, <1>21 DEF Heighted
    <3>3. (new \o Tail(todo)) # <<>> /\ (new \o Tail(todo))[1] = new[1]
      BY <1>2, <1>16, <2>5, FirstTask
    <3>4. joins
      BY <2>5, <3>3 DEF MayJoin
    <3>5. held \subseteq (held \ HoldsOf(c)) \union Holds(new)
      BY <1>19
    <3> DEFINE wider == (held \ HoldsOf(c)) \union Holds(new)
    <3> HIDE DEF joins, held, wider
    <3>6. Levelled(scopes[m], wider, hs[m], joins)
      BY <3>2, <3>4, <3>5, LevelledStill DEF wider
    <3>7. z.len = scopes[m].len /\ hs[m][z.len] = d[1]
      BY <2>6, <3>1 DEF h
    <3>8. QED
      BY <1>1, <3>1, <3>2, <3>6, <3>7 DEF InnermostRight, joins, held, wider
  <2>9. Yielding(c, new, scopes'[m])
    BY <1>19 DEF Yielding
  <2>10. d[Len(new) + 1] = b[2]
    BY <2>3, <2>6
  <2>11. Succeeds(todo, levels, n, b, scopes, hs, constants, new, m, d, scopes', hs, constants')
    BY <1>16, <1>18, <1>19, <2>6, <2>7, <2>8, <2>9, <2>10 DEF Succeeds
  <2>12. QED
    BY <1>7, <2>11
<1>22. Goes(new)
  BY <1>21 DEF Goes, n, N
<1>23. QED
  BY <1>17, <1>18, <1>22, GoesOn
--------------------------------------------------------------------------------
(***************************************************************************)
(* The last steps, the first state, and every step.                        *)
(***************************************************************************)
LEMMA CompiledHeights ==
  ASSUME Balancing, Compiled PROVE StackInv'
<1> DEFINE n == Len(scopes)
<1>1. /\ status = "compiling" /\ todo = <<>> /\ status' = "compiled"
      /\ scopes' = scopes /\ constants' = constants
  BY DEF Compiled
<1>2. PoolGood(constants) /\ TodoHeighted
  BY <1>1 DEF Balancing, StackInv
<1>3. PICK levels : Plan(todo, levels, n)
  BY <1>1 DEF Balancing, Step, IInv, CodeInv, Good
<1>4. n = 1
  BY <1>1, <1>3 DEF Plan
<1>5. PICK b, hs : Heighted(todo, levels, b, scopes, hs, constants)
  BY <1>2, <1>3 DEF TodoHeighted
<1>6. DOMAIN scopes = 1 .. n
  BY ListFacts DEF Balancing, Step, IInv, CodeInv
<1>7. 1 \in DOMAIN scopes
  BY <1>4, <1>6
<1>8. HoldsAt(todo, levels, 1) = {}
  BY <1>1 DEF HoldsAt
<1>9. Len(todo) + 1 = 1
  BY <1>1
<1>10. /\ Tied(scopes[1], 1, constants) /\ hs[1][scopes[1].len] = 0
       /\ Levelled(scopes[1], {}, hs[1], 1 = Len(scopes) => MayJoin(todo, scopes[1]))
  BY <1>4, <1>5, <1>7, <1>8, <1>9 DEF Heighted
<1>11. Levelled(scopes[1], {}, hs[1], TRUE)
  BY <1>10 DEF Levelled
<1>12. MainGood(scopes, constants)
  BY <1>4, <1>10, <1>11 DEF MainGood
<1>13. QED
  BY <1>1, <1>2, <1>12 DEF StackInv

(* A compilation that ends changes no code.                                *)
LEMMA EndingHeights ==
  ASSUME StackInv,
         \/ \E name \in Names : UndefinedVariable(name)
         \/ Returned
         \/ UNCHANGED vars,
         flawed => flawed'
  PROVE  StackInv'
<1>1. CASE \E name \in Names : UndefinedVariable(name)
  BY <1>1 DEF UndefinedVariable, Compiling, StackInv
<1>2. CASE Returned \/ UNCHANGED vars
  BY <1>2 DEF Returned, vars, StackInv, TodoHeighted
<1>3. QED
  BY <1>1, <1>2

(* Every step.                                                             *)
LEMMA NextHeights ==
  ASSUME Step, StackInv, CountsFit, Proved!BuiltinsKnown(tables),
         [HistoryNext]_historyVars
  PROVE  StackInv'
<1>1. CASE flawed'
  BY <1>1 DEF StackInv
<1>2. CASE UNCHANGED historyVars
  <2>1. UNCHANGED vars /\ flawed' = flawed
    BY <1>2 DEF historyVars
  <2>2. QED
    BY <2>1, EndingHeights
<1>3. ASSUME ~flawed', HistoryNext PROVE StackInv'
  <2>1. /\ Next /\ ~flawed
        /\ Compiling({"IfExpression"}) => BranchesHaveValues(Task.node)
        /\ Compiling({"ReturnStatement"}) => Len(scopes) # 1
    BY <1>3 DEF HistoryNext
  <2>2. Balancing
    BY <2>1 DEF Balancing
  <2>3. CASE CompileLiteral
    BY <2>2, <2>3, LiteralHeights
  <2>4. CASE CompileBoolean
    BY <2>2, <2>4, BooleanHeights
  <2>5. CASE CompileParts
    BY <2>1, <2>2, <2>5, PartsHeights
  <2>6. CASE EmitInstruction
    BY <2>2, <2>6, InstructionHeights
  <2>7. ASSUME NEW name \in Names, CompileLet(name) PROVE StackInv'
    BY <2>2, <2>7, LetHeights
  <2>8. ASSUME NEW name \in Names, CompileIdentifier(name) PROVE StackInv'
    BY <2>2, <2>8, IdentifierHeights
  <2>9. ASSUME NEW name \in Names, DefineParameter(name) PROVE StackInv'
    BY <2>2, <2>9, ParameterHeights
  <2>10. CASE CompileIf
    <3>1. Compiling({"IfExpression"})
      BY <2>10 DEF CompileIf
    <3>2. QED
      BY <2>1, <2>2, <2>10, <3>1, IfHeights
  <2>11. CASE JumpOverConsequence
    BY <2>2, <2>11, ConsequenceHeights
  <2>12. CASE JumpOverAlternative
    BY <2>2, <2>12, AlternativeHeights
  <2>13. CASE EndIf
    BY <2>2, <2>13, EndIfHeights
  <2>14. CASE CompileFunction
    BY <2>2, <2>14, FunctionHeights
  <2>15. CASE LeaveFunction
    BY <2>2, <2>15, LeaveHeights
  <2>16. CASE EmitClosure
    BY <2>2, <2>16, ClosureHeights
  <2>17. CASE Compiled
    BY <2>2, <2>17, CompiledHeights
  <2>18. CASE Returned \/ \E name \in Names : UndefinedVariable(name)
    BY <2>1, <2>18, EndingHeights
  <2>19. QED
    BY <2>1, <2>3, <2>4, <2>5, <2>6, <2>7, <2>8, <2>9, <2>10, <2>11, <2>12, <2>13,
       <2>14, <2>15, <2>16, <2>17, <2>18 DEF Next
<1>4. QED
  BY <1>1, <1>2, <1>3

(* Nothing is on the stack at first, and nothing will be left.             *)
LEMMA InitHeights ==
  ASSUME Init PROVE StackInv
<1> DEFINE t == CompileTask(program)
           s == NewCompilationScope
           empty == [q \in {0} |-> 0]
           b == [i \in 1 .. 2 |-> 0]
           hs == [l \in {1} |-> empty]
<1>1. todo = <<t>> /\ scopes = <<s>> /\ constants = <<>> /\ status = "compiling" /\ program \in Blocks
  BY NodesWellFormed DEF Init
<1>2. t.do = "compile" /\ t.node \in Blocks
  BY <1>1 DEF CompileTask
<1>3. t.node \notin Expressions
  BY <1>2, NodesWellFormed DEF ExpressionKinds
<1>4. b[1] = 0 /\ b[2] = 0 /\ hs[1] = empty
  OBVIOUS
<1>5. \A held, joins, l, pool : Levelled(s, held, empty, joins) /\ Tied(s, l, pool) /\ empty[s.len] = 0
  BY NewLevelled
<1>6. /\ Len(todo) = 1 /\ DOMAIN todo = {1} /\ todo[1] = t
      /\ Len(scopes) = 1 /\ DOMAIN scopes = {1} /\ scopes[1] = s
  BY <1>1
<1> HIDE DEF t, s, empty, b, hs
<1>7. ~Holder(t) /\ ~Joins(t) /\ t.do # "leave"
  BY <1>2 DEF Holder, Joins
<1>8. \A l : Fits(t, l, 0, 0, constants) /\ Seen(t, l, 0, 0, scopes, hs)
  <2>1. 0 = 0 + (IF t.node \in Expressions THEN 1 ELSE 0)
    BY <1>3
  <2>2. QED
    BY <1>2, <1>7, <2>1 DEF Fits, Seen
<1>9. ASSUME NEW levels
      PROVE  Heighted(todo, levels, b, scopes, hs, constants)
  <2>1. \A i \in 1 .. Len(todo) + 1 : i = 1 \/ i = 2
    BY <1>6
  <2>2. \A i \in 1 .. Len(todo) + 1 : b[i] \in Nat
    BY <1>4, <2>1
  <2>3. Len(todo) + 1 = 2 /\ 1 + 1 = 2 /\ ~(1 < Len(todo))
    BY <1>6
  <2>4. \A i \in DOMAIN todo :
          /\ Fits(todo[i], levels[i], b[i], b[i + 1], constants)
          /\ Seen(todo[i], levels[i], b[i], b[i + 1], scopes, hs)
          /\ i < Len(todo) => (Joins(todo[i + 1]) => Yields(todo[i]))
    BY <1>4, <1>6, <1>8, <2>3
  <2>5. \A l \in DOMAIN scopes :
          /\ Tied(scopes[l], l, constants)
          /\ Levelled(scopes[l], HoldsAt(todo, levels, l), hs[l], l = Len(scopes) => MayJoin(todo, scopes[l]))
    BY <1>4, <1>5, <1>6
  <2>6. hs[Len(scopes)][scopes[Len(scopes)].len] = b[1] /\ b[Len(todo) + 1] = 0
    BY <1>4, <1>5, <1>6, <2>3
  <2>7. ~Joins(todo[1])
    BY <1>6, <1>7
  <2>8. QED
    BY <2>2, <2>4, <2>5, <2>6, <2>7 DEF Heighted
<1>10. TodoHeighted
  BY <1>9 DEF TodoHeighted
<1>11. PoolGood(constants)
  BY <1>1 DEF PoolGood
<1>12. QED
  BY <1>1, <1>10, <1>11 DEF StackInv

(* The built-in functions stay known where the compiler looks for them.    *)
LEMMA BuiltinsAtFirst ==
  ASSUME Init PROVE Proved!BuiltinsKnown(tables)
<1>1. Proved!Init
  BY SameTables DEF Init, Proved!Init
<1>2. QED
  BY <1>1, BuiltinsAssumption, Proved!InitIsLexical

(* Every step of the compiler is one of the table's calls, or none.        *)
LEMMA BuiltinsAlways ==
  ASSUME IInv, IInv', [Next]_vars, Proved!BuiltinsKnown(tables)
  PROVE  Proved!BuiltinsKnown(tables')
<1>1. [Scope!Next]_(Scope!vars)
  BY TablesStep
<1>2. [Proved!Next]_(Proved!vars)
  BY <1>1, SameCalls
<1>3. Proved!IInv /\ Proved!IInv'
  BY DEF IInv, TablesInv
<1>4. Nat \subseteq Nat /\ Nat \subseteq Nat
  OBVIOUS
<1>5. QED
  BY <1>2, <1>3, <1>4, BuiltinsAssumption, Proved!BuiltinsStayKnown, Zenon
--------------------------------------------------------------------------------
(* Code that is finished and whose instructions lead somewhere is what the *)
(* verifier asks for.                                                      *)
LEMMA TiedLinked ==
  ASSUME NEW code, NEW level, NEW pool, Tied(code, level, pool), NEW locals, NEW captured,
         \A p \in DOMAIN code.ins :
           /\ code.ins[p].op \in OfLocal => code.ins[p].args[1] < locals
           /\ code.ins[p].op = "OpGetFree" => code.ins[p].args[1] < captured
  PROVE  Linked(code, pool, locals, captured, Len(Builtins))
BY DEF Tied, Leads, OfLocal, Linked

(* All that Verified asks of the main code, functions and closures.        *)
LEMMA FinishedVerified ==
  ASSUME IInv, ClosuresInv, StackInv, Addressable PROVE CodeVerified
<1> SUFFICES ASSUME status = "compiled", ~flawed
             PROVE  Verified(scopes[1], constants, Len(Builtins))
  BY DEF CodeVerified
<1> DEFINE main == scopes[1]
           pool == constants
           functions == FunctionsOf(pool)
           B == Len(Builtins)
           closures == Closures(main) \union UNION {Closures(pool[k]) : k \in functions}
<1>1. PoolGood(pool) /\ MainGood(scopes, pool)
  BY DEF StackInv
<1>2. ClosuresMatch
  BY SoundMatches
<1>3. functions = Functions /\ \A k \in functions : k \in DOMAIN pool /\ IsFunction(pool[k])
  BY DEF FunctionsOf, Functions, IsFunction
<1>4. 1 \in DOMAIN scopes
  BY FirstScope DEF IInv
<1>5. CodeOK(main) /\ \A p \in JumpsIn(main) : Lands(main, p)
  BY <1>4 DEF IInv, CodeInv, ScopeOK
<1>6. [ins |-> main.ins, len |-> main.len] \in Finished
      /\ \A k \in functions : [ins |-> pool[k].ins, len |-> pool[k].len] \in Finished
  BY <1>3 DEF Finished
<1>7. main.len <= Byte * Byte /\ \A k \in functions : pool[k].len <= Byte * Byte
  <2>1. \A i, l : [ins |-> i, len |-> l].len = l
    OBVIOUS
  <2>2. \A code \in Finished : code.len <= Byte * Byte
    BY DEF Addressable
  <2>3. [ins |-> main.ins, len |-> main.len].len <= Byte * Byte
        /\ \A k \in functions : [ins |-> pool[k].ins, len |-> pool[k].len].len <= Byte * Byte
    BY <1>6, <2>2
  <2>4. QED
    BY <2>1, <2>3
<1>8. \A k \in functions : FunctionOK(pool[k]) /\ FunctionGood(pool[k], pool)
  BY <1>1, <1>3 DEF IInv, CodeInv, PoolGood
<1>9. Tied(main, 1, pool)
  BY <1>1 DEF MainGood
<1>10. PICK h : Levelled(main, {}, h, TRUE) /\ h[main.len] = 0
  BY <1>1 DEF MainGood
<1>11. Balanced(main) /\ Heights(main)[main.len] \subseteq {0}
  <2>1. /\ Balanced(main)
        /\ \A p \in Ends(main) : Heights(main)[p] \subseteq {h[p]}
    <3> HIDE DEF main
    <3>1. QED
      BY <1>5, <1>7, <1>10, Balances
  <2>2. main.len \in Ends(main)
    BY DEF Ends
  <2> HIDE DEF main
  <2>3. QED
    BY <1>10, <2>1, <2>2
<1>12. \A p \in DOMAIN main.ins : main.ins[p].op \notin Returns
  BY <1>9 DEF Tied, Leads
<1>13. Linked(main, pool, 0, 0, B)
  <2>1. \A p \in DOMAIN main.ins : main.ins[p].op \notin OfLocal \union {"OpGetFree"}
    BY <1>9 DEF Tied, Leads
  <2> HIDE DEF main, pool
  <2>2. QED
    BY <1>9, <2>1, TiedLinked
<1> HIDE DEF main, pool, functions
<1>14. ASSUME NEW k \in functions
       PROVE  /\ Balanced(pool[k])
              /\ Heights(pool[k])[pool[k].len] = {}
              /\ pool[k].numLocals \in Nat
              /\ pool[k].numParameters \in 0 .. pool[k].numLocals
  <2> DEFINE fn == pool[k]
  <2>1. /\ FunctionOK(fn) /\ FunctionGood(fn, pool) /\ fn.len <= Byte * Byte
    BY <1>7, <1>8
  <2>2. fn.numLocals \in Nat /\ fn.numParameters <= fn.numLocals
    BY <1>3 DEF ClosuresInv, PoolSound, FunctionSound, pool
  <2> HIDE DEF fn
  <2>3. PICK g : Levelled(fn, {}, g, TRUE)
    BY <2>1 DEF FunctionGood
  <2>4. Balanced(fn)
    BY <2>1, <2>3, Balances DEF FunctionOK
  <2>5. Heights(fn)[fn.len] = {}
    BY <2>1, EndUnreached
  <2>6. fn.numParameters \in Nat
    BY <2>1 DEF FunctionGood
  <2>7. fn.numParameters \in 0 .. fn.numLocals
    BY <2>2, <2>6
  <2>8. QED
    BY <2>2, <2>4, <2>5, <2>7 DEF fn
<1>15. ASSUME NEW code, Tied(code, 1, pool) \/ Tied(code, 2, pool),
              [ins |-> code.ins, len |-> code.len] \in Finished,
              NEW c \in Closures(code)
       PROVE  /\ c[1] \in functions
              /\ Linked(pool[c[1]], pool, pool[c[1]].numLocals, c[2], B)
  <2>1. PICK p \in DOMAIN code.ins : /\ code.ins[p].op = "OpClosure"
                                     /\ c = <<code.ins[p].args[1] + 1, code.ins[p].args[2]>>
    BY DEF Closures
  <2> DEFINE k == c[1]
             captured == c[2]
             fn == pool[k]
             record == [ins |-> code.ins, len |-> code.len]
             i == code.ins[p]
  <2>2. k = i.args[1] + 1 /\ captured = i.args[2]
    BY <2>1
  <2>3. record \in Finished /\ record.ins = code.ins
    BY <1>15
  <2>4. p \in DOMAIN record.ins /\ record.ins[p] = i /\ i.op = "OpClosure"
    BY <2>1, <2>3
  <2> HIDE DEF record, i, k, captured
  <2>5. /\ i.args[1] + 1 \in Functions
        /\ \A q \in DOMAIN constants[i.args[1] + 1].ins :
             constants[i.args[1] + 1].ins[q].op = "OpGetFree"
               => constants[i.args[1] + 1].ins[q].args[1] < i.args[2]
    BY <1>2, <2>3, <2>4 DEF ClosuresMatch
  <2>6. /\ k \in functions
        /\ \A q \in DOMAIN fn.ins : fn.ins[q].op = "OpGetFree" => fn.ins[q].args[1] < captured
    BY <1>3, <2>2, <2>5 DEF pool
  <2>7. \A q \in DOMAIN fn.ins : fn.ins[q].op \in OfLocal => fn.ins[q].args[1] < fn.numLocals
    BY <1>2, <1>3, <2>6 DEF ClosuresMatch, OfLocal, pool
  <2>8. Tied(fn, 2, pool)
    BY <1>8, <2>6 DEF FunctionGood
  <2> DEFINE locals == fn.numLocals
  <2>9. \A q \in DOMAIN fn.ins :
          /\ fn.ins[q].op \in OfLocal => fn.ins[q].args[1] < locals
          /\ fn.ins[q].op = "OpGetFree" => fn.ins[q].args[1] < captured
    BY <2>6, <2>7
  <2> HIDE DEF fn, locals
  <2>10. Linked(fn, pool, locals, captured, B)
    BY <2>8, <2>9, TiedLinked
  <2>11. QED
    BY <2>6, <2>10 DEF fn, locals, k, captured
<1>16. ASSUME NEW c \in closures
       PROVE  /\ c[1] \in functions
              /\ Linked(pool[c[1]], pool, pool[c[1]].numLocals, c[2], B)
  <2>1. CASE c \in Closures(main)
    BY <1>6, <1>9, <1>15, <2>1
  <2>2. CASE \E k \in functions : c \in Closures(pool[k])
    <3>1. PICK k \in functions : c \in Closures(pool[k])
      BY <2>2
    <3>2. Tied(pool[k], 2, pool) /\ [ins |-> pool[k].ins, len |-> pool[k].len] \in Finished
      BY <1>6, <1>8 DEF FunctionGood
    <3>3. QED
      BY <1>15, <3>1, <3>2
  <2>3. QED
    BY <2>1, <2>2
<1> HIDE DEF B
<1>17. /\ Balanced(main)
       /\ Heights(main)[main.len] \subseteq {0}
       /\ \A p \in DOMAIN main.ins : main.ins[p].op \notin Returns
       /\ Linked(main, pool, 0, 0, B)
       /\ \A c \in closures :
            /\ c[1] \in functions
            /\ Linked(pool[c[1]], pool, pool[c[1]].numLocals, c[2], B)
       /\ \A k \in functions :
            /\ Balanced(pool[k])
            /\ Heights(pool[k])[pool[k].len] = {}
            /\ pool[k].numLocals \in Nat
            /\ pool[k].numParameters \in 0 .. pool[k].numLocals
  BY <1>11, <1>12, <1>13, <1>14, <1>16
<1>18. Verified(main, pool, B)
  BY <1>17 DEF Verified, functions
<1>19. QED
  BY <1>18 DEF main, pool, B

(* The code that the compiler hands to the virtual machine never pops what *)
(* it did not push, leaves the stack as it found it whichever way control  *)
(* takes through an if or out of a function, and uses no index that leads  *)
(* nowhere (Compile of compiler.go, relied upon by Run of vm.go); unless   *)
(* an if has a branch without a value or a return is outside of functions, *)
(* and as long as operands hold the numbers they stand for: of elements    *)
(* and arguments, of constants and captures, and of positions in the code. *)
THEOREM CodeIsVerified ==
  HistorySpec /\ []Writable /\ CountsFit => [](Addressable => CodeVerified)
<1>1. HistoryInit => Init
  BY DEF HistoryInit
<1>2. [HistoryNext]_historyVars => [Next]_vars
  BY DEF HistoryNext, historyVars, vars
<1>3. HistorySpec => Spec
  BY <1>1, <1>2, PTL DEF HistorySpec, Spec
<1>4. Spec => []IInv
  BY Invariance
<1>5. Init => ClosuresInv /\ StackInv /\ Proved!BuiltinsKnown(tables)
  BY InitClosures, InitHeights, BuiltinsAtFirst
<1>6. IInv /\ IInv' /\ [Next]_vars /\ Writable /\ Writable' /\ ClosuresInv => ClosuresInv'
  BY NextClosures DEF Step
<1>7. IInv /\ IInv' /\ [Next]_vars /\ Proved!BuiltinsKnown(tables)
        => Proved!BuiltinsKnown(tables')
  BY BuiltinsAlways
<1>8. IInv /\ IInv' /\ [Next]_vars /\ Writable /\ Writable' /\ ClosuresInv /\ StackInv
        /\ CountsFit /\ Proved!BuiltinsKnown(tables) /\ [HistoryNext]_historyVars => StackInv'
  BY NextHeights DEF Step
<1> DEFINE Inv == ClosuresInv /\ StackInv /\ Proved!BuiltinsKnown(tables)
<1>9. HistoryInit => Inv
  BY <1>1, <1>5
<1>10. ASSUME IInv, IInv', Writable, Writable', CountsFit, [HistoryNext]_historyVars, Inv
       PROVE  Inv'
  BY <1>2, <1>6, <1>7, <1>8, <1>10
<1>11. IInv /\ Inv => (Addressable => CodeVerified)
  BY FinishedVerified
<1> HIDE DEF Inv
<1>12. ASSUME CountsFit PROVE HistorySpec /\ []Writable => [](Addressable => CodeVerified)
  <2>1. IInv /\ IInv' /\ Writable /\ Writable' /\ Inv /\ [HistoryNext]_historyVars => Inv'
    BY <1>10, <1>12
  <2>2. QED
    BY <1>3, <1>4, <1>9, <1>11, <2>1, PTL DEF HistorySpec
<1>13. QED
  BY <1>12

================================================================================
