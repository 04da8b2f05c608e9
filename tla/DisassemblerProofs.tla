---------------------------- MODULE DisassemblerProofs -------------------------
(***************************************************************************)
(* What Instructions.String prints, for any bytes: the lines, made into    *)
(* bytes again by Make, are the bytes that were read.                      *)
(***************************************************************************)
EXTENDS Disassembler, WellOrder, SequenceTheorems

--------------------------------------------------------------------------------
(***************************************************************************)
(* Joining lists of bytes.  FlattenSeq joins them from the left; that its  *)
(* recursion ends follows from the least length for which it would not.    *)
(***************************************************************************)
JoinAt(seqs, f, n) == IF n = 1 THEN seqs[n] ELSE f[n - 1] \o seqs[n]

JoinsTo(seqs, n, f) == f = [l \in 1 .. n |-> JoinAt(seqs, f, l)]

LEMMA JoinsEquation ==
  ASSUME NEW seqs, NEW n \in Nat, NEW f, JoinsTo(seqs, n, f)
  PROVE  DOMAIN f = 1 .. n /\ \A l \in 1 .. n : f[l] = JoinAt(seqs, f, l)
<1> DEFINE g == [l \in 1 .. n |-> JoinAt(seqs, f, l)]
<1>1. f = g
  BY DEF JoinsTo
<1>2. DOMAIN g = 1 .. n /\ \A l \in 1 .. n : g[l] = JoinAt(seqs, f, l)
  OBVIOUS
<1> HIDE DEF g
<1>3. QED
  BY <1>1, <1>2

LEMMA JoinsExist ==
  ASSUME NEW seqs, NEW n \in Nat
  PROVE  \E f : JoinsTo(seqs, n, f)
<1> DEFINE Bad == {k \in Nat : ~ \E f : JoinsTo(seqs, k, f)}
<1>1. SUFFICES ASSUME n \in Bad PROVE FALSE
  OBVIOUS
<1>2. PICK k \in Bad : \A j \in Bad : k <= j
  <2>1. Bad \subseteq Nat /\ Bad # {}
    BY <1>1
  <2> HIDE DEF Bad
  <2>2. QED
    BY <2>1, LeastElement
<1>3. k \in Nat /\ ~ \E f : JoinsTo(seqs, k, f)
  OBVIOUS
<1>4. CASE k = 0
  <2> DEFINE f == [l \in 1 .. 0 |-> 0]
  <2>1. f = [l \in 1 .. 0 |-> JoinAt(seqs, f, l)]
    <3>1. \A l \in 1 .. 0 : FALSE
      OBVIOUS
    <3>2. QED
      BY <3>1
  <2>2. JoinsTo(seqs, 0, f)
    BY <2>1 DEF JoinsTo
  <2>3. QED
    BY <1>3, <1>4, <2>2
<1>5. CASE k # 0
  <2>1. k - 1 \in Nat /\ ~(k <= k - 1)
    BY <1>3, <1>5
  <2>2. PICK f : JoinsTo(seqs, k - 1, f)
    BY <1>2, <2>1
  <2>3. \A l \in 1 .. k - 1 : f[l] = JoinAt(seqs, f, l)
    BY <2>1, <2>2, JoinsEquation
  <2> DEFINE g == [l \in 1 .. k |-> IF l = k THEN JoinAt(seqs, f, l) ELSE f[l]]
  <2>4. \A l \in 1 .. k : l = k \/ (l \in 1 .. k - 1 /\ l # k)
    BY <1>3, <1>5
  <2>5. \A l \in 1 .. k : g[l] = JoinAt(seqs, f, l)
    BY <2>3, <2>4
  <2>6. \A l \in 1 .. k : JoinAt(seqs, f, l) = JoinAt(seqs, g, l)
    <3>1. SUFFICES ASSUME NEW l \in 1 .. k
                   PROVE  JoinAt(seqs, f, l) = JoinAt(seqs, g, l)
      OBVIOUS
    <3>2. l # 1 => l - 1 \in 1 .. k /\ l - 1 # k
      BY <1>3
    <3>3. l # 1 => g[l - 1] = f[l - 1]
      BY <3>2
    <3>4. QED
      BY <3>3 DEF JoinAt
  <2>7. g = [l \in 1 .. k |-> g[l]]
    OBVIOUS
  <2>8. JoinsTo(seqs, k, g)
    <3> HIDE DEF g
    <3>1. QED
      BY <2>5, <2>6, <2>7 DEF JoinsTo
  <2>9. QED
    BY <1>3, <2>8
<1>6. QED
  BY <1>4, <1>5

(* Two lists that begin alike are joined alike so far. *)
Alike(s, t, m) == \A l \in 1 .. m : t[l] = s[l]

LEMMA JoinsAgree ==
  ASSUME NEW s, NEW t, NEW m \in Nat, NEW n \in Nat, m <= n,
         NEW f, NEW g, JoinsTo(s, m, f), JoinsTo(t, n, g),
         Alike(s, t, m)
  PROVE  Alike(f, g, m)
<1> USE DEF Alike
<1> DEFINE Bad == {k \in 1 .. m : g[k] # f[k]}
<1>1. SUFFICES ASSUME Bad # {} PROVE FALSE
  OBVIOUS
<1>2. PICK k \in Bad : \A j \in Bad : k <= j
  <2>1. Bad \subseteq Nat
    OBVIOUS
  <2> HIDE DEF Bad
  <2>2. QED
    BY <1>1, <2>1, LeastElement
<1>3. k \in 1 .. m /\ k \in 1 .. n /\ g[k] # f[k]
  OBVIOUS
<1>4. f[k] = JoinAt(s, f, k) /\ g[k] = JoinAt(t, g, k)
  BY <1>3, JoinsEquation
<1>5. k # 1 => k - 1 \in 1 .. m /\ ~(k <= k - 1)
  BY <1>3
<1>6. k # 1 => g[k - 1] = f[k - 1]
  BY <1>2, <1>5
<1>7. QED
  BY <1>3, <1>4, <1>6 DEF JoinAt

LEMMA FlattenJoins ==
  ASSUME NEW seqs, Len(seqs) \in Nat, Len(seqs) # 0
  PROVE  \E f : JoinsTo(seqs, Len(seqs), f) /\ FlattenSeq(seqs) = f[Len(seqs)]
<1> DEFINE f == CHOOSE g : JoinsTo(seqs, Len(seqs), g)
<1>1. JoinsTo(seqs, Len(seqs), f)
  BY JoinsExist
<1>2. FlattenSeq(seqs) = f[Len(seqs)]
  BY DEF FlattenSeq, JoinsTo, JoinAt
<1>3. QED
  BY <1>1, <1>2

LEMMA FlattenNothing ==
  ASSUME NEW seqs, Len(seqs) = 0 PROVE FlattenSeq(seqs) = seqs
BY DEF FlattenSeq

LEMMA FlattenOne ==
  ASSUME NEW seqs, Len(seqs) = 1 PROVE FlattenSeq(seqs) = seqs[1]
<1>1. PICK f : JoinsTo(seqs, 1, f) /\ FlattenSeq(seqs) = f[1]
  <2>1. Len(seqs) \in Nat /\ Len(seqs) # 0
    OBVIOUS
  <2>2. \E f : JoinsTo(seqs, Len(seqs), f) /\ FlattenSeq(seqs) = f[Len(seqs)]
    BY <2>1, FlattenJoins, Zenon
  <2>3. QED
    BY <2>2
<1>2. f[1] = JoinAt(seqs, f, 1)
  BY <1>1, JoinsEquation
<1>3. QED
  BY <1>1, <1>2 DEF JoinAt

LEMMA FlattenMore ==
  ASSUME NEW s, NEW t, Len(s) \in Nat, Len(s) # 0, Len(t) = Len(s) + 1,
         \A l \in 1 .. Len(s) : t[l] = s[l]
  PROVE  FlattenSeq(t) = FlattenSeq(s) \o t[Len(t)]
<1> DEFINE m == Len(s)
           n == Len(t)
<1>1. PICK f : JoinsTo(s, m, f) /\ FlattenSeq(s) = f[m]
  BY FlattenJoins
<1>2. PICK g : JoinsTo(t, n, g) /\ FlattenSeq(t) = g[n]
  BY FlattenJoins
<1>3. m \in Nat \ {0} /\ n = m + 1 /\ \A l \in 1 .. m : t[l] = s[l]
  OBVIOUS
<1> HIDE DEF m, n
<1>4. g[n] = JoinAt(t, g, n)
  BY <1>2, <1>3, JoinsEquation
<1>5. n # 1 /\ n - 1 = m /\ m \in 1 .. m /\ m <= n /\ n \in Nat
  BY <1>3
<1>6. g[m] = f[m]
  <2>1. m \in Nat /\ n \in Nat /\ m <= n /\ m \in 1 .. m
    BY <1>3, <1>5
  <2>2. Alike(s, t, m)
    BY <1>3 DEF Alike
  <2>3. JoinsTo(s, m, f) /\ JoinsTo(t, n, g)
    BY <1>1, <1>2
  <2>4. Alike(f, g, m)
    BY <2>1, <2>2, <2>3, JoinsAgree
  <2>5. QED
    BY <2>1, <2>4 DEF Alike
<1>7. QED
  BY <1>1, <1>2, <1>4, <1>5, <1>6 DEF JoinAt, n
--------------------------------------------------------------------------------
(***************************************************************************)
(* Reading and writing.                                                    *)
(***************************************************************************)
Bytes == 0 .. Byte - 1

LEMMA Remainder ==
  ASSUME NEW b \in Nat \ {0}, NEW q \in Nat, NEW r \in 0 .. b - 1
  PROVE  (q * b + r) % b = r /\ (q * b + r) \div b = q
<1> DEFINE x == q * b + r
           p == x \div b
           s == x % b
<1>1. x \in Nat
  <2>1. q * b \in Nat
    OBVIOUS
  <2>2. QED
    BY <2>1
<1>2. p \in Int /\ s \in 0 .. b - 1 /\ x = b * p + s
  <2> HIDE DEF x
  <2>1. QED
    BY <1>1
<1>3. x = q * b + r
  OBVIOUS
<1> HIDE DEF x, p, s
<1>4. b * p + s = q * b + r
  BY <1>2, <1>3
<1>5. p = q
  <2>1. CASE p > q
    <3>1. p >= q + 1
      BY <1>2, <2>1
    <3>2. b * p >= b * (q + 1)
      BY <1>2, <3>1
    <3>3. b * (q + 1) = q * b + b
      OBVIOUS
    <3>4. QED
      BY <1>2, <1>4, <3>2, <3>3
  <2>2. CASE p < q
    <3>1. q >= p + 1
      BY <1>2, <2>2
    <3>2. q * b >= (p + 1) * b
      BY <1>2, <3>1
    <3>3. (p + 1) * b = b * p + b
      BY <1>2
    <3>4. QED
      BY <1>2, <1>4, <3>2, <3>3
  <2>3. QED
    BY <1>2, <2>1, <2>2
<1>6. s = r
  BY <1>2, <1>4, <1>5
<1>7. QED
  BY <1>5, <1>6 DEF x, p, s

LEMMA HighAndLow ==
  ASSUME NEW b \in Nat \ {0}, NEW h \in 0 .. b - 1, NEW l \in 0 .. b - 1
  PROVE  /\ h * b + l \in Nat
         /\ (h * b + l) % b = l
         /\ ((h * b + l) \div b) % b = h
<1>1. h * b \in Nat
  OBVIOUS
<1>2. (h * b + l) % b = l /\ (h * b + l) \div b = h
  BY Remainder
<1>3. h % b = h
  OBVIOUS
<1>4. QED
  BY <1>1, <1>2, <1>3

LEMMA PutRead ==
  ASSUME ins \in Seq(Bytes), NEW at \in Nat, NEW width \in {1, 2}, at + width <= Len(ins)
  PROVE  /\ Read(at, width) \in Nat
         /\ Put(Read(at, width), width) \in Seq(Bytes)
         /\ Len(Put(Read(at, width), width)) = width
         /\ \A k \in 1 .. width : Put(Read(at, width), width)[k] = ins[at + k]
<1>1. Byte \in Nat \ {0}
  BY ByteAssumption
<1>2. CASE width = 1
  <2>1. ins[at + 1] \in Bytes
    BY <1>2
  <2>2. ins[at + 1] \in Nat /\ ins[at + 1] % Byte = ins[at + 1]
    <3>1. \A b \in Nat \ {0} : \A x \in 0 .. b - 1 : x \in Nat /\ x % b = x
      OBVIOUS
    <3>2. QED
      BY <1>1, <2>1, <3>1, Zenon DEF Bytes
  <2>3. Read(at, width) = ins[at + 1] /\ Put(Read(at, width), width) = <<ins[at + 1]>>
    BY <1>2, <2>2 DEF Read, Put
  <2>4. \A k \in 1 .. 1 : k = 1
    OBVIOUS
  <2> DEFINE x == ins[at + 1]
  <2>5. x \in Bytes
    BY <2>1
  <2>6. <<x>> \in Seq(Bytes) /\ Len(<<x>>) = 1 /\ <<x>>[1] = x
    <3> HIDE DEF x
    <3>1. QED
      BY <2>5
  <2>7. QED
    BY <1>2, <2>2, <2>3, <2>4, <2>6
<1>3. CASE width = 2
  <2> DEFINE h == ins[at + 1]
             l == ins[at + 2]
  <2>1. h \in Bytes /\ l \in Bytes
    BY <1>3
  <2>2. Read(at, width) = h * Byte + l
    BY <1>3 DEF Read
  <2> HIDE DEF h, l
  <2>3. /\ h * Byte + l \in Nat
        /\ (h * Byte + l) % Byte = l
        /\ ((h * Byte + l) \div Byte) % Byte = h
    BY <1>1, <2>1, HighAndLow DEF Bytes
  <2>4. Put(Read(at, width), width) = <<h, l>>
    BY <1>3, <2>2, <2>3, Zenon DEF Put
  <2>5. <<h, l>> \in Seq(Bytes) /\ Len(<<h, l>>) = 2 /\ <<h, l>>[1] = h /\ <<h, l>>[2] = l
    BY <2>1
  <2>6. \A k \in 1 .. 2 : k = 1 \/ k = 2
    OBVIOUS
  <2>7. Read(at, width) \in Nat
    BY <2>2, <2>3
  <2>8. QED
    BY <1>3, <2>4, <2>5, <2>6, <2>7 DEF h, l
<1>4. QED
  BY <1>2, <1>3

(* An opcode's number is the byte it is looked up by. *)
LEMMA NumberOfLookup ==
  ASSUME NEW byte \in Bytes, Defined(byte)
  PROVE  Lookup(byte) \in Opcodes /\ Number(Lookup(byte)) = byte
<1>1. DOMAIN Numbered = 1 .. 29
  BY DEF Numbered
<1>2. \A m, n \in 1 .. 29 : Numbered[m] = Numbered[n] => m = n
  BY SMTT(60) DEF Numbered
<1>3. \A m \in 1 .. 29 : Numbered[m] \in Opcodes
  BY SMTT(60) DEF Numbered, Opcodes, NoOperand, OneByteOperand, TwoByteOperand
<1>4. byte \in Nat /\ byte + 1 \in 1 .. 29
  BY <1>1, ByteAssumption DEF Bytes, Defined
<1> DEFINE n == CHOOSE m \in DOMAIN Numbered : Numbered[m] = Lookup(byte)
<1>5. n \in 1 .. 29 /\ Numbered[n] = Numbered[byte + 1]
  BY <1>1, <1>4 DEF Lookup
<1>6. n = byte + 1
  BY <1>2, <1>4, <1>5
<1>7. Number(Lookup(byte)) = n - 1
  BY DEF Number
<1> HIDE DEF n
<1>8. QED
  BY <1>3, <1>4, <1>6, <1>7 DEF Lookup

(* The bytes of a line, made again. *)
Encoded(line) == MakeBytes(line.op, line.args)

AreBytes(bytes, at, n) ==
  /\ bytes \in Seq(Nat)
  /\ Len(bytes) = n
  /\ \A k \in 1 .. n : bytes[k] = ins[at + k]

LEMMA JoinedBytes ==
  ASSUME NEW a, NEW b, NEW at \in Nat, NEW m \in Nat, NEW n \in Nat,
         AreBytes(a, at, m), AreBytes(b, at + m, n)
  PROVE  AreBytes(a \o b, at, m + n)
<1>1. a \in Seq(Nat) /\ Len(a) = m /\ b \in Seq(Nat) /\ Len(b) = n
  BY DEF AreBytes
<1>2. /\ a \o b \in Seq(Nat)
      /\ Len(a \o b) = Len(a) + Len(b)
      /\ \A k \in 1 .. Len(a) + Len(b) :
           (a \o b)[k] = IF k <= Len(a) THEN a[k] ELSE b[k - Len(a)]
  BY <1>1, ConcatProperties
<1>3. ASSUME NEW k \in 1 .. m + n PROVE (a \o b)[k] = ins[at + k]
  <2>1. (a \o b)[k] = IF k <= m THEN a[k] ELSE b[k - m]
    BY <1>1, <1>2
  <2>2. CASE k <= m
    <3>1. k \in 1 .. m
      BY <2>2
    <3>2. QED
      BY <2>1, <2>2, <3>1 DEF AreBytes
  <2>3. CASE ~(k <= m)
    <3>1. k - m \in 1 .. n /\ at + m + (k - m) = at + k
      BY <2>3
    <3>2. b[k - m] = ins[at + m + (k - m)]
      BY <3>1 DEF AreBytes
    <3>3. QED
      BY <2>1, <2>3, <3>1, <3>2
  <2>4. QED
    BY <2>2, <2>3
<1>4. QED
  BY <1>1, <1>2, <1>3 DEF AreBytes

LEMMA Widths ==
  ASSUME NEW op \in Opcodes
  PROVE  \/ OperandWidth(op) = <<>> /\ InstrLen(op) = 1
         \/ OperandWidth(op) = <<1>> /\ InstrLen(op) = 2
         \/ OperandWidth(op) = <<2>> /\ InstrLen(op) = 3
         \/ OperandWidth(op) = <<2, 1>> /\ InstrLen(op) = 4
<1>1. /\ op \in NoOperand => op \notin OneByteOperand /\ op \notin TwoByteOperand /\ op # "OpClosure"
      /\ op \in OneByteOperand => op \notin TwoByteOperand /\ op # "OpClosure"
      /\ op \in TwoByteOperand => op # "OpClosure"
  BY DEF NoOperand, OneByteOperand, TwoByteOperand
<1>2. op \in NoOperand \/ op \in OneByteOperand \/ op \in TwoByteOperand \/ op = "OpClosure"
  BY DEF Opcodes
<1>3. CASE op \in NoOperand
  BY <1>1, <1>3 DEF OperandWidth, InstrLen
<1>4. CASE op \in OneByteOperand
  BY <1>1, <1>4, Zenon DEF OperandWidth, InstrLen
<1>5. CASE op \in TwoByteOperand
  BY <1>1, <1>5, Zenon DEF OperandWidth, InstrLen
<1>6. CASE op = "OpClosure"
  BY <1>1, <1>6, Zenon DEF OperandWidth, InstrLen
<1>7. QED
  BY <1>2, <1>3, <1>4, <1>5, <1>6

(* What Make writes for what ReadOperands has read is what was read.       *)
LEMMA MadeAgain ==
  ASSUME ins \in Seq(Bytes), NEW at \in Nat, NEW op \in Opcodes, at + InstrLen(op) <= Len(ins),
         Number(op) = ins[at + 1]
  PROVE  /\ ReadOperands(op, at + 1) \in Seq(Nat)
         /\ AreBytes(MakeBytes(op, ReadOperands(op, at + 1)), at, InstrLen(op))
<1> DEFINE args   == ReadOperands(op, at + 1)
           widths == OperandWidth(op)
           parts  == [n \in DOMAIN widths |-> Put(args[n], widths[n])]
<1>1. MakeBytes(op, args) = <<ins[at + 1]>> \o FlattenSeq(parts)
  <2>1. DOMAIN args = DOMAIN widths
    BY DEF ReadOperands
  <2>2. parts = [n \in DOMAIN widths |->
                   Put(IF n \in DOMAIN args THEN args[n] ELSE 0, widths[n])]
    <3> HIDE DEF args, widths
    <3>1. QED
      BY <2>1
  <2>3. QED
    BY <2>2, Zenon DEF MakeBytes
<1>2. ins[at + 1] \in Nat /\ Len(ins) \in Nat /\ InstrLen(op) \in 1 .. 4
  <2>1. InstrLen(op) \in 1 .. 4
    BY Widths
  <2>2. at + 1 \in 1 .. Len(ins)
    BY <2>1
  <2>3. ins[at + 1] \in Bytes
    BY <2>2
  <2>4. QED
    BY <2>1, <2>3, ByteAssumption DEF Bytes
<1>3. AreBytes(<<ins[at + 1]>>, at, 1)
  <2> DEFINE x == ins[at + 1]
  <2>1. x \in Nat
    BY <1>2
  <2>2. \A k \in 1 .. 1 : k = 1
    OBVIOUS
  <2>3. <<x>> \in Seq(Nat) /\ Len(<<x>>) = 1 /\ <<x>>[1] = x
    <3> HIDE DEF x
    <3>1. QED
      BY <2>1
  <2>4. QED
    BY <2>2, <2>3 DEF AreBytes
<1>4. SUFFICES /\ args \in Seq(Nat)
               /\ AreBytes(FlattenSeq(parts), at + 1, InstrLen(op) - 1)
  <2>1. 1 \in Nat /\ InstrLen(op) - 1 \in Nat /\ 1 + (InstrLen(op) - 1) = InstrLen(op)
    BY <1>2
  <2> HIDE DEF args, parts
  <2>2. AreBytes(<<ins[at + 1]>> \o FlattenSeq(parts), at, 1 + (InstrLen(op) - 1))
    BY <1>3, <1>4, <2>1, JoinedBytes
  <2>3. QED
    BY <1>1, <1>4, <2>1, <2>2 DEF args
<1>5. \A n \in DOMAIN widths :
        args[n] = Read(at + 1 + (IF n = 1 THEN 0 ELSE widths[1]), widths[n])
  BY DEF ReadOperands
<1>6. DOMAIN args = DOMAIN widths
  BY DEF ReadOperands
<1>7. ASSUME NEW p \in Nat, NEW w \in {1, 2}, p + w <= Len(ins)
      PROVE  Read(p, w) \in Nat /\ AreBytes(Put(Read(p, w), w), p, w)
  <2>1. /\ Read(p, w) \in Nat
        /\ Put(Read(p, w), w) \in Seq(Bytes)
        /\ Len(Put(Read(p, w), w)) = w
        /\ \A k \in 1 .. w : Put(Read(p, w), w)[k] = ins[p + k]
    BY <1>7, PutRead
  <2>2. Bytes \subseteq Nat
    BY ByteAssumption DEF Bytes
  <2>3. Put(Read(p, w), w) \in Seq(Nat)
    BY <2>1, <2>2, SeqMonotonic
  <2>4. QED
    BY <2>1, <2>3 DEF AreBytes
<1>8. CASE widths = <<>> /\ InstrLen(op) = 1
  <2>1. DOMAIN widths = {} /\ args = [n \in {} |-> 0] /\ parts = [n \in {} |-> 0]
    BY <1>8 DEF ReadOperands
  <2>2. [n \in {} |-> 0] = <<>> /\ <<>> \in Seq(Nat) /\ Len(<<>>) = 0 /\ \A k \in 1 .. 0 : FALSE
    OBVIOUS
  <2>3. args = <<>> /\ parts = <<>>
    BY <2>1, <2>2
  <2>4. FlattenSeq(<<>>) = <<>>
    BY <2>2, FlattenNothing
  <2>5. AreBytes(<<>>, at + 1, 0)
    BY <2>2 DEF AreBytes
  <2> HIDE DEF args, parts
  <2>6. QED
    BY <1>8, <2>2, <2>3, <2>4, <2>5
<1>9. ASSUME NEW w \in {1, 2}, widths = <<w>>, InstrLen(op) = w + 1
      PROVE  args \in Seq(Nat) /\ AreBytes(FlattenSeq(parts), at + 1, w)
  <2>1. DOMAIN widths = {1} /\ widths[1] = w
    BY <1>9
  <2>2. args[1] = Read(at + 1, w)
    BY <1>5, <2>1
  <2>3. Read(at + 1, w) \in Nat /\ AreBytes(Put(Read(at + 1, w), w), at + 1, w)
    BY <1>7, <1>9
  <2>4. DOMAIN parts = {1} /\ parts[1] = Put(Read(at + 1, w), w)
    BY <2>1, <2>2
  <2>5. {1} = 1 .. 1
    OBVIOUS
  <2>6. Len(parts) = 1
    BY <2>4, <2>5
  <2> DEFINE x == args[1]
  <2>7. args \in Seq(Nat)
    <3>1. args = [n \in 1 .. 1 |-> args[n]]
      BY <2>1, <2>5 DEF ReadOperands
    <3>2. \A n \in 1 .. 1 : args[n] \in Nat
      BY <2>2, <2>3
    <3> HIDE DEF args
    <3>3. QED
      BY <3>1, <3>2
  <2> HIDE DEF parts
  <2>8. FlattenSeq(parts) = parts[1]
    BY <2>6, FlattenOne
  <2>9. QED
    BY <2>3, <2>4, <2>7, <2>8
<1>10. CASE widths = <<2, 1>> /\ InstrLen(op) = 4
  <2>1. DOMAIN widths = {1, 2} /\ widths[1] = 2 /\ widths[2] = 1
    BY <1>10
  <2>2. args[1] = Read(at + 1, 2) /\ args[2] = Read(at + 3, 1)
    BY <1>5, <2>1
  <2>3. /\ Read(at + 1, 2) \in Nat /\ AreBytes(Put(Read(at + 1, 2), 2), at + 1, 2)
        /\ Read(at + 3, 1) \in Nat /\ AreBytes(Put(Read(at + 3, 1), 1), at + 1 + 2, 1)
    BY <1>7, <1>10
  <2>4. DOMAIN parts = {1, 2} /\ parts[1] = Put(Read(at + 1, 2), 2) /\ parts[2] = Put(Read(at + 3, 1), 1)
    BY <2>1, <2>2
  <2>5. {1, 2} = 1 .. 2
    OBVIOUS
  <2>6. Len(parts) = 2
    BY <2>4, <2>5
  <2>7. args \in Seq(Nat)
    <3>1. args = [n \in 1 .. 2 |-> args[n]]
      BY <2>1, <2>5 DEF ReadOperands
    <3>2. \A n \in 1 .. 2 : args[n] \in Nat
      BY <2>2, <2>3, <2>5
    <3> HIDE DEF args
    <3>3. QED
      BY <3>1, <3>2
  <2> HIDE DEF parts
  <2> DEFINE first == <<parts[1]>>
  <2>8. Len(first) = 1 /\ first[1] = parts[1]
    OBVIOUS
  <2>9. FlattenSeq(first) = parts[1]
    <3> HIDE DEF first
    <3>1. QED
      BY <2>8, FlattenOne
  <2>10. FlattenSeq(parts) = FlattenSeq(first) \o parts[2]
    <3>1. /\ Len(first) \in Nat /\ Len(first) # 0 /\ Len(parts) = Len(first) + 1
          /\ \A l \in 1 .. Len(first) : parts[l] = first[l]
      BY <2>6, <2>8
    <3> HIDE DEF first
    <3>2. FlattenSeq(parts) = FlattenSeq(first) \o parts[Len(parts)]
      BY <3>1, FlattenMore, Zenon
    <3>3. QED
      BY <2>6, <3>2
  <2>11. AreBytes(parts[1] \o parts[2], at + 1, 2 + 1)
    BY <2>3, <2>4, JoinedBytes
  <2>12. QED
    BY <1>10, <2>7, <2>9, <2>10, <2>11
<1>11. QED
  <2>1. CASE widths = <<1>> /\ InstrLen(op) = 2
    BY <1>9, <2>1
  <2>2. CASE widths = <<2>> /\ InstrLen(op) = 3
    BY <1>9, <2>2
  <2>3. QED
    BY <1>8, <1>10, <2>1, <2>2, Widths

--------------------------------------------------------------------------------
(***************************************************************************)
(* The invariant: the lines stand for the bytes before i.                  *)
(***************************************************************************)
Line == [at : Nat, op : Opcodes, args : Seq(Nat)]

Lines(list) == [n \in DOMAIN list |-> Encoded(list[n])]
LinesBefore(list, n) == [m \in 1 .. n - 1 |-> Encoded(list[m])]

IInv ==
  /\ ins \in Seq(Bytes)
  /\ i \in 0 .. Len(ins)
  /\ out \in Seq(Line)
  /\ AreBytes(FlattenSeq(Lines(out)), 0, i)
  /\ \A n \in DOMAIN out : out[n].at = Len(FlattenSeq(LinesBefore(out, n)))

LEMMA ListLength ==
  ASSUME NEW n \in Nat, NEW f, DOMAIN f = 1 .. n PROVE Len(f) = n
OBVIOUS

(* One line more. *)
LEMMA LinesGrow ==
  ASSUME NEW list \in Seq(Line), NEW line \in Line, NEW more, more = Append(list, line),
         NEW at \in Nat, AreBytes(FlattenSeq(Lines(list)), 0, at),
         NEW n \in Nat, AreBytes(Encoded(line), at, n)
  PROVE  AreBytes(FlattenSeq(Lines(more)), 0, at + n)
<1> DEFINE k == Len(list)
           s == Lines(list)
           t == Lines(more)
<1>1. /\ k \in Nat /\ DOMAIN list = 1 .. k /\ DOMAIN more = 1 .. k + 1 /\ more[k + 1] = line
      /\ \A l \in 1 .. k : more[l] = list[l]
  BY AppendProperties
<1>2. /\ DOMAIN s = 1 .. k /\ DOMAIN t = 1 .. k + 1
      /\ \A l \in 1 .. k : s[l] = Encoded(list[l])
      /\ \A l \in 1 .. k + 1 : t[l] = Encoded(more[l])
  <2> HIDE DEF k
  <2>1. QED
    BY <1>1 DEF Lines
<1> HIDE DEF k, s, t
<1>3. /\ Len(s) = k /\ Len(t) = k + 1 /\ t[k + 1] = Encoded(line)
      /\ \A l \in 1 .. k : t[l] = s[l]
  <2>1. Len(s) = k /\ Len(t) = k + 1
    BY <1>1, <1>2, ListLength
  <2>2. k + 1 \in 1 .. k + 1 /\ \A l \in 1 .. k : l \in 1 .. k + 1
    BY <1>1
  <2>3. QED
    BY <1>1, <1>2, <2>1, <2>2
<1>4. CASE k = 0
  <2>1. FlattenSeq(t) = Encoded(line)
    BY <1>3, <1>4, FlattenOne
  <2>2. FlattenSeq(s) = s
    BY <1>3, <1>4, FlattenNothing
  <2>3. AreBytes(s, 0, at)
    BY <2>2 DEF s
  <2>4. at = 0
    BY <1>3, <1>4, <2>3 DEF AreBytes
  <2>5. QED
    BY <2>1, <2>4 DEF t
<1>5. CASE k # 0
  <2>1. /\ Len(s) \in Nat /\ Len(s) # 0 /\ Len(t) = Len(s) + 1
        /\ \A l \in 1 .. Len(s) : t[l] = s[l]
    BY <1>1, <1>3, <1>5
  <2>2. FlattenSeq(t) = FlattenSeq(s) \o t[Len(t)]
    BY <2>1, FlattenMore, Zenon
  <2>3. FlattenSeq(t) = FlattenSeq(s) \o Encoded(line)
    BY <1>3, <2>2
  <2>4. AreBytes(FlattenSeq(s), 0, at)
    BY DEF s
  <2>5. AreBytes(Encoded(line), 0 + at, n)
    <3>1. 0 + at = at
      OBVIOUS
    <3>2. QED
      BY <3>1
  <2>6. AreBytes(FlattenSeq(s) \o Encoded(line), 0, at + n)
    BY <2>4, <2>5, JoinedBytes
  <2>7. QED
    BY <2>3, <2>6 DEF t
<1>6. QED
  BY <1>4, <1>5

LEMMA PrintingKeeps ==
  ASSUME IInv, PrintInstruction PROVE IInv'
<1> DEFINE op   == Lookup(ins[i + 1])
           line == [at |-> i, op |-> op, args |-> ReadOperands(op, i + 1)]
           k    == Len(out)
<1>1. /\ ins' = ins /\ i' = i + InstrLen(op) /\ out' = Append(out, line)
      /\ i < Len(ins) /\ Defined(ins[i + 1]) /\ i + InstrLen(op) <= Len(ins)
  BY DEF PrintInstruction, Reading, Complete, Op
<1>2. ins \in Seq(Bytes) /\ i \in Nat /\ Len(ins) \in Nat
  BY DEF IInv
<1>3. op \in Opcodes /\ Number(op) = ins[i + 1]
  <2>1. i + 1 \in 1 .. Len(ins)
    BY <1>1, <1>2
  <2>2. ins[i + 1] \in Bytes
    BY <1>2, <2>1
  <2>3. QED
    BY <1>1, <2>2, NumberOfLookup
<1> HIDE DEF op
<1>4. InstrLen(op) \in Nat
  BY <1>3, Widths
<1>5. /\ ReadOperands(op, i + 1) \in Seq(Nat)
      /\ AreBytes(MakeBytes(op, ReadOperands(op, i + 1)), i, InstrLen(op))
  BY <1>1, <1>2, <1>3, MadeAgain
<1>6. line \in Line /\ Encoded(line) = MakeBytes(op, ReadOperands(op, i + 1)) /\ line.at = i
  BY <1>2, <1>3, <1>5 DEF Line, Encoded
<1> HIDE DEF line
<1>7. AreBytes(FlattenSeq(Lines(out')), 0, i')
  <2>1. AreBytes(Encoded(line), i, InstrLen(op)) /\ AreBytes(FlattenSeq(Lines(out)), 0, i) /\ out \in Seq(Line)
    BY <1>5, <1>6 DEF IInv
  <2>2. AreBytes(FlattenSeq(Lines(out')), 0, i + InstrLen(op))
    BY <1>1, <1>2, <1>4, <1>6, <2>1, LinesGrow
  <2>3. QED
    BY <1>1, <2>2
<1>8. /\ k \in Nat /\ DOMAIN out = 1 .. k /\ DOMAIN out' = 1 .. k + 1 /\ out'[k + 1] = line
      /\ \A l \in 1 .. k : out'[l] = out[l]
      /\ out' \in Seq(Line)
  BY <1>1, <1>6, AppendProperties DEF IInv
<1> HIDE DEF k
<1>9. ASSUME NEW n \in DOMAIN out' PROVE out'[n].at = Len(FlattenSeq(LinesBefore(out', n)))
  <2>1. n - 1 <= k /\ \A m \in 1 .. n - 1 : m \in 1 .. k
    BY <1>8
  <2>2. LinesBefore(out', n) = LinesBefore(out, n)
    BY <1>8, <2>1 DEF LinesBefore
  <2>3. CASE n \in 1 .. k
    BY <1>8, <2>2, <2>3 DEF IInv
  <2>4. CASE n = k + 1
    <3>1. n - 1 = k
      BY <1>8, <2>4
    <3>2. LinesBefore(out, n) = Lines(out)
      BY <1>8, <3>1 DEF LinesBefore, Lines
    <3>3. Len(FlattenSeq(Lines(out))) = i
      BY DEF IInv, AreBytes
    <3>4. QED
      BY <1>6, <1>8, <2>2, <2>4, <3>2, <3>3
  <2>5. QED
    BY <1>8, <2>3, <2>4
<1>10. i' \in 0 .. Len(ins')
  BY <1>1, <1>2, <1>4
<1>11. AreBytes(FlattenSeq(Lines(out)), 0, i)' 
  BY <1>1, <1>7 DEF AreBytes
<1>12. QED
  BY <1>1, <1>2, <1>8, <1>9, <1>10, <1>11 DEF IInv

LEMMA NextKeeps == IInv /\ [Next]_vars => IInv'
<1> SUFFICES ASSUME IInv, [Next]_vars PROVE IInv'
  OBVIOUS
<1>1. CASE PrintInstruction
  BY <1>1, PrintingKeeps
<1>2. CASE ReadBehindTheEnd \/ ReportUnknownOpcode \/ Return \/ Stopped \/ UNCHANGED vars
  <2>1. ins' = ins /\ i' = i /\ out' = out
    BY <1>2 DEF ReadBehindTheEnd, ReportUnknownOpcode, Return, Stopped, vars
  <2>2. QED
    BY <2>1 DEF IInv, AreBytes
<1>3. QED
  BY <1>1, <1>2 DEF Next, Step

LEMMA InitKeeps == Init => IInv
<1> SUFFICES ASSUME Init PROVE IInv
  OBVIOUS
<1>1. ins \in Seq(Bytes) /\ i = 0 /\ out = <<>>
  BY StreamsAssumption DEF Init, Bytes
<1>2. out \in Seq(Line) /\ DOMAIN out = {}
  BY <1>1
<1>3. Lines(out) = <<>>
  BY <1>1 DEF Lines
<1>4. FlattenSeq(<<>>) = <<>>
  <2>1. Len(<<>>) = 0
    OBVIOUS
  <2>2. QED
    BY <2>1, FlattenNothing
<1>5. AreBytes(<<>>, 0, 0)
  <2>1. <<>> \in Seq(Nat) /\ Len(<<>>) = 0 /\ \A k \in 1 .. 0 : FALSE
    OBVIOUS
  <2>2. QED
    BY <2>1 DEF AreBytes
<1>6. i \in 0 .. Len(ins)
  BY <1>1
<1>7. QED
  BY <1>1, <1>2, <1>3, <1>4, <1>5, <1>6 DEF IInv

(* Whatever the bytes: the lines that are printed, made again, are the     *)
(* bytes that were read, and each has the position it was read at.         *)
THEOREM PrintedFaithfully == Spec => []PrintsTheCode
<1>1. IInv => PrintsTheCode
  <2> SUFFICES ASSUME IInv PROVE PrintsTheCode
    OBVIOUS
  <2> DEFINE flat == FlattenSeq(Lines(out))
  <2>1. AreBytes(flat, 0, i) /\ ins \in Seq(Bytes) /\ i \in 0 .. Len(ins)
    BY DEF IInv
  <2> HIDE DEF flat
  <2>2. flat \in Seq(Nat) /\ Len(flat) = i /\ \A k \in 1 .. i : flat[k] = ins[k]
    BY <2>1 DEF AreBytes
  <2>3. flat = SubSeq(ins, 1, i)
    <3>1. flat = [k \in 1 .. i |-> flat[k]]
      BY <2>2
    <3>2. SubSeq(ins, 1, i) = [k \in 1 .. i |-> ins[k]]
      BY <2>1
    <3>3. QED
      BY <2>2, <3>1, <3>2
  <2>4. \A n \in DOMAIN out : out[n].at = Len(FlattenSeq(LinesBefore(out, n)))
    BY DEF IInv
  <2>5. QED
    BY <2>3, <2>4 DEF PrintsTheCode, flat, Lines, LinesBefore, Encoded
<1>2. Init => IInv
  BY InitKeeps
<1>3. QED
  BY <1>1, <1>2, NextKeeps, PTL DEF Spec

--------------------------------------------------------------------------------
(***************************************************************************)
(* The records of module Code.  Where the parts of a joined list are.      *)
(***************************************************************************)
First(list, n) == [l \in 1 .. n |-> list[l]]
Offset(list, n) == Len(FlattenSeq(First(list, n)))

Parts(list, k) ==
  /\ DOMAIN list = 1 .. k
  /\ \A l \in 1 .. k : list[l] \in Seq(Nat)

(* The first m parts, joined. *)
Laid(list, m) ==
  LET flat == FlattenSeq(First(list, m)) IN
  /\ flat \in Seq(Nat)
  /\ \A l \in 1 .. m :
       /\ Offset(list, l - 1) \in Nat
       /\ Offset(list, l) = Offset(list, l - 1) + Len(list[l])
       /\ Offset(list, l) <= Len(flat)
       /\ \A j \in 1 .. Len(list[l]) : flat[Offset(list, l - 1) + j] = list[l][j]

LEMMA FirstNone ==
  ASSUME NEW list PROVE FlattenSeq(First(list, 0)) = <<>> /\ Offset(list, 0) = 0
<1>1. First(list, 0) = <<>>
  BY DEF First
<1>2. Len(<<>>) = 0
  OBVIOUS
<1>3. FlattenSeq(<<>>) = <<>>
  BY <1>2, FlattenNothing
<1>4. QED
  BY <1>1, <1>2, <1>3 DEF Offset

LEMMA FirstMore ==
  ASSUME NEW list, NEW m \in Nat, FlattenSeq(First(list, m)) \in Seq(Nat), list[m + 1] \in Seq(Nat)
  PROVE  FlattenSeq(First(list, m + 1)) = FlattenSeq(First(list, m)) \o list[m + 1]
<1> DEFINE s == First(list, m)
           t == First(list, m + 1)
<1>1. /\ DOMAIN s = 1 .. m /\ DOMAIN t = 1 .. m + 1
      /\ \A l \in 1 .. m : s[l] = list[l]
      /\ \A l \in 1 .. m + 1 : t[l] = list[l]
  BY DEF First
<1> HIDE DEF s, t
<1>2. Len(s) = m /\ Len(t) = m + 1
  BY <1>1, ListLength
<1>3. /\ m + 1 \in 1 .. m + 1 /\ \A l \in 1 .. m : l \in 1 .. m + 1
  OBVIOUS
<1>4. t[m + 1] = list[m + 1]
  BY <1>1, <1>3
<1>5. CASE m = 0
  <2>1. FlattenSeq(t) = t[1]
    BY <1>2, <1>5, FlattenOne
  <2>2. FlattenSeq(s) = <<>>
    BY <1>5, FirstNone DEF s
  <2>3. <<>> \o list[m + 1] = list[m + 1]
    BY ConcatEmptySeq
  <2>4. t[1] = list[m + 1]
    BY <1>4, <1>5
  <2>5. QED
    BY <2>1, <2>2, <2>3, <2>4 DEF s, t
<1>6. CASE m # 0
  <2>1. /\ Len(s) \in Nat /\ Len(s) # 0 /\ Len(t) = Len(s) + 1
        /\ \A l \in 1 .. Len(s) : t[l] = s[l]
    BY <1>1, <1>2, <1>3, <1>6
  <2>2. FlattenSeq(t) = FlattenSeq(s) \o t[Len(t)]
    BY <2>1, FlattenMore, Zenon
  <2>3. QED
    BY <1>2, <1>4, <2>2 DEF s, t
<1>7. QED
  BY <1>5, <1>6

LEMMA PartsLaid ==
  ASSUME NEW list, NEW k \in Nat, Parts(list, k), NEW m \in 0 .. k
  PROVE  Laid(list, m)
<1> DEFINE Bad == {n \in 0 .. k : ~Laid(list, n)}
<1>1. SUFFICES ASSUME m \in Bad PROVE FALSE
  OBVIOUS
<1>2. PICK n \in Bad : \A j \in Bad : n <= j
  <2>1. Bad \subseteq Nat /\ Bad # {}
    BY <1>1
  <2> HIDE DEF Bad
  <2>2. QED
    BY <2>1, LeastElement
<1>3. n \in 0 .. k /\ ~Laid(list, n)
  OBVIOUS
<1>4. CASE n = 0
  <2>1. <<>> \in Seq(Nat) /\ \A l \in 1 .. 0 : FALSE
    OBVIOUS
  <2>2. Laid(list, 0)
    BY <2>1, FirstNone DEF Laid
  <2>3. QED
    BY <1>3, <1>4, <2>2
<1>5. CASE n # 0
  <2> DEFINE p == n - 1
  <2>1. p \in 0 .. k /\ ~(n <= p) /\ n = p + 1 /\ n \in 1 .. k /\ p \in Nat
    BY <1>3, <1>5
  <2>2. Laid(list, p)
    BY <1>2, <2>1
  <2> HIDE DEF p
  <2> DEFINE a == FlattenSeq(First(list, p))
             b == list[n]
             c == FlattenSeq(First(list, n))
  <2>3. a \in Seq(Nat) /\ b \in Seq(Nat)
    BY <2>1, <2>2 DEF Laid, Parts
  <2>4. c = a \o b
    BY <2>1, <2>3, FirstMore
  <2>5. Offset(list, p) = Len(a) /\ Offset(list, n) = Len(c)
    BY DEF Offset
  <2>6. \A l \in 1 .. p :
          /\ Offset(list, l - 1) \in Nat
          /\ Offset(list, l) = Offset(list, l - 1) + Len(list[l])
          /\ Offset(list, l) <= Len(a)
          /\ \A j \in 1 .. Len(list[l]) : a[Offset(list, l - 1) + j] = list[l][j]
    BY <2>2 DEF Laid
  <2> HIDE DEF a, b, c
  <2>7. /\ c \in Seq(Nat) /\ Len(c) = Len(a) + Len(b) /\ Len(a) \in Nat /\ Len(b) \in Nat
        /\ \A j \in 1 .. Len(a) + Len(b) : c[j] = IF j <= Len(a) THEN a[j] ELSE b[j - Len(a)]
    BY <2>3, <2>4, ConcatProperties
  <2>8. ASSUME NEW l \in 1 .. n
        PROVE  /\ Offset(list, l - 1) \in Nat
               /\ Offset(list, l) = Offset(list, l - 1) + Len(list[l])
               /\ Offset(list, l) <= Len(c)
               /\ \A j \in 1 .. Len(list[l]) : c[Offset(list, l - 1) + j] = list[l][j]
    <3>1. CASE l \in 1 .. p
      <4>1. Len(list[l]) \in Nat
        <5>1. list[l] \in Seq(Nat)
          BY <2>1, <3>1 DEF Parts
        <5>2. QED
          BY <5>1
      <4> DEFINE o == Offset(list, l - 1)
                 w == Len(list[l])
      <4>2. o \in Nat /\ w \in Nat /\ o + w <= Len(a) /\ Offset(list, l) = o + w
        BY <2>6, <3>1, <4>1
      <4> HIDE DEF o, w
      <4>3. ASSUME NEW j \in 1 .. w PROVE c[o + j] = a[o + j]
        <5>1. o + j \in 1 .. Len(a) + Len(b) /\ o + j <= Len(a)
          BY <2>7, <4>2
        <5>2. QED
          BY <2>7, <5>1
      <4>4. Offset(list, l) <= Len(c)
        BY <2>7, <4>2
      <4>5. \A j \in 1 .. w : a[o + j] = list[l][j]
        BY <2>6, <3>1 DEF o, w
      <4>6. \A j \in 1 .. w : c[o + j] = list[l][j]
        BY <4>3, <4>5
      <4>7. o \in Nat /\ Offset(list, l) = o + w
        BY <4>2
      <4>8. QED
        BY <4>4, <4>6, <4>7, Zenon DEF o, w
    <3>2. CASE l = n
      <4>1. l - 1 = p /\ list[l] = b
        BY <2>1, <3>2 DEF b
      <4>2. ASSUME NEW j \in 1 .. Len(b) PROVE c[Len(a) + j] = b[j]
        <5>1. Len(a) + j \in 1 .. Len(a) + Len(b) /\ ~(Len(a) + j <= Len(a)) /\ (Len(a) + j) - Len(a) = j
          BY <2>7
        <5>2. QED
          BY <2>7, <5>1
      <4>3. Offset(list, l - 1) = Len(a) /\ Offset(list, l) = Len(c)
        BY <2>5, <3>2, <4>1
      <4>4. Len(c) <= Len(c) /\ Len(c) = Len(a) + Len(b) /\ Len(a) \in Nat
        BY <2>7
      <4>5. QED
        BY <4>1, <4>2, <4>3, <4>4, Zenon
    <3>3. l \in 1 .. p \/ l = n
      BY <2>1
    <3>4. QED
      BY <3>1, <3>2, <3>3
  <2>9. Laid(list, n)
    BY <2>7, <2>8 DEF Laid, c
  <2>10. QED
    BY <1>3, <2>9
<1>6. QED
  BY <1>4, <1>5

(* What Make cuts off. *)
LEMMA WideCut ==
  ASSUME NEW b \in Nat \ {0}, NEW o \in Nat
  PROVE  (((o \div b) % b) * b) + (o % b) = o % (b * b)
<1> DEFINE q == o \div b
           r == o % b
           p == q \div b
           s == q % b
<1>1. q \in Nat /\ r \in 0 .. b - 1 /\ o = q * b + r
  <2>1. q \in Int /\ r \in 0 .. b - 1 /\ o = b * q + r
    OBVIOUS
  <2> HIDE DEF q, r
  <2>2. q >= 0
    <3>1. CASE q < 0
      <4>1. b * q <= b * (0 - 1)
        BY <2>1, <3>1
      <4>2. b * (0 - 1) = 0 - b
        OBVIOUS
      <4>3. QED
        BY <2>1, <4>1, <4>2
    <3>2. QED
      BY <2>1, <3>1
  <2>3. b * q = q * b
    BY <2>1
  <2>4. QED
    BY <2>1, <2>2, <2>3
<1> HIDE DEF q, r
<1>2. p \in Nat /\ s \in 0 .. b - 1 /\ q = p * b + s
  <2>1. p \in Int /\ s \in 0 .. b - 1 /\ q = b * p + s
    BY <1>1
  <2> HIDE DEF p, s
  <2>2. p >= 0
    <3>1. CASE p < 0
      <4>1. b * p <= b * (0 - 1)
        BY <2>1, <3>1
      <4>2. b * (0 - 1) = 0 - b
        OBVIOUS
      <4>3. QED
        BY <1>1, <2>1, <4>1, <4>2
    <3>2. QED
      BY <2>1, <3>1
  <2>3. b * p = p * b
    BY <2>1
  <2>4. QED
    BY <2>1, <2>2, <2>3
<1> HIDE DEF p, s
<1> DEFINE c == b * b
           t == s * b + r
<1>3. c \in Nat \ {0}
  OBVIOUS
<1>4. t \in 0 .. c - 1
  <2>1. s * b \in Nat /\ s * b <= (b - 1) * b
    BY <1>2
  <2>2. (b - 1) * b = c - b
    OBVIOUS
  <2> HIDE DEF c
  <2>3. QED
    BY <1>1, <1>3, <2>1, <2>2
<1>5. o = p * c + t
  <2>1. (p * b + s) * b = p * b * b + s * b
    BY <1>2
  <2>2. p * b * b = p * c
    BY <1>2
  <2>3. p * c \in Nat /\ s * b \in Nat
    BY <1>2
  <2>4. o = (p * b + s) * b + r
    BY <1>1, <1>2
  <2>5. QED
    BY <1>1, <2>1, <2>2, <2>3, <2>4
<1> HIDE DEF c, t
<1>6. o % c = t
  BY <1>2, <1>3, <1>4, <1>5, Remainder
<1>7. QED
  BY <1>6 DEF c, t, q, r, s

LEMMA LookupOfNumber ==
  ASSUME NEW op \in Opcodes PROVE Lookup(Number(op)) = op /\ Number(op) \in Nat
<1>1. DOMAIN Numbered = 1 .. 29
  BY DEF Numbered
<1>2. \E n \in 1 .. 29 : Numbered[n] = op
  BY SMTT(60) DEF Numbered, Opcodes, NoOperand, OneByteOperand, TwoByteOperand
<1> DEFINE n == CHOOSE m \in DOMAIN Numbered : Numbered[m] = op
<1>3. n \in 1 .. 29 /\ Numbered[n] = op
  BY <1>1, <1>2
<1>4. Number(op) = n - 1
  BY DEF Number
<1> HIDE DEF n
<1>5. Number(op) + 1 = n /\ Number(op) \in Nat
  BY <1>3, <1>4
<1>6. QED
  BY <1>3, <1>5 DEF Lookup

LEMMA PutCut ==
  ASSUME NEW o \in Nat, NEW width \in {1, 2}
  PROVE  /\ Put(o, width) \in Seq(Nat) /\ Len(Put(o, width)) = width
         /\ \A at \in Nat :
              (\A j \in 1 .. width : ins[at + j] = Put(o, width)[j])
                => Read(at, width) = o % Capacity(width)
<1>1. Byte \in Nat \ {0}
  BY ByteAssumption
<1> DEFINE b == Byte
           h == (o \div b) % b
           l == o % b
<1>2. h \in Nat /\ l \in Nat /\ (h * b) + l = o % (b * b)
  <2>1. b \in Nat \ {0}
    BY <1>1
  <2> HIDE DEF b
  <2>2. o \div b \in Int
    BY <2>1
  <2>3. h \in Nat /\ l \in Nat
    BY <2>1, <2>2
  <2>4. QED
    BY <2>1, <2>3, WideCut
<1>3. Put(o, 1) = <<l>> /\ Put(o, 2) = <<h, l>>
  BY DEF Put
<1>4. Capacity(1) = b /\ Capacity(2) = b * b
  BY DEF Capacity
<1>5. /\ \A at : Read(at, 1) = ins[at + 1]
      /\ \A at : Read(at, 2) = ins[at + 1] * b + ins[at + 2]
  BY DEF Read
<1>6. l = o % b
  OBVIOUS
<1> HIDE DEF b, h, l
<1>7. /\ <<l>> \in Seq(Nat) /\ Len(<<l>>) = 1 /\ <<l>>[1] = l
      /\ <<h, l>> \in Seq(Nat) /\ Len(<<h, l>>) = 2 /\ <<h, l>>[1] = h /\ <<h, l>>[2] = l
  BY <1>2
<1>8. 1 \in 1 .. 1 /\ 1 \in 1 .. 2 /\ 2 \in 1 .. 2
  OBVIOUS
<1>9. CASE width = 1
  <2>1. \A at \in Nat : (\A j \in 1 .. 1 : ins[at + j] = <<l>>[j]) => ins[at + 1] = l
    BY <1>7, <1>8
  <2>2. QED
    BY <1>3, <1>4, <1>5, <1>6, <1>7, <1>9, <2>1
<1>10. CASE width = 2
  <2>1. \A at \in Nat : (\A j \in 1 .. 2 : ins[at + j] = <<h, l>>[j])
                          => ins[at + 1] = h /\ ins[at + 2] = l
    BY <1>7, <1>8
  <2>2. QED
    BY <1>2, <1>3, <1>4, <1>5, <1>7, <1>10, <2>1
<1>11. QED
  BY <1>9, <1>10

(* What ReadOperands reads where Make has written is what Make has kept.   *)
IsWritten(op, operands) ==
  op \in Opcodes /\ operands \in Seq(Nat) /\ Len(operands) = Len(OperandWidth(op))

Stands(bytes, op, operands) ==
  /\ bytes \in Seq(Nat) /\ Len(bytes) = InstrLen(op) /\ bytes[1] = Number(op)
  /\ \A at \in Nat :
       (\A j \in 1 .. Len(bytes) : ins[at + j] = bytes[j])
         => ReadOperands(op, at + 1) = Make(op, operands).args

LEMMA MakeStands ==
  ASSUME NEW op, NEW operands, IsWritten(op, operands)
  PROVE  Stands(MakeBytes(op, operands), op, operands)
<1> DEFINE widths == OperandWidth(op)
           parts  == [n \in DOMAIN widths |-> Put(operands[n], widths[n])]
           head   == <<Number(op)>>
           rest   == FlattenSeq(parts)
           args   == [n \in DOMAIN operands |-> operands[n] % Capacity(widths[n])]
<1>1. /\ op \in Opcodes /\ operands \in Seq(Nat) /\ Len(operands) = Len(widths)
      /\ Number(op) \in Nat
  BY LookupOfNumber DEF IsWritten
<1>2. \/ widths = <<>> /\ InstrLen(op) = 1
      \/ widths = <<1>> /\ InstrLen(op) = 2
      \/ widths = <<2>> /\ InstrLen(op) = 3
      \/ widths = <<2, 1>> /\ InstrLen(op) = 4
  BY <1>1, Widths, Zenon
<1>3. DOMAIN operands = DOMAIN widths /\ \A n \in DOMAIN widths : operands[n] \in Nat
  <2>1. <<>> \in Seq(Nat) /\ <<1>> \in Seq(Nat) /\ <<2>> \in Seq(Nat) /\ <<2, 1>> \in Seq(Nat)
    OBVIOUS
  <2>2. widths \in Seq(Nat)
    BY <1>2, <2>1, Zenon
  <2> HIDE DEF widths
  <2>3. DOMAIN operands = DOMAIN widths
    BY <1>1, <2>2
  <2>4. \A n \in DOMAIN operands : operands[n] \in Nat
    BY <1>1
  <2>5. QED
    BY <2>3, <2>4
<1>4. MakeBytes(op, operands) = head \o rest
  <2>1. parts = [n \in DOMAIN widths |->
                   Put(IF n \in DOMAIN operands THEN operands[n] ELSE 0, widths[n])]
    <3> HIDE DEF widths
    <3>1. QED
      BY <1>3
  <2>2. QED
    BY <2>1, Zenon DEF MakeBytes
<1>5. Make(op, operands).args = args
  BY DEF Make
<1>6. \A at : ReadOperands(op, at) =
        [n \in DOMAIN widths |-> Read(at + (IF n = 1 THEN 0 ELSE widths[1]), widths[n])]
  BY DEF ReadOperands
<1> DEFINE n0 == InstrLen(op)
<1>7. SUFFICES
        /\ rest \in Seq(Nat) /\ Len(rest) = n0 - 1 /\ n0 \in 1 .. 4
        /\ \A at \in Nat :
             (\A j \in 1 .. n0 - 1 : ins[at + 1 + j] = rest[j])
               => \A n \in DOMAIN widths :
                    Read(at + 1 + (IF n = 1 THEN 0 ELSE widths[1]), widths[n])
                      = operands[n] % Capacity(widths[n])
  <2>1. head \in Seq(Nat) /\ Len(head) = 1 /\ head[1] = Number(op)
    <3> DEFINE x == Number(op)
    <3>1. x \in Nat
      BY <1>1
    <3>2. <<x>> \in Seq(Nat) /\ Len(<<x>>) = 1 /\ <<x>>[1] = x
      <4> HIDE DEF x
      <4>1. QED
        BY <3>1
    <3>3. QED
      BY <3>2
  <2> DEFINE bytes == head \o rest
  <2> HIDE DEF head, rest
  <2>2. /\ bytes \in Seq(Nat) /\ Len(bytes) = Len(head) + Len(rest)
        /\ \A j \in 1 .. Len(head) + Len(rest) :
             bytes[j] = IF j <= Len(head) THEN head[j] ELSE rest[j - Len(head)]
    BY <1>7, <2>1, ConcatProperties
  <2> HIDE DEF bytes, n0
  <2>3. Len(bytes) = n0 /\ bytes[1] = Number(op)
    BY <1>7, <2>1, <2>2
  <2>4. ASSUME NEW at \in Nat, \A j \in 1 .. n0 : ins[at + j] = bytes[j]
        PROVE  \A j \in 1 .. n0 - 1 : ins[at + 1 + j] = rest[j]
    <3>1. SUFFICES ASSUME NEW j \in 1 .. n0 - 1 PROVE ins[at + 1 + j] = rest[j]
      OBVIOUS
    <3>2. j + 1 \in 1 .. n0 /\ ~(j + 1 <= 1) /\ (j + 1) - 1 = j /\ at + (j + 1) = at + 1 + j
      BY <1>7
    <3>3. bytes[j + 1] = rest[j]
      <4>1. Len(head) + Len(rest) = n0
        BY <2>2, <2>3
      <4>2. bytes[j + 1] = IF j + 1 <= 1 THEN head[j + 1] ELSE rest[(j + 1) - 1]
        BY <2>1, <2>2, <3>2, <4>1
      <4>3. QED
        BY <3>2, <4>2
    <3>4. ins[at + (j + 1)] = bytes[j + 1]
      BY <2>4, <3>2
    <3>5. QED
      BY <3>2, <3>3, <3>4
  <2>5. ASSUME NEW at \in Nat, \A j \in 1 .. n0 : ins[at + j] = bytes[j]
        PROVE  ReadOperands(op, at + 1) = args
    <3>1. \A n \in DOMAIN widths :
            Read(at + 1 + (IF n = 1 THEN 0 ELSE widths[1]), widths[n])
              = operands[n] % Capacity(widths[n])
      BY <1>7, <2>4, <2>5
    <3> HIDE DEF widths
    <3>2. QED
      BY <1>3, <1>6, <3>1
  <2>6. QED
    BY <1>4, <1>5, <2>2, <2>3, <2>5 DEF Stands, bytes, n0
<1>8. CASE widths = <<>> /\ InstrLen(op) = 1
  <2>1. DOMAIN widths = {} /\ parts = <<>>
    BY <1>8
  <2>2. <<>> \in Seq(Nat) /\ Len(<<>>) = 0
    OBVIOUS
  <2>3. rest = <<>>
    BY <2>1, <2>2, FlattenNothing
  <2>4. Len(rest) = n0 - 1
    BY <1>8, <2>2, <2>3
  <2>5. n0 = 1 /\ 1 \in 1 .. 4
    BY <1>8
  <2> HIDE DEF rest, widths, n0
  <2>6. rest \in Seq(Nat) /\ \A n : n \notin DOMAIN widths
    BY <2>1, <2>2, <2>3
  <2>7. QED
    BY <2>4, <2>5, <2>6
<1>9. ASSUME NEW w \in {1, 2}, widths = <<w>>, InstrLen(op) = w + 1
      PROVE  /\ rest \in Seq(Nat) /\ Len(rest) = n0 - 1 /\ n0 \in 1 .. 4
             /\ \A at \in Nat :
                  (\A j \in 1 .. n0 - 1 : ins[at + 1 + j] = rest[j])
                    => \A n \in DOMAIN widths :
                         Read(at + 1 + (IF n = 1 THEN 0 ELSE widths[1]), widths[n])
                           = operands[n] % Capacity(widths[n])
  <2>1. DOMAIN widths = {1} /\ widths[1] = w /\ {1} = 1 .. 1
    BY <1>9
  <2> DEFINE o == operands[1]
  <2>2. o \in Nat
    <3> HIDE DEF widths
    <3>1. QED
      BY <1>3, <2>1
  <2>3. DOMAIN parts = 1 .. 1 /\ parts[1] = Put(o, w)
    BY <2>1
  <2>4. rest = Put(o, w)
    <3>1. Len(parts) = 1
      BY <2>3
    <3> HIDE DEF parts
    <3>2. QED
      BY <2>3, <3>1, FlattenOne
  <2> HIDE DEF o, rest, widths
  <2>5. /\ Put(o, w) \in Seq(Nat) /\ Len(Put(o, w)) = w
        /\ \A at \in Nat : (\A j \in 1 .. w : ins[at + j] = Put(o, w)[j])
                             => Read(at, w) = o % Capacity(w)
    BY <2>2, PutCut
  <2>6. n0 - 1 = w /\ n0 \in 1 .. 4
    BY <1>9
  <2> HIDE DEF n0
  <2>7. \A at \in Nat : at + 1 \in Nat /\ at + 1 + 0 = at + 1
    OBVIOUS
  <2>8. \A at \in Nat : (\A j \in 1 .. n0 - 1 : ins[at + 1 + j] = rest[j])
                          => Read(at + 1 + 0, w) = o % Capacity(w)
    BY <2>4, <2>5, <2>6, <2>7
  <2>9. \A n \in DOMAIN widths : n = 1
    BY <2>1
  <2>10. rest \in Seq(Nat) /\ Len(rest) = n0 - 1
    BY <2>4, <2>5, <2>6
  <2>11. QED
    BY <2>1, <2>6, <2>8, <2>9, <2>10 DEF o
<1>10. ASSUME widths = <<2, 1>>, InstrLen(op) = 4
       PROVE  /\ rest \in Seq(Nat) /\ Len(rest) = n0 - 1 /\ n0 \in 1 .. 4
              /\ \A at \in Nat :
                   (\A j \in 1 .. n0 - 1 : ins[at + 1 + j] = rest[j])
                     => \A n \in DOMAIN widths :
                          Read(at + 1 + (IF n = 1 THEN 0 ELSE widths[1]), widths[n])
                            = operands[n] % Capacity(widths[n])
  <2>1. DOMAIN widths = {1, 2} /\ widths[1] = 2 /\ widths[2] = 1 /\ {1, 2} = 1 .. 2
    BY <1>10
  <2> DEFINE o == operands[1]
             u == operands[2]
             a == Put(o, 2)
             b == Put(u, 1)
  <2>2. o \in Nat /\ u \in Nat
    <3> HIDE DEF widths
    <3>1. QED
      BY <1>3, <2>1
  <2>3. DOMAIN parts = 1 .. 2 /\ parts[1] = a /\ parts[2] = b
    BY <2>1
  <2>4. rest = a \o b
    <3> DEFINE first == <<a>>
    <3>1. Len(parts) = 2 /\ Len(first) = 1 /\ first[1] = a
      BY <2>3
    <3> HIDE DEF parts, a, b
    <3>2. /\ Len(first) \in Nat /\ Len(first) # 0 /\ Len(parts) = Len(first) + 1
          /\ \A l \in 1 .. Len(first) : parts[l] = first[l]
      BY <2>3, <3>1
    <3> HIDE DEF first
    <3>3. FlattenSeq(first) = a
      BY <3>1, FlattenOne
    <3>4. FlattenSeq(parts) = FlattenSeq(first) \o parts[Len(parts)]
      BY <3>2, FlattenMore, Zenon
    <3>5. QED
      BY <2>3, <3>1, <3>3, <3>4
  <2>5. /\ a \in Seq(Nat) /\ Len(a) = 2
        /\ \A at \in Nat : (\A j \in 1 .. 2 : ins[at + j] = a[j]) => Read(at, 2) = o % Capacity(2)
    BY <2>2, PutCut
  <2>6. /\ b \in Seq(Nat) /\ Len(b) = 1
        /\ \A at \in Nat : (\A j \in 1 .. 1 : ins[at + j] = b[j]) => Read(at, 1) = u % Capacity(1)
    BY <2>2, PutCut
  <2> HIDE DEF a, b, o, u, rest, widths
  <2>7. /\ rest \in Seq(Nat) /\ Len(rest) = Len(a) + Len(b)
        /\ \A j \in 1 .. Len(a) + Len(b) : rest[j] = IF j <= Len(a) THEN a[j] ELSE b[j - Len(a)]
    BY <2>4, <2>5, <2>6, ConcatProperties
  <2>8. Len(rest) = 3 /\ rest[1] = a[1] /\ rest[2] = a[2] /\ rest[3] = b[1]
    BY <2>5, <2>6, <2>7
  <2>9. n0 = 4
    BY <1>10
  <2> HIDE DEF n0
  <2>10. ASSUME NEW at \in Nat, \A j \in 1 .. n0 - 1 : ins[at + 1 + j] = rest[j]
         PROVE  Read(at + 1 + 0, 2) = o % Capacity(2) /\ Read(at + 1 + 2, 1) = u % Capacity(1)
    <3>1. 1 \in 1 .. n0 - 1 /\ 2 \in 1 .. n0 - 1 /\ 3 \in 1 .. n0 - 1
      BY <2>9
    <3>2. ins[at + 1 + 1] = a[1] /\ ins[at + 1 + 2] = a[2] /\ ins[at + 1 + 3] = b[1]
      BY <2>8, <2>10, <3>1
    <3>3. /\ at + 1 + 0 \in Nat /\ at + 1 + 2 \in Nat
          /\ (at + 1 + 0) + 1 = at + 1 + 1 /\ (at + 1 + 0) + 2 = at + 1 + 2 /\ (at + 1 + 2) + 1 = at + 1 + 3
          /\ \A j \in 1 .. 2 : j = 1 \/ j = 2
          /\ \A j \in 1 .. 1 : j = 1
      OBVIOUS
    <3>4. \A j \in 1 .. 2 : ins[(at + 1 + 0) + j] = a[j]
      BY <3>2, <3>3
    <3>5. \A j \in 1 .. 1 : ins[(at + 1 + 2) + j] = b[j]
      BY <3>2, <3>3
    <3>6. QED
      BY <2>5, <2>6, <3>3, <3>4, <3>5
  <2>11. ASSUME NEW at \in Nat, \A j \in 1 .. n0 - 1 : ins[at + 1 + j] = rest[j],
                NEW n \in DOMAIN widths
         PROVE  Read(at + 1 + (IF n = 1 THEN 0 ELSE widths[1]), widths[n])
                  = operands[n] % Capacity(widths[n])
    <3>1. Read(at + 1 + 0, 2) = o % Capacity(2) /\ Read(at + 1 + 2, 1) = u % Capacity(1)
      BY <2>10, <2>11
    <3>2. CASE n = 1
      BY <2>1, <3>1, <3>2 DEF o
    <3>3. CASE n = 2
      BY <2>1, <3>1, <3>3 DEF u
    <3>4. QED
      BY <2>1, <3>2, <3>3
  <2>12. Len(rest) = n0 - 1 /\ n0 \in 1 .. 4
    BY <2>8, <2>9
  <2>13. QED
    BY <2>7, <2>11, <2>12
<1>11. CASE widths = <<1>> /\ InstrLen(op) = 2
  BY <1>9, <1>11
<1>12. CASE widths = <<2>> /\ InstrLen(op) = 3
  BY <1>9, <1>12
<1>13. QED
  BY <1>2, <1>8, <1>10, <1>11, <1>12

--------------------------------------------------------------------------------
(* How much of the code a stream was made of has been printed.             *)
Enc(code) == [n \in DOMAIN code |-> MakeBytes(code[n][1], code[n][2])]

Printing(code) ==
  LET k == Len(out) IN
  /\ k <= Len(code)
  /\ i = Offset(Enc(code), k)
  /\ \A n \in 1 .. k : /\ out[n].op = code[n][1]
                       /\ out[n].args = Make(code[n][1], code[n][2]).args

RecordsInv ==
  /\ IInv
  /\ status = "printed" => i = Len(ins)
  /\ \A code \in Codes : Encoding(code) = ins => Printing(code)

LEMMA CodeParts ==
  ASSUME NEW code \in Codes
  PROVE  /\ Len(code) \in Nat /\ DOMAIN code = 1 .. Len(code)
         /\ \A n \in 1 .. Len(code) : IsWritten(code[n][1], code[n][2])
         /\ \A n \in 1 .. Len(code) : Enc(code)[n] = MakeBytes(code[n][1], code[n][2])
         /\ Parts(Enc(code), Len(code))
         /\ Encoding(code) = FlattenSeq(First(Enc(code), Len(code)))
<1>1. code \in Seq(Opcodes \X Seq(Nat))
  BY CodesAssumption
<1> DEFINE k == Len(code)
<1>2. k \in Nat /\ DOMAIN code = 1 .. k /\ \A n \in 1 .. k : code[n] \in Opcodes \X Seq(Nat)
  BY <1>1
<1> HIDE DEF k
<1>3. \A n \in 1 .. k : IsWritten(code[n][1], code[n][2])
  BY <1>2, CodesAssumption DEF IsWritten
<1>4. DOMAIN Enc(code) = 1 .. k /\ \A n \in 1 .. k : Enc(code)[n] = MakeBytes(code[n][1], code[n][2])
  BY <1>2 DEF Enc
<1>5. \A n \in 1 .. k : MakeBytes(code[n][1], code[n][2]) \in Seq(Nat)
  BY <1>3, MakeStands DEF Stands
<1>6. Parts(Enc(code), k)
  BY <1>4, <1>5 DEF Parts
<1>7. First(Enc(code), k) = Enc(code)
  BY <1>2, <1>4 DEF First, Enc
<1>8. Encoding(code) = FlattenSeq(Enc(code))
  BY DEF Encoding, Enc
<1>9. QED
  BY <1>2, <1>3, <1>4, <1>6, <1>7, <1>8 DEF k

(* The next instruction of the code is what is in front of String.         *)
LEMMA NextInstruction ==
  ASSUME NEW code \in Codes, Encoding(code) = ins, NEW n \in 1 .. Len(code)
  PROVE  LET op == code[n][1]
             at == Offset(Enc(code), n - 1)
         IN  /\ at \in Nat
             /\ InstrLen(op) \in Nat \ {0}
             /\ Offset(Enc(code), n) = at + InstrLen(op)
             /\ Offset(Enc(code), n) <= Len(ins)
             /\ Lookup(ins[at + 1]) = op
             /\ ReadOperands(op, at + 1) = Make(op, code[n][2]).args
<1> DEFINE op    == code[n][1]
           bytes == MakeBytes(op, code[n][2])
           at    == Offset(Enc(code), n - 1)
           k     == Len(code)
<1>1. /\ k \in Nat /\ IsWritten(op, code[n][2]) /\ Enc(code)[n] = bytes
      /\ Parts(Enc(code), k) /\ ins = FlattenSeq(First(Enc(code), k))
  BY CodeParts
<1>2. Laid(Enc(code), k)
  <2>1. k \in 0 .. k
    BY <1>1
  <2> HIDE DEF k
  <2>2. QED
    BY <1>1, <2>1, PartsLaid
<1>3. n \in 1 .. k
  OBVIOUS
<1>4. /\ at \in Nat
      /\ Offset(Enc(code), n) = at + Len(bytes)
      /\ Offset(Enc(code), n) <= Len(ins)
      /\ \A j \in 1 .. Len(bytes) : ins[at + j] = bytes[j]
  <2> HIDE DEF bytes, k
  <2>1. QED
    BY <1>1, <1>2, <1>3 DEF Laid
<1>5. Stands(bytes, op, code[n][2]) /\ op \in Opcodes
  BY <1>1, MakeStands DEF IsWritten
<1> HIDE DEF op, bytes, at, k
<1>6. InstrLen(op) \in Nat \ {0} /\ Lookup(Number(op)) = op
  BY <1>5, Widths, LookupOfNumber
<1>7. Len(bytes) = InstrLen(op) /\ bytes[1] = Number(op)
  BY <1>5 DEF Stands
<1>8. ins[at + 1] = Number(op)
  <2>1. 1 \in 1 .. Len(bytes)
    BY <1>6, <1>7
  <2>2. QED
    BY <1>4, <1>7, <2>1
<1>9. ReadOperands(op, at + 1) = Make(op, code[n][2]).args
  BY <1>4, <1>5 DEF Stands
<1>10. QED
  BY <1>4, <1>6, <1>7, <1>8, <1>9 DEF op, at

LEMMA RecordPrinted ==
  ASSUME RecordsInv, PrintInstruction, NEW code \in Codes, Encoding(code) = ins
  PROVE  Printing(code)'
<1> DEFINE k == Len(out)
<1>1. /\ k <= Len(code) /\ i = Offset(Enc(code), k)
      /\ \A n \in 1 .. k : /\ out[n].op = code[n][1]
                           /\ out[n].args = Make(code[n][1], code[n][2]).args
  BY DEF RecordsInv, Printing
<1>2. /\ i < Len(ins) /\ i' = i + InstrLen(Op)
      /\ out' = Append(out, [at |-> i, op |-> Op, args |-> ReadOperands(Op, i + 1)])
  BY DEF PrintInstruction, Reading
<1> DEFINE line == [at |-> i, op |-> Op, args |-> ReadOperands(Op, i + 1)]
<1>3. line.op = Op /\ line.args = ReadOperands(Op, i + 1)
  OBVIOUS
<1>4. /\ k \in Nat /\ DOMAIN out' = 1 .. k + 1 /\ Len(out') = k + 1 /\ out'[k + 1] = line
      /\ \A l \in 1 .. k : out'[l] = out[l]
  <2>1. out \in Seq(Line) /\ line \in Line
    <3>1. IInv
      BY DEF RecordsInv
    <3>2. i \in Nat /\ i + 1 \in 1 .. Len(ins) /\ ins \in Seq(Bytes)
      BY <1>2, <3>1 DEF IInv
    <3>3. ins[i + 1] \in Bytes
      BY <3>2
    <3>4. Op \in Opcodes /\ Number(Op) = ins[i + 1]
      BY <3>3, NumberOfLookup DEF PrintInstruction, Op
    <3>5. ReadOperands(Op, i + 1) \in Seq(Nat)
      BY <3>2, <3>4, MadeAgain DEF PrintInstruction, Complete
    <3>6. QED
      BY <3>1, <3>2, <3>4, <3>5 DEF Line, IInv
  <2> HIDE DEF line
  <2>2. out' = Append(out, line)
    BY <1>2 DEF line
  <2>3. QED
    BY <2>1, <2>2, AppendProperties
<1> HIDE DEF k, line
<1>5. k + 1 \in 1 .. Len(code) /\ k + 1 - 1 = k
  <2>1. Len(code) \in Nat /\ ins = FlattenSeq(First(Enc(code), Len(code)))
    BY CodeParts
  <2>2. k # Len(code)
    <3>1. Offset(Enc(code), Len(code)) = Len(ins)
      BY <2>1 DEF Offset
    <3>2. i \in Nat /\ Len(ins) \in Nat
      BY DEF RecordsInv, IInv
    <3>3. QED
      BY <1>1, <1>2, <3>1, <3>2
  <2>3. QED
    BY <1>1, <1>4, <2>1, <2>2
<1> DEFINE op == code[k + 1][1]
<1>6. /\ Offset(Enc(code), k + 1) = i + InstrLen(op)
      /\ Lookup(ins[i + 1]) = op
      /\ ReadOperands(op, i + 1) = Make(op, code[k + 1][2]).args
  <2> DEFINE n == k + 1
  <2>1. n \in 1 .. Len(code) /\ n - 1 = k
    <3>1. k \in Nat /\ k + 1 \in 1 .. Len(code)
      BY <1>4, <1>5
    <3> HIDE DEF op
    <3>2. QED
      BY <3>1
  <2> HIDE DEF n
  <2>2. /\ Offset(Enc(code), n) = Offset(Enc(code), n - 1) + InstrLen(code[n][1])
        /\ Lookup(ins[Offset(Enc(code), n - 1) + 1]) = code[n][1]
        /\ ReadOperands(code[n][1], Offset(Enc(code), n - 1) + 1)
             = Make(code[n][1], code[n][2]).args
    BY <2>1, NextInstruction, Zenon
  <2>3. QED
    BY <1>1, <2>1, <2>2, Zenon DEF n
<1>7. Op = op
  BY <1>6 DEF Op
<1>8. i' = Offset(Enc(code), k + 1)
  BY <1>2, <1>6, <1>7
<1>9. \A n \in 1 .. k + 1 : /\ out'[n].op = code[n][1]
                            /\ out'[n].args = Make(code[n][1], code[n][2]).args
  <2>1. \A n \in 1 .. k + 1 : n \in 1 .. k \/ n = k + 1
    BY <1>4
  <2>2. QED
    BY <1>1, <1>3, <1>4, <1>6, <1>7, <2>1
<1>10. k + 1 <= Len(code)
  BY <1>5
<1>11. QED
  BY <1>4, <1>8, <1>9, <1>10 DEF Printing

LEMMA InitRecords == Init => RecordsInv
<1> SUFFICES ASSUME Init PROVE RecordsInv
  OBVIOUS
<1>1. IInv /\ i = 0 /\ out = <<>> /\ status = "printing"
  BY InitKeeps DEF Init
<1>2. ASSUME NEW code \in Codes PROVE Printing(code)
  <2>1. Len(code) \in Nat
    BY CodeParts
  <2>2. Len(out) = 0 /\ \A n \in 1 .. 0 : FALSE
    BY <1>1
  <2>3. Offset(Enc(code), 0) = 0
    BY FirstNone
  <2>4. QED
    BY <1>1, <2>1, <2>2, <2>3 DEF Printing
<1>3. QED
  BY <1>1, <1>2 DEF RecordsInv

LEMMA NextRecords == RecordsInv /\ [Next]_vars => RecordsInv'
<1> SUFFICES ASSUME RecordsInv, [Next]_vars PROVE RecordsInv'
  OBVIOUS
<1>1. IInv'
  BY NextKeeps DEF RecordsInv
<1>2. CASE PrintInstruction
  <2>1. ins' = ins /\ status' = status /\ status # "printed"
    BY <1>2 DEF PrintInstruction, Reading
  <2>2. \A code \in Codes : Encoding(code) = ins' => Printing(code)'
    BY <1>2, <2>1, RecordPrinted
  <2>3. QED
    BY <1>1, <2>1, <2>2 DEF RecordsInv
<1>3. CASE Return
  <2>1. ins' = ins /\ i' = i /\ out' = out /\ i >= Len(ins)
    BY <1>3 DEF Return
  <2>2. i = Len(ins)
    <3>1. i \in 0 .. Len(ins) /\ Len(ins) \in Nat
      BY DEF RecordsInv, IInv
    <3>2. QED
      BY <2>1, <3>1
  <2>3. QED
    BY <1>1, <2>1, <2>2 DEF RecordsInv, Printing, Offset
<1>4. CASE ReadBehindTheEnd \/ ReportUnknownOpcode \/ Stopped \/ UNCHANGED vars
  <2>1. ins' = ins /\ i' = i /\ out' = out /\ (status' = "printed" => status = "printed")
    BY <1>4 DEF ReadBehindTheEnd, ReportUnknownOpcode, Stopped, vars
  <2>2. QED
    BY <1>1, <2>1 DEF RecordsInv, Printing, Offset
<1>5. QED
  BY <1>2, <1>3, <1>4 DEF Next, Step

(* What the other modules take an instruction for, a record with the       *)
(* operands cut to their widths, is what String finds in the bytes that    *)
(* Make wrote: as many instructions, in the same order.                    *)
THEOREM RecordsAreBytes == Spec => []RecordsStandForBytes
<1>1. RecordsInv => RecordsStandForBytes
  <2> SUFFICES ASSUME RecordsInv, status = "printed", NEW code \in Codes, Encodings[code] = ins
               PROVE  [n \in DOMAIN out |-> [op |-> out[n].op, args |-> out[n].args]]
                        = [n \in DOMAIN code |-> Make(code[n][1], code[n][2])]
    BY DEF RecordsStandForBytes
  <2>1. Encoding(code) = ins
    BY DEF Encodings
  <2> DEFINE k == Len(out)
             m == Len(code)
  <2>2. /\ k <= m /\ i = Offset(Enc(code), k)
        /\ \A n \in 1 .. k : /\ out[n].op = code[n][1]
                             /\ out[n].args = Make(code[n][1], code[n][2]).args
    BY <2>1 DEF RecordsInv, Printing
  <2>3. m \in Nat /\ DOMAIN code = 1 .. m
    BY CodeParts
  <2>4. k \in Nat /\ DOMAIN out = 1 .. k /\ i = Len(ins) /\ i \in Nat
    BY DEF RecordsInv, IInv
  <2> HIDE DEF k
  <2>5. ~(k < m)
    <3>1. SUFFICES ASSUME k < m PROVE FALSE
      OBVIOUS
    <3>2. k + 1 \in 1 .. m /\ k + 1 - 1 = k
      BY <2>3, <2>4, <3>1
    <3> DEFINE w == InstrLen(code[k + 1][1])
    <3>3. w \in Nat \ {0} /\ i + w <= Len(ins)
      <4> DEFINE n == k + 1
      <4>1. n \in 1 .. Len(code) /\ n - 1 = k
        <5>1. k \in Nat /\ k + 1 \in 1 .. m
          BY <2>4, <3>2
        <5>2. QED
          BY <5>1
      <4> HIDE DEF n, m
      <4>2. /\ InstrLen(code[n][1]) \in Nat \ {0}
            /\ Offset(Enc(code), n) = Offset(Enc(code), n - 1) + InstrLen(code[n][1])
            /\ Offset(Enc(code), n) <= Len(ins)
        BY <2>1, <4>1, NextInstruction, Zenon
      <4>3. QED
        BY <2>2, <4>1, <4>2 DEF n
    <3> HIDE DEF w
    <3>4. QED
      BY <2>4, <3>3
  <2> HIDE DEF m
  <2>6. k = m
    BY <2>2, <2>3, <2>4, <2>5
  <2>7. \A n \in 1 .. m : Make(code[n][1], code[n][2]) =
          [op |-> out[n].op, args |-> out[n].args]
    BY <2>2, <2>6 DEF Make
  <2>8. QED
    BY <2>3, <2>4, <2>6, <2>7
<1>2. QED
  BY <1>1, InitRecords, NextRecords, PTL DEF Spec

================================================================================
