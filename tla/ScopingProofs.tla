----------------------------- MODULE ScopingProofs -----------------------------
(***************************************************************************)
(* The symbol table, for any set of names, any list of built-ins, any      *)
(* depth and any number of definitions: the invariants of Scoping hold,    *)
(* and emitted indices keep their meaning.                                 *)
(*                                                                         *)
(* The invariants are proved together.  Resolve extends tables at every    *)
(* level between the owner of the name and the current one, and what it    *)
(* adds at one level is right only because the next outer level was        *)
(* extended in the same call.                                              *)
(***************************************************************************)
EXTENDS Scoping, WellOrder

(* The invariants of Scoping together: the inductive invariant.            *)
IInv ==
  /\ TypeOK
  /\ WellScoped
  /\ FreeMatchesOuter
  /\ SlotsDistinct

--------------------------------------------------------------------------------

(* The table in which a lookup ends exists: it is the innermost one that   *)
(* knows the name.                                                         *)
LEMMA OwnerExists ==
  ASSUME NEW ts \in Seq(Table), NEW name \in Names, Known(ts, name)
  PROVE  /\ OwnerLevel(ts, name) \in 1 .. Len(ts)
         /\ Bound(ts[OwnerLevel(ts, name)], name)
         /\ \A m \in 1 .. Len(ts) :
              m > OwnerLevel(ts, name) => ~Bound(ts[m], name)
<1> DEFINE K == {l \in 1 .. Len(ts) : Bound(ts[l], name)}
<1>1. DOMAIN ts = 1 .. Len(ts) /\ Len(ts) \in Nat
  OBVIOUS
<1>2. K \subseteq Nat /\ K # {}
  BY <1>1 DEF Known
<1>3. \A l \in K : l <= Len(ts)
  BY <1>1
<1>4. PICK o \in K : \A l \in K : l <= o
  <2> HIDE DEF K
  <2>1. QED
    BY <1>1, <1>2, <1>3, GreatestElement
<1>5. \A m \in 1 .. Len(ts) : m > o => ~Bound(ts[m], name)
  BY <1>1, <1>4
<1>6. o \in DOMAIN ts /\ Bound(ts[o], name)
  BY <1>1
<1>7. QED
  BY <1>1, <1>5, <1>6 DEF OwnerLevel

(* A built-in's symbol is a symbol: its index is a position of             *)
(* object.Builtins.                                                        *)
LEMMA BuiltinSymbolType ==
  ASSUME NEW name \in Names, IsBuiltin(name)
  PROVE  /\ BuiltinSymbol(name) \in Symbol
         /\ BuiltinSymbol(name).index + 1 \in DOMAIN Builtins
         /\ Builtins[BuiltinSymbol(name).index + 1] = name
<1>1. PICK j \in DOMAIN Builtins : Builtins[j] = name
  BY DEF IsBuiltin
<1> DEFINE c == CHOOSE i \in DOMAIN Builtins : Builtins[i] = name
<1>2. c \in DOMAIN Builtins /\ Builtins[c] = name
  BY <1>1
<1>3. c \in Nat \ {0}
  BY <1>2, BuiltinsAssumption
<1>4. BuiltinSymbol(name) = [name |-> name, scope |-> Builtin, index |-> c - 1]
  BY DEF BuiltinSymbol
<1>5. c - 1 \in Nat /\ (c - 1) + 1 = c
  BY <1>3
<1> HIDE DEF c
<1>6. QED
  BY <1>2, <1>4, <1>5 DEF Symbol, Scopes, Builtin

LEMMA InitIInv == Init => IInv
<1> SUFFICES ASSUME Init PROVE IInv
  OBVIOUS
<1> USE DEF Init
<1>1. BuiltinTable \in Table
  <2>1. \A n \in Names : IsBuiltin(n) => BuiltinSymbol(n) \in Symbol
    BY BuiltinSymbolType
  <2>2. [n \in Names |-> IF IsBuiltin(n) THEN BuiltinSymbol(n) ELSE Unbound]
          \in [Names -> Symbol \union {Unbound}]
    BY <2>1
  <2>3. BuiltinTable =
          [ store |-> [n \in Names |-> IF IsBuiltin(n) THEN BuiltinSymbol(n)
                                      ELSE Unbound],
            numDefinitions |-> 0,
            free |-> <<>> ]
    BY DEF BuiltinTable, NewSymbolTable
  <2>4. QED
    BY <2>2, <2>3 DEF Table
<1>2. tables \in Seq(Table) /\ Len(tables) = 1 /\ tables[1] = BuiltinTable
  BY <1>1
<1>3. TypeOK
  BY <1>2 DEF TypeOK
<1>4. BuiltinTable.free = <<>>
  BY DEF BuiltinTable, NewSymbolTable
<1>5. \A n \in BoundNames(BuiltinTable) :
        IsBuiltin(n) /\ BuiltinTable.store[n] = BuiltinSymbol(n)
  BY DEF BoundNames, Bound, BuiltinTable, NewSymbolTable
<1>6. WellScoped
  BY <1>2, <1>5, BuiltinSymbolType
    DEF WellScoped, TableFits, SymbolFits, BuiltinSymbol, Global, Local, Builtin, Free
<1>7. FreeMatchesOuter
  BY <1>2, <1>4 DEF FreeMatchesOuter
<1>8. SlotsDistinct
  BY <1>2, <1>5, BuiltinSymbolType DEF SlotsDistinct, DistinctSlots, BoundNames
<1>9. QED
  BY <1>3, <1>6, <1>7, <1>8 DEF IInv

(***************************************************************************)
(* Define adds one local or global symbol with a fresh index.              *)
(***************************************************************************)
LEMMA DefineShape ==
  ASSUME NEW ts \in Seq(Table), ts # <<>>, NEW name \in Names
  PROVE  LET L == Len(ts)
             r == Define(ts, name)
             symbol == DefinedSymbol(ts, name)
         IN  /\ L \in 1 .. Len(ts)
             /\ ts[L] \in Table
             /\ symbol \in Symbol
             /\ r \in Seq(Table)
             /\ Len(r) = L
             /\ \A l \in 1 .. L : l # L => r[l] = ts[l]
             /\ r[L].store = [ts[L].store EXCEPT ![name] = symbol]
             /\ r[L].numDefinitions = ts[L].numDefinitions + 1
             /\ r[L].free = ts[L].free
<1> DEFINE L == Len(ts)
           symbol == DefinedSymbol(ts, name)
           new == [ts[L] EXCEPT !.store = [@ EXCEPT ![name] = symbol],
                                !.numDefinitions = @ + 1]
<1>1. L \in 1 .. Len(ts) /\ ts[L] \in Table
  OBVIOUS
<1>2. ts[L].numDefinitions \in Nat
  BY <1>1 DEF Table
<1>3. symbol \in Symbol
  BY <1>2 DEF DefinedSymbol, Symbol, Scopes, Global, Local
<1> DEFINE store == [ts[L].store EXCEPT ![name] = symbol]
<1> HIDE DEF symbol
<1>4. store \in [Names -> Symbol \union {Unbound}]
  BY <1>1, <1>3 DEF Table
<1> HIDE DEF store
<1>5. /\ new \in Table
      /\ new.store = store
      /\ new.numDefinitions = ts[L].numDefinitions + 1
      /\ new.free = ts[L].free
  <2> DEFINE next == ts[L].numDefinitions + 1
  <2>1. new = [ts[L] EXCEPT !.store = store, !.numDefinitions = next]
    BY DEF store
  <2>2. next \in Nat
    BY <1>2
  <2> HIDE DEF new, next, L
  <2>3. /\ new \in Table
        /\ new.store = store
        /\ new.numDefinitions = next
        /\ new.free = ts[L].free
    BY <1>1, <1>4, <2>1, <2>2 DEF Table
  <2>4. QED
    BY <2>3 DEF next
<1>6. Define(ts, name) = [ts EXCEPT ![L] = new]
  BY DEF Define, symbol
<1> HIDE DEF new
<1>7. Define(ts, name) \in Seq(Table) /\ Len(Define(ts, name)) = L
      /\ Define(ts, name)[L] = new
      /\ \A l \in 1 .. L : l # L => Define(ts, name)[l] = ts[l]
  BY <1>1, <1>5, <1>6
<1>8. QED
  BY <1>1, <1>3, <1>5, <1>7 DEF symbol, store

(***************************************************************************)
(* Resolve adds, in every table inside the owner of a captured name, one   *)
(* free symbol: the new meaning of the name in the table just outside.     *)
(***************************************************************************)
LEMMA ResolveShape ==
  ASSUME NEW ts \in Seq(Table), NEW name \in Names, Known(ts, name),
         Captured(ts, name),
         ts[OwnerLevel(ts, name)].store[name].name = name
  PROVE  LET o == OwnerLevel(ts, name)
             r == Resolve(ts, name)
             added(l) == FreeSymbol(name, Len(ts[l].free))
         IN  /\ r \in Seq(Table)
             /\ Len(r) = Len(ts)
             /\ o \in 1 .. Len(ts)
             /\ \A l \in 1 .. Len(ts) : l <= o => r[l] = ts[l]
             /\ \A l \in 1 .. Len(ts) : l > o =>
                  /\ ~Bound(ts[l], name)
                  /\ l - 1 \in 1 .. Len(ts)
                  /\ r[l].store = [ts[l].store EXCEPT ![name] = added(l)]
                  /\ r[l].numDefinitions = ts[l].numDefinitions
                  /\ r[l].free = Append(ts[l].free, r[l - 1].store[name])
             /\ r[o].store[name] \in Symbol
             /\ InFrame(r[o].store[name])
<1> DEFINE o == OwnerLevel(ts, name)
           r == Resolve(ts, name)
           added(l) == FreeSymbol(name, Len(ts[l].free))
<1>1. /\ o \in 1 .. Len(ts)
      /\ Bound(ts[o], name)
      /\ \A m \in 1 .. Len(ts) : m > o => ~Bound(ts[m], name)
  BY OwnerExists
<1>2. \A l \in 1 .. Len(ts) : ts[l] \in Table /\ Len(ts[l].free) \in Nat
  <2>1. \A l \in 1 .. Len(ts) : ts[l] \in Table
    OBVIOUS
  <2>2. QED
    BY <2>1 DEF Table
<1>3. ts[o].store[name] \in Symbol
  BY <1>1, <1>2 DEF Table, Bound
<1>4. \A l \in 1 .. Len(ts) : added(l) \in Symbol /\ added(l).name = name
  BY <1>2 DEF FreeSymbol, Symbol, Scopes, Free
<1>5. o < Len(ts) /\ InFrame(ts[o].store[name])
  BY DEF Captured
<1>6. r = [l \in 1 .. Len(ts) |->
             IF l > o THEN DefineFree(ts[l], Original(ts, name, l - 1))
             ELSE ts[l]]
  BY DEF Resolve
<1>7. ASSUME NEW l \in 1 .. Len(ts), l > o
      PROVE  /\ l - 1 \in 1 .. Len(ts)
             /\ Original(ts, name, l - 1) \in Symbol
             /\ Original(ts, name, l - 1).name = name
             /\ Original(ts, name, l - 1) =
                  IF l - 1 = o THEN ts[o].store[name] ELSE added(l - 1)
  <2>1. l - 1 \in 1 .. Len(ts) /\ l - 1 >= o
    BY <1>1, <1>7
  <2>2. QED
    BY <1>3, <1>4, <2>1 DEF Original
<1> HIDE DEF o, r, added
<1>8. ASSUME NEW l \in 1 .. Len(ts), l > o
      PROVE  /\ r[l].store = [ts[l].store EXCEPT ![name] = added(l)]
             /\ r[l].numDefinitions = ts[l].numDefinitions
             /\ r[l].free = Append(ts[l].free, Original(ts, name, l - 1))
             /\ r[l] \in Table
  <2> DEFINE original == Original(ts, name, l - 1)
  <2>1. original \in Symbol /\ original.name = name
    BY <1>7, <1>8
  <2>2. r[l] = DefineFree(ts[l], original)
    BY <1>6, <1>8
  <2>3. ts[l] \in Table
    BY <1>2
  <2> DEFINE store == [ts[l].store EXCEPT ![name] = added(l)]
             free == Append(ts[l].free, original)
  <2>4. store \in [Names -> Symbol \union {Unbound}]
    BY <1>4, <2>3 DEF Table
  <2> HIDE DEF original
  <2>5. free \in Seq(Symbol)
    BY <2>1, <2>3 DEF Table
  <2>6. r[l] = [ts[l] EXCEPT !.free = free, !.store = store]
    BY <2>1, <2>2 DEF DefineFree, added
  <2> HIDE DEF store, free
  <2>7. /\ r[l] \in Table
        /\ r[l].store = store
        /\ r[l].numDefinitions = ts[l].numDefinitions
        /\ r[l].free = free
    BY <2>3, <2>4, <2>5, <2>6 DEF Table
  <2>8. QED
    BY <2>7 DEF store, free, original
<1>9. \A l \in 1 .. Len(ts) : l <= o => r[l] = ts[l]
  BY <1>1, <1>6
<1>10. r \in Seq(Table) /\ Len(r) = Len(ts)
  <2>1. ASSUME NEW l \in 1 .. Len(ts) PROVE r[l] \in Table
    <3>1. l > o \/ l <= o
      BY <1>1
    <3>2. QED
      BY <1>2, <1>8, <1>9, <3>1
  <2>2. r \in [1 .. Len(ts) -> Table]
    BY <1>6, <2>1
  <2>3. Len(ts) \in Nat
    OBVIOUS
  <2>4. QED
    BY <2>2, <2>3
<1>11. ASSUME NEW l \in 1 .. Len(ts), l > o
       PROVE  Original(ts, name, l - 1) = r[l - 1].store[name]
  <2>1. l - 1 \in 1 .. Len(ts) /\ ts[l - 1] \in Table
    BY <1>2, <1>7, <1>11
  <2>2. CASE l - 1 = o
    BY <1>7, <1>9, <1>11, <2>1, <2>2
  <2>3. CASE l - 1 # o
    <3>1. l - 1 > o
      BY <1>1, <1>11, <2>1, <2>3
    <3>2. PICK k \in 1 .. Len(ts) : k = l - 1
      BY <2>1
    <3>3. r[k].store = [ts[k].store EXCEPT ![name] = added(k)]
      BY <1>8, <3>1, <3>2
    <3>4. r[k].store[name] = added(k)
      BY <2>1, <3>2, <3>3 DEF Table
    <3>5. QED
      BY <1>7, <1>11, <2>3, <3>2, <3>4
  <2>4. QED
    BY <2>2, <2>3
<1>12. ASSUME NEW l \in 1 .. Len(ts), l > o
       PROVE  /\ ~Bound(ts[l], name)
              /\ l - 1 \in 1 .. Len(ts)
              /\ r[l].store = [ts[l].store EXCEPT ![name] = added(l)]
              /\ r[l].numDefinitions = ts[l].numDefinitions
              /\ r[l].free = Append(ts[l].free, r[l - 1].store[name])
  BY <1>12, <1>1, <1>7, <1>8, <1>11
<1>13. r[o].store[name] \in Symbol /\ InFrame(r[o].store[name])
  BY <1>1, <1>3, <1>5, <1>9
<1>14. QED
  BY <1>1, <1>9, <1>10, <1>12, <1>13 DEF o, r, added

(***************************************************************************)
(* The inductive step, one lemma per operation of the table.               *)
(***************************************************************************)
LEMMA TablesType ==
  ASSUME TypeOK
  PROVE  /\ tables \in Seq(Table)
         /\ Len(tables) \in 1 .. Len(tables)
         /\ DOMAIN tables = 1 .. Len(tables)
         /\ \A l \in 1 .. Len(tables) :
              /\ tables[l] \in Table
              /\ tables[l].store \in [Names -> Symbol \union {Unbound}]
              /\ tables[l].numDefinitions \in Nat
              /\ tables[l].free \in Seq(Symbol)
<1>1. tables \in Seq(Table) /\ tables # <<>>
  BY DEF TypeOK
<1>2. Len(tables) \in 1 .. Len(tables) /\ DOMAIN tables = 1 .. Len(tables)
  BY <1>1
<1>3. \A l \in 1 .. Len(tables) : tables[l] \in Table
  BY <1>1
<1>4. QED
  BY <1>1, <1>2, <1>3 DEF Table

(* A fresh local or global symbol fits its table and shares its slot with  *)
(* no other.                                                               *)
LEMMA FreshDefinition ==
  ASSUME NEW t \in Table, NEW u \in Table, NEW level \in Nat, NEW name \in Names,
         TableFits(t, level), DistinctSlots(t),
         NEW s \in Symbol,
         s.name = name,
         s.scope = IF level = 1 THEN Global ELSE Local,
         s.index = t.numDefinitions,
         u.store = [t.store EXCEPT ![name] = s],
         u.numDefinitions = t.numDefinitions + 1,
         u.free = t.free
  PROVE  TableFits(u, level) /\ DistinctSlots(u)
<1> USE DEF Global, Local, Builtin, Free
<1>1. /\ t.store \in [Names -> Symbol \union {Unbound}]
      /\ t.numDefinitions \in Nat
  BY DEF Table
<1>2. /\ u.store[name] = s
      /\ \A n \in Names : n # name => u.store[n] = t.store[n]
  BY <1>1
<1>3. \A n \in BoundNames(u) : n # name =>
        /\ n \in BoundNames(t)
        /\ u.store[n] = t.store[n]
        /\ t.store[n] \in Symbol
        /\ t.store[n].index \in Nat
  BY <1>1, <1>2 DEF BoundNames, Bound, Symbol
<1>4. TableFits(u, level)
  <2> SUFFICES ASSUME NEW n \in BoundNames(u) PROVE SymbolFits(u, level, n)
    BY DEF TableFits
  <2>1. CASE n = name
    BY <1>1, <1>2, <2>1 DEF SymbolFits
  <2>2. CASE n # name
    <3>1. SymbolFits(t, level, n)
      BY <1>3, <2>2 DEF TableFits
    <3>2. u.store[n] = t.store[n] /\ t.store[n].index \in Nat
      BY <1>3, <2>2
    <3>3. QED
      BY <1>1, <3>1, <3>2 DEF SymbolFits
  <2>3. QED
    BY <2>1, <2>2
<1>5. ASSUME NEW k \in BoundNames(u), k # name, u.store[k].scope = s.scope
      PROVE  u.store[k].index # s.index
  <2>1. SymbolFits(t, level, k)
    BY <1>3, <1>5 DEF TableFits
  <2>2. t.store[k].index < t.numDefinitions
    BY <1>3, <1>5, <2>1 DEF SymbolFits
  <2>3. QED
    BY <1>1, <1>3, <1>5, <2>2
<1>6. DistinctSlots(u)
  BY <1>2, <1>3, <1>5 DEF DistinctSlots
<1>7. QED
  BY <1>4, <1>6

(* So does the free symbol of a name that the table did not know.          *)
LEMMA FreshCapture ==
  ASSUME NEW t \in Table, NEW u \in Table, NEW level \in Nat, NEW name \in Names,
         level > 1, TableFits(t, level), DistinctSlots(t), ~Bound(t, name),
         NEW original \in Symbol,
         original.name = name,
         u.store = [t.store EXCEPT ![name] = FreeSymbol(name, Len(t.free))],
         u.numDefinitions = t.numDefinitions,
         u.free = Append(t.free, original)
  PROVE  TableFits(u, level) /\ DistinctSlots(u)
<1> USE DEF Global, Local, Builtin, Free
<1> DEFINE s == FreeSymbol(name, Len(t.free))
<1>1. /\ t.store \in [Names -> Symbol \union {Unbound}]
      /\ t.free \in Seq(Symbol)
      /\ Len(t.free) \in Nat
  BY DEF Table
<1>2. /\ u.store[name] = s
      /\ \A n \in Names : n # name => u.store[n] = t.store[n]
  BY <1>1
<1>3. \A n \in BoundNames(u) : n # name =>
        /\ n \in BoundNames(t)
        /\ u.store[n] = t.store[n]
        /\ t.store[n] \in Symbol
        /\ t.store[n].index \in Nat
  BY <1>1, <1>2 DEF BoundNames, Bound, Symbol
<1>4. /\ s.name = name
      /\ s.scope = Free
      /\ s.index = Len(t.free)
  BY DEF FreeSymbol
<1> HIDE DEF s
<1>5. /\ Len(u.free) = Len(t.free) + 1
      /\ u.free[Len(t.free) + 1] = original
      /\ \A i \in 1 .. Len(t.free) : u.free[i] = t.free[i]
  BY <1>1
<1>6. TableFits(u, level)
  <2> SUFFICES ASSUME NEW n \in BoundNames(u) PROVE SymbolFits(u, level, n)
    BY DEF TableFits
  <2>1. CASE n = name
    BY <1>1, <1>2, <1>4, <1>5, <2>1 DEF SymbolFits
  <2>2. CASE n # name
    <3>1. SymbolFits(t, level, n)
      BY <1>3, <2>2 DEF TableFits
    <3>2. u.store[n] = t.store[n] /\ t.store[n].index \in Nat
      BY <1>3, <2>2
    <3>3. t.store[n].index < Len(t.free) =>
            u.free[t.store[n].index + 1] = t.free[t.store[n].index + 1]
      BY <1>1, <1>5, <3>2
    <3>4. t.store[n].scope = Free =>
            /\ t.store[n].index < Len(u.free)
            /\ u.free[t.store[n].index + 1].name = n
      BY <1>1, <1>5, <3>1, <3>2, <3>3 DEF SymbolFits
    <3>5. QED
      BY <3>1, <3>2, <3>4 DEF SymbolFits
  <2>3. QED
    BY <2>1, <2>2
<1>7. ASSUME NEW k \in BoundNames(u), k # name, u.store[k].scope = Free
      PROVE  u.store[k].index # s.index
  <2>1. SymbolFits(t, level, k)
    BY <1>3, <1>7 DEF TableFits
  <2>2. t.store[k].index < Len(t.free)
    BY <1>3, <1>7, <2>1 DEF SymbolFits
  <2>3. QED
    BY <1>1, <1>3, <1>4, <1>7, <2>2
<1>8. DistinctSlots(u)
  BY <1>2, <1>3, <1>4, <1>7 DEF DistinctSlots
<1>9. QED
  BY <1>6, <1>8

LEMMA DefineStep ==
  ASSUME IInv, NEW name \in Names, DefineName(name)
  PROVE  IInv'
<1> DEFINE L == Len(tables)
           symbol == DefinedSymbol(tables, name)
<1>1. TypeOK /\ WellScoped /\ FreeMatchesOuter /\ SlotsDistinct
  BY DEF IInv
<1>2. /\ tables \in Seq(Table)
      /\ L \in 1 .. L
      /\ DOMAIN tables = 1 .. L
      /\ \A l \in 1 .. L : tables[l] \in Table
  BY <1>1, TablesType
<1>3. tables' = Define(tables, name) /\ reply' = <<>>
  BY DEF DefineName
<1>4. tables # <<>>
  BY <1>1 DEF TypeOK
<1>5. /\ symbol \in Symbol
      /\ tables' \in Seq(Table)
      /\ Len(tables') = L
      /\ \A l \in 1 .. L : l # L => tables'[l] = tables[l]
      /\ tables'[L].store = [tables[L].store EXCEPT ![name] = symbol]
      /\ tables'[L].numDefinitions = tables[L].numDefinitions + 1
      /\ tables'[L].free = tables[L].free
  <2> HIDE DEF symbol, L
  <2>1. QED
    BY <1>2, <1>3, <1>4, DefineShape DEF symbol, L
<1>6. /\ symbol.name = name
      /\ symbol.scope = IF L = 1 THEN Global ELSE Local
      /\ symbol.index = tables[L].numDefinitions
  BY DEF DefinedSymbol
<1> HIDE DEF symbol, L
<1>7. DOMAIN tables' = 1 .. L /\ tables' # <<>>
  BY <1>2, <1>5
<1>8. TypeOK'
  BY <1>3, <1>5, <1>7 DEF TypeOK
<1>9. tables'[L] \in Table /\ L \in Nat
  BY <1>2, <1>5
<1>10. TableFits(tables'[L], L) /\ DistinctSlots(tables'[L])
  <2>1. tables[L] \in Table /\ TableFits(tables[L], L) /\ DistinctSlots(tables[L])
    BY <1>1, <1>2 DEF WellScoped, SlotsDistinct
  <2>2. QED
    BY <1>5, <1>6, <1>9, <2>1, FreshDefinition
<1>11. WellScoped' /\ SlotsDistinct'
  BY <1>1, <1>2, <1>5, <1>7, <1>10 DEF WellScoped, SlotsDistinct
<1>12. FreeMatchesOuter'
  <2> SUFFICES ASSUME NEW l \in 1 .. L, NEW i \in DOMAIN tables'[l].free
               PROVE  l > 1 /\ MeansIn(tables'[l].free[i], tables'[l - 1])
    BY <1>7 DEF FreeMatchesOuter
  <2>1. tables'[l].free = tables[l].free
    BY <1>5
  <2>2. l > 1 /\ MeansIn(tables[l].free[i], tables[l - 1])
    BY <1>1, <1>2, <2>1 DEF FreeMatchesOuter
  <2>3. l - 1 \in 1 .. L /\ l - 1 # L
    BY <1>2, <2>2
  <2>4. tables'[l - 1] = tables[l - 1]
    BY <1>5, <2>3
  <2>5. QED
    BY <2>1, <2>2, <2>4
<1>13. QED
  BY <1>8, <1>11, <1>12 DEF IInv

LEMMA ResolveStep ==
  ASSUME IInv, NEW name \in Names, ResolveName(name)
  PROVE  IInv'
<1> DEFINE L == Len(tables)
           o == OwnerLevel(tables, name)
<1>1. TypeOK /\ WellScoped /\ FreeMatchesOuter /\ SlotsDistinct
  BY DEF IInv
<1>2. /\ tables \in Seq(Table)
      /\ L \in 1 .. L
      /\ DOMAIN tables = 1 .. L
      /\ \A l \in 1 .. L : tables[l] \in Table
  BY <1>1, TablesType
<1>3. /\ Known(tables, name)
      /\ tables' = Resolve(tables, name)
      /\ reply' = <<name, ResolvedSymbol(tables, name)>>
  BY DEF ResolveName
<1>4. /\ o \in 1 .. L
      /\ Bound(tables[o], name)
  BY <1>2, <1>3, OwnerExists
<1>5. tables[o].store[name] \in Symbol /\ tables[o].store[name].name = name
  <2>1. tables[o].store[name] \in Symbol
    BY <1>2, <1>4 DEF Table, Bound
  <2>2. SymbolFits(tables[o], o, name)
    BY <1>1, <1>2, <1>4 DEF WellScoped, TableFits, BoundNames
  <2>3. QED
    BY <2>1, <2>2 DEF SymbolFits
<1> HIDE DEF o
<1>6. ResolvedSymbol(tables, name) \in Symbol
  <2>1. Len(tables[L].free) \in Nat
    BY <1>2 DEF Table
  <2>2. FreeSymbol(name, Len(tables[L].free)) \in Symbol
    BY <2>1 DEF FreeSymbol, Symbol, Scopes, Free
  <2>3. QED
    BY <1>5, <2>2 DEF ResolvedSymbol, o
<1>7. reply' \in Names \X Symbol
  BY <1>3, <1>6
<1>8. CASE ~Captured(tables, name)
  <2>1. tables' = tables
    BY <1>3, <1>8 DEF Resolve
  <2>2. TypeOK'
    BY <1>1, <1>7, <2>1 DEF TypeOK
  <2>3. WellScoped' /\ FreeMatchesOuter' /\ SlotsDistinct'
    BY <1>1, <2>1 DEF WellScoped, FreeMatchesOuter, SlotsDistinct
  <2>4. QED
    BY <2>2, <2>3 DEF IInv
<1>9. CASE Captured(tables, name)
  <2> DEFINE added(l) == FreeSymbol(name, Len(tables[l].free))
  <2>1. /\ tables' \in Seq(Table)
        /\ Len(tables') = L
        /\ \A l \in 1 .. L : l <= o => tables'[l] = tables[l]
        /\ \A l \in 1 .. L : l > o =>
             /\ ~Bound(tables[l], name)
             /\ l - 1 \in 1 .. L
             /\ tables'[l].store = [tables[l].store EXCEPT ![name] = added(l)]
             /\ tables'[l].numDefinitions = tables[l].numDefinitions
             /\ tables'[l].free = Append(tables[l].free, tables'[l - 1].store[name])
        /\ tables'[o].store[name] \in Symbol
        /\ InFrame(tables'[o].store[name])
    BY <1>2, <1>3, <1>5, <1>9, ResolveShape, SMTT(60) DEF o
  <2> HIDE DEF L
  <2>2. DOMAIN tables' = 1 .. L /\ tables' # <<>>
    BY <1>2, <2>1
  <2>3. TypeOK'
    BY <1>7, <2>1, <2>2 DEF TypeOK
  <2>4. \A l \in 1 .. L : tables'[l] \in Table
    BY <2>1
  (* The meaning that level l hands inwards.                               *)
  <2>5. ASSUME NEW l \in 1 .. L, l >= o
        PROVE  /\ tables'[l].store[name] \in Symbol
               /\ tables'[l].store[name].name = name
               /\ InFrame(tables'[l].store[name])
    <3>1. CASE l = o
      BY <1>4, <1>5, <2>1, <3>1
    <3>2. CASE l # o
      <4>1. l > o
        BY <1>4, <2>5, <3>2
      <4>2. Len(tables[l].free) \in Nat
        BY <1>2 DEF Table
      <4>3. /\ added(l) \in Symbol
            /\ added(l).name = name
            /\ InFrame(added(l))
        BY <4>2 DEF FreeSymbol, Symbol, Scopes, InFrame, Free, Global, Builtin
      <4>4. tables'[l].store[name] = added(l)
        BY <1>2, <2>1, <4>1 DEF Table
      <4>5. QED
        BY <4>3, <4>4
    <3>3. QED
      BY <3>1, <3>2
  <2>6. ASSUME NEW l \in 1 .. L
        PROVE  TableFits(tables'[l], l) /\ DistinctSlots(tables'[l])
    <3>1. TableFits(tables[l], l) /\ DistinctSlots(tables[l])
      BY <1>1, <1>2 DEF WellScoped, SlotsDistinct
    <3>2. CASE l <= o
      BY <2>1, <3>1, <3>2
    <3>3. CASE l > o
      <4>1. PICK k \in 1 .. L : k = l - 1
        BY <2>1, <3>3
      <4>2. k >= o /\ l > 1 /\ l \in Nat
        BY <1>4, <3>3, <4>1
      <4> DEFINE original == tables'[k].store[name]
      <4>3. original \in Symbol /\ original.name = name
        BY <2>5, <4>2
      <4>4. /\ ~Bound(tables[l], name)
            /\ tables'[l].store =
                 [tables[l].store EXCEPT
                    ![name] = FreeSymbol(name, Len(tables[l].free))]
            /\ tables'[l].numDefinitions = tables[l].numDefinitions
            /\ tables'[l].free = Append(tables[l].free, original)
        BY <2>1, <3>3, <4>1
      <4>5. tables[l] \in Table /\ tables'[l] \in Table
        BY <1>2, <2>4
      <4> HIDE DEF original
      <4>6. QED
        BY <3>1, <4>2, <4>3, <4>4, <4>5, FreshCapture, ZenonT(60)
    <3>4. QED
      BY <1>4, <3>2, <3>3
  <2>7. WellScoped' /\ SlotsDistinct'
    BY <2>2, <2>6 DEF WellScoped, SlotsDistinct
  <2>8. FreeMatchesOuter'
    <3> SUFFICES ASSUME NEW l \in 1 .. L, NEW i \in DOMAIN tables'[l].free
                 PROVE  l > 1 /\ MeansIn(tables'[l].free[i], tables'[l - 1])
      BY <2>2 DEF FreeMatchesOuter
    (* What was captured before keeps its meaning: the name now looked up  *)
    (* was unknown in every table that changes.                            *)
    <3>1. ASSUME i \in DOMAIN tables[l].free
          PROVE  l > 1 /\ MeansIn(tables[l].free[i], tables'[l - 1])
      <4> DEFINE s == tables[l].free[i]
      <4>1. l > 1 /\ MeansIn(s, tables[l - 1])
        BY <1>1, <1>2, <3>1 DEF FreeMatchesOuter
      <4>2. PICK k \in 1 .. L : k = l - 1
        BY <1>2, <4>1
      <4>3. s \in Symbol
        BY <1>2, <3>1 DEF Table
      <4>4. CASE k <= o
        BY <2>1, <4>1, <4>2, <4>4
      <4>5. CASE k > o
        <5>1. ~Bound(tables[k], name) /\ tables[k].store[s.name] = s
          BY <2>1, <4>1, <4>2, <4>5 DEF MeansIn
        <5>2. s # Unbound
          BY <4>3 DEF Symbol, Scopes, Unbound, Global, Local, Builtin, Free
        <5>3. s.name # name
          BY <5>1, <5>2 DEF Bound
        <5>4. s.name \in Names
          BY <4>3 DEF Symbol
        <5>5. tables[k].store \in [Names -> Symbol \union {Unbound}]
          BY <1>2 DEF Table
        <5>6. tables'[k].store = [tables[k].store EXCEPT ![name] = added(k)]
          BY <2>1, <4>5
        <5>7. tables'[k].store[s.name] = tables[k].store[s.name]
          BY <5>3, <5>4, <5>5, <5>6
        <5>8. QED
          BY <4>1, <4>2, <5>1, <5>7 DEF MeansIn
      <4>6. QED
        BY <1>4, <4>4, <4>5
    <3>2. CASE l <= o
      BY <2>1, <3>1, <3>2
    <3>3. CASE l > o
      <4>1. PICK k \in 1 .. L : k = l - 1
        BY <2>1, <3>3
      <4>2. k >= o /\ l > 1
        BY <1>4, <3>3, <4>1
      <4> DEFINE original == tables'[k].store[name]
      <4>3. tables'[l].free = Append(tables[l].free, original)
        BY <2>1, <3>3, <4>1
      <4>4. MeansIn(original, tables'[k])
        BY <2>5, <4>2 DEF MeansIn
      <4>5. tables[l].free \in Seq(Symbol)
        BY <1>2 DEF Table
      <4> HIDE DEF original
      <4>6. \/ i \in DOMAIN tables[l].free /\ tables'[l].free[i] = tables[l].free[i]
            \/ tables'[l].free[i] = original
        BY <4>3, <4>5
      <4>7. QED
        BY <3>1, <4>1, <4>2, <4>4, <4>6
    <3>4. QED
      BY <1>4, <3>2, <3>3
  <2>9. QED
    BY <2>3, <2>7, <2>8 DEF IInv
<1>10. QED
  BY <1>8, <1>9

LEMMA EnterStep ==
  ASSUME IInv, EnterScope
  PROVE  IInv'
<1> DEFINE L == Len(tables)
<1>1. TypeOK /\ WellScoped /\ FreeMatchesOuter /\ SlotsDistinct
  BY DEF IInv
<1>2. /\ tables \in Seq(Table)
      /\ L \in 1 .. L
      /\ DOMAIN tables = 1 .. L
  BY <1>1, TablesType
<1>3. tables' = Append(tables, NewSymbolTable) /\ reply' = <<>>
  BY DEF EnterScope, NewEnclosedSymbolTable
<1>4. NewSymbolTable \in Table /\ NewSymbolTable.free = <<>>
  BY DEF NewSymbolTable, Table
<1>5. BoundNames(NewSymbolTable) = {}
  BY DEF BoundNames, Bound, NewSymbolTable
<1> HIDE DEF L
<1>6. /\ tables' \in Seq(Table)
      /\ DOMAIN tables' = 1 .. L + 1
      /\ tables' # <<>>
      /\ \A l \in 1 .. L : tables'[l] = tables[l]
      /\ tables'[L + 1] = NewSymbolTable
      /\ \A l \in 1 .. L + 1 : l \in 1 .. L \/ l = L + 1
  BY <1>2, <1>3, <1>4 DEF L
<1>7. TypeOK'
  BY <1>3, <1>6 DEF TypeOK
<1>8. TableFits(NewSymbolTable, L + 1) /\ DistinctSlots(NewSymbolTable)
  BY <1>5 DEF TableFits, DistinctSlots
<1>9. WellScoped' /\ SlotsDistinct'
  BY <1>1, <1>2, <1>6, <1>8 DEF WellScoped, SlotsDistinct
<1>10. FreeMatchesOuter'
  <2> SUFFICES ASSUME NEW l \in 1 .. L + 1, NEW i \in DOMAIN tables'[l].free
               PROVE  l > 1 /\ MeansIn(tables'[l].free[i], tables'[l - 1])
    BY <1>6 DEF FreeMatchesOuter
  <2>1. l \in 1 .. L /\ tables'[l] = tables[l]
    BY <1>4, <1>6
  <2>2. l > 1 /\ MeansIn(tables[l].free[i], tables[l - 1])
    BY <1>1, <1>2, <2>1 DEF FreeMatchesOuter
  <2>3. l - 1 \in 1 .. L
    BY <1>2, <2>1, <2>2
  <2>4. QED
    BY <1>6, <2>1, <2>2, <2>3
<1>11. QED
  BY <1>7, <1>9, <1>10 DEF IInv

LEMMA LeaveStep ==
  ASSUME IInv, LeaveScope
  PROVE  IInv'
<1> DEFINE L == Len(tables)
<1>1. TypeOK /\ WellScoped /\ FreeMatchesOuter /\ SlotsDistinct
  BY DEF IInv
<1>2. /\ tables \in Seq(Table)
      /\ L \in 1 .. L
      /\ DOMAIN tables = 1 .. L
      /\ \A l \in 1 .. L : tables[l] \in Table
  BY <1>1, TablesType
<1>3. tables' = SubSeq(tables, 1, L - 1) /\ reply' = <<>> /\ L > 1
  BY DEF LeaveScope, OuterTables
<1> HIDE DEF L
<1>4. L - 1 \in 1 .. L /\ \A l \in 1 .. L - 1 : l \in 1 .. L
  BY <1>2, <1>3
<1>5. /\ tables' \in Seq(Table)
      /\ DOMAIN tables' = 1 .. L - 1
      /\ tables' # <<>>
      /\ \A l \in 1 .. L - 1 : tables'[l] = tables[l]
  <2>1. tables' \in Seq(Table)
    BY <1>2, <1>3, <1>4
  <2>2. Len(tables') = L - 1 /\ DOMAIN tables' = 1 .. L - 1
    BY <1>2, <1>3, <1>4
  <2>3. \A l \in 1 .. L - 1 : tables'[l] = tables[l]
    BY <1>2, <1>3, <1>4
  <2>4. QED
    BY <1>2, <1>3, <2>1, <2>2, <2>3
<1>6. TypeOK'
  BY <1>3, <1>5 DEF TypeOK
<1>7. WellScoped' /\ SlotsDistinct'
  BY <1>1, <1>2, <1>4, <1>5 DEF WellScoped, SlotsDistinct
<1>8. FreeMatchesOuter'
  <2> SUFFICES ASSUME NEW l \in 1 .. L - 1, NEW i \in DOMAIN tables'[l].free
               PROVE  l > 1 /\ MeansIn(tables'[l].free[i], tables'[l - 1])
    BY <1>5 DEF FreeMatchesOuter
  <2>1. l \in 1 .. L /\ tables'[l] = tables[l]
    BY <1>4, <1>5
  <2>2. l > 1 /\ MeansIn(tables[l].free[i], tables[l - 1])
    BY <1>1, <1>2, <2>1 DEF FreeMatchesOuter
  <2>3. l - 1 \in 1 .. L - 1
    BY <1>2, <2>1, <2>2
  <2>4. QED
    BY <1>5, <2>1, <2>2, <2>3
<1>9. QED
  BY <1>6, <1>7, <1>8 DEF IInv

LEMMA NextIInv == IInv /\ [Next]_vars => IInv'
<1> SUFFICES ASSUME IInv, [Next]_vars PROVE IInv'
  OBVIOUS
<1>1. CASE \E name \in Names : DefineName(name)
  BY <1>1, DefineStep
<1>2. CASE \E name \in Names : ResolveName(name)
  BY <1>2, ResolveStep
<1>3. CASE \E name \in Names : ResolveUndefined(name)
  <2>1. PICK name \in Names : tables' = tables /\ reply' = <<name>>
    BY <1>3 DEF ResolveUndefined
  <2>2. TypeOK'
    BY <2>1 DEF IInv, TypeOK
  <2>3. WellScoped' /\ FreeMatchesOuter' /\ SlotsDistinct'
    BY <2>1 DEF IInv, WellScoped, FreeMatchesOuter, SlotsDistinct
  <2>4. QED
    BY <2>2, <2>3 DEF IInv
<1>4. CASE EnterScope
  BY <1>4, EnterStep
<1>5. CASE LeaveScope
  BY <1>5, LeaveStep
<1>6. CASE UNCHANGED vars
  BY <1>6 DEF vars, IInv, TypeOK, WellScoped, FreeMatchesOuter, SlotsDistinct
<1>7. QED
  BY <1>1, <1>2, <1>3, <1>4, <1>5, <1>6 DEF Next

(* The inductive invariant holds in every reachable state: the types, the  *)
(* scopes and indices of every table on the Outer chain, the distinct      *)
(* slots, and the captures that agree with the function around.            *)
THEOREM ScopingInvariant == Spec => []IInv
<1>1. Init => IInv
  BY InitIInv
<1>2. IInv /\ [Next]_vars => IInv'
  BY NextIInv
<1>3. QED
  BY <1>1, <1>2, PTL DEF Spec

(* Types of the tables and of Resolve's answers.                           *)
THEOREM TypeCorrectness == Spec => []TypeOK
<1>1. IInv => TypeOK
  BY DEF IInv
<1>2. QED
  BY <1>1, ScopingInvariant, PTL

(* Every symbol of every table has a scope its table can have and an index *)
(* inside that table.                                                      *)
THEOREM WellScopedTables == Spec => []WellScoped
<1>1. IInv => WellScoped
  BY DEF IInv
<1>2. QED
  BY <1>1, ScopingInvariant, PTL

(* What a function captures is what the name means in the function around. *)
THEOREM CapturesMatchOuter == Spec => []FreeMatchesOuter
<1>1. IInv => FreeMatchesOuter
  BY DEF IInv
<1>2. QED
  BY <1>1, ScopingInvariant, PTL

(* No two names of one table share a slot or an element of the closure.    *)
THEOREM NoSharedSlots == Spec => []SlotsDistinct
<1>1. IInv => SlotsDistinct
  BY DEF IInv
<1>2. QED
  BY <1>1, ScopingInvariant, PTL

--------------------------------------------------------------------------------
(***************************************************************************)
(* What a step may never do to the tables that are linked.                 *)
(***************************************************************************)
LEMMA ResolveCaptureShape ==
  ASSUME IInv, NEW name \in Names, ResolveName(name), Captured(tables, name)
  PROVE  /\ DOMAIN tables' = DOMAIN tables
         /\ \A l \in DOMAIN tables :
              \/ tables'[l] = tables[l]
              \/ /\ ~Bound(tables[l], name)
                 /\ tables'[l].store =
                      [tables[l].store EXCEPT
                         ![name] = FreeSymbol(name, Len(tables[l].free))]
                 /\ tables'[l].numDefinitions = tables[l].numDefinitions
                 /\ \E original : tables'[l].free = Append(tables[l].free, original)
<1> DEFINE L == Len(tables)
           o == OwnerLevel(tables, name)
           added(l) == FreeSymbol(name, Len(tables[l].free))
<1>1. TypeOK /\ WellScoped
  BY DEF IInv
<1>2. /\ tables \in Seq(Table)
      /\ DOMAIN tables = 1 .. L
      /\ \A l \in 1 .. L : tables[l] \in Table
  BY <1>1, TablesType
<1>3. Known(tables, name) /\ tables' = Resolve(tables, name)
  BY DEF ResolveName
<1>4. o \in 1 .. L /\ Bound(tables[o], name)
  BY <1>2, <1>3, OwnerExists
<1>5. SymbolFits(tables[o], o, name)
  BY <1>1, <1>2, <1>4 DEF WellScoped, TableFits, BoundNames
<1>6. tables[o].store[name].name = name
  BY <1>5 DEF SymbolFits
<1> HIDE DEF o
<1> DEFINE r == Resolve(tables, name)
<1>7. /\ r \in Seq(Table)
      /\ Len(r) = L
      /\ \A l \in 1 .. L : l <= o => r[l] = tables[l]
      /\ \A l \in 1 .. L : l > o =>
           /\ ~Bound(tables[l], name)
           /\ r[l].store = [tables[l].store EXCEPT ![name] = added(l)]
           /\ r[l].numDefinitions = tables[l].numDefinitions
           /\ r[l].free = Append(tables[l].free, r[l - 1].store[name])
  BY <1>2, <1>3, <1>6, ResolveShape, SMTT(60) DEF o
<1> HIDE DEF L, r
<1>8. tables' = r /\ DOMAIN r = 1 .. L
  BY <1>3, <1>7 DEF r
<1>9. \A l \in 1 .. L : l <= o \/ l > o
  BY <1>4
<1>10. QED
  BY <1>2, <1>7, <1>8, <1>9

LEMMA ExtendsReflexive ==
  ASSUME NEW t \in Table
  PROVE  Extends(t, t)
BY DEF Extends, Table

LEMMA StableStep ==
  ASSUME IInv, [Next]_vars, NEW l \in DOMAIN tables \intersect DOMAIN tables'
  PROVE  Extends(tables[l], tables'[l])
<1>1. TypeOK
  BY DEF IInv
<1>2. /\ tables \in Seq(Table)
      /\ tables # <<>>
      /\ Len(tables) \in 1 .. Len(tables)
      /\ DOMAIN tables = 1 .. Len(tables)
      /\ tables[l] \in Table
  BY <1>1, TablesType DEF TypeOK
<1>3. CASE tables'[l] = tables[l]
  BY <1>2, <1>3, ExtendsReflexive
<1>4. CASE \E name \in Names : DefineName(name)
  <2>1. PICK name \in Names : tables' = Define(tables, name)
    BY <1>4 DEF DefineName
  <2>2. /\ \A k \in 1 .. Len(tables) : k # Len(tables) => tables'[k] = tables[k]
        /\ tables'[Len(tables)].numDefinitions = tables[Len(tables)].numDefinitions + 1
        /\ tables'[Len(tables)].free = tables[Len(tables)].free
    BY <1>2, <2>1, DefineShape
  <2>3. CASE l # Len(tables)
    BY <1>2, <1>3, <2>2, <2>3
  <2>4. CASE l = Len(tables)
    <3>1. tables[l].numDefinitions \in Nat /\ tables[l].free \in Seq(Symbol)
      BY <1>2 DEF Table
    <3>2. /\ tables'[l].numDefinitions = tables[l].numDefinitions + 1
          /\ tables'[l].free = tables[l].free
      BY <2>2, <2>4
    <3>3. QED
      BY <3>1, <3>2 DEF Extends
  <2>5. QED
    BY <2>3, <2>4
<1>5. CASE \E name \in Names : ResolveName(name)
  <2>1. PICK name \in Names : ResolveName(name)
    BY <1>5
  <2>2. CASE ~Captured(tables, name)
    BY <1>3, <2>1, <2>2 DEF ResolveName, Resolve
  <2>3. CASE Captured(tables, name)
    <3>1. \/ tables'[l] = tables[l]
          \/ /\ tables'[l].numDefinitions = tables[l].numDefinitions
             /\ \E original : tables'[l].free = Append(tables[l].free, original)
      BY <2>1, <2>3, ResolveCaptureShape
    <3>2. tables[l].free \in Seq(Symbol) /\ tables[l].numDefinitions \in Nat
      BY <1>2 DEF Table
    <3>3. ASSUME NEW original, tables'[l].free = Append(tables[l].free, original),
                 tables'[l].numDefinitions = tables[l].numDefinitions
          PROVE  Extends(tables[l], tables'[l])
      BY <3>2, <3>3 DEF Extends
    <3>4. QED
      BY <1>3, <3>1, <3>3
  <2>4. QED
    BY <2>2, <2>3
<1>6. CASE \E name \in Names : ResolveUndefined(name)
  BY <1>3, <1>6 DEF ResolveUndefined
<1>7. CASE EnterScope
  <2>1. tables' = Append(tables, NewSymbolTable)
    BY <1>7 DEF EnterScope, NewEnclosedSymbolTable
  <2>2. tables'[l] = tables[l]
    BY <1>2, <2>1
  <2>3. QED
    BY <1>3, <2>2
<1>8. CASE LeaveScope
  <2>1. tables' = SubSeq(tables, 1, Len(tables) - 1)
    BY <1>8 DEF LeaveScope, OuterTables
  <2>2. l \in 1 .. Len(tables) - 1
    BY <1>2, <2>1
  <2>3. tables'[l] = tables[l]
    BY <1>2, <2>1, <2>2
  <2>4. QED
    BY <1>3, <2>3
<1>9. CASE UNCHANGED vars
  BY <1>3, <1>9 DEF vars
<1>10. QED
  BY <1>4, <1>5, <1>6, <1>7, <1>8, <1>9 DEF Next

(* Indices in emitted code keep their meaning until the function ends.     *)
THEOREM IndicesAreStable == Spec => EmittedIndicesStable
<1>1. IInv /\ [Next]_vars =>
        [\A l \in DOMAIN tables \intersect DOMAIN tables' :
           Extends(tables[l], tables'[l])]_vars
  BY StableStep
<1>2. QED
  BY <1>1, ScopingInvariant, PTL DEF Spec, EmittedIndicesStable

(* A lookup leaves the meaning of every name, in every linked table, as it *)
(* was.                                                                    *)
THEOREM LookupsPreserveEntries == Spec => ResolvePreservesEntries
<1> DEFINE Kept ==
      reply' # <<>> =>
        \A l \in DOMAIN tables : \A n \in BoundNames(tables[l]) :
          tables'[l].store[n] = tables[l].store[n]
<1>1. IInv /\ [Next]_vars => [Kept]_vars
  <2> SUFFICES ASSUME IInv, Next, reply' # <<>>,
                      NEW l \in DOMAIN tables, NEW n \in BoundNames(tables[l])
               PROVE  tables'[l].store[n] = tables[l].store[n]
    OBVIOUS
  <2>1. CASE tables' = tables
    BY <2>1
  <2>2. \/ \E name \in Names : ResolveName(name)
        \/ \E name \in Names : ResolveUndefined(name)
    BY DEF Next, DefineName, EnterScope, LeaveScope
  <2>3. CASE \E name \in Names : ResolveUndefined(name)
    BY <2>1, <2>3 DEF ResolveUndefined
  <2>4. CASE \E name \in Names : ResolveName(name)
    <3>1. PICK name \in Names : ResolveName(name)
      BY <2>4
    <3>2. CASE ~Captured(tables, name)
      BY <2>1, <3>1, <3>2 DEF ResolveName, Resolve
    <3>3. CASE Captured(tables, name)
      <4>1. \/ tables'[l] = tables[l]
            \/ /\ ~Bound(tables[l], name)
               /\ tables'[l].store =
                    [tables[l].store EXCEPT
                       ![name] = FreeSymbol(name, Len(tables[l].free))]
        BY <3>1, <3>3, ResolveCaptureShape
      <4>2. tables[l].store \in [Names -> Symbol \union {Unbound}]
        BY TablesType DEF IInv
      <4>3. n \in Names /\ Bound(tables[l], n)
        BY DEF BoundNames
      <4>4. QED
        BY <4>1, <4>2, <4>3
    <3>4. QED
      BY <3>2, <3>3
  <2>5. QED
    BY <2>2, <2>3, <2>4
<1>2. Spec => [][Kept]_vars
  BY <1>1, ScopingInvariant, PTL DEF Spec
<1>3. QED
  BY <1>2 DEF ResolvePreservesEntries
--------------------------------------------------------------------------------
(***************************************************************************)
(* Static scoping.  The invariant says all that is needed: a captured      *)
(* symbol is what its name means in the table around (FreeMatchesOuter),   *)
(* so going outwards from table to table one comes to the innermost        *)
(* definition of the name.                                                 *)
(***************************************************************************)

(* The part of the invariant that is about a list of tables.               *)
Sane(ts) ==
  /\ ts \in Seq(Table)
  /\ \A l \in DOMAIN ts : TableFits(ts[l], l)
  /\ \A l \in DOMAIN ts : \A i \in DOMAIN ts[l].free :
       l > 1 /\ MeansIn(ts[l].free[i], ts[l - 1])

LEMMA SaneTables ==
  ASSUME NEW ts, Sane(ts)
  PROVE  /\ Len(ts) \in Nat /\ DOMAIN ts = 1 .. Len(ts)
         /\ \A l \in 1 .. Len(ts) : /\ ts[l] \in Table
                                    /\ ts[l].store \in [Names -> Symbol \union {Unbound}]
                                    /\ ts[l].numDefinitions \in Nat
                                    /\ ts[l].free \in Seq(Symbol)
         /\ 1 <= Len(ts) => ts[1].free = <<>>
<1>1. ts \in Seq(Table) /\ Len(ts) \in Nat /\ DOMAIN ts = 1 .. Len(ts)
  BY DEF Sane
<1>2. \A l \in 1 .. Len(ts) : ts[l] \in Table
  BY <1>1
<1>3. ASSUME 1 <= Len(ts) PROVE ts[1].free = <<>>
  <2>1. 1 \in DOMAIN ts
    BY <1>1, <1>3
  <2>2. DOMAIN ts[1].free = {}
    BY <2>1 DEF Sane
  <2>3. ts[1].free \in Seq(Symbol)
    BY <1>1, <1>2, <2>1 DEF Table
  <2>4. Len(ts[1].free) = 0
    BY <2>2, <2>3
  <2>5. QED
    BY <2>3, <2>4
<1>4. QED
  BY <1>1, <1>2, <1>3 DEF Table

(* The homes of what the table at level l captures, when f has those of    *)
(* the levels outside.                                                     *)
HomesAt(ts, f, l) ==
  [i \in 0 .. Len(ts[l].free) - 1 |->
     LET symbol == ts[l].free[i + 1] IN
     IF symbol.scope = Free THEN f[l - 1][symbol.index] ELSE <<l - 1, symbol.index>>]

LEMMA HomesAtAgree ==
  ASSUME NEW ts, Sane(ts), NEW l \in 1 .. Len(ts), NEW f, NEW g,
         l > 1 => f[l - 1] = g[l - 1]
  PROVE  HomesAt(ts, f, l) = HomesAt(ts, g, l)
<1>1. CASE l > 1
  BY <1>1 DEF HomesAt
<1>2. CASE ~(l > 1)
  <2>1. l = 1 /\ 1 <= Len(ts)
    BY <1>2, SaneTables
  <2>2. Len(ts[l].free) = 0
    BY <2>1, SaneTables
  <2>3. 0 .. Len(ts[l].free) - 1 = {}
    BY <2>2
  <2>4. QED
    BY <2>3 DEF HomesAt
<1>3. QED
  BY <1>1, <1>2

(* The recursion in CaptureHome ends, because it goes outwards.            *)
LEMMA PartialHomes ==
  ASSUME NEW ts, Sane(ts), NEW n \in 0 .. Len(ts)
  PROVE  \E f : f = [l \in 1 .. n |-> HomesAt(ts, f, l)]
<1> DEFINE Exists(k) == \E f : f = [l \in 1 .. k |-> HomesAt(ts, f, l)]
           Bad == {k \in 0 .. Len(ts) : ~Exists(k)}
<1>1. SUFFICES ASSUME ~Exists(n) PROVE FALSE
  OBVIOUS
<1>2. Len(ts) \in Nat
  BY SaneTables
<1>3. PICK k \in Bad : \A j \in Bad : k <= j
  <2>1. n \in Bad /\ Bad \subseteq Nat
    BY <1>1, <1>2
  <2> HIDE DEF Bad
  <2>2. QED
    BY <2>1, LeastElement
<1>4. k \in 0 .. Len(ts) /\ ~Exists(k)
  OBVIOUS
<1>5. CASE k = 0
  <2> DEFINE f == [l \in {} |-> <<>>]
  <2>1. f = [l \in {} |-> HomesAt(ts, f, l)]
    OBVIOUS
  <2>2. 1 .. 0 = {}
    OBVIOUS
  <2>3. Exists(0)
    BY <2>1, <2>2
  <2>4. QED
    BY <2>3, <1>4, <1>5
<1>6. CASE k # 0
  <2>1. k - 1 \in 0 .. Len(ts) /\ ~(k <= k - 1)
    BY <1>2, <1>4, <1>6
  <2>2. Exists(k - 1)
    BY <2>1, <1>3
  <2>3. PICK f : f = [l \in 1 .. k - 1 |-> HomesAt(ts, f, l)]
    BY <2>2
  <2> DEFINE g == [l \in 1 .. k |-> IF l = k THEN HomesAt(ts, f, l) ELSE f[l]]
  <2>4. \A l \in 1 .. k - 1 : f[l] = HomesAt(ts, f, l)
    BY <2>3, ZenonT(20)
  <2>5. \A l \in 1 .. k : l = k \/ (l \in 1 .. k - 1 /\ l # k)
    BY <1>2, <1>4, <1>6
  <2>6. \A l \in 1 .. k : g[l] = HomesAt(ts, f, l)
    BY <2>4, <2>5
  <2>7. \A l \in 1 .. k : HomesAt(ts, f, l) = HomesAt(ts, g, l)
    <3>1. SUFFICES ASSUME NEW l \in 1 .. k
                   PROVE  HomesAt(ts, f, l) = HomesAt(ts, g, l)
      OBVIOUS
    <3>2. l \in 1 .. Len(ts)
      BY <1>2, <1>4
    <3>3. l > 1 => l - 1 \in 1 .. k /\ l - 1 # k
      BY <1>2, <1>4
    <3>4. l > 1 => g[l - 1] = f[l - 1]
      BY <3>3
    <3>5. QED
      BY <3>2, <3>4, HomesAtAgree
  <2>8. g = [l \in 1 .. k |-> g[l]]
    OBVIOUS
  <2>9. g = [l \in 1 .. k |-> HomesAt(ts, g, l)]
    <3> HIDE DEF g
    <3>1. QED
      BY <2>6, <2>7, <2>8
  <2>10. QED
    BY <2>9, <1>4
<1>7. QED
  BY <1>5, <1>6

(* The equation that defines CaptureHome holds.                            *)
LEMMA HomesEquation ==
  ASSUME NEW ts, Sane(ts)
  PROVE  \A l \in 1 .. Len(ts) : CaptureHome(ts)[l] = HomesAt(ts, CaptureHome(ts), l)
<1>1. Len(ts) \in Nat /\ DOMAIN ts = 1 .. Len(ts)
  BY SaneTables
<1>2. \E f : f = [l \in DOMAIN ts |-> HomesAt(ts, f, l)]
  BY <1>1, PartialHomes
<1>3. CaptureHome(ts) = CHOOSE f : f = [l \in DOMAIN ts |-> HomesAt(ts, f, l)]
  BY DEF CaptureHome, HomesAt
<1>4. CaptureHome(ts) = [l \in DOMAIN ts |-> HomesAt(ts, CaptureHome(ts), l)]
  BY <1>2, <1>3
<1>5. QED
  BY <1>1, <1>4, Zenon
(* The levels that define a name, and the innermost of them.               *)
Definers(ts, name) == {l \in DOMAIN ts : name \in OwnNames(ts[l])}

InnermostDefiner(ts, name, h, l) ==
  /\ h \in Definers(ts, name)
  /\ \A m \in Definers(ts, name) : m <= l => m <= h

(* A captured symbol leads to the innermost definition of its name.        *)
LEMMA CapturesLeadHome ==
  ASSUME NEW ts, Sane(ts), NEW name \in Names,
         NEW l \in 1 .. Len(ts), ts[l].store[name].scope = Free
  PROVE  \E h \in 1 .. Len(ts) :
           /\ InnermostDefiner(ts, name, h, l)
           /\ CaptureHome(ts)[l][ts[l].store[name].index] = <<h, ts[h].store[name].index>>
<1> USE DEF Global, Local, Builtin, Free
<1> DEFINE Leads(k, h) ==
             /\ InnermostDefiner(ts, name, h, k)
             /\ CaptureHome(ts)[k][ts[k].store[name].index] = <<h, ts[h].store[name].index>>
           Bad == {k \in 1 .. Len(ts) : /\ ts[k].store[name].scope = Free
                                        /\ ~ \E h \in 1 .. Len(ts) : Leads(k, h)}
<1>1. SUFFICES ASSUME ~ \E h \in 1 .. Len(ts) : Leads(l, h) PROVE FALSE
  OBVIOUS
<1> HIDE DEF Leads
<1>2. Len(ts) \in Nat /\ DOMAIN ts = 1 .. Len(ts)
  BY SaneTables
<1>3. PICK k \in Bad : \A j \in Bad : k <= j
  <2>1. l \in Bad /\ Bad \subseteq Nat
    BY <1>1, <1>2
  <2> HIDE DEF Bad
  <2>2. QED
    BY <2>1, LeastElement
<1>4. k \in 1 .. Len(ts) /\ ts[k].store[name].scope = Free
  OBVIOUS
<1> DEFINE s == ts[k].store[name]
           i == s.index
           original == ts[k].free[i + 1]
<1>5. s \in Symbol /\ name \in BoundNames(ts[k])
  <2>1. s \in Symbol \union {Unbound} /\ s # Unbound
    BY <1>4, SaneTables DEF Unbound
  <2>2. QED
    BY <2>1 DEF BoundNames, Bound
<1>6. i \in Nat /\ i < Len(ts[k].free) /\ original.name = name
  <2>1. SymbolFits(ts[k], k, name)
    BY <1>2, <1>4, <1>5 DEF Sane, TableFits
  <2>2. QED
    BY <1>4, <1>5, <2>1 DEF SymbolFits, Symbol
<1>7. i + 1 \in DOMAIN ts[k].free /\ i \in 0 .. Len(ts[k].free) - 1
      /\ original \in Symbol
  <2>1. ts[k].free \in Seq(Symbol)
    BY <1>4, SaneTables
  <2>2. QED
    BY <1>6, <2>1
<1>8. k > 1 /\ InFrame(original) /\ ts[k - 1].store[name] = original
  BY <1>2, <1>4, <1>6, <1>7 DEF Sane, MeansIn
<1>9. k - 1 \in 1 .. Len(ts) /\ k - 1 \in Nat /\ ~(k <= k - 1)
  BY <1>2, <1>4, <1>8
<1>10. CaptureHome(ts)[k][i] =
         IF original.scope = Free THEN CaptureHome(ts)[k - 1][original.index]
         ELSE <<k - 1, original.index>>
  <2>1. CaptureHome(ts)[k] = HomesAt(ts, CaptureHome(ts), k)
    BY <1>4, HomesEquation
  <2>2. \A f : HomesAt(ts, f, k)[i] = IF original.scope = Free THEN f[k - 1][original.index]
                                     ELSE <<k - 1, original.index>>
    BY <1>7 DEF HomesAt
  <2>3. QED
    BY <2>1, <2>2
<1>11. name \notin OwnNames(ts[k])
  BY <1>4 DEF OwnNames
<1>12. ASSUME NEW h \in 1 .. Len(ts), InnermostDefiner(ts, name, h, k - 1)
       PROVE  InnermostDefiner(ts, name, h, k)
  <2>1. ASSUME NEW m \in Definers(ts, name), m <= k PROVE m <= h
    <3>1. m \in 1 .. Len(ts) /\ m # k
      BY <1>2, <1>11 DEF Definers
    <3>2. m <= k - 1
      BY <1>2, <1>4, <2>1, <3>1
    <3>3. QED
      BY <1>12, <3>2 DEF InnermostDefiner
  <2>2. QED
    BY <1>12, <2>1 DEF InnermostDefiner
<1>13. original.scope \in {Local, Free}
  BY <1>7, <1>8 DEF InFrame, Symbol, Scopes
<1>14. CASE original.scope = Free
  <2>1. k - 1 \notin Bad
    BY <1>3, <1>9
  <2>2. PICK h \in 1 .. Len(ts) : Leads(k - 1, h)
    BY <1>8, <1>9, <1>14, <2>1
  <2>3. Leads(k, h)
    BY <1>8, <1>10, <1>12, <1>14, <2>2 DEF Leads
  <2>4. QED
    BY <2>3
<1>15. CASE original.scope = Local
  <2>1. k - 1 \in Definers(ts, name)
    <3>1. original # Unbound
      BY <1>15 DEF Unbound
    <3>2. QED
      BY <1>2, <1>8, <1>9, <1>15, <3>1 DEF Definers, OwnNames, BoundNames, Bound
  <2>2. InnermostDefiner(ts, name, k - 1, k - 1)
    BY <2>1 DEF InnermostDefiner
  <2>3. Leads(k, k - 1)
    BY <1>8, <1>9, <1>10, <1>12, <1>15, <2>2 DEF Leads
  <2>4. QED
    BY <1>9, <2>3
<1>16. QED
  BY <1>13, <1>14, <1>15

(* Built-ins are in the global table, unless a global has their name.      *)
BuiltinsKnown(ts) ==
  \A n \in Names : /\ IsBuiltin(n) => Bound(ts[1], n)
                   /\ ts[1].store[n].scope = Builtin => IsBuiltin(n)

(* A symbol that the innermost table has for a name, or the global one if  *)
(* no other has one.                                                       *)
InSight(ts, name, symbol) ==
  \/ symbol = ts[Len(ts)].store[name]
  \/ /\ symbol = ts[1].store[name]
     /\ symbol.scope \in {Global, Builtin}
     /\ \A l \in 2 .. Len(ts) : ~Bound(ts[l], name)

(* Such a symbol leads to the innermost definition of the name, or to the  *)
(* built-in if there is none.                                              *)
LEMMA SymbolsLeadHome ==
  ASSUME NEW ts, Sane(ts), ts # <<>>, BuiltinsKnown(ts),
         NEW name \in Names, NEW symbol \in Symbol, InSight(ts, name, symbol)
  PROVE  \/ \E h \in 1 .. Len(ts) :
              /\ InnermostDefiner(ts, name, h, Len(ts))
              /\ Home(ts, symbol) = <<h, ts[h].store[name].index>>
         \/ /\ Definers(ts, name) = {}
            /\ IsBuiltin(name)
            /\ Home(ts, symbol) = <<0, BuiltinSymbol(name).index>>
<1> DEFINE L == Len(ts)
<1>1. L \in Nat /\ DOMAIN ts = 1 .. L /\ L \in 1 .. L /\ 1 \in 1 .. L
  <2>1. ts \in Seq(Table)
    BY DEF Sane
  <2>2. QED
    BY <2>1
<1>2. \A k \in 1 .. L : ts[k].store[name] = symbol => name \in BoundNames(ts[k])
  BY DEF Symbol, Scopes, Unbound, Global, Local, Builtin, Free, BoundNames, Bound
<1>3. \A k \in 1 .. L : ts[k].store[name] = symbol => SymbolFits(ts[k], k, name)
  BY <1>1, <1>2 DEF Sane, TableFits
<1>4. /\ symbol.scope = Builtin => Home(ts, symbol) = <<0, symbol.index>>
      /\ symbol.scope = Global  => Home(ts, symbol) = <<1, symbol.index>>
      /\ symbol.scope = Local   => Home(ts, symbol) = <<Len(ts), symbol.index>>
      /\ symbol.scope = Free    => Home(ts, symbol) = CaptureHome(ts)[Len(ts)][symbol.index]
  BY DEF Home, Global, Local, Builtin, Free
<1> USE DEF Global, Local, Builtin, Free
<1>5. CASE symbol.scope = Free
  <2>1. symbol = ts[L].store[name]
    BY <1>5 DEF InSight
  <2>2. \E h \in 1 .. L : /\ InnermostDefiner(ts, name, h, L)
                          /\ CaptureHome(ts)[L][symbol.index] = <<h, ts[h].store[name].index>>
    BY <1>1, <1>5, <2>1, CapturesLeadHome
  <2>3. QED
    BY <1>4, <1>5, <2>2
<1>6. CASE symbol.scope = Local
  <2>1. symbol = ts[L].store[name]
    BY <1>6 DEF InSight
  <2>2. L \in Definers(ts, name)
    BY <1>1, <1>2, <1>6, <2>1 DEF Definers, OwnNames
  <2>3. InnermostDefiner(ts, name, L, L)
    BY <2>2 DEF InnermostDefiner
  <2>4. QED
    BY <1>1, <1>4, <1>6, <2>1, <2>3
<1>7. CASE symbol.scope \in {Global, Builtin}
  <2>1. symbol = ts[1].store[name] /\ \A l \in 2 .. L : ~Bound(ts[l], name)
    <3>1. CASE symbol = ts[L].store[name]
      <4>1. L = 1
        BY <1>1, <1>3, <1>7, <3>1 DEF SymbolFits
      <4>2. QED
        BY <1>1, <3>1, <4>1
    <3>2. QED
      BY <3>1 DEF InSight
  <2>2. \A m \in Definers(ts, name) : m = 1
    <3>1. \A m \in 1 .. L : m = 1 \/ m \in 2 .. L
      BY <1>1
    <3>2. QED
      BY <1>1, <2>1, <3>1 DEF Definers, OwnNames, BoundNames
  <2>3. CASE symbol.scope = Global
    <3>1. 1 \in Definers(ts, name)
      BY <1>1, <1>2, <2>1, <2>3 DEF Definers, OwnNames
    <3>2. InnermostDefiner(ts, name, 1, L)
      BY <2>2, <3>1 DEF InnermostDefiner
    <3>3. QED
      BY <1>1, <1>4, <2>1, <2>3, <3>2
  <2>4. CASE symbol.scope = Builtin
    <3>1. 1 \notin Definers(ts, name)
      BY <2>1, <2>4 DEF Definers, OwnNames
    <3>2. Definers(ts, name) = {}
      BY <2>2, <3>1
    <3>3. IsBuiltin(name)
      BY <2>1, <2>4 DEF BuiltinsKnown
    <3>4. symbol = BuiltinSymbol(name)
      BY <1>1, <1>3, <2>1, <2>4 DEF SymbolFits
    <3>5. QED
      BY <1>4, <2>4, <3>2, <3>3, <3>4
  <2>5. QED
    BY <1>7, <2>3, <2>4
<1>8. QED
  BY <1>5, <1>6, <1>7 DEF Symbol, Scopes
(* The scopes of LexicalScope that the tables stand for.                   *)
ScopesOf(ts) == [l \in DOMAIN ts |-> OwnSlots(ts[l])]
UsedOf(ts)   == [l \in DOMAIN ts |-> 0 .. ts[l].numDefinitions - 1]
ReplyOf(ts, r) == IF Len(r) = 2 THEN <<r[1]>> \o Home(ts, r[2]) ELSE r

LEMMA LexicalActions ==
  /\ \A name, slot :
       /\ slot \in Slots \ UsedOf(tables)[Lexical!Innermost]
       /\ ScopesOf(tables') = [ScopesOf(tables) EXCEPT ![Lexical!Innermost] =
                                 [n \in DOMAIN @ \union {name} |->
                                    IF n = name THEN slot ELSE @[n]]]
       /\ UsedOf(tables') = [UsedOf(tables) EXCEPT ![Lexical!Innermost] = @ \union {slot}]
       /\ ReplyOf(tables', reply') = <<>>
       => Lexical!Define(name)
  /\ \A name :
       /\ ReplyOf(tables', reply') = Lexical!Answer(name)
       /\ ScopesOf(tables') = ScopesOf(tables)
       /\ UsedOf(tables') = UsedOf(tables)
       => Lexical!Use(name)
  /\ /\ Lexical!Innermost + 1 \in Levels
     /\ ScopesOf(tables') = Append(ScopesOf(tables), Lexical!EmptyScope)
     /\ UsedOf(tables') = Append(UsedOf(tables), {})
     /\ ReplyOf(tables', reply') = <<>>
     => Lexical!Open
  /\ /\ Lexical!Innermost > 1
     /\ ScopesOf(tables') = SubSeq(ScopesOf(tables), 1, Lexical!Innermost - 1)
     /\ UsedOf(tables') = SubSeq(UsedOf(tables), 1, Lexical!Innermost - 1)
     /\ ReplyOf(tables', reply') = <<>>
     => Lexical!Close
  /\ Lexical!Innermost = Len(ScopesOf(tables))
BY DEF Lexical!Define, Lexical!Use, Lexical!Open, Lexical!Close, Lexical!Innermost,
       ScopesOf, UsedOf, ReplyOf

(* Lists that are given as functions.                                      *)
LEMMA ListOf ==
  ASSUME NEW n \in Nat, NEW f, f = [l \in 1 .. n |-> f[l]]
  PROVE  /\ f \in Seq({f[l] : l \in 1 .. n})
         /\ Len(f) = n
OBVIOUS

LEMMA ChangedList ==
  ASSUME NEW n \in Nat, NEW k \in 1 .. n,
         NEW f, f = [l \in 1 .. n |-> f[l]],
         NEW g, g = [l \in 1 .. n |-> g[l]],
         \A l \in 1 .. n : l # k => g[l] = f[l]
  PROVE  g = [f EXCEPT ![k] = g[k]]
OBVIOUS

(* f is a list of n elements. *)
IsList(f, n) == f = [l \in 1 .. n |-> f[l]]

LEMMA LongerList ==
  ASSUME NEW n \in Nat, NEW f, IsList(f, n), NEW g, IsList(g, n + 1),
         \A l \in 1 .. n : g[l] = f[l]
  PROVE  g = Append(f, g[n + 1])
<1> USE DEF IsList
<1> DEFINE S == {g[l] : l \in 1 .. n + 1}
<1>1. f \in Seq(S) /\ Len(f) = n
  <2>1. \A l \in 1 .. n : f[l] \in S
    OBVIOUS
  <2> HIDE DEF S
  <2>2. QED
    BY <2>1
<1>2. g \in Seq(S) /\ Len(g) = n + 1 /\ g[n + 1] \in S
  <2>1. \A l \in 1 .. n + 1 : g[l] \in S
    OBVIOUS
  <2> HIDE DEF S
  <2>2. QED
    BY <2>1
<1> HIDE DEF S
<1>3. Append(f, g[n + 1]) \in Seq(S) /\ Len(Append(f, g[n + 1])) = n + 1
  BY <1>1, <1>2
<1>4. \A l \in 1 .. n + 1 : Append(f, g[n + 1])[l] = g[l]
  <2>1. \A l \in 1 .. n : Append(f, g[n + 1])[l] = f[l]
    BY <1>1, <1>2
  <2>2. Append(f, g[n + 1])[n + 1] = g[n + 1]
    BY <1>1, <1>2
  <2>3. \A l \in 1 .. n + 1 : l \in 1 .. n \/ l = n + 1
    OBVIOUS
  <2>4. QED
    BY <2>1, <2>2, <2>3, Zenon
<1>5. QED
  BY <1>2, <1>3, <1>4

LEMMA ShorterList ==
  ASSUME NEW n \in Nat \ {0}, NEW f, f = [l \in 1 .. n |-> f[l]],
         NEW g, g = [l \in 1 .. n - 1 |-> g[l]],
         \A l \in 1 .. n - 1 : g[l] = f[l]
  PROVE  g = SubSeq(f, 1, n - 1)
<1> DEFINE S == {f[l] : l \in 1 .. n}
<1>1. f \in Seq(S) /\ Len(f) = n
  <2>1. \A l \in 1 .. n : f[l] \in S
    OBVIOUS
  <2> HIDE DEF S
  <2>2. QED
    BY <2>1
<1> HIDE DEF S
<1>2. SubSeq(f, 1, n - 1) = [l \in 1 .. n - 1 |-> f[l]]
  BY <1>1
<1>3. QED
  BY <1>2

LEMMA InvariantTables ==
  ASSUME IInv
  PROVE  Sane(tables) /\ tables # <<>>
BY DEF IInv, Sane, TypeOK, WellScoped, FreeMatchesOuter

LEMMA MappedLists ==
  ASSUME NEW ts, Sane(ts)
  PROVE  /\ ScopesOf(ts) = [l \in 1 .. Len(ts) |-> ScopesOf(ts)[l]]
         /\ UsedOf(ts) = [l \in 1 .. Len(ts) |-> UsedOf(ts)[l]]
         /\ \A l \in 1 .. Len(ts) : /\ ScopesOf(ts)[l] = OwnSlots(ts[l])
                                    /\ UsedOf(ts)[l] = 0 .. ts[l].numDefinitions - 1
         /\ Len(ScopesOf(ts)) = Len(ts) /\ Len(UsedOf(ts)) = Len(ts)
<1>1. Len(ts) \in Nat /\ DOMAIN ts = 1 .. Len(ts)
  BY SaneTables
<1>2. /\ ScopesOf(ts) = [l \in 1 .. Len(ts) |-> ScopesOf(ts)[l]]
      /\ UsedOf(ts) = [l \in 1 .. Len(ts) |-> UsedOf(ts)[l]]
  BY <1>1 DEF ScopesOf, UsedOf
<1>3. \A l \in 1 .. Len(ts) : /\ ScopesOf(ts)[l] = OwnSlots(ts[l])
                              /\ UsedOf(ts)[l] = 0 .. ts[l].numDefinitions - 1
  BY <1>1 DEF ScopesOf, UsedOf
<1>4. Len(ScopesOf(ts)) = Len(ts) /\ Len(UsedOf(ts)) = Len(ts)
  BY <1>1, <1>2, ListOf
<1>5. QED
  BY <1>2, <1>3, <1>4

--------------------------------------------------------------------------------
(* Each operation of the table is one of LexicalScope.                     *)

LEMMA DefineIsLexical ==
  ASSUME IInv, IInv', NEW name \in Names, DefineName(name)
  PROVE  Lexical!Define(name)
<1> USE DEF Global, Local, Builtin, Free
<1> DEFINE L == Len(tables)
           symbol == DefinedSymbol(tables, name)
           slot == Current.numDefinitions
           before == OwnSlots(tables[L])
           after == OwnSlots(tables'[L])
<1>1. Sane(tables) /\ tables # <<>> /\ Sane(tables') /\ L \in Nat /\ L \in 1 .. L
  <2>1. Sane(tables) /\ tables # <<>>
    BY InvariantTables
  <2>2. Sane(tables')
    BY InvariantTables DEF IInv, Sane, TypeOK, WellScoped, FreeMatchesOuter
  <2>3. QED
    BY <2>1, <2>2 DEF Sane
<1>2. tables' = Define(tables, name) /\ reply' = <<>> /\ slot \in Slots
  BY DEF DefineName
<1>3. /\ symbol \in Symbol
      /\ Len(tables') = L
      /\ \A l \in 1 .. L : l # L => tables'[l] = tables[l]
      /\ tables'[L].store = [tables[L].store EXCEPT ![name] = symbol]
      /\ tables'[L].numDefinitions = slot + 1
  <2>1. tables \in Seq(Table)
    BY <1>1 DEF Sane
  <2> HIDE DEF symbol, L
  <2>2. QED
    BY <1>1, <1>2, <2>1, DefineShape DEF symbol, L, Current
<1>4. symbol.index = slot /\ symbol.scope \in {Global, Local}
  BY DEF DefinedSymbol, Current
<1>5. slot \in Nat /\ tables[L].store \in [Names -> Symbol \union {Unbound}]
  BY <1>1, SaneTables DEF Current
<1> HIDE DEF symbol, L
<1>6. after = [n \in DOMAIN before \union {name} |-> IF n = name THEN slot ELSE before[n]]
  <2>1. tables'[L].store[name] = symbol
        /\ \A n \in Names : n # name => tables'[L].store[n] = tables[L].store[n]
    BY <1>3, <1>5
  <2>2. symbol # Unbound
    BY <1>4 DEF Unbound
  <2>3. OwnNames(tables'[L]) = OwnNames(tables[L]) \union {name}
    BY <1>4, <2>1, <2>2 DEF OwnNames, BoundNames, Bound
  <2>4. \A n \in OwnNames(tables[L]) : n \in Names
    BY DEF OwnNames, BoundNames
  <2>5. DOMAIN before = OwnNames(tables[L]) /\ DOMAIN after = OwnNames(tables[L]) \union {name}
    BY <2>3 DEF OwnSlots
  <2>6. \A n \in DOMAIN after : after[n] = IF n = name THEN slot ELSE before[n]
    BY <1>4, <2>1, <2>3, <2>4, <2>5 DEF OwnSlots
  <2>7. after = [n \in DOMAIN after |-> after[n]]
    BY DEF OwnSlots
  <2> HIDE DEF after, before
  <2>8. QED
    BY <2>5, <2>6, <2>7
<1>7. ScopesOf(tables') = [ScopesOf(tables) EXCEPT ![L] = after]
  <2>1. ScopesOf(tables')[L] = after
    BY <1>1, <1>3, MappedLists
  <2>2. \A l \in 1 .. L : l # L => ScopesOf(tables')[l] = ScopesOf(tables)[l]
    BY <1>1, <1>3, MappedLists DEF L
  <2>3. /\ ScopesOf(tables) = [l \in 1 .. L |-> ScopesOf(tables)[l]]
        /\ ScopesOf(tables') = [l \in 1 .. L |-> ScopesOf(tables')[l]]
    BY <1>1, <1>3, MappedLists DEF L
  <2>4. QED
    BY <1>1, <2>1, <2>2, <2>3, ChangedList
<1>8. UsedOf(tables') = [UsedOf(tables) EXCEPT ![L] = @ \union {slot}]
  <2>1. UsedOf(tables')[L] = 0 .. (slot + 1) - 1
    BY <1>1, <1>3, MappedLists
  <2>2. UsedOf(tables)[L] = 0 .. slot - 1
    BY <1>1, MappedLists DEF L, Current
  <2>3. UsedOf(tables')[L] = UsedOf(tables)[L] \union {slot}
    BY <1>5, <2>1, <2>2
  <2>4. \A l \in 1 .. L : l # L => UsedOf(tables')[l] = UsedOf(tables)[l]
    BY <1>1, <1>3, MappedLists DEF L
  <2>5. /\ UsedOf(tables) = [l \in 1 .. L |-> UsedOf(tables)[l]]
        /\ UsedOf(tables') = [l \in 1 .. L |-> UsedOf(tables')[l]]
    BY <1>1, <1>3, MappedLists DEF L
  <2>6. UsedOf(tables') = [UsedOf(tables) EXCEPT ![L] = UsedOf(tables')[L]]
    BY <1>1, <2>4, <2>5, ChangedList
  <2>7. QED
    BY <2>3, <2>6
<1>9. ScopesOf(tables)[L] = before /\ UsedOf(tables)[L] = 0 .. slot - 1
      /\ Lexical!Innermost = L
  <2>1. Len(ScopesOf(tables)) = L
    BY <1>1, MappedLists DEF L
  <2>2. QED
    BY <1>1, <2>1, MappedLists, LexicalActions DEF L, Current
<1>10. slot \in Slots \ UsedOf(tables)[L]
  BY <1>2, <1>5, <1>9
<1>11. ScopesOf(tables') = [ScopesOf(tables) EXCEPT ![L] =
          [n \in DOMAIN @ \union {name} |-> IF n = name THEN slot ELSE @[n]]]
  <2> HIDE DEF before, after
  <2>1. QED
    BY <1>6, <1>7, <1>9
<1>12. ReplyOf(tables', reply') = <<>>
  BY <1>2 DEF ReplyOf
<1> HIDE DEF slot
<1>13. QED
  BY <1>8, <1>9, <1>10, <1>11, <1>12, LexicalActions
(* A lookup only ever adds free symbols, which are no definitions.         *)
LEMMA LookupsDefineNothing ==
  ASSUME IInv, NEW name \in Names, ResolveName(name)
  PROVE  /\ Len(tables') = Len(tables)
         /\ \A l \in 1 .. Len(tables) :
              /\ OwnSlots(tables'[l]) = OwnSlots(tables[l])
              /\ OwnNames(tables'[l]) = OwnNames(tables[l])
              /\ tables'[l].numDefinitions = tables[l].numDefinitions
              /\ \A n \in Names : tables'[l].store[n] = tables[l].store[n]
                                  \/ (~Bound(tables[l], n) /\ l > 1)
<1> USE DEF Global, Local, Builtin, Free
<1>1. Sane(tables) /\ Len(tables) \in Nat /\ DOMAIN tables = 1 .. Len(tables)
  BY InvariantTables, SaneTables
<1>2. CASE ~Captured(tables, name)
  <2>1. tables' = tables
    BY <1>2 DEF ResolveName, Resolve
  <2>2. QED
    BY <2>1
<1>3. CASE Captured(tables, name)
  <2>1. DOMAIN tables' = DOMAIN tables /\ tables' = Resolve(tables, name)
    BY <1>3, ResolveCaptureShape DEF ResolveName
  <2>2. Len(tables') = Len(tables)
    <3>1. tables' = [l \in 1 .. Len(tables) |-> tables'[l]]
      BY <1>1, <1>3, <2>1 DEF Resolve
    <3>2. QED
      BY <1>1, <3>1, ListOf
  <2>3. ASSUME NEW l \in 1 .. Len(tables), tables'[l] # tables[l]
        PROVE  /\ OwnSlots(tables'[l]) = OwnSlots(tables[l])
               /\ OwnNames(tables'[l]) = OwnNames(tables[l])
               /\ tables'[l].numDefinitions = tables[l].numDefinitions
               /\ \A n \in Names : tables'[l].store[n] = tables[l].store[n]
                                   \/ (~Bound(tables[l], n) /\ l > 1)
    <3>1. /\ ~Bound(tables[l], name)
          /\ tables'[l].store =
               [tables[l].store EXCEPT ![name] = FreeSymbol(name, Len(tables[l].free))]
          /\ tables'[l].numDefinitions = tables[l].numDefinitions
      BY <1>1, <1>3, <2>3, ResolveCaptureShape
    <3>2. tables[l].store \in [Names -> Symbol \union {Unbound}]
      BY <1>1, SaneTables
    <3>3. /\ tables'[l].store[name].scope = Free
          /\ \A n \in Names : n # name => tables'[l].store[n] = tables[l].store[n]
      BY <3>1, <3>2 DEF FreeSymbol
    <3>4. OwnNames(tables'[l]) = OwnNames(tables[l]) /\ name \notin OwnNames(tables[l])
      BY <3>1, <3>3 DEF OwnNames, BoundNames, Bound
    <3>5. \A n \in OwnNames(tables[l]) : tables'[l].store[n] = tables[l].store[n]
      BY <3>3, <3>4 DEF OwnNames, BoundNames
    <3>6. OwnSlots(tables'[l]) = OwnSlots(tables[l])
      BY <3>4, <3>5 DEF OwnSlots
    <3>7. l > 1
      <4>1. tables \in Seq(Table)
        BY <1>1 DEF Sane
      <4>2. OwnerLevel(tables, name) \in 1 .. Len(tables)
        BY <4>1, OwnerExists DEF ResolveName
      <4>3. l > OwnerLevel(tables, name)
        BY <1>1, <1>3, <2>1, <2>3 DEF Resolve
      <4>4. QED
        BY <1>1, <4>2, <4>3
    <3>8. QED
      BY <3>1, <3>3, <3>4, <3>6, <3>7
  <2>4. QED
    BY <2>2, <2>3
<1>4. QED
  BY <1>2, <1>3

LEMMA BuiltinsStayKnown ==
  IInv /\ IInv' /\ BuiltinsKnown(tables) /\ [Next]_vars => BuiltinsKnown(tables')
<1> SUFFICES ASSUME IInv, IInv', BuiltinsKnown(tables), [Next]_vars
             PROVE  BuiltinsKnown(tables')
  OBVIOUS
<1> DEFINE L == Len(tables)
<1>1. Sane(tables) /\ tables \in Seq(Table) /\ tables # <<>>
      /\ L \in Nat /\ DOMAIN tables = 1 .. L /\ 1 \in 1 .. L /\ L \in 1 .. L
  <2>1. Sane(tables) /\ tables \in Seq(Table) /\ tables # <<>>
    BY InvariantTables DEF Sane
  <2>2. QED
    BY <2>1
<1>2. CASE tables'[1] = tables[1]
  BY <1>2 DEF BuiltinsKnown
<1>3. ASSUME NEW name \in Names, DefineName(name) PROVE BuiltinsKnown(tables')
  <2>1. tables' = Define(tables, name)
    BY <1>3 DEF DefineName
  <2>2. /\ \A l \in 1 .. L : l # L => tables'[l] = tables[l]
        /\ tables'[L].store = [tables[L].store EXCEPT ![name] = DefinedSymbol(tables, name)]
    BY <1>1, <2>1, DefineShape
  <2>3. CASE L # 1
    BY <1>1, <1>2, <2>2, <2>3
  <2>4. CASE L = 1
    <3>1. tables'[1].store[name] = DefinedSymbol(tables, name)
          /\ \A n \in Names : n # name => tables'[1].store[n] = tables[1].store[n]
      BY <1>1, <2>2, <2>4, SaneTables
    <3>2. DefinedSymbol(tables, name).scope = Global
      BY <2>4 DEF DefinedSymbol
    <3>3. DefinedSymbol(tables, name) # Unbound /\ Global # Builtin
      BY <3>2 DEF Unbound, Global, Builtin
    <3>4. QED
      BY <3>1, <3>2, <3>3 DEF BuiltinsKnown, Bound
  <2>5. QED
    BY <2>3, <2>4
<1>4. ASSUME NEW name \in Names, ResolveName(name) PROVE BuiltinsKnown(tables')
  <2>1. \A n \in Names : tables'[1].store[n] = tables[1].store[n]
    BY <1>1, <1>4, LookupsDefineNothing
  <2>2. QED
    BY <2>1 DEF BuiltinsKnown, Bound
<1>5. CASE \E name \in Names : ResolveUndefined(name)
  BY <1>2, <1>5 DEF ResolveUndefined
<1>6. CASE EnterScope
  <2>1. tables' = Append(tables, NewSymbolTable)
    BY <1>6 DEF EnterScope, NewEnclosedSymbolTable
  <2>2. tables'[1] = tables[1]
    BY <1>1, <2>1
  <2>3. QED
    BY <1>2, <2>2
<1>7. CASE LeaveScope
  <2>1. tables' = SubSeq(tables, 1, L - 1) /\ L > 1
    BY <1>7 DEF LeaveScope, OuterTables
  <2>2. tables'[1] = tables[1]
    BY <1>1, <2>1
  <2>3. QED
    BY <1>2, <2>2
<1>8. CASE UNCHANGED vars
  BY <1>2, <1>8 DEF vars
<1>9. QED
  BY <1>3, <1>4, <1>5, <1>6, <1>7, <1>8 DEF Next

(* What a use of a name is answered.                                       *)
LEMMA Answers ==
  ASSUME IInv, NEW name \in Names
  PROVE  /\ \A h \in 1 .. Len(tables) :
              InnermostDefiner(tables, name, h, Len(tables)) =>
                Lexical!Answer(name) = <<name, h, tables[h].store[name].index>>
         /\ Definers(tables, name) = {} =>
              Lexical!Answer(name) = IF IsBuiltin(name) THEN <<name, 0, BuiltinSymbol(name).index>>
                                     ELSE <<name>>
<1>1. Len(tables) \in Nat /\ DOMAIN tables = 1 .. Len(tables)
  BY InvariantTables, SaneTables
<1>2. Lexical!Meanings(name) = Definers(tables, name)
  BY DEF Lexical!Meanings, Definers, OwnSlots
<1>3. ASSUME NEW h \in 1 .. Len(tables), InnermostDefiner(tables, name, h, Len(tables))
      PROVE  Lexical!Answer(name) = <<name, h, tables[h].store[name].index>>
  <2>1. h \in Definers(tables, name) /\ \A m \in Definers(tables, name) : m <= h
    BY <1>1, <1>3 DEF InnermostDefiner, Definers
  <2>2. \A l \in Definers(tables, name) : (\A m \in Definers(tables, name) : m <= l) => l = h
    BY <1>1, <2>1 DEF Definers
  <2>3. Lexical!Meaning(name) = h
    BY <1>2, <2>1, <2>2 DEF Lexical!Meaning
  <2>4. OwnSlots(tables[h])[name] = tables[h].store[name].index
    BY <2>1 DEF Definers, OwnSlots
  <2>5. QED
    BY <1>1, <1>2, <2>1, <2>3, <2>4 DEF Lexical!Answer
<1>4. ASSUME Definers(tables, name) = {}
      PROVE  Lexical!Answer(name) = IF IsBuiltin(name) THEN <<name, 0, BuiltinSymbol(name).index>>
                                    ELSE <<name>>
  BY <1>2, <1>4 DEF Lexical!Answer, IsBuiltin, BuiltinSymbol
<1>5. QED
  BY <1>3, <1>4

LEMMA ResolveIsLexical ==
  ASSUME IInv, IInv', BuiltinsKnown(tables'), NEW name \in Names, ResolveName(name)
  PROVE  Lexical!Use(name)
<1> USE DEF Global, Local, Builtin, Free
<1> DEFINE L == Len(tables)
           o == OwnerLevel(tables, name)
           symbol == ResolvedSymbol(tables, name)
<1>1. /\ Sane(tables) /\ tables \in Seq(Table) /\ tables # <<>>
      /\ Sane(tables') /\ tables' # <<>>
      /\ L \in Nat /\ DOMAIN tables = 1 .. L /\ L \in 1 .. L
  <2>1. Sane(tables) /\ tables \in Seq(Table) /\ tables # <<>>
    BY InvariantTables DEF Sane
  <2>2. Sane(tables') /\ tables' # <<>>
    BY DEF IInv, Sane, TypeOK, WellScoped, FreeMatchesOuter
  <2>3. QED
    BY <2>1, <2>2
<1>2. /\ Known(tables, name)
      /\ tables' = Resolve(tables, name)
      /\ reply' = <<name, symbol>>
  BY DEF ResolveName
<1>3. /\ Len(tables') = L
      /\ \A l \in 1 .. L : /\ OwnSlots(tables'[l]) = OwnSlots(tables[l])
                           /\ OwnNames(tables'[l]) = OwnNames(tables[l])
                           /\ tables'[l].numDefinitions = tables[l].numDefinitions
  BY LookupsDefineNothing
<1>4. o \in 1 .. L /\ Bound(tables[o], name) /\ \A m \in 1 .. L : m > o => ~Bound(tables[m], name)
  BY <1>1, <1>2, OwnerExists
<1>5. symbol \in Symbol
  <2>1. Len(<<name, symbol>>) = 2 /\ <<name, symbol>>[2] = symbol
    OBVIOUS
  <2>2. TypeOK'
    BY DEF IInv
  <2> HIDE DEF symbol
  <2>3. \A n \in Names : <<name, symbol>> # <<n>>
    OBVIOUS
  <2>4. <<name, symbol>> \in Names \X Symbol
    BY <1>2, <2>2, <2>3 DEF TypeOK
  <2>5. QED
    BY <2>4
<1>6. InSight(tables', name, symbol)
  <2>1. CASE Captured(tables, name)
    <3>1. o < L /\ symbol = FreeSymbol(name, Len(tables[L].free))
      BY <2>1 DEF Captured, ResolvedSymbol
    <3>2. tables[o].store[name].name = name
      <4>1. SymbolFits(tables[o], o, name)
        BY <1>1, <1>4 DEF Sane, TableFits, BoundNames
      <4>2. QED
        BY <4>1 DEF SymbolFits
    <3>3. tables'[L].store = [tables[L].store EXCEPT ![name] = FreeSymbol(name, Len(tables[L].free))]
      <4> HIDE DEF o, L, symbol
      <4>1. \A l \in 1 .. L : l > o => Resolve(tables, name)[l].store =
                                        [tables[l].store EXCEPT ![name] = FreeSymbol(name, Len(tables[l].free))]
        BY <1>1, <1>2, <2>1, <3>2, ResolveShape DEF o, L
      <4>2. QED
        BY <1>1, <1>2, <3>1, <4>1
    <3>4. tables'[L].store[name] = symbol
      BY <1>1, <3>1, <3>3, SaneTables
    <3>5. QED
      BY <1>3, <3>4 DEF InSight
  <2>2. CASE ~Captured(tables, name)
    <3>1. tables' = tables /\ symbol = tables[o].store[name]
      BY <1>2, <2>2 DEF Resolve, ResolvedSymbol
    <3>2. CASE o = L
      BY <3>1, <3>2 DEF InSight
    <3>3. CASE o # L
      <4>1. symbol.scope \in {Global, Builtin}
        BY <1>1, <1>4, <2>2, <3>1, <3>3 DEF Captured, InFrame
      <4>2. SymbolFits(tables[o], o, name)
        BY <1>1, <1>4 DEF Sane, TableFits, BoundNames
      <4>3. o = 1
        BY <3>1, <4>1, <4>2 DEF SymbolFits
      <4>4. \A l \in 2 .. L : ~Bound(tables[l], name)
        BY <1>1, <1>4, <4>3
      <4> HIDE DEF o, L
      <4>5. QED
        BY <1>3, <3>1, <4>1, <4>3, <4>4 DEF InSight
    <3>4. QED
      BY <3>2, <3>3
  <2>3. QED
    BY <2>1, <2>2
<1>7. ReplyOf(tables', reply') = <<name>> \o Home(tables', symbol)
  <2> HIDE DEF symbol
  <2>1. QED
    BY <1>2 DEF ReplyOf
<1>8. Definers(tables', name) = Definers(tables, name)
      /\ \A h \in Definers(tables, name) : tables'[h].store[name].index = tables[h].store[name].index
  <2>1. DOMAIN tables' = DOMAIN tables
    BY <1>1, <1>3, SaneTables
  <2>2. Definers(tables', name) = Definers(tables, name)
    BY <1>1, <1>3, <2>1 DEF Definers
  <2>3. \A h \in Definers(tables, name) :
          OwnSlots(tables'[h])[name] = OwnSlots(tables[h])[name]
          /\ name \in OwnNames(tables[h]) /\ name \in OwnNames(tables'[h])
    BY <1>1, <1>3 DEF Definers
  <2>4. QED
    BY <2>2, <2>3 DEF OwnSlots
<1>9. ReplyOf(tables', reply') = Lexical!Answer(name)
  <2>1. ASSUME NEW i, NEW j PROVE <<name>> \o <<i, j>> = <<name, i, j>>
    <3>1. <<name>> \in Seq({name, i, j}) /\ <<i, j>> \in Seq({name, i, j})
      OBVIOUS
    <3>2. <<name>> \o <<i, j>> \in Seq({name, i, j}) /\ <<name, i, j>> \in Seq({name, i, j})
      BY <3>1
    <3>3. Len(<<name>> \o <<i, j>>) = 3
      BY <3>1
    <3>4. \A k \in 1 .. 3 : (<<name>> \o <<i, j>>)[k] = <<name, i, j>>[k]
      BY <3>1
    <3>5. /\ <<name>> \o <<i, j>> = [k \in 1 .. 3 |-> (<<name>> \o <<i, j>>)[k]]
          /\ <<name, i, j>> = [k \in 1 .. 3 |-> <<name, i, j>>[k]]
      BY <3>2, <3>3
    <3>6. QED
      BY <3>4, <3>5, Zenon
  <2>2. CASE \E h \in 1 .. L : /\ InnermostDefiner(tables', name, h, L)
                               /\ Home(tables', symbol) = <<h, tables'[h].store[name].index>>
    <3>1. PICK h \in 1 .. L : /\ InnermostDefiner(tables', name, h, L)
                              /\ Home(tables', symbol) = <<h, tables'[h].store[name].index>>
      BY <2>2
    <3>2. InnermostDefiner(tables, name, h, L) /\ h \in Definers(tables, name)
      BY <1>8, <3>1 DEF InnermostDefiner
    <3>3. Lexical!Answer(name) = <<name, h, tables[h].store[name].index>>
      BY <3>2, Answers
    <3>4. QED
      BY <1>7, <1>8, <2>1, <3>1, <3>2, <3>3
  <2>3. CASE /\ Definers(tables', name) = {}
             /\ IsBuiltin(name)
             /\ Home(tables', symbol) = <<0, BuiltinSymbol(name).index>>
    BY <1>7, <1>8, <2>1, <2>3, Answers
  <2>4. QED
    BY <1>1, <1>3, <1>5, <1>6, <2>2, <2>3, SymbolsLeadHome
<1>10. ScopesOf(tables') = ScopesOf(tables) /\ UsedOf(tables') = UsedOf(tables)
  <2>1. DOMAIN tables' = DOMAIN tables
    BY <1>1, <1>3, SaneTables
  <2>2. QED
    BY <1>1, <1>3, <2>1 DEF ScopesOf, UsedOf
<1>11. QED
  BY <1>9, <1>10, LexicalActions

LEMMA UndefinedIsLexical ==
  ASSUME IInv, BuiltinsKnown(tables), NEW name \in Names, ResolveUndefined(name)
  PROVE  Lexical!Use(name)
<1>1. tables' = tables /\ reply' = <<name>> /\ ~Known(tables, name)
  BY DEF ResolveUndefined
<1>2. tables \in Seq(Table) /\ tables # <<>> /\ 1 \in DOMAIN tables
  BY InvariantTables DEF Sane
<1>3. Definers(tables, name) = {} /\ ~IsBuiltin(name)
  BY <1>1, <1>2 DEF Known, Definers, OwnNames, BoundNames, BuiltinsKnown
<1>4. ReplyOf(tables', reply') = Lexical!Answer(name)
  BY <1>1, <1>3, Answers DEF ReplyOf
<1>5. QED
  BY <1>1, <1>4, LexicalActions

LEMMA EnterIsLexical ==
  ASSUME IInv, IInv', EnterScope
  PROVE  Lexical!Open
<1> DEFINE L == Len(tables)
<1>1. Sane(tables) /\ tables \in Seq(Table) /\ L \in Nat /\ Sane(tables')
  BY InvariantTables DEF IInv, Sane, TypeOK, WellScoped, FreeMatchesOuter
<1>2. tables' = Append(tables, NewSymbolTable) /\ reply' = <<>> /\ L + 1 \in Levels
  BY DEF EnterScope, NewEnclosedSymbolTable
<1>3. Len(tables') = L + 1 /\ tables'[L + 1] = NewSymbolTable
      /\ \A l \in 1 .. L : tables'[l] = tables[l]
  BY <1>1, <1>2
<1>4. OwnSlots(NewSymbolTable) = Lexical!EmptyScope /\ 0 .. NewSymbolTable.numDefinitions - 1 = {}
  <2>1. OwnNames(NewSymbolTable) = {}
    BY DEF OwnNames, BoundNames, Bound, NewSymbolTable
  <2>2. NewSymbolTable.numDefinitions = 0
    BY DEF NewSymbolTable
  <2>3. QED
    BY <2>1, <2>2 DEF OwnSlots, Lexical!EmptyScope
<1> HIDE DEF L
<1>5. /\ ScopesOf(tables) = [l \in 1 .. L |-> ScopesOf(tables)[l]]
      /\ ScopesOf(tables') = [l \in 1 .. L + 1 |-> ScopesOf(tables')[l]]
      /\ UsedOf(tables) = [l \in 1 .. L |-> UsedOf(tables)[l]]
      /\ UsedOf(tables') = [l \in 1 .. L + 1 |-> UsedOf(tables')[l]]
      /\ \A l \in 1 .. L : ScopesOf(tables)[l] = OwnSlots(tables[l])
                           /\ UsedOf(tables)[l] = 0 .. tables[l].numDefinitions - 1
      /\ \A l \in 1 .. L + 1 : ScopesOf(tables')[l] = OwnSlots(tables'[l])
                               /\ UsedOf(tables')[l] = 0 .. tables'[l].numDefinitions - 1
      /\ Len(ScopesOf(tables)) = L
  BY <1>1, <1>3, MappedLists DEF L
<1>6. /\ L + 1 \in 1 .. L + 1
      /\ \A l \in 1 .. L : l \in 1 .. L + 1
  BY <1>1
<1>7. /\ IsList(ScopesOf(tables), L) /\ IsList(ScopesOf(tables'), L + 1)
      /\ IsList(UsedOf(tables), L) /\ IsList(UsedOf(tables'), L + 1)
  BY <1>5, Zenon DEF IsList
<1>8. /\ ScopesOf(tables') = Append(ScopesOf(tables), ScopesOf(tables')[L + 1])
      /\ UsedOf(tables') = Append(UsedOf(tables), UsedOf(tables')[L + 1])
  <2>1. \A l \in 1 .. L : /\ ScopesOf(tables')[l] = ScopesOf(tables)[l]
                           /\ UsedOf(tables')[l] = UsedOf(tables)[l]
    BY <1>3, <1>5, <1>6
  <2>2. L \in Nat
    BY <1>1
  <2>3. QED
    BY <1>7, <2>1, <2>2, LongerList
<1>9. ScopesOf(tables')[L + 1] = Lexical!EmptyScope /\ UsedOf(tables')[L + 1] = {}
  BY <1>3, <1>4, <1>5, <1>6
<1>10. ReplyOf(tables', reply') = <<>>
  BY <1>2 DEF ReplyOf
<1>11. Lexical!Innermost + 1 \in Levels
  BY <1>2, <1>5, LexicalActions DEF L
<1>12. QED
  BY <1>7, <1>8, <1>9, <1>10, <1>11, LexicalActions

LEMMA LeaveIsLexical ==
  ASSUME IInv, IInv', LeaveScope
  PROVE  Lexical!Close
<1> DEFINE L == Len(tables)
<1>1. Sane(tables) /\ tables \in Seq(Table) /\ L \in Nat /\ Sane(tables')
  BY InvariantTables DEF IInv, Sane, TypeOK, WellScoped, FreeMatchesOuter
<1>2. tables' = SubSeq(tables, 1, L - 1) /\ reply' = <<>> /\ L > 1
  BY DEF LeaveScope, OuterTables
<1>3. Len(tables') = L - 1 /\ \A l \in 1 .. L - 1 : tables'[l] = tables[l]
  BY <1>1, <1>2
<1> HIDE DEF L
<1>4. /\ ScopesOf(tables) = [l \in 1 .. L |-> ScopesOf(tables)[l]]
      /\ ScopesOf(tables') = [l \in 1 .. L - 1 |-> ScopesOf(tables')[l]]
      /\ UsedOf(tables) = [l \in 1 .. L |-> UsedOf(tables)[l]]
      /\ UsedOf(tables') = [l \in 1 .. L - 1 |-> UsedOf(tables')[l]]
      /\ \A l \in 1 .. L : ScopesOf(tables)[l] = OwnSlots(tables[l])
                           /\ UsedOf(tables)[l] = 0 .. tables[l].numDefinitions - 1
      /\ \A l \in 1 .. L - 1 : ScopesOf(tables')[l] = OwnSlots(tables'[l])
                               /\ UsedOf(tables')[l] = 0 .. tables'[l].numDefinitions - 1
      /\ Len(ScopesOf(tables)) = L
  BY <1>1, <1>3, MappedLists DEF L
<1>5. L \in Nat \ {0} /\ \A l \in 1 .. L - 1 : l \in 1 .. L
  BY <1>1, <1>2 DEF L
<1>6. \A l \in 1 .. L - 1 : /\ ScopesOf(tables')[l] = ScopesOf(tables)[l]
                            /\ UsedOf(tables')[l] = UsedOf(tables)[l]
  BY <1>3, <1>4, <1>5
<1>7. ScopesOf(tables') = SubSeq(ScopesOf(tables), 1, L - 1)
  <2>1. ScopesOf(tables) = [l \in 1 .. L |-> ScopesOf(tables)[l]]
        /\ ScopesOf(tables') = [l \in 1 .. L - 1 |-> ScopesOf(tables')[l]]
    BY <1>4
  <2>2. L \in Nat \ {0} /\ \A l \in 1 .. L - 1 : ScopesOf(tables')[l] = ScopesOf(tables)[l]
    BY <1>5, <1>6
  <2>3. QED
    BY <2>1, <2>2, ShorterList
<1>8. UsedOf(tables') = SubSeq(UsedOf(tables), 1, L - 1)
  <2>1. UsedOf(tables) = [l \in 1 .. L |-> UsedOf(tables)[l]]
        /\ UsedOf(tables') = [l \in 1 .. L - 1 |-> UsedOf(tables')[l]]
    BY <1>4
  <2>2. L \in Nat \ {0} /\ \A l \in 1 .. L - 1 : UsedOf(tables')[l] = UsedOf(tables)[l]
    BY <1>5, <1>6
  <2>3. QED
    BY <2>1, <2>2, ShorterList
<1>9. ReplyOf(tables', reply') = <<>>
  BY <1>2 DEF ReplyOf
<1>10. Lexical!Innermost = L
  BY <1>4, LexicalActions
<1>11. QED
  BY <1>2, <1>7, <1>8, <1>9, <1>10, LexicalActions

LEMMA InitIsLexical == Init => Lexical!Init /\ BuiltinsKnown(tables)
<1> SUFFICES ASSUME Init PROVE Lexical!Init /\ BuiltinsKnown(tables)
  OBVIOUS
<1> USE DEF Global, Local, Builtin, Free
<1>1. tables = <<BuiltinTable>> /\ reply = <<>>
  BY DEF Init
<1>2. \A n \in Names : BuiltinTable.store[n] = IF IsBuiltin(n) THEN BuiltinSymbol(n) ELSE Unbound
  BY DEF BuiltinTable, NewSymbolTable
<1>3. BuiltinTable.numDefinitions = 0
  BY DEF BuiltinTable, NewSymbolTable
<1>4. \A n : BuiltinSymbol(n).scope = Builtin /\ BuiltinSymbol(n) # Unbound /\ Unbound.scope # Builtin
  BY DEF BuiltinSymbol, Unbound
<1>5. OwnNames(BuiltinTable) = {}
  BY <1>2, <1>4 DEF OwnNames, BoundNames, Bound
<1>6. OwnSlots(BuiltinTable) = Lexical!EmptyScope
  BY <1>5 DEF OwnSlots, Lexical!EmptyScope
<1>7. [l \in DOMAIN tables |-> OwnSlots(tables[l])] = <<Lexical!EmptyScope>>
  BY <1>1, <1>6
<1>8. [l \in DOMAIN tables |-> 0 .. tables[l].numDefinitions - 1] = <<{}>>
  <2>1. 0 .. 0 - 1 = {}
    OBVIOUS
  <2>2. QED
    BY <1>1, <1>3, <2>1
<1>9. BuiltinsKnown(tables)
  BY <1>1, <1>2, <1>4 DEF BuiltinsKnown, Bound
<1>10. QED
  BY <1>1, <1>7, <1>8, <1>9 DEF Lexical!Init

LEMMA NextIsLexical ==
  IInv /\ IInv' /\ BuiltinsKnown(tables) /\ BuiltinsKnown(tables') /\ [Next]_vars
    => [Lexical!Next]_(Lexical!vars)
<1> SUFFICES ASSUME IInv, IInv', BuiltinsKnown(tables), BuiltinsKnown(tables'), [Next]_vars
             PROVE  [Lexical!Next]_(Lexical!vars)
  OBVIOUS
<1>1. CASE \E name \in Names : DefineName(name)
  BY <1>1, DefineIsLexical DEF Lexical!Next
<1>2. CASE \E name \in Names : ResolveName(name)
  BY <1>2, ResolveIsLexical DEF Lexical!Next
<1>3. CASE \E name \in Names : ResolveUndefined(name)
  BY <1>3, UndefinedIsLexical DEF Lexical!Next
<1>4. CASE EnterScope
  BY <1>4, EnterIsLexical DEF Lexical!Next
<1>5. CASE LeaveScope
  BY <1>5, LeaveIsLexical DEF Lexical!Next
<1>6. CASE UNCHANGED vars
  BY <1>6 DEF vars, Lexical!vars
<1>7. QED
  BY <1>1, <1>2, <1>3, <1>4, <1>5, <1>6 DEF Next

(* Static scoping: Resolve answers with a symbol that leads, through the   *)
(* captures of the functions in between, to the slot of the innermost      *)
(* definition in force; no other operation of the table moves a definition.*)
THEOREM StaticScoping == Spec => LexicalScoping
<1>1. Init => Lexical!Init /\ BuiltinsKnown(tables)
  BY InitIsLexical
<1>2. IInv /\ IInv' /\ BuiltinsKnown(tables) /\ [Next]_vars => BuiltinsKnown(tables)'
  BY BuiltinsStayKnown
<1>3. IInv /\ IInv' /\ BuiltinsKnown(tables) /\ BuiltinsKnown(tables)' /\ [Next]_vars
        => [Lexical!Next]_(Lexical!vars)
  BY NextIsLexical
<1>4. QED
  BY <1>1, <1>2, <1>3, ScopingInvariant, PTL DEF Spec, LexicalScoping, Lexical!Spec

================================================================================
