------------------------------ MODULE SymbolTable ------------------------------
(***************************************************************************)
(* The compiler's symbol table (src/compiler/symbol_table.go) as operators *)
(* on the list of tables that are linked through the field Outer:          *)
(* tables[1] is the global table and the last element is the table the     *)
(* compiler is working in.                                                 *)
(*                                                                         *)
(* A table is a record with the fields store, numDefinitions and           *)
(* FreeSymbols of the Go struct.  FreeSymbols[i] in Go is free[i + 1] here.*)
(***************************************************************************)
EXTENDS Integers, Sequences

CONSTANTS
  Names,    (* the identifiers of a program                                *)
  Builtins  (* object.Builtins: the names of the built-in functions        *)

ASSUME BuiltinsAssumption ==
  /\ Builtins \in Seq(Names)
  /\ \A i, j \in DOMAIN Builtins : Builtins[i] = Builtins[j] => i = j

Global  == "GLOBAL"
Local   == "LOCAL"
Builtin == "BUILTIN"
Free    == "FREE"
Scopes  == {Global, Local, Builtin, Free}

Symbol == [name : Names, scope : Scopes, index : Nat]

(* What a map lookup answers for a name that is not there. *)
Unbound == [scope |-> "NONE"]

Table == [ store : [Names -> Symbol \union {Unbound}],
           numDefinitions : Nat,
           free : Seq(Symbol) ]

Bound(table, name) == table.store[name] # Unbound

NewSymbolTable ==
  [store |-> [n \in Names |-> Unbound], numDefinitions |-> 0, free |-> <<>>]

(* The global table once compiler.New, or the REPL, has called             *)
(* DefineBuiltin for every element of object.Builtins.  Built-in names     *)
(* take no slot: numDefinitions stays 0.                                   *)
IsBuiltin(name) == \E i \in DOMAIN Builtins : Builtins[i] = name

BuiltinSymbol(name) ==
  [ name  |-> name,
    scope |-> Builtin,
    index |-> (CHOOSE i \in DOMAIN Builtins : Builtins[i] = name) - 1 ]

BuiltinTable ==
  [NewSymbolTable EXCEPT
     !.store = [n \in Names |->
                  IF IsBuiltin(n) THEN BuiltinSymbol(n) ELSE Unbound]]

NewEnclosedSymbolTable(tables) == Append(tables, NewSymbolTable)

(* Mutant: leaving a function does not go back to Outer. *)
StayInside(tables) == tables

(* (s *SymbolTable) Outer: back to the enclosing table. *)
OuterTables(tables) == SubSeq(tables, 1, Len(tables) - 1)

(* Mutant: the index is taken after the increment. *)
DefinedAfterIncrement(tables, name) ==
  [ name  |-> name,
    scope |-> IF Len(tables) = 1 THEN Global ELSE Local,
    index |-> tables[Len(tables)].numDefinitions + 1 ]

(***************************************************************************)
(* Define: a fresh slot of the current table.  Only a table without an     *)
(* Outer makes globals.                                                    *)
(***************************************************************************)
DefinedSymbol(tables, name) ==
  [ name  |-> name,
    scope |-> IF Len(tables) = 1 THEN Global ELSE Local,
    index |-> tables[Len(tables)].numDefinitions ]

(* Mutant: no increment. *)
DefineSameSlot(tables, name) ==
  [tables EXCEPT
     ![Len(tables)].store = [@ EXCEPT ![name] = DefinedSymbol(tables, name)]]

Define(tables, name) ==
  [tables EXCEPT
     ![Len(tables)].store = [@ EXCEPT ![name] = DefinedSymbol(tables, name)],
     ![Len(tables)].numDefinitions = @ + 1]

(***************************************************************************)
(* Resolve: the innermost table that knows the name answers.  When it is   *)
(* not the current one and the symbol lives in a stack frame (it is        *)
(* neither global nor built-in), every table from there inwards records    *)
(* the symbol of the table just outside it as a free symbol, and binds the *)
(* name to the index of that record.                                       *)
(***************************************************************************)
Known(tables, name) == \E l \in DOMAIN tables : Bound(tables[l], name)

(* Mutant: the outermost table answers. *)
OutermostLevel(tables, name) ==
  CHOOSE l \in DOMAIN tables :
    /\ Bound(tables[l], name)
    /\ \A m \in DOMAIN tables : m < l => ~Bound(tables[m], name)

OwnerLevel(tables, name) ==
  CHOOSE l \in DOMAIN tables :
    /\ Bound(tables[l], name)
    /\ \A m \in DOMAIN tables : m > l => ~Bound(tables[m], name)

FreeSymbol(name, index) == [name |-> name, scope |-> Free, index |-> index]

(* Mutants: the index is that of the last element before the append; the   *)
(* new element goes to the front.                                          *)
DefineFreeBeforeAppend(table, original) ==
  [table EXCEPT
     !.free = Append(@, original),
     !.store = [@ EXCEPT ![original.name] =
                  FreeSymbol(original.name, Len(table.free) - 1)]]

DefineFreeInFront(table, original) ==
  [table EXCEPT
     !.free = <<original>> \o @,
     !.store = [@ EXCEPT ![original.name] = FreeSymbol(original.name, 0)]]

DefineFree(table, original) ==
  [table EXCEPT
     !.free = Append(@, original),
     !.store = [@ EXCEPT ![original.name] =
                  FreeSymbol(original.name, Len(table.free))]]

(* Mutant: every level hands on the symbol of the owner. *)
OriginalOfOwner(tables, name, level) ==
  tables[OwnerLevel(tables, name)].store[name]

(* The symbol the table at a level hands to the next inner one. *)
Original(tables, name, level) ==
  IF level = OwnerLevel(tables, name)
  THEN tables[level].store[name]
  ELSE FreeSymbol(name, Len(tables[level].free))

InFrame(symbol) == symbol.scope \notin {Global, Builtin}

Captured(tables, name) ==
  /\ OwnerLevel(tables, name) < Len(tables)
  /\ InFrame(tables[OwnerLevel(tables, name)].store[name])

Resolve(tables, name) ==
  IF Captured(tables, name)
  THEN [l \in DOMAIN tables |->
          IF l > OwnerLevel(tables, name)
          THEN DefineFree(tables[l], Original(tables, name, l - 1))
          ELSE tables[l]]
  ELSE tables

ResolvedSymbol(tables, name) ==
  IF Captured(tables, name)
  THEN FreeSymbol(name, Len(tables[Len(tables)].free))
  ELSE tables[OwnerLevel(tables, name)].store[name]

================================================================================
