-------------------------------- MODULE Scoping --------------------------------
(***************************************************************************)
(* The symbol table at work: the calls that compiler.Compile makes on it   *)
(* (src/compiler/compiler.go), in every order the grammar allows.  Entering*)
(* a function literal links a new table, a let or a parameter defines, an  *)
(* identifier resolves, and leaving goes back to Outer.                    *)
(***************************************************************************)
EXTENDS SymbolTable

CONSTANTS
  Levels,    (* bound: the levels tables can be linked at                  *)
  Slots      (* bound: the slots a table can hand out                      *)

(* The code has no such bounds: there, both are Nat. *)
ASSUME BoundsAssumption == Levels \subseteq Nat /\ Slots \subseteq Nat

VARIABLES
  tables,    (* c.symbolTable and its Outer chain                          *)
  reply      (* the last call's answer: <<name, symbol>> from Resolve,     *)
             (* <<name>> when the name is undefined, <<>> otherwise        *)

vars == <<tables, reply>>

Current == tables[Len(tables)]

Init ==
  /\ tables = <<BuiltinTable>>
  /\ reply = <<>>

(* case *ast.LetStatement, and the loop over node.Parameters *)
DefineName(name) ==
  /\ Current.numDefinitions \in Slots
  /\ tables' = Define(tables, name)
  /\ reply' = <<>>

(* case *ast.Identifier, the name is known *)
ResolveName(name) ==
  /\ Known(tables, name)
  /\ tables' = Resolve(tables, name)
  /\ reply' = <<name, ResolvedSymbol(tables, name)>>

(* case *ast.Identifier, "undefined variable" *)
ResolveUndefined(name) ==
  /\ ~Known(tables, name)
  /\ reply' = <<name>>
  /\ UNCHANGED tables

(* enterScope *)
EnterScope ==
  /\ Len(tables) + 1 \in Levels
  /\ tables' = NewEnclosedSymbolTable(tables)
  /\ reply' = <<>>

(* leaveScope *)
LeaveScope ==
  /\ Len(tables) > 1
  /\ tables' = OuterTables(tables)
  /\ reply' = <<>>

Next ==
  \/ \E name \in Names :
       DefineName(name) \/ ResolveName(name) \/ ResolveUndefined(name)
  \/ EnterScope
  \/ LeaveScope

Spec == Init /\ [][Next]_vars

--------------------------------------------------------------------------------

(* The types of the variables. *)
TypeOK ==
  /\ tables \in Seq(Table)
  /\ tables # <<>>
  /\ reply \in {<<>>} \union {<<n>> : n \in Names} \union (Names \X Symbol)

BoundNames(table) == {n \in Names : Bound(table, n)}

SymbolFits(table, level, n) ==
  LET symbol == table.store[n] IN
  /\ symbol.name = n
  /\ symbol.scope \in IF level = 1 THEN {Global, Builtin} ELSE {Local, Free}
  /\ symbol.scope \in {Global, Local} => symbol.index < table.numDefinitions
  /\ symbol.scope = Free =>
       /\ symbol.index < Len(table.free)
       /\ table.free[symbol.index + 1].name = n
  /\ symbol.scope = Builtin => symbol = BuiltinSymbol(n)

TableFits(table, level) == \A n \in BoundNames(table) : SymbolFits(table, level, n)

(* The scopes a table's symbols can have, and the slots they can name:     *)
(* only the global table (the one without an Outer) has globals, only the  *)
(* others have locals and free symbols, each index is inside the table,    *)
(* and a built-in still in sight has its index in object.Builtins.         *)
WellScoped == \A l \in DOMAIN tables : TableFits(tables[l], l)

MeansIn(symbol, table) ==
  InFrame(symbol) /\ table.store[symbol.name] = symbol

(* The symbols a function captures are, at every moment while the function *)
(* is being compiled, what those names mean in the function around it:     *)
(* loadSymbol emits one load per element of FreeSymbols after leaveScope,  *)
(* and OpClosure copies the loaded values in that order.                   *)
FreeMatchesOuter ==
  \A l \in DOMAIN tables : \A i \in DOMAIN tables[l].free :
    l > 1 /\ MeansIn(tables[l].free[i], tables[l - 1])

DistinctSlots(table) ==
  \A m, n \in BoundNames(table) :
    m # n /\ table.store[m].scope = table.store[n].scope
      => table.store[m].index # table.store[n].index

(* Two names that a function sees at once never share a slot of its stack  *)
(* frame, nor an element of its closure.                                   *)
SlotsDistinct == \A l \in DOMAIN tables : DistinctSlots(tables[l])

Extends(table, later) ==
  /\ Len(table.free) <= Len(later.free)
  /\ \A i \in DOMAIN table.free : later.free[i] = table.free[i]
  /\ table.numDefinitions <= later.numDefinitions

(* An OpGetFree, OpGetLocal or OpSetLocal already emitted keeps its        *)
(* meaning: while a table is linked, its list of free symbols only grows   *)
(* at the end, and its slots are never handed out again.                   *)
EmittedIndicesStable ==
  [][\A l \in DOMAIN tables \intersect DOMAIN tables' :
       Extends(tables[l], tables'[l])]_vars

(* Using a name changes the meaning of no name: Resolve caches free        *)
(* symbols in tables it walks through, and the entries that were there     *)
(* stay as they were.                                                      *)
ResolvePreservesEntries ==
  [][reply' # <<>> =>
       \A l \in DOMAIN tables : \A n \in BoundNames(tables[l]) :
         tables'[l].store[n] = tables[l].store[n]]_vars

--------------------------------------------------------------------------------
(***************************************************************************)
(* The implementation relation.  A scope of LexicalScope is what a table   *)
(* defines itself; the home of a free symbol is found by following the     *)
(* chain of captures outwards to the frame that owns the slot.             *)
(***************************************************************************)
OwnNames(table) == {n \in BoundNames(table) : table.store[n].scope \in {Global, Local}}

OwnSlots(table) == [n \in OwnNames(table) |-> table.store[n].index]

CaptureHome(ts) ==
  LET home[l \in DOMAIN ts] ==
        [i \in 0 .. Len(ts[l].free) - 1 |->
           LET symbol == ts[l].free[i + 1] IN
           IF symbol.scope = Free THEN home[l - 1][symbol.index] ELSE <<l - 1, symbol.index>>]
  IN  home

Home(ts, symbol) ==
  CASE symbol.scope = Builtin -> <<0, symbol.index>>
    [] symbol.scope = Global  -> <<1, symbol.index>>
    [] symbol.scope = Local   -> <<Len(ts), symbol.index>>
    [] symbol.scope = Free    -> CaptureHome(ts)[Len(ts)][symbol.index]

Lexical ==
  INSTANCE LexicalScope WITH
    scopes <- [l \in DOMAIN tables |-> OwnSlots(tables[l])],
    used   <- [l \in DOMAIN tables |-> 0 .. tables[l].numDefinitions - 1],
    reply  <- IF Len(reply) = 2 THEN <<reply[1]>> \o Home(tables, reply[2]) ELSE reply

(* The symbol table implements static scoping: the symbol Resolve returns  *)
(* leads, through the captures, to the slot of the innermost definition.   *)
LexicalScoping == Lexical!Spec

================================================================================
