----------------------------- MODULE LexicalScope ------------------------------
(***************************************************************************)
(* What the compiler's symbol table promises: static scoping.  A program   *)
(* is read from left to right; functions open and close scopes; a let or a *)
(* parameter binds a name to a slot of the innermost open scope that no    *)
(* other definition of that scope has had; a use of a name means the       *)
(* innermost binding in force, whatever happened to the tables before.     *)
(*                                                                         *)
(* Nothing here knows of free symbols: that closures reach an outer        *)
(* function's slot through a chain of captures is the implementation's     *)
(* business (module Scoping).                                              *)
(***************************************************************************)
EXTENDS Integers, Sequences

CONSTANTS
  Names,    (* the identifiers of a program                                *)
  Builtins, (* the sequence of built-in functions, outside every scope     *)
  Slots,    (* the slots a scope can hand out                              *)
  Levels    (* bound: the levels scopes can be open at                     *)

VARIABLES
  scopes,   (* for each open scope, outermost first, its names' slots      *)
  used,     (* for each open scope, the slots handed out                   *)
  reply     (* the answer to the last use: <<>>, <<name>> for an undefined *)
            (* name, or <<name, level, slot>>                              *)

vars == <<scopes, used, reply>>

Innermost == Len(scopes)

EmptyScope == [n \in {} |-> n]

Meanings(name) ==
  {l \in DOMAIN scopes : name \in DOMAIN scopes[l]}

Meaning(name) ==
  CHOOSE l \in Meanings(name) : \A m \in Meanings(name) : m <= l

(* Built-ins are the scope outside the global one: level 0. *)
Answer(name) ==
  IF Meanings(name) # {}
  THEN <<name, Meaning(name), scopes[Meaning(name)][name]>>
  ELSE IF \E i \in DOMAIN Builtins : Builtins[i] = name
       THEN <<name, 0, (CHOOSE i \in DOMAIN Builtins : Builtins[i] = name) - 1>>
       ELSE <<name>>

--------------------------------------------------------------------------------

Init ==
  /\ scopes = <<EmptyScope>>
  /\ used = <<{}>>
  /\ reply = <<>>

Define(name) ==
  \E slot \in Slots \ used[Innermost] :
    /\ scopes' = [scopes EXCEPT ![Innermost] =
                    [n \in DOMAIN @ \union {name} |->
                       IF n = name THEN slot ELSE @[n]]]
    /\ used' = [used EXCEPT ![Innermost] = @ \union {slot}]
    /\ reply' = <<>>

Use(name) ==
  /\ reply' = Answer(name)
  /\ UNCHANGED <<scopes, used>>

Open ==
  /\ Innermost + 1 \in Levels
  /\ scopes' = Append(scopes, EmptyScope)
  /\ used' = Append(used, {})
  /\ reply' = <<>>

Close ==
  /\ Innermost > 1
  /\ scopes' = SubSeq(scopes, 1, Innermost - 1)
  /\ used' = SubSeq(used, 1, Innermost - 1)
  /\ reply' = <<>>

Next ==
  \/ \E name \in Names : Define(name) \/ Use(name)
  \/ Open
  \/ Close

Spec == Init /\ [][Next]_vars

================================================================================
