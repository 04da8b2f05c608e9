------------------------------- MODULE MCScoping -------------------------------
(* Scoping with one name that programs define and one built-in, which a    *)
(* program may also shadow.                                                *)
EXTENDS Scoping, TLC

CONSTANTS x, len

MCNames == {x, len}
MCBuiltins == <<len>>
MCLevels == 1 .. 4
MCSlots == 0 .. 1
================================================================================
