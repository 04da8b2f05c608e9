------------------------------- MODULE VerifiedCode ----------------------------
(***************************************************************************)
(* The machine on code that module Verifier accepts: the closure that      *)
(* NewWithGlobalStore makes of the main code, and the pool.                *)
(***************************************************************************)
EXTENDS VM, Verifier

ASSUME BytecodesAssumption ==
  \A bytecode \in Bytecodes :
    Verified(MainClosure(bytecode.main).fn, bytecode.constants, Len(Builtins))

================================================================================
