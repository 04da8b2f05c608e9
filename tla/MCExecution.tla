------------------------------- MODULE MCExecution -----------------------------
(* One line on a small stack, of the sample programs.                      *)
EXTENDS Execution, SamplePrograms, Subtrees

MCBuiltins == BuiltinNames
MCNames == {"f", "g", "x", "y"} \union {BuiltinNames[i] : i \in DOMAIN BuiltinNames}
MCPrograms == Samples
MCNodes == NodesOf(MCPrograms)
================================================================================
