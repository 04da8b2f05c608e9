-------------------------------- MODULE MCEngines ------------------------------
(* Both engines on the sample programs.                                    *)
EXTENDS Engines, SamplePrograms, Subtrees

MCBuiltins == BuiltinNames
MCNames == {"f", "g", "x", "y"} \union {BuiltinNames[i] : i \in DOMAIN BuiltinNames}
MCPrograms == Samples
MCNodes == NodesOf(MCPrograms)
================================================================================
