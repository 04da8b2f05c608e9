------------------------------- MODULE MCEvaluator -----------------------------
(* The evaluator on the sample programs.                                   *)
EXTENDS Evaluation, SamplePrograms, Subtrees

MCPrograms == Samples
MCNodes == NodesOf(MCPrograms)
================================================================================
