--------------------------------- MODULE Subtrees ------------------------------
(* The nodes of given trees, for the constant Nodes of module SyntaxTrees. *)
EXTENDS Syntax

RECURSIVE Subtrees(_)

Subtrees(node) == {node} \union UNION {Subtrees(child) : child \in Children(node)}

NodesOf(trees) == UNION {Subtrees(tree) : tree \in trees} \ {NoBlock}

================================================================================
