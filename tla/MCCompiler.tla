------------------------------- MODULE MCCompiler ------------------------------
(* The compiler on every program of a small grammar: two statements, the   *)
(* second of which holds an if, a function or another compound expression  *)
(* over the names a and b, and the same inside a nested function.          *)
EXTENDS StackDiscipline, Subtrees, TLC

CONSTANTS a, b, len

MCNames == {a, b, len}
MCBuiltins == <<len>>

Atoms == {Number(1), Var(a), Var(b)}
StatementsOf(Es) ==
  {Expr(e) : e \in Es} \union {Let(a, e) : e \in Es} \union {Return(e) : e \in Es}

Blocks1 == {Block(<<>>)} \union {Block(<<s>>) : s \in StatementsOf(Atoms)}
Blocks2 == {Block(<<s, t>>) : s, t \in StatementsOf(Atoms)}

Ifs == {If(True, t, e) : t \in Blocks1, e \in Blocks1 \union {NoBlock}}
Fns == {Fn(ns, body) : ns \in {<<>>, <<b>>, <<b, a>>}, body \in Blocks1 \union Blocks2}
Others ==
  { Infix("lt", Var(a), Number(1)), Infix("plus", Var(a), Text(<<"s">>)),
    Prefix("bang", Var(len)), Array(<<Var(a), Number(1)>>), Hash(<<Number(1), Var(a)>>),
    Index(Var(a), Number(1)), Call(Var(len), <<Var(a)>>),
    If(If(True, Block(<<Expr(Var(a))>>), NoBlock), Block(<<Expr(Number(1))>>),
       Block(<<Expr(If(Var(a), Block(<<Let(b, Number(1))>>), NoBlock))>>)) }

Compounds == Ifs \union Fns \union Others

(* A function in a function in a function: the innermost reaches two       *)
(* levels out, and the compound is in the middle or inside.                *)
Nested(e) ==
  Fn(<<b>>, Block(<< Let(a, Var(b)),
                     Expr(Fn(<<>>, Block(<<Let(b, Fn(<<>>, Block(<<Expr(e)>>))),
                                           Return(e)>>))) >>))

MCPrograms ==
  {Block(<<s, t>>) : s \in {Let(a, Number(1)), Let(b, Var(len))}, t \in StatementsOf(Compounds)}
    \union {Block(<<Expr(Nested(e))>>) : e \in Compounds}
MCNodes == NodesOf(MCPrograms)
================================================================================
