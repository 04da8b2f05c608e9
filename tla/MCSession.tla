-------------------------------- MODULE MCSession ------------------------------
(* Sessions of up to three lines: every order of definitions, uses, and    *)
(* lines that fail in one of the ways a line can.                          *)
EXTENDS Execution, Subtrees

MCBuiltins == <<"len", "puts", "first", "last", "rest", "push">>
MCNames == {"a", "b", "f", "x", "none"} \union {MCBuiltins[i] : i \in DOMAIN MCBuiltins}

Line(ss) == Block(ss)
Show(e) == Block(<<Expr(e)>>)

MCPrograms ==
  { Line(<<Let("a", Number(1))>>),
    Line(<<Let("a", Text(<<"s">>))>>),
    Show(Var("a")),
    (* a function of a global, and one that captures                       *)
    Line(<<Let("f", Fn(<<"x">>, Block(<<Expr(Infix("plus", Var("a"), Var("x")))>>)))>>),
    Line(<<Let("f", Call(Fn(<<"a">>, Block(<<Expr(
             Fn(<<"x">>, Block(<<Expr(Array(<<Var("a"), Var("x"), Text(<<"t">>)>>))>>)))>>)),
             <<Number(2)>>))>>),
    Show(Call(Var("f"), <<Number(1)>>)),
    (* unbounded recursion                                                 *)
    Line(<<Let("f", Fn(<<"x">>, Block(<<Expr(Call(Var("x"), <<Var("x")>>))>>))),
           Expr(Call(Var("f"), <<Var("f")>>))>>),
    (* a failure of the machine, and one of the compiler, in a definition  *)
    Line(<<Let("b", Infix("plus", Number(1), Text(<<"s">>)))>>),
    Line(<<Let("b", Text(<<"u">>)), Let("b", Var("none"))>>),
    Show(Var("b")),
    (* a definition that fails or repairs, and one that is never run       *)
    Line(<<Let("b", Var("a"))>>),
    Show(If(Prefix("bang", Var("a")), Block(<<Let("b", Number(2)), Expr(Var("b"))>>), NoBlock)),
    Line(<<>>),
    Show(Infix("eq", Var("a"), Text(<<"s">>))) }
MCNodes == NodesOf(MCPrograms)
================================================================================
