------------------------------ MODULE SamplePrograms ---------------------------
(* Programs to run: every operator on every pair of values, the built-in   *)
(* functions, and functions that capture, nest, recurse, return early, or  *)
(* leave their stack in disorder.                                          *)
EXTENDS Syntax

BuiltinNames == <<"len", "puts", "first", "last", "rest", "push">>

Show(e) == Block(<<Expr(e)>>)

Values ==
  { Number(0), Number(7), True, Text(<<"s">>), Array(<<>>), Array(<<Number(1), False>>),
    Hash(<<Text(<<"s">>), Number(2), True, Number(3)>>), Fn(<<>>, Block(<<>>)), Var("len"),
    If(False, Block(<<Expr(Number(1))>>), NoBlock), Call(Var("len"), <<>>) }

Operators == {"plus", "minus", "times", "over", "gt", "lt", "eq", "ne"}
Operations ==
  {Infix(op, v, w) : op \in Operators, v, w \in Values}
    \union {Index(v, w) : v, w \in Values}
    \union {Hash(<<v, w>>) : v \in Values, w \in {Number(1)}}
    \union {Prefix(op, v) : op \in {"bang", "minus"}, v \in Values}
    \union {Call(Var(b), args) : b \in {BuiltinNames[i] : i \in DOMAIN BuiltinNames},
                                 args \in {<<>>} \union {<<v>> : v \in Values}
                                          \union {<<v, Number(1)>> : v \in Values}}
    \union {Call(v, <<>>) : v \in Values}

(* Bodies of a function of x inside a function of y, called on constants.  *)
Ends == {Expr(Var("x")), Return(Var("y")), Let("g", Var("x")), Expr(Var("g")), Return(Var("g")),
         Expr(If(Var("x"), Block(<<Return(Var("y"))>>), NoBlock)),
         Expr(If(Var("x"), Block(<<>>), Block(<<Expr(Var("y"))>>))),
         Expr(If(Var("x"), Block(<<Let("g", Number(5)), Expr(Var("y"))>>), NoBlock)),
         Expr(Call(Var("x"), <<Var("y")>>))}
Bodies ==
  {Block(<<>>)} \union {Block(<<s>>) : s \in Ends} \union {Block(<<s, t>>) : s, t \in Ends}
    \union {Block(<<Let("g", Fn(<<"g">>, Block(<<t>>))), Expr(Call(Var("g"), <<Var("x")>>))>>) : t \in Ends}

Nested(body, x, y) ==
  Call(Call(Fn(<<"y">>, Block(<<Let("g", Number(4)), Expr(Fn(<<"x">>, body))>>)), <<y>>), <<x>>)

Calls ==
  {Infix("plus", Number(3), Nested(body, x, Number(2))) : body \in Bodies, x \in {True, False}}
    \union {Array(<<Number(3), Nested(body, Fn(<<"x">>, Block(<<Expr(Var("x"))>>)), True)>>) : body \in Bodies}
    \union {Call(Fn(<<"x">>, Block(<<Expr(Var("x"))>>)), args) : args \in {<<>>, <<Number(1), Number(2)>>}}

(* Recursion to the limit of the frames or, with more on the stack per     *)
(* call, of the stack; and recursion that ends.                            *)
Recursive ==
  { Block(<<Let("f", Fn(<<"x">>, Block(<<Expr(e)>>))), Expr(Call(Var("f"), <<Number(n)>>))>>) :
    n \in {2, 4}, e \in { Call(Var("f"), <<Var("x")>>),
            Array(<<Var("x"), Var("x"), Var("x"), Call(Var("f"), <<Var("x")>>)>>),
            If(Infix("gt", Var("x"), Number(0)),
               Block(<<Expr(Call(Var("f"), <<Infix("minus", Var("x"), Number(1))>>))>>),
               Block(<<Expr(Var("x"))>>)) } }

(* Locals that no longer fit the stack when the function is called.        *)
Wide ==
  Block(<< Let("f", Fn(<<"x">>, Block(<< Expr(Array(<<Number(1), Number(2), Call(Var("x"), <<Var("x")>>)>>)),
                                         Let("y", Number(1)), Let("g", Number(2)), Let("y", Number(3)) >>))),
           Expr(Call(Var("f"), <<Var("f")>>)) >>)

(* Statements of the main program. *)
Assign(e) == Block(<<Let("x", Number(1)), Expr(e)>>)
Toplevel ==
  { Block(<<Let("x", Var("x"))>>), Block(<<Return(Number(1))>>), Block(<<>>), Wide,
    Block(<<Let("f", Nested(Block(<<Expr(Var("x"))>>), True, True))>>) }
    \union { Block(<<Expr(If(c, t, NoBlock)), Expr(Infix("plus", Number(3), If(d, t, Block(<<Expr(Number(1))>>))))>>) :
               c, d \in {True, False}, t \in {Block(<<>>), Assign(Number(2)), Block(<<Let("x", True)>>)} }
    \union { Block(<<Expr(If(False, Assign(Var("x")), NoBlock)), Expr(e)>>) :
               e \in { Var("x"), Prefix("minus", Var("x")), Infix("eq", True, Var("x")),
                        Array(<<Var("x")>>), Call(Var("puts"), <<Var("x")>>), Index(Var("x"), True) } }

(* Names that are given anew, functions without a value, returns in the    *)
(* middle of something, errors that something goes on with.                *)
Body(e) == Block(<<Expr(e)>>)
Const(e) == Fn(<<>>, Body(e))
Apply(ss) == Block(<<Expr(Call(Fn(<<>>, Block(ss)), <<>>))>>)
Rebinding ==
  <<Let("x", Number(1)), Let("f", Const(Var("x"))), Let("x", Number(2)), Expr(Call(Var("f"), <<>>))>>
Late ==
  <<Let("f", Const(Call(Var("g"), <<>>))), Let("g", Const(Number(1))), Expr(Call(Var("f"), <<>>))>>
Adders ==
  << Let("f", Fn(<<"x">>, Body(Fn(<<"y">>, Body(Infix("plus", Var("x"), Var("y"))))))),
     Let("g", Call(Var("f"), <<Number(1)>>)), Let("x", Call(Var("f"), <<Number(2)>>)),
     Expr(Infix("times", Call(Var("g"), <<Number(1)>>), Call(Var("x"), <<Number(2)>>))) >>
Shadowing(n) ==
  <<Let("x", Number(5)), Expr(Call(Fn(<<"y">>, Block(<<
      Let("f", Const(Var(n))), Let(n, Var("y")), Expr(Array(<<Var(n), Call(Var("f"), <<>>)>>))>>)),
    <<Number(6)>>))>>

Bad == Prefix("minus", True)
Worse == Infix("over", Number(1), Number(0))
Nothing == Call(Fn(<<>>, Block(<<>>)), <<>>)
Early(e) == If(True, Block(<<Return(e)>>), NoBlock)

Uses(e) ==
  { Infix("eq", e, Number(1)), Infix("ne", True, e), Infix("plus", e, e), Prefix("bang", e),
    Prefix("minus", e), If(e, Body(Number(1)), Block(<<Expr(Number(2))>>)), Array(<<e>>),
    Call(Var("puts"), <<e>>), Call(Var("len"), <<e>>), Index(Array(<<e>>), Number(0)),
    Hash(<<e, Number(1)>>), Hash(<<Number(1), e>>), Hash(<<Number(1), True, Number(1), e>>), Hash(<<Number(1), e, Number(1), True>>),
    Hash(<<e, Number(1), Text(<<"s">>), Worse>>), Infix("lt", Worse, e), Infix("gt", e, Worse),
    Call(e, <<>>) }

Scopes ==
  UNION {{Block(ss), Apply(ss)} : ss \in {Rebinding, Late, Adders, Shadowing("x"), Shadowing("len")}}
    \union UNION {{ Show(use), Block(<<Expr(use), Expr(Number(5))>>), Apply(<<Expr(use), Expr(Number(5))>>),
                   Apply(<<Let("x", use), Expr(Var("x"))>>) } :
                  use \in UNION {Uses(e) : e \in {Bad, Nothing, Number(1), Call(Var("len"), <<Number(1)>>)}}}
    \union UNION {{ Apply(<<Expr(use), Expr(Number(5))>>), Apply(<<Let("x", use), Expr(Var("x"))>>),
                   Apply(<<Return(use)>>) } :
                  use \in Uses(Early(Number(4))) \union {Early(Early(Number(4))), Early(Nothing)}}

Samples ==
  {Show(e) : e \in Operations \union Calls} \union Recursive \union Toplevel \union Scopes
================================================================================
