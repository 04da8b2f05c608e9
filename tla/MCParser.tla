-------------------------------- MODULE MCParser -------------------------------
(* Sources for the parser: expressions and statements in the form that     *)
(* Grammar gives them, and arbitrary tokens.                               *)
EXTENDS Grammar

(* Trees of two operators, one under the other, and of three. *)
Under(Es, Fs) ==
  {Infix(o, l, r) : o \in {"plus", "minus", "times", "eq", "lt"}, l \in Es, r \in Fs}
    \union {Prefix(o, e) : o \in PrefixOperators, e \in Es}
    \union {Index(l, i) : l \in Es, i \in Fs}
    \union {Call(f, <<e>>) : f \in Es, e \in Fs}
    \union {Array(<<e, f>>) : e \in Es, f \in Fs}
    \union {Hash(<<e, f>>) : e \in Es, f \in Fs}

Trees0 == {Var("a")}
Trees1 == Trees0 \union Under(Trees0, Trees0)
Trees2 == Under(Trees1, Trees1)

Bodies == { Block(<<>>), Block(<<Expr(Var("b"))>>), Block(<<Let("b", Number(1)), Return(Var("b"))>>) }
Compounds ==
  {If(Var("a"), t, e) : t \in Bodies, e \in Bodies \union {NoBlock}}
    \union {Fn(ns, body) : ns \in {<<>>, <<"a">>, <<"a", "b">>}, body \in Bodies}
    \union {Call(Var("a"), <<>>), Array(<<>>), Hash(<<>>), Hash(<<Text(<<"s">>), True, False, Number(1)>>)}
Around(e) == { e, Infix("minus", e, Var("a")), Infix("minus", Var("a"), e), Call(e, <<e>>),
               If(e, Block(<<Expr(e)>>), NoBlock), Fn(<<>>, Block(<<Expr(e), Expr(e)>>)) }

Programs ==
  {Block(<<s>>) : s \in {Let("a", e) : e \in Trees2} \union {Expr(e) : e \in Trees2} \union {Return(e) : e \in Trees1}}
    \union UNION {{Block(<<Return(f), Expr(f), Let("b", f)>>) : f \in Around(e)} : e \in Compounds}

(* Every token, in some contexts. *)
Tokens ==
  {Name("a")[1], [type |-> "INT", node |-> Missing], LiteralToken(True)[1]}
    \union {[type |-> type] : type \in { "LET", "RETURN", "IF", "ELSE", "FUNCTION", "=", "+", "!",
                                          "*", "(", ")", "{", "}", "[", "]", ",", ":", ";" }}
Plainly(types) == [i \in DOMAIN types |-> IF types[i] = "a" THEN Name("a")[1] ELSE [type |-> types[i]]]
Upto(n) == UNION {[1 .. m -> Tokens] : m \in 0 .. n}

TokenSources ==
  {Plainly(c) \o s : c \in { <<>>, <<"IF", "(", "a", ")", "{">> }, s \in Upto(3)} \union
  {Plainly(c) \o s : c \in { <<"FUNCTION", "(">>, <<"{", "a", ":">>, <<"LET", "a", "=">>,
                             <<"a", "(">>, <<"[", "a">>, <<"FUNCTION", "(", ")", "{", "a">>,
                             <<"IF", "(", "a", ")", "{", "}">> }, s \in Upto(2)}
================================================================================
