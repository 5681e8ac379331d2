---------------------------- MODULE MCKitOptimizer ----------------------------
(* What the programs of the runs are about.  A statement of a menu may     *)
(* name a variable that another one declares: without it the program is    *)
(* refused.                                                                *)
EXTENDS KitOptimizer

N(x) == Name(x)
I(k) == Lit(IntOf(k))
F(k) == Lit(FloatOf(k))
Bin(op, a, b)  == Node("binary", op, <<a, b>>)
Un(op, a)      == Node("unary", op, <<a>>)
And(a, b)      == Node("and", "", <<a, b>>)
Or(a, b)       == Node("or", "", <<a, b>>)
To(e, v)       == Node("assign", "", <<e, v>>)
Set(x, v)      == To(N(x), v)
Add(e, v)      == Node("compound", "ADD", <<e, v>>)
Let(x, e)      == Node("let", x, <<e>>)
Const(x, e)    == Node("const", x, <<e>>)
Call(f, args)  == Node("call", "", <<N(f)>> \o args)
Block(s)       == Node("block", "", s)
If(c, s, t)    == Node("if", "", <<c, Block(s), Block(t)>>)
Return(e)      == Node("return", "", <<e>>)
Insist(e)      == Node("assert", "", <<e>>)
Inc(x)         == Node("step", "ADD", <<N(x)>>)
Dec(x)         == Node("step", "SUB", <<N(x)>>)
Dot(e, c)      == Node("member", c, <<e>>)
While(c, s)    == Node("while", "", <<c, Block(s)>>)
For(i, c, n, s) == Node("for", "", <<i, c, Block(<<n>>), Block(s)>>)
Over(x, a, b, s) == Node("range", x, <<a, b, Block(s)>>)
Break          == Node("break", "", <<>>)
Continue       == Node("continue", "", <<>>)
Show(e)        == Call("print", <<e>>)
Func(name, ps, b) == [name |-> name, params |-> ps, body |-> b]

Numbers == <<<<IntOf(0), IntOf(1)>>, <<IntOf(2), IntOf(1)>>>>
Topic(helpers, globals, menu, end, bound) ==
  [helpers |-> helpers, params |-> <<"a", "b">>, globals |-> globals, inputs |-> Numbers,
   menu |-> menu, end |-> end, bound |-> bound]

Moves == Topic(<<>>, <<>>,
  <<Set("a", N("b")), Set("b", N("a")), Set("b", I(1)), Let("c", N("a")), Set("c", I(3)),
    Set("a", Bin("ADD", N("b"), Set("b", I(2)))), Add(N("a"), N("c")),
    If(N("a"), <<Set("b", N("a"))>>, <<Set("a", I(2))>>)>>,
  <<Return(Bin("SUB", N("a"), N("b")))>>, 4)

Truths == Topic(<<>>, <<>>,
  <<Set("a", And(N("a"), N("b"))), Set("b", Or(N("a"), Call("print", <<N("b")>>))),
    Set("a", Bin("MUL", I(2), I(3))), Set("b", Un("NOT", N("a"))), Set("a", Un("NEG", I(4))),
    Show(Or(I(0), And(N("a"), Inc("b")))), Set("b", Bin("EQL", N("a"), F(2))),
    Set("b", F(1)), Const("a", I(1)), Insist(Bin("NEQ", N("a"), N("b")))>>,
  <<If(Bin("LT", N("a"), N("b")), <<Return(N("a"))>>, <<>>), Return(N("b"))>>, 3)

Loops == Topic(<<>>, <<"g">>,
  <<While(N("a"), <<Dec("a"), Add(N("b"), N("a"))>>),
    While(Bin("LT", N("b"), I(3)), <<Inc("b"), If(N("a"), <<Break>>, <<Show(N("b"))>>)>>),
    For(Let("i", I(0)), Bin("LT", N("i"), I(2)), Inc("i"),
        <<If(Bin("EQL", N("i"), N("a")), <<Continue>>, <<>>), Add(N("b"), N("i"))>>),
    Over("i", N("a"), I(3), <<Let("a", N("i")), Show(N("a"))>>),
    Over("i", N("b"), N("a"), <<Show(N("i"))>>),
    Set("g", N("b")), Set("a", I(2)), Break>>,
  <<Return(N("a"))>>, 3)

Calls == Topic(
  <<Func("bump", <<"n">>, <<Set("g", N("n")), Show(N("n"))>>),
    Func("pick", <<"x", "y">>, <<If(Bin("LT", N("x"), N("y")), <<Return(N("x"))>>, <<>>),
                                 Return(N("y"))>>),
    Func("third", <<"x", "y", "z">>, <<While(N("z"), <<Dec("z"), Add(N("x"), N("y"))>>),
                                       Return(N("x"))>>),
    Func("twice", <<"x">>, <<Let("t", Call("pick", <<N("x"), I(1)>>)),
                             Return(Bin("ADD", N("t"), N("x")))>>)>>,
  <<"g">>,
  <<Set("a", Call("pick", <<N("a"), N("b")>>)), Set("b", Call("twice", <<N("a")>>)),
    Call("bump", <<N("b")>>), Set("a", N("g")),
    Show(Call("third", <<Call("twice", <<I(2)>>), N("a"), N("b")>>)),
    Insist(Call("twice", <<N("a")>>)),
    Set("b", Call("pick", <<N("b"), Call("pick", <<N("a"), I(1)>>)>>))>>,
  <<Return(N("b"))>>, 3)

Vectors == Topic(<<>>, <<"g">>,
  <<Let("p", Call("vec2", <<N("a"), N("b")>>)), To(Dot(N("p"), "x"), I(7)),
    Add(Dot(N("p"), "y"), Dot(N("p"), "x")), Set("g", N("p")), To(Dot(N("g"), "y"), I(5)),
    Set("p", Call("vec2", <<Dot(N("p"), "y"), I(1)>>))>>,
  <<Show(N("p")), Return(Dot(N("p"), "x"))>>, 4)

AllTopics == [moves |-> Moves, truths |-> Truths, loops |-> Loops, calls |-> Calls,
              vectors |-> Vectors]

(* One vector under two names.                                             *)
Copied == Topic(<<>>, <<>>,
  <<Let("p", Call("vec2", <<N("a"), N("b")>>)), Let("q", N("p")), To(Dot(N("q"), "x"), I(7))>>,
  <<Return(Dot(N("p"), "x"))>>, 3)
CopiedOnly == [copied |-> Copied]
===============================================================================
