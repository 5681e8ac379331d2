------------------------------ MODULE KitParser ------------------------------
(***************************************************************************)
(* The parser, src/src/kit.ast.c: a recursive descent over the tokens with *)
(* binding powers (Pratt) for operators.  Everything, statements and       *)
(* declarations too, is an expression and goes through kit_ast_expr.       *)
(*                                                                         *)
(* The program is written token by token, by anyone, and parsed after each *)
(* one; a text that is refused is not written on.  What the tree ought to  *)
(* be is said the other way round: by writing a tree as text (`Text`),     *)
(* from the ranks of the operators and from nothing the parser uses.       *)
(*                                                                         *)
(* A token is its type, a node has the positions of the names and literals *)
(* it was made from (`at`).  Where the parser wants a token and there is   *)
(* none the result is "ended": the code refuses, or reads past the array.  *)
(* The memory of the nodes is not modelled.                                *)
(***************************************************************************)
EXTENDS Naturals, Sequences, SequencesExt, FiniteSetsExt, TLC

CONSTANT
  Topics   (* what is written about: records of the tokens it begins with,
              the tokens that may follow, and the bound on its length *)

VARIABLES
  topic,   (* one of them *)
  tokens,  (* kit_parser.toks *)
  result   (* what kit_parse makes of them *)

vars == <<topic, tokens, result>>

-----------------------------------------------------------------------------
Node(kind, op, at, parts) == [kind |-> kind, op |-> op, at |-> at, parts |-> parts]
Nothing      == Node("nothing", "", <<>>, <<>>)   (* a part left out *)
Missing      == Node("missing", "", <<>>, <<>>)   (* a node number of -1 *)
Block(stmts) == Node("block", "", <<>>, stmts)

Got(node, h) == [status |-> "ok", node |-> node, at |-> h]
Fail(h)      == [status |-> "fail", node |-> Missing, at |-> h]
Ended        == [status |-> "ended", node |-> Missing, at |-> 0]

Then(r, Op(_)) == IF r.status = "ok" THEN Op(r) ELSE r
(* The negative number is not looked at.                                   *)
OrMissing(r)   == IF r.status = "fail" THEN Got(Missing, r.at) ELSE r

(* kit_parser_peek.                                                        *)
Peek(ts, h) == IF h <= Len(ts) THEN ts[h] ELSE "end"

(* kit_ast_expect: the token is consumed whatever it is.                   *)
Expect(ts, h, token, node) ==
  CASE Peek(ts, h) = token -> Got(node, h + 1)
    [] Peek(ts, h) = "end" -> Ended
    [] OTHER               -> Fail(h + 1)

Compound == ("+=" :> "+") @@ ("-=" :> "-") @@ ("*=" :> "*") @@ ("/=" :> "/")
         @@ ("%=" :> "%") @@ ("|=" :> "|") @@ ("^=" :> "^") @@ ("&=" :> "&")
         @@ ("~=" :> "~")
Base(op) == IF op \in DOMAIN Compound THEN Compound[op] ELSE op

(* conv_token_type_to_operator has an operator for these.                  *)
Arithmetic == {"+", "-", "*", "/", "%"}
Compares   == {"==", "!=", "<", "<=", ">", ">="}
Binary     == Arithmetic \cup Compares \cup {"&&", "||", "&", "|", "^", "~", "**"}
Prefix     == {"+", "-", "!", "~"}

(* kit_getbp: how strongly a token binds what is on its left, and what is  *)
(* on its right.  ** has no entry.                                         *)
Powers(token) ==
  LET t == Base(token)
  IN  CASE t = "="                -> <<10, 9>>
        [] t = "||"               -> <<20, 19>>
        [] t = "&&"               -> <<30, 29>>
        [] t = "|"                -> <<32, 33>>
        [] t = "^"                -> <<34, 35>>
        [] t = "&"                -> <<36, 37>>
        [] t \in Compares         -> <<40, 41>>
        [] t \in {"+", "-"}       -> <<50, 51>>
        [] t \in {"*", "/", "%"}  -> <<60, 61>>
        [] t \in {"!", "~"}       -> <<0, 65>>
        [] t = "."                -> <<70, 69>>
        [] t = "::"               -> <<75, 74>>
        [] t \in {"++", "--"}     -> <<80, 0>>
        [] t = "("                -> <<90, 100>>
        [] t = ")"                -> <<0, 100>>
        [] t \in {"{", "["}       -> <<100, 99>>
        [] OTHER                  -> <<0, 0>>

\* Mutant: a deferred statement needs a semicolon.
IsLimiterExemptButDefer(kind) ==
  kind \in {"if", "while", "for", "ranged", "function", "nop"}

(* kit_ast_is_limiter_exempt: statements with no semicolon behind them.    *)
IsLimiterExempt(kind) ==
  kind \in {"if", "while", "for", "ranged", "function", "defer", "nop"}

-----------------------------------------------------------------------------
RECURSIVE Expr(_, _, _), Climb(_, _, _), Nud(_, _), Led(_, _, _)
RECURSIVE Braces(_, _, _), Body(_, _), Variables(_, _, _, _), ElseIfs(_, _, _)
RECURSIVE Iterators(_, _, _), Params(_, _, _), Args(_, _, _), Elements(_, _, _)
RECURSIVE Pairs(_, _, _)

(* kit_ast_expr, and its loop.                                             *)
Expr(ts, h, rbp) ==
  IF h > Len(ts) THEN Ended
  ELSE Then(Nud(ts, h), LAMBDA left : Climb(ts, left, rbp))

Climb(ts, left, rbp) ==
  IF left.status # "ok" \/ Powers(Peek(ts, left.at))[1] <= rbp THEN left
  ELSE Climb(ts, Led(ts, left.node, left.at), rbp)

(* A statement in braces or of a body, with its semicolon.                 *)
Statement(ts, h) ==
  Then(Expr(ts, h, 0), LAMBDA s :
    IF IsLimiterExempt(s.node.kind) THEN s ELSE Expect(ts, s.at, ";", s.node))

(* parse_braces, behind the opening one.                                   *)
Braces(ts, h, stmts) ==
  CASE Peek(ts, h) = "end" -> Ended
    [] Peek(ts, h) = "}"   -> Got(stmts, h + 1)
    [] OTHER -> Then(Statement(ts, h), LAMBDA s :
                  Braces(ts, s.at, Append(stmts, s.node)))

(* parse_body.                                                             *)
Body(ts, h) ==
  CASE Peek(ts, h) = "{" -> Braces(ts, h + 1, <<>>)
    [] Peek(ts, h) = ";" -> Got(<<>>, h + 1)
    [] OTHER -> Then(Statement(ts, h), LAMBDA s : Got(<<s.node>>, s.at))

(* parse_variable_decleration.  One declaration is itself, several are a   *)
(* list of statements.                                                     *)
Variables(ts, h, const, decls) ==
  LET initializer == CASE Peek(ts, h + 1) = "end" -> Ended
                       [] Peek(ts, h + 1) = "="   -> Expr(ts, h + 2, 0)
                       [] OTHER                   -> Got(Nothing, h + 1)
      Declared(i) == Append(decls, Node("let", const, <<h>>, <<i.node>>))
  IN  CASE Peek(ts, h) = "end"  -> Ended
        [] Peek(ts, h) # "name" -> Fail(h)
        [] OTHER -> Then(initializer, LAMBDA i :
             CASE Peek(ts, i.at) = ","   -> Variables(ts, i.at + 1, const, Declared(i))
               [] Len(Declared(i)) = 1   -> Got(Declared(i)[1], i.at)
               [] OTHER                  -> Got(Node("list", "let", <<>>, Declared(i)), i.at))

(* ( condition ) body, of if and while; the condition of an else if is     *)
(* not checked.                                                            *)
Guarded(ts, h, checked) ==
  Then(Expect(ts, h, "(", Nothing), LAMBDA o :
  Then(IF checked THEN Expr(ts, o.at, 0) ELSE OrMissing(Expr(ts, o.at, 0)), LAMBDA c :
  Then(Expect(ts, c.at, ")", Nothing), LAMBDA d :
  Then(Body(ts, d.at), LAMBDA b : Got(<<c.node, Block(b.node)>>, b.at)))))

(* The chain of else if and else of parse_if.                              *)
ElseIfs(ts, h, parts) ==
  IF Peek(ts, h) # "else" THEN Got(parts, h)
  ELSE IF Peek(ts, h + 1) = "if"
  THEN Then(Guarded(ts, h + 2, FALSE), LAMBDA g : ElseIfs(ts, g.at, parts \o g.node))
  ELSE Then(Body(ts, h + 1), LAMBDA b : Got(Append(parts, Block(b.node)), b.at))

(* parse_if, parse_while.                                                  *)
If(ts, h) ==
  Then(Guarded(ts, h, TRUE), LAMBDA g :
  Then(ElseIfs(ts, g.at, g.node), LAMBDA e : Got(Node("if", "", <<>>, e.node), e.at)))

While(ts, h) ==
  Then(Guarded(ts, h, TRUE), LAMBDA g : Got(Node("while", "", <<>>, g.node), g.at))

(* is_ranged_for_statement: [(] [let] name in.                             *)
RangeName(ts, h) ==
  LET a == IF Peek(ts, h) = "(" THEN h + 1 ELSE h
  IN  IF Peek(ts, a) = "let" THEN a + 1 ELSE a
IsRanged(ts, h) ==
  Peek(ts, RangeName(ts, h)) = "name" /\ Peek(ts, RangeName(ts, h) + 1) = "in"

(* parse_ranged_for.                                                       *)
RangedFor(ts, h) ==
  LET n     == RangeName(ts, h)
      paren == IF Peek(ts, h) = "(" THEN "(" ELSE ""
  IN  Then(Expr(ts, n + 2, 0), LAMBDA a :
      Then(Expect(ts, a.at, "..", Nothing), LAMBDA d :
      Then(Expr(ts, d.at, 0), LAMBDA z :
      Then(IF paren = "(" THEN Expect(ts, z.at, ")", Nothing) ELSE z, LAMBDA e :
      Then(Body(ts, e.at), LAMBDA b :
        Got(Node("ranged", paren, <<n>>, <<a.node, z.node, Block(b.node)>>), b.at))))))

Iterators(ts, h, parts) ==
  Then(Expr(ts, h, 0), LAMBDA i :
    CASE Peek(ts, i.at) = "end" -> Ended
      [] Peek(ts, i.at) = ","   -> Iterators(ts, i.at + 1, Append(parts, i.node))
      [] OTHER                  -> Got(Append(parts, i.node), i.at))

(* The initialisation and the condition in the head of a for.  One that is *)
(* left out consumes the semicolon, and then one is expected.              *)
ForPart(ts, h) ==
  Then(IF Peek(ts, h) = ";" THEN Got(Nothing, h + 1) ELSE Expr(ts, h, 0),
       LAMBDA p : Expect(ts, p.at, ";", p.node))

(* parse_for.                                                              *)
For(ts, h) ==
  IF IsRanged(ts, h) THEN RangedFor(ts, h)
  ELSE Then(Expect(ts, h, "(", Nothing), LAMBDA o :
       Then(ForPart(ts, o.at), LAMBDA i :
       Then(ForPart(ts, i.at), LAMBDA c :
       Then(IF Peek(ts, c.at) = ";" THEN Got(<<>>, c.at + 1)
            ELSE Iterators(ts, c.at, <<>>), LAMBDA s :
       Then(Expect(ts, s.at, ")", Nothing), LAMBDA d :
       Then(Body(ts, d.at), LAMBDA b :
         Got(Node("for", "", <<>>, <<i.node, c.node, Block(s.node), Block(b.node)>>),
             b.at)))))))

(* parse_function: the names of the parameters, and the whole.             *)
Params(ts, h, names) ==
  CASE Peek(ts, h) = "end"  -> Ended
    [] Peek(ts, h) = ")"    -> Got(names, h + 1)
    [] Peek(ts, h) # "name" -> Fail(h)
    [] Peek(ts, h + 1) = ")" -> Got(Append(names, h), h + 2)
    [] OTHER -> Then(Expect(ts, h + 1, ",", Nothing), LAMBDA c :
                  Params(ts, c.at, Append(names, h)))

Function(ts, h, external) ==
  Then(Expect(ts, h, "name", Nothing), LAMBDA n :
  Then(Expect(ts, n.at, "(", Nothing), LAMBDA o :
  Then(Params(ts, o.at, <<h>>), LAMBDA a :
  Then(IF external = "extern" THEN Expect(ts, a.at, ";", <<>>) ELSE Body(ts, a.at),
       LAMBDA b : Got(Node("function", external, a.node, <<Block(b.node)>>), b.at)))))

(* The loops of parse_function_call, parse_list, and parse_map and         *)
(* parse_struct_fill.  A comma may come before the end.  An element of a   *)
(* list is not checked.                                                    *)
Args(ts, h, parts) ==
  CASE Peek(ts, h) = "end" -> Ended
    [] Peek(ts, h) = ")"   -> Got(parts, h + 1)
    [] OTHER -> Then(Expr(ts, h, 0), LAMBDA a :
         IF Peek(ts, a.at) = ")" THEN Got(Append(parts, a.node), a.at + 1)
         ELSE Then(Expect(ts, a.at, ",", Nothing), LAMBDA c :
                Args(ts, c.at, Append(parts, a.node))))

\* Mutant: the element before a closing comma is dropped.
ElementsButLast(ts, h, parts) ==
  CASE Peek(ts, h) = "end" -> Ended
    [] Peek(ts, h) = "]"   -> Got(IF parts = <<>> THEN parts ELSE Front(parts), h + 1)
    [] OTHER -> Then(OrMissing(Expr(ts, h, 0)), LAMBDA e :
         IF Peek(ts, e.at) = "]" THEN Got(Append(parts, e.node), e.at + 1)
         ELSE Then(Expect(ts, e.at, ",", Nothing), LAMBDA c :
                Elements(ts, c.at, Append(parts, e.node))))

Elements(ts, h, parts) ==
  CASE Peek(ts, h) = "end" -> Ended
    [] Peek(ts, h) = "]"   -> Got(parts, h + 1)
    [] OTHER -> Then(OrMissing(Expr(ts, h, 0)), LAMBDA e :
         IF Peek(ts, e.at) = "]" THEN Got(Append(parts, e.node), e.at + 1)
         ELSE Then(Expect(ts, e.at, ",", Nothing), LAMBDA c :
                Elements(ts, c.at, Append(parts, e.node))))

Pairs(ts, h, parts) ==
  CASE Peek(ts, h) = "end" -> Ended
    [] Peek(ts, h) = "}"   -> Got(parts, h + 1)
    [] OTHER ->
         Then(Expr(ts, h, 0), LAMBDA k :
         Then(Expect(ts, k.at, ":", Nothing), LAMBDA d :
         Then(Expr(ts, d.at, 0), LAMBDA v :
           IF Peek(ts, v.at) = "}" THEN Got(parts \o <<k.node, v.node>>, v.at + 1)
           ELSE Then(Expect(ts, v.at, ",", Nothing), LAMBDA c :
                  Pairs(ts, c.at, parts \o <<k.node, v.node>>)))))

Call(ts, left, h) ==
  Then(Args(ts, h, <<left>>), LAMBDA a : Got(Node("call", "", <<>>, a.node), a.at))
List(ts, h) ==
  Then(Elements(ts, h, <<>>), LAMBDA e : Got(Node("listing", "", <<>>, e.node), e.at))
Map(ts, h) ==
  Then(Pairs(ts, h, <<>>), LAMBDA e : Got(Node("map", "", <<>>, e.node), e.at))
Fill(ts, left, h) ==
  IF left.kind # "name" THEN Fail(h)
  ELSE Then(Pairs(ts, h, <<>>), LAMBDA e : Got(Node("fill", "", left.at, e.node), e.at))

(* parse_namespace_decleration and parse_struct_decleration: what their    *)
(* braces may contain is looked at afterwards, one level into lists.       *)
InNamespace == {"function", "struct", "namespace", "let", "assert"}
InStruct    == {"function", "let"}
Declares(s, kinds) ==
  IF s.kind = "list" THEN \A i \in DOMAIN s.parts : s.parts[i].kind \in kinds
  ELSE s.kind \in kinds

Scope(ts, h, kind, kinds) ==
  IF Peek(ts, h) \notin {"name", "end"} THEN Fail(h)
  ELSE Then(Expect(ts, h, "name", Nothing), LAMBDA n :
       Then(Expect(ts, n.at, "{", Nothing), LAMBDA o :
       Then(Braces(ts, o.at, <<>>), LAMBDA b :
         IF \A i \in DOMAIN b.node : Declares(b.node[i], kinds)
         THEN Got(Node(kind, "", <<h>>, <<Block(b.node)>>), b.at)
         ELSE Fail(b.at))))
Namespace(ts, h) == Scope(ts, h, "namespace", InNamespace)
Struct(ts, h)    == Scope(ts, h, "struct", InStruct)

(* parse_namespace_access: a name again.                                   *)
Access(ts, left, h) ==
  Then(IF Peek(ts, h) \in {"name", "end"} THEN Expect(ts, h, "name", Nothing) ELSE Fail(h),
       LAMBDA n : IF left.kind # "name" THEN Fail(n.at)
                  ELSE Got(Node("name", "", Append(left.at, h), <<>>), n.at))

(* The cases of kit_ast_nud, the token being the one before h.             *)
Parenthesised(ts, h) ==
  Then(OrMissing(Expr(ts, h, 0)), LAMBDA e :
  Then(Expect(ts, e.at, ")", e.node), LAMBDA d : IF e.node = Missing THEN Fail(d.at) ELSE d))

Return(ts, h) ==
  CASE Peek(ts, h) = "end" -> Ended
    [] Peek(ts, h) = ";"   -> Got(Node("return", "", <<>>, <<>>), h)
    [] OTHER -> Then(Expr(ts, h, 0), LAMBDA e :
                  Got(Node("return", "", <<>>, <<e.node>>), e.at))

Let(ts, h) ==
  LET first  == ts[h - 1]
      both   == {first, Peek(ts, h)} = {"let", "const"}
  IN  Variables(ts, IF both THEN h + 1 ELSE h,
                IF both THEN "const" ELSE first, <<>>)

Unary(ts, h) ==
  Then(Expr(ts, h, Powers(ts[h - 1])[2]), LAMBDA e :
    Got(Node("prefix", ts[h - 1], <<>>, <<e.node>>), e.at))

(* kit_ast_nud: the token at the head of an expression.                    *)
Nud(ts, head) ==
  LET t == ts[head]
      h == head + 1
  IN  CASE t \in {"name", "number"} -> Got(Node(t, "", <<head>>, <<>>), h)
        [] t = "("                  -> Parenthesised(ts, h)
        [] t = "["                  -> List(ts, h)
        [] t = "#{"                 -> Map(ts, h)
        [] t = "{"                  -> Then(Braces(ts, h, <<>>), LAMBDA b :
                                         Got(Node("list", "{", <<>>, b.node), b.at))
        [] t = ";"                  -> Got(Node("nop", "", <<>>, <<>>), h)
        [] t = "defer"              -> Then(Body(ts, h), LAMBDA b :
                                         Got(Node("defer", "", <<>>, <<Block(b.node)>>), b.at))
        [] t = "assert"             -> Then(Expr(ts, h, 0), LAMBDA e :
                                         Got(Node("assert", "", <<>>, <<e.node>>), e.at))
        [] t \in {"break", "continue"} -> Got(Node(t, "", <<>>, <<>>), h)
        [] t = "return"             -> Return(ts, h)
        [] t \in {"let", "const"}   -> Let(ts, h)
        [] t = "if"                 -> If(ts, h)
        [] t = "while"              -> While(ts, h)
        [] t = "for"                -> For(ts, h)
        [] t = "fn"                 -> Function(ts, h, "")
        [] t = "extern"             -> Function(ts, IF Peek(ts, h) = "fn" THEN h + 1 ELSE h, "extern")
        [] t = "namespace"          -> Namespace(ts, h)
        [] t = "struct"             -> Struct(ts, h)
        [] Base(t) \in Prefix       -> Unary(ts, h)
        [] OTHER                    -> Fail(h)

\* Mutant: the right side binds as strongly as the left.
AssignLeft(ts, left, h) ==
  Then(Expr(ts, h, Powers("=")[1]), LAMBDA r :
    Got(Node("assign", "=", <<>>, <<left, r.node>>), r.at))

(* The case of kit_ast_led for an assignment: an element or a member that  *)
(* is assigned to gives its parts to the new node.                         *)
Assign(ts, left, h) ==
  Then(Expr(ts, h, Powers("=")[2]), LAMBDA r :
    IF left.kind \in {"index", "member"}
    THEN Got(Node(left.kind \o "_assign", "=", left.at, Append(left.parts, r.node)), r.at)
    ELSE Got(Node("assign", "=", <<>>, <<left, r.node>>), r.at))

(* kit_ast_led: the token at h, behind an operand.                         *)
Led(ts, left, head) ==
  LET t == ts[head]
      h == head + 1
  IN  CASE t = "("  -> Call(ts, left, h)
        [] t = "{"  -> Fill(ts, left, h)
        [] t = "="  -> Assign(ts, left, h)
        [] t = "["  -> Then(Expr(ts, h, 0), LAMBDA i :
                            Expect(ts, i.at, "]", Node("index", "", <<>>, <<left, i.node>>)))
        [] t = "."  -> Expect(ts, h, "name", Node("member", "", <<h>>, <<left>>))
        [] t = "::" -> Access(ts, left, h)
        [] t \in {"++", "--"} -> Got(Node("postfix", t, <<>>, <<left>>), h)
        [] Base(t) \in Binary -> Then(Expr(ts, h, Powers(t)[2]), LAMBDA r :
                                      Got(Node("binary", t, <<>>, <<left, r.node>>), r.at))
        [] OTHER    -> Fail(h)

(* kit_parse: the declarations of a program.                               *)
RECURSIVE Declarations(_, _, _)
Declarations(ts, h, decls) ==
  IF h > Len(ts) THEN Got(Block(decls), h)
  ELSE Then(Expr(ts, h, 0), LAMBDA d :
         IF d.node.kind \notin InNamespace THEN Fail(d.at)
         ELSE Then(IF IsLimiterExempt(d.node.kind) THEN d ELSE Expect(ts, d.at, ";", d.node),
                   LAMBDA s : Declarations(ts, s.at, Append(decls, s.node))))

Parse(ts) == Declarations(ts, 1, <<>>)

-----------------------------------------------------------------------------
Init ==
  /\ topic \in Topics
  /\ tokens = topic.begin
  /\ result = Parse(tokens)

Write ==
  /\ result.status # "fail"
  /\ Len(tokens) < topic.bound
  /\ \E t \in topic.tokens : tokens' = Append(tokens, t)
  /\ result' = Parse(tokens')
  /\ UNCHANGED topic

Spec == Init /\ [][Write]_vars

Accepted == result.status = "ok" /\ tokens # <<>>

-----------------------------------------------------------------------------
(* A tree as text.  Operators have ranks; those of assignment and of the   *)
(* logical ones associate to the right, the others to the left.  Plus and  *)
(* minus before an operand take what an addition takes as its second, the  *)
(* other prefixes bind more strongly than any operator between operands.   *)
Rank(op) ==
  LET t == Base(op)
  IN  CASE t = "="               -> 1
        [] t = "||"              -> 2
        [] t = "&&"              -> 3
        [] t = "|"               -> 4
        [] t = "^"               -> 5
        [] t = "&"               -> 6
        [] t \in Compares        -> 7
        [] t \in {"+", "-"}      -> 8
        [] t \in {"*", "/", "%"} -> 9
RightAssociative == {"=", "||", "&&"}

OnLeft(op)   == 2 * Rank(op)
OnRight(op)  == IF op \in RightAssociative THEN OnLeft(op) - 1 ELSE OnLeft(op) + 1
OnPrefix(op) == IF Base(op) \in {"!", "~"} THEN 21 ELSE OnRight(op)
Suffix == 22   (* what comes behind an operand: a call, an index, a member, ++ *)
Closed == 99

(* An assignment to an element or a member, with the node of its left side *)
(* put back.                                                               *)
Whole(t) ==
  CASE t.kind = "index_assign"  -> Node("assign", "=", <<>>,
         <<Node("index", "", <<>>, SubSeq(t.parts, 1, 2)), t.parts[3]>>)
    [] t.kind = "member_assign" -> Node("assign", "=", <<>>,
         <<Node("member", "", t.at, <<t.parts[1]>>), t.parts[2]>>)
    [] OTHER -> t

Infix    == {"binary", "assign"}
Suffixed == {"call", "index", "member", "postfix", "fill"}
Greedy   == {"return", "assert", "let"}

(* The nodes whose text ends where that of the tree does.  A declaration   *)
(* takes a comma that follows it, and without a value a = that does.       *)
RECURSIVE Endings(_)
Endings(t) ==
  {t} \cup (IF \/ t.parts = <<>> \/ Last(t.parts) = Nothing
               \/ /\ t.kind \notin Infix \cup Greedy
                     \cup {"prefix", "index_assign", "member_assign"}
                  /\ t.op \notin {"let", "const"}
             THEN {} ELSE Endings(Last(t.parts)))
TakesComma(t)  == \E e \in Endings(t) : e.op \in {"let", "const"}
TakesEquals(t) == \E e \in Endings(t) : e.kind = "let" /\ e.parts = <<Nothing>>

(* How strongly an operator must bind not to be torn from the tree by what *)
(* follows it, and by what comes before it.                                *)
RECURSIVE RightEdge(_), LeftEdge(_)
RightEdge(tree) ==
  LET t == Whole(tree)
      Operand(bind) == IF LeftEdge(Last(t.parts)) <= bind THEN bind
                       ELSE Min({bind, RightEdge(Last(t.parts))})
  IN  CASE t.kind \in Infix    -> Operand(OnRight(t.op))
        [] t.kind = "prefix"   -> Operand(OnPrefix(t.op))
        [] t.op \in {"let", "const"} /\ TakesEquals(t)    -> Closed
        [] t.kind \in Greedy \/ t.op \in {"let", "const"} -> 0
        [] OTHER               -> Closed
LeftEdge(tree) ==
  LET t == Whole(tree)
      Operand(bind) == IF RightEdge(t.parts[1]) < bind THEN bind
                       ELSE Min({bind, LeftEdge(t.parts[1])})
  IN  CASE t.kind \in Infix    -> Operand(OnLeft(t.op))
        [] t.kind \in Suffixed \ {"fill"} -> Operand(Suffix)
        [] OTHER               -> Closed

Wrap(s)       == <<"(">> \o s \o <<")">>
Join(ss, sep) == FlattenSeq([i \in DOMAIN ss |->
                   IF i = Len(ss) THEN ss[i] ELSE Append(ss[i], sep)])
Names(at)     == [i \in DOMAIN at |-> <<"name">>]

RECURSIVE Text(_)
LeftText(t, bind)  == IF RightEdge(t) < bind \/ (bind = OnLeft("=") /\ TakesEquals(t))
                      THEN Wrap(Text(t)) ELSE Text(t)
RightText(t, bind) == IF LeftEdge(t) <= bind THEN Wrap(Text(t)) ELSE Text(t)
Listed(ts) == Join([i \in DOMAIN ts |->
                IF i < Len(ts) /\ TakesComma(ts[i]) THEN Wrap(Text(ts[i])) ELSE Text(ts[i])], ",")
Paired(ts) == Join([i \in 1..(Len(ts) \div 2) |->
                Text(ts[2 * i - 1]) \o <<":">> \o
                (IF 2 * i < Len(ts) /\ TakesComma(ts[2 * i]) THEN Wrap(Text(ts[2 * i]))
                 ELSE Text(ts[2 * i]))], ",")

NeedsNoSemicolon == {"if", "while", "for", "ranged", "function", "defer", "nop"}
StatementText(t) == Text(t) \o (IF t.kind \in NeedsNoSemicolon THEN <<>> ELSE <<";">>)
Statements(ts)   == FlattenSeq([i \in DOMAIN ts |-> StatementText(ts[i])])
Braced(block)    == <<"{">> \o Statements(block.parts) \o <<"}">>
(* Without parentheses the head of a ranged for would take the brace.      *)
Bare(block)      == IF block.parts = <<>> THEN <<";">> ELSE Statements(block.parts)

(* if, and the branches of its chain.                                      *)
RECURSIVE Branches(_)
Branches(parts) ==
  CASE Len(parts) = 0 -> <<>>
    [] Len(parts) = 1 -> <<"else">> \o Braced(parts[1])
    [] OTHER -> <<"else", "if">> \o Wrap(Text(parts[1])) \o Braced(parts[2])
                \o Branches(SubSeq(parts, 3, Len(parts)))

(* A declaration without its let.                                          *)
Declarator(t, last) ==
  <<"name">> \o (IF t.parts = <<>> \/ t.parts[1] = Nothing THEN <<>>
                 ELSE IF ~last /\ TakesComma(t.parts[1]) THEN <<"=">> \o Wrap(Text(t.parts[1]))
                 ELSE <<"=">> \o Text(t.parts[1]))
(* Where a semicolon would say that there is nothing.                      *)
NotEmpty(text) == IF Head(text) = ";" THEN Wrap(text) ELSE text
Part(t)        == IF t = Nothing THEN <<";">> ELSE NotEmpty(Text(t))

Text(tree) ==
  LET t == Whole(tree)
      p == t.parts
  IN  CASE t.kind = "name"     -> Join(Names(t.at), "::")
        [] t.kind = "number"   -> <<"number">>
        [] t.kind \in Infix    -> LeftText(p[1], OnLeft(t.op)) \o <<t.op>>
                                  \o RightText(p[2], OnRight(t.op))
        [] t.kind = "prefix"   -> <<t.op>> \o RightText(p[1], OnPrefix(t.op))
        [] t.kind = "postfix"  -> LeftText(p[1], Suffix) \o <<t.op>>
        [] t.kind = "member"   -> LeftText(p[1], Suffix) \o <<".", "name">>
        [] t.kind = "index"    -> LeftText(p[1], Suffix) \o <<"[">> \o Text(p[2]) \o <<"]">>
        [] t.kind = "call"     -> LeftText(p[1], Suffix) \o Wrap(Listed(Tail(p)))
        [] t.kind = "fill"     -> Join(Names(t.at), "::") \o <<"{">> \o Paired(p) \o <<"}">>
        [] t.kind = "listing"  -> <<"[">> \o Listed(p) \o <<"]">>
        [] t.kind = "map"      -> <<"#{">> \o Paired(p) \o <<"}">>
        [] t.kind = "nop"      -> <<";">>
        [] t.kind \in {"break", "continue"} -> <<t.kind>>
        [] t.kind = "assert"   -> <<"assert">> \o Text(p[1])
        [] t.kind = "return"   -> <<"return">> \o (IF p = <<>> THEN p ELSE NotEmpty(Text(p[1])))
        [] t.kind = "let"      -> <<t.op>> \o Declarator(t, TRUE)
        [] t.kind = "list" /\ t.op = "{" -> Braced(t)
        [] t.kind = "list"     -> <<p[1].op>> \o
             Join([i \in DOMAIN p |-> Declarator(p[i], i = Len(p))], ",")
        [] t.kind = "defer"    -> <<"defer">> \o Braced(p[1])
        [] t.kind = "if"       -> <<"if">> \o Wrap(Text(p[1])) \o Braced(p[2])
                                  \o Branches(SubSeq(p, 3, Len(p)))
        [] t.kind = "while"    -> <<"while">> \o Wrap(Text(p[1])) \o Braced(p[2])
        [] t.kind = "for"      -> <<"for", "(">> \o Part(p[1]) \o <<";">> \o Part(p[2]) \o <<";">>
             \o (IF p[3].parts = <<>> THEN <<";">> ELSE NotEmpty(Listed(p[3].parts))) \o <<")">> \o Braced(p[4])
        [] t.kind = "ranged"   -> <<"for", t.op, "name", "in">> \o Text(p[1]) \o <<"..">> \o Text(p[2])
             \o (IF t.op = "(" THEN <<")">> \o Braced(p[3]) ELSE Bare(p[3]))
        [] t.kind = "function" -> (IF t.op = "extern" THEN <<t.op>> ELSE <<"fn">>) \o <<"name">>
             \o Wrap(Join(Names(Tail(t.at)), ","))
             \o (IF t.op = "extern" THEN <<";">> ELSE Braced(p[1]))
        [] t.kind \in {"namespace", "struct"} -> <<t.kind, "name">> \o Braced(p[1])

ProgramText(program) == SelectSeq(Statements(program.parts), LAMBDA t : t # "")

-----------------------------------------------------------------------------
(* Positions forgotten.                                                    *)
RECURSIVE Shape(_), Positions(_), IsComplete(_), InOrder(_)
Shape(t) == Node(t.kind, t.op, Len(t.at), [i \in DOMAIN t.parts |-> Shape(t.parts[i])])

Positions(t)  == t.at \o FlattenSeq([i \in DOMAIN t.parts |-> Positions(t.parts[i])])
IsComplete(t) == t # Missing /\ \A i \in DOMAIN t.parts : IsComplete(t.parts[i])
InOrder(t)    == /\ \A i, j \in DOMAIN t.parts : i < j =>
                      \A a \in ToSet(Positions(t.parts[i])), b \in ToSet(Positions(t.parts[j])) : a < b
                 /\ \A i \in DOMAIN t.parts : InOrder(t.parts[i])

Count(s, token) == Cardinality({i \in DOMAIN s : s[i] = token})

(* What is accepted has a tree that, written down, is accepted with the    *)
(* same tree: every tree the parser makes has a text, and none has a text  *)
(* the parser reads differently.                                           *)
RoundTrip ==
  Accepted /\ IsComplete(result.node) =>
    LET again == Parse(ProgramText(result.node))
    IN  again.status = "ok" /\ Shape(again.node) = Shape(result.node)

(* The tree can be written with no more parentheses than the program has:  *)
(* where there are none, operators are taken by rank, and those of one     *)
(* rank in the order in which they associate.                              *)
ParenthesesSuffice ==
  Accepted /\ IsComplete(result.node) =>
    Count(ProgramText(result.node), "(") <= Count(tokens, "(")

(* Every name and every number of the program is in the tree, once, and in *)
(* the order of the text.                                                  *)
NothingLost ==
  Accepted /\ IsComplete(result.node) =>
    /\ ToSet(Positions(result.node)) = {i \in DOMAIN tokens : tokens[i] \in {"name", "number"}}
    /\ IsInjective(Positions(result.node))
    /\ InOrder(result.node)

=============================================================================
