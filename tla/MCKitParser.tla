----------------------------- MODULE MCKitParser -----------------------------
EXTENDS KitParser

Topic(begin, ts, bound) == [begin |-> begin, tokens |-> ts, bound |-> bound]
Variable == <<"let", "name", "=">>
Main     == <<"fn", "name", "(", ")", "{">>
Chain    == Main \o <<"if", "(", "name", ")">>

(* Every pair of operators, and deeper texts of a few of them.             *)
Operators == {"=", "||", "&&", "|", "^", "&", "<", "+", "-", "*", "!", "~", "+=", "**"}
Expressions ==
  {Topic(Variable, {"name", ";", a, b}, 9) : a, b \in Operators}
  \cup {Topic(Variable, {"name", "(", ")", ";"} \cup pair, 11) :
          pair \in {{"*", "-"}, {"=", "&&"}}}

Postfixes == {Topic(Variable, {"name", "[", "]", ".", "=", ";", "-", "++"}, 10),
              Topic(Variable, {"name", "::", "(", ")", ",", ";", "!"}, 10)}
Literals  == {Topic(Variable, {"name", "number", "[", "]", ",", ";"}, 10),
              Topic(Variable, {"name", "#{", "{", "}", ":", ",", ";"}, 11)}
Chains    == {Topic(Chain, {"if", "else", "(", ")", "name", ";", "{", "}"}, 15),
              Topic(Chain \o <<";", "else">>, {"if", "else", "(", ")", "name", ";", "}"}, 19),
              Topic(Main, {"while", "defer", "return", "break", "(", ")", "name", ";", "}"}, 11)}
Fors      == {Topic(Main \o <<"for", "(">>, {"name", "let", "=", ";", ")", "}"}, 16),
              Topic(Main \o <<"for", "(", "name", ";", "name", ";">>,
                    {"name", ",", "(", ")", ";", "{", "}"}, 18)}
(* `for name` is refused until `in` follows: these begin behind it.        *)
Ranges    == {Topic(Main \o <<"for">> \o head \o <<"name", "in">>,
                    {"(", ")", ";", "name", "..", "{", "}", "+"}, 14 + Len(head)) :
                head \in {<<>>, <<"let">>, <<"(">>, <<"(", "let">>}}
Scopes    == {Topic(<<>>, {"namespace", "struct", "let", "const", "fn", "extern", "assert",
                           "name", "(", ")", "{", "}", "=", ",", ";"}, 6),
              Topic(<<"extern">>, {"fn", "name", "(", ")", "{", "}", ",", ";"}, 10),
              Topic(<<"namespace", "name", "{">>,
                    {"let", "name", ",", "=", "assert", "const", "}", ";"}, 11),
              Topic(<<"struct", "name", "{">>,
                    {"let", "fn", "name", ",", "(", ")", "}", ";"}, 11)}

AllTopics == UNION {Expressions, Postfixes, Literals, Chains, Fors, Ranges, Scopes}
==============================================================================
