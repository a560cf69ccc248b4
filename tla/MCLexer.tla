------------------------------- MODULE MCLexer -------------------------------
(* The lexer on every short line over alphabets that bring blanks, quotes and *)
(* comments together, every short text of several lines, and files that       *)
(* include each other.                                                        *)
EXTENDS Texts, TLC

Main == <<"m">>
Texts(symbols, n) == UNION {[1 .. k -> symbols] : k \in 0 .. n}
Alone(text) == Main :> text
Lines1 == {Alone(t) : t \in Texts({Blank, "a", DoubleQuote, Hash}, 5)}
Lines2 == {Alone(t) : t \in Texts({Blank, Tab, SingleQuote, DoubleQuote, "a", Hash}, 4)}
Lines3 == {Alone(t) : t \in Texts({"a", "0", "+", ">", "=", "end", "@", Blank}, 3)}
Lines4 == {Alone(t) : t \in Texts({Newline, "a", Blank, Hash}, 5)}
Lines5 == {Alone(t) : t \in {<<"include", Blank>> \o u : u \in Texts({DoubleQuote, "a", Hash, Blank}, 3)}}

Inc(p) == <<"include", Blank, DoubleQuote, p, DoubleQuote>>
Line == {Inc("b"), Inc("c"), Inc("m"), <<"a">>, <<"a", Blank, "0">>, Inc("b") \o <<Blank, "+">>,
         <<"+", Blank>> \o Inc("b"), <<DoubleQuote, "b", DoubleQuote, Blank>> \o Inc("c")}
OfLines(ls) == FlattenSeq([k \in DOMAIN ls |-> ls[k] \o <<Newline>>])
Bs == {<<>>, <<"a", Blank, "0", Blank, "a">>, <<"a", Newline>> \o Inc("c"), Inc("c"), Inc("b"),
       <<Newline, Blank, "a">>}
Cs == {<<"+">>, <<"@">>, <<"0", Newline, "0">>}
Several == {(Main :> OfLines(ls)) @@ (<<"b">> :> b) @@ (<<"c">> :> c) :
                ls \in UNION {[1 .. k -> Line] : k \in 1 .. 2}, b \in Bs, c \in Cs}
Missing == {(Main :> OfLines(<<Inc(x)>>)) : x \in {"b", "end"}}
           \union {<<>>, Main :> <<"include", Blank, DoubleQuote, "a", "a", "a", DoubleQuote>>,
                   Main :> <<"include", Blank, DoubleQuote, "a", "a", "a", "a", DoubleQuote>>}
MCDisks == UNION {Lines1, Lines2, Lines3, Lines4, Lines5, Several, Missing}
=============================================================================
