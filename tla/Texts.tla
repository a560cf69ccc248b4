-------------------------------- MODULE Texts --------------------------------
(* What a text means, read off the text and not off the code's two passes.    *)
EXTENDS Lexer

(* A word is a longest run without a blank that stands outside of quotes.     *)
CodeOf(l) == SubSeq(l, 1, Min({Len(l) + 1} \union Hashes(l)) - 1)
InQuotes(l, i) == Cardinality({j \in 1 .. i - 1 : l[j] = DoubleQuote}) % 2 = 1
WordsOf(l) ==
    LET c == CodeOf(l)
        Between(i) == c[i] = Blank /\ ~InQuotes(c, i)
        starts == Ascending({i \in DOMAIN c : ~Between(i) /\ (i = 1 \/ Between(i - 1))})
        End(s) == Min({Len(c) + 1} \union {i \in s .. Len(c) : Between(i)})
    IN [k \in DOMAIN starts |-> SubSeq(c, starts[k], End(starts[k]) - 1)]

IsString(w) == w[1] = DoubleQuote
Sound(w) == type_token(w) # "none" /\ (IsString(w) => Last(w) = DoubleQuote)
TokensOf(ws) == [k \in DOMAIN ws |-> [kind |-> type_token(ws[k]), str |-> ws[k]]]

(* The texts it is said of: blanks are ' ', quotes are double ones and hold   *)
(* no '#', a string ends where it is not its own beginning, `include` stands  *)
(* at the head of a line with a path alone.                                   *)
RegularLine(l) ==
    LET ws == WordsOf(l)
    IN /\ \A i \in DOMAIN l : l[i] \notin {Tab, SingleQuote}
       /\ Hashes(l) # {} => ~InQuotes(l, Min(Hashes(l)))
       /\ \A k \in DOMAIN ws : ws[k] # <<DoubleQuote>>
       /\ \A k \in DOMAIN ws : ws[k] = <<"include">> => k = 1 /\ Len(ws) <= 2
       /\ Len(ws) < ITEMS_CAP /\ Len(l) + 2 <= LINE_CAP

(* sound: no word is reported; fits: the limits of the code are kept, and     *)
(* tokens are included only before any other token of a file.                 *)
NoFile(path) == [sound |-> FALSE, fits |-> TRUE, files |-> 1, tokens |-> <<>>]
RECURSIVE Meaning(_, _)
Meaning(path, depth) ==
    LET lines == LinesOf(disk[path])
        Adds(m, l) ==
            LET ws == WordsOf(l)
            IN IF ~RegularLine(l) THEN [m EXCEPT !.fits = FALSE]
               ELSE IF ws = <<>> \/ ws[1] # <<"include">>
               THEN [m EXCEPT !.tokens = @ \o TokensOf(ws),
                              !.sound = @ /\ \A k \in DOMAIN ws : Sound(ws[k])]
               ELSE IF Len(ws) = 1 \/ ~IsString(ws[2]) \/ ~Sound(ws[2]) \/ Len(ws[2]) < 3
               THEN [m EXCEPT !.sound = FALSE]
               ELSE LET inner == Meaning(Path(ws[2]), depth - 1)
                    IN [sound |-> m.sound /\ inner.sound, files |-> m.files + inner.files,
                        tokens |-> m.tokens \o inner.tokens,
                        fits |-> m.fits /\ inner.fits /\ (m.tokens = <<>> \/ inner.tokens = <<>>)]
        upTo[k \in 0 .. Len(lines)] ==
            IF k = 0 THEN [sound |-> TRUE, fits |-> TRUE, files |-> 1, tokens |-> <<>>]
            ELSE LET m == upTo[k - 1] IN Adds(m, lines[k])
        all == upTo[Len(lines)]
    IN IF depth = 0 THEN [NoFile(path) EXCEPT !.fits = FALSE]
       ELSE IF Len(path) >= PATH_CAP THEN [NoFile(path) EXCEPT !.fits = FALSE]
       ELSE IF path \notin DOMAIN disk THEN NoFile(path)
       ELSE [all EXCEPT !.fits = @ /\ Len(lines) <= LinesRoom
                                  /\ Len(all.tokens) <= MAXIMUM_TOKENS_AMOUNT_PER_LINE * Len(lines)]

(* lexer_lex: a text that keeps to the limits is rejected exactly if a word   *)
(* or an include of it is wrong, else its tokens are the words of its lines,  *)
(* in their order, each include replaced by the tokens of its file.           *)
LexesAsWritten ==
    stage \in Halted =>
        LET m == Meaning(MainPath, FILES_CAP)
        IN (m.fits /\ m.files <= FILES_CAP /\ Len(m.tokens) <= LOCS_CAP /\ below = "other") =>
            /\ stage = IF m.sound THEN "done" ELSE "rejected"
            /\ stage = "done" =>
                /\ lexer.count = Len(m.tokens)
                /\ \A k \in DOMAIN m.tokens :
                      /\ k - 1 \in DOMAIN lexer.tokens
                      /\ lexer.tokens[k - 1].kind = m.tokens[k].kind
                      /\ lexer.tokens[k - 1].str = m.tokens[k].str
=============================================================================
