-------------------------------- MODULE Split --------------------------------
(* split and type_token of lexer.c: the words of a line and their kinds.  A   *)
(* line is a sequence of symbols: single characters, of which one stands for  *)
(* its class, and the runs "include", "end" (for every keyword), which hold   *)
(* no character that split looks for.                                         *)
EXTENDS Integers, Sequences, SequencesExt, FiniteSetsExt

Blank == "sp"                             \* ' ', the delimiter
Tab == "tab"                              \* every other isspace() character of a line
Newline == "nl"
Hash == "#"
SingleQuote == "'"
DoubleQuote == "q"

isspace(c) == c \in {Blank, Tab, Newline}
AllSpace(s) == \A i \in DOMAIN s : isspace(s[i])

(* fgets: up to LINE_CAP - 1 characters, and no further than a newline.       *)
Gets(text, cap) ==
    LET newlines == {i \in DOMAIN text : text[i] = Newline}
        line == Min({Len(text)} \union newlines)
    IN SubSeq(text, 1, Min({line, cap - 1}))

-----------------------------------------------------------------------------
(* The trims.                                                                 *)

Chomped(line) == IF line # <<>> /\ Last(line) = Newline THEN Front(line) ELSE line
Hashes(line) == {i \in DOMAIN line : line[i] = Hash}
Uncommented(line) == SubSeq(line, 1, Min(Hashes(line)) - 1)

TrailingSpace(s) == Len(s) - Max({0} \union {i \in DOMAIN s : ~isspace(s[i])})
RightTrimmed(line) ==
    IF Hashes(line) = {} THEN line
    ELSE LET s == Uncommented(line) IN SubSeq(s, 1, Len(s) - TrailingSpace(s))

(* len_ is the index of the last character only when a comment was cut off;   *)
(* else input[len_] is the terminator and nothing is trimmed.  When nothing   *)
(* but space precedes the comment, the loop goes on below input[0].           *)
ReadsBelow(line) == AllSpace(RightTrimmed(Chomped(line)))               \* (faulty)
Underreads(line) == Hashes(Chomped(line)) # {} /\ AllSpace(Uncommented(Chomped(line)))

LeadingSpace(s) == Min({Len(s)} \union {i - 1 : i \in {j \in DOMAIN s : ~isspace(s[j])}})

-----------------------------------------------------------------------------
(* The scan.  s and e count characters from 0, as in the code.                *)

Word(input, s, to, lspace_count) ==
    [col |-> s + lspace_count, str |-> SubSeq(input, s + 1, to)]
AfterDelimiters(input, i) ==
    Min({Len(input)} \union {j \in i + 1 .. Len(input) - 1 : input[j + 1] # Blank})
Toggled(quote, kind) == IF quote = kind THEN "none" ELSE kind
TogglesQuote(at, c) ==
    \/ c = SingleQuote /\ at.quote # DoubleQuote
    \/ c = DoubleQuote /\ at.quote # SingleQuote
Scanned(input, lspace_count, at, i) ==
    LET c == input[i + 1]
    IN IF i < at.s THEN at                                 \* i = s - 1 jumps over these
       ELSE IF TogglesQuote(at, c) THEN [at EXCEPT !.quote = Toggled(@, c)]
       ELSE IF c = Blank /\ at.quote = "none"
       THEN IF at.s < i
            THEN [at EXCEPT !.items = Append(@, Word(input, at.s, i, lspace_count)),
                            !.s = AfterDelimiters(input, i)]
            ELSE [at EXCEPT !.e = i + 1]
       ELSE at

(* What is left after the last delimiter is a word, if an empty one.  (Each   *)
(* value bound below is bound so that it is computed once.)                   *)
The(S) == CHOOSE x \in S : TRUE
WordsIn(input, lspace_count) ==
    LET scan[i \in 0 .. Len(input)] ==
            IF i = 0 THEN [s |-> 0, e |-> 0, quote |-> "none", items |-> <<>>]
            ELSE The({Scanned(input, lspace_count, before, i - 1) : before \in {scan[i - 1]}})
        Rest(last) == IF (last.s + last.e = 0 /\ input # <<>>) \/ last.s # last.e
                      THEN <<Word(input, last.s, Len(input), lspace_count)>> ELSE <<>>
    IN The({last.items \o Rest(last) : last \in {scan[Len(input)]}})
split(line) ==
    The({WordsIn(SubSeq(trimmed, LeadingSpace(trimmed) + 1, Len(trimmed)), LeadingSpace(trimmed)) :
            trimmed \in {RightTrimmed(Chomped(line))}})

-----------------------------------------------------------------------------
(* type_token, by the first character of a word: what begins no token is no   *)
(* kind.                                                                      *)

KEYWORDS == {"end"}
KindOf(first) ==
    CASE first \in {"a", "include", "end"} -> "LITERAL"
      [] first = "0" -> "INTEGER"
      [] first = "+" -> "PLUS"
      [] first = ">" -> "GREATER"
      [] first = "=" -> "EQUAL"
      [] first = DoubleQuote -> "STRING_LITERAL"
      [] OTHER -> "none"                  \* Tab, SingleQuote, '@' and the terminator
type_token(str) ==
    IF str = <<>> THEN "none"
    ELSE IF Len(str) = 1 /\ str[1] \in KEYWORDS THEN "KEYWORD"
    ELSE IF str[1] = ">" /\ Len(str) > 1 /\ str[2] = "=" THEN "GREATER_EQUAL"
    ELSE KindOf(str[1])

=============================================================================
