-------------------------------- MODULE Lexer --------------------------------
(* lexer.c and lex_step of main.c: files are read into lines of words, and    *)
(* words become tokens; `include` reads and lexes another file on the spot    *)
(* and copies its tokens into the buffer of the file that includes it.        *)
EXTENDS Split

CONSTANTS
    Disks,            \* each a function from the paths of files to their texts
    MainPath,         \* the path on the command line
    SIZEOF_TOKEN,     \* sizeof(token_t), which the copy counts twice
    LINE_CAP, LINES_CAP, ITEMS_CAP, MAXIMUM_TOKENS_AMOUNT_PER_LINE,
    FILES_CAP, LOCS_CAP, PATH_CAP                  \* PATH_CAP: the length of str_t's buf

(* A path and a text are finite: of a file that grows as it is read nothing   *)
(* is said.                                                                   *)
IsText(s) == s \in Seq({s[i] : i \in DOMAIN s})

ASSUME LexerAssumption ==
    /\ {SIZEOF_TOKEN, LINES_CAP, ITEMS_CAP, MAXIMUM_TOKENS_AMOUNT_PER_LINE,
        FILES_CAP, LOCS_CAP, PATH_CAP} \subseteq Nat \ {0}
    /\ LINE_CAP \in Nat \ {0, 1}
    /\ IsText(MainPath) /\ \A d \in Disks : \A path \in DOMAIN d : IsText(d[path])

VARIABLES
    disk,
    below,            \* the byte below read_entire_file's buffer: "blank" or "other"
    FILES, LOCS,
    lexers,           \* the open calls of read_entire_file and lexer_lex, innermost last
    stage

lexerVars == <<disk, below, FILES, LOCS, lexers, stage>>

Halted == {"done", "rejected", "crashed", "corrupt"}
lexer == Last(lexers)
line == lexer.lines[lexer.row + 1]
ss == line[lexer.i]
Stop(how) == stage' = how /\ UNCHANGED <<disk, below, FILES, LOCS, lexers>>
Innermost(l) == lexers' = [lexers EXCEPT ![Len(lexers)] = l]

-----------------------------------------------------------------------------
(* read_entire_file: a line is split as soon as it is read.  The buffer for   *)
(* the lines is counted in pointers, of which two make a line_t.              *)

Opened(path) ==
    [file_id |-> Len(FILES), unread |-> disk[path], lines |-> <<>>, lexing |-> FALSE,
     row |-> 0, i |-> 1, tokens |-> <<>>, count |-> 0]
Grown(path) == Append(FILES, path)
OpensHow(path) ==
    IF Len(path) > PATH_CAP THEN "crashed"                 \* ASSERT in new_str_t
    ELSE IF Len(path) = PATH_CAP \/ Len(FILES) = FILES_CAP THEN "corrupt"
    ELSE IF path \notin DOMAIN disk THEN "rejected"
    ELSE "lexing"
OpenFile(path) ==
    IF OpensHow(path) # "lexing" THEN Stop(OpensHow(path))
    ELSE /\ FILES' = Grown(path) /\ lexers' = Append(lexers, Opened(path)) /\ stage' = "lexing"
         /\ UNCHANGED <<disk, below, LOCS>>
Start == stage = "start" /\ OpenFile(MainPath)

LinesRoom == LINES_CAP \div 2

ReadLine ==
    /\ stage = "lexing" /\ lexer.unread # <<>>
    /\ \E read \in {Gets(lexer.unread, LINE_CAP)} : \E items \in {split(read)} :
          IF (Underreads(read) /\ below = "blank") \/ Len(lexer.lines) = LinesRoom
             \/ Len(items) > ITEMS_CAP
          THEN Stop("corrupt")
          ELSE /\ Innermost([lexer EXCEPT !.lines = Append(@, items),
                                        !.unread = SubSeq(@, Len(read) + 1, Len(@))])
               /\ UNCHANGED <<disk, below, FILES, LOCS, stage>>
LastLineRead ==
    /\ stage = "lexing" /\ lexer.unread = <<>> /\ ~lexer.lexing
    /\ Innermost([lexer EXCEPT !.lexing = TRUE])
    /\ UNCHANGED <<disk, below, FILES, LOCS, stage>>

-----------------------------------------------------------------------------
(* lexer_lex_line, a word a step.                                             *)

Lexing == stage = "lexing" /\ lexer.lexing /\ lexer.row < Len(lexer.lines)
InLine == Lexing /\ lexer.i <= Len(line)
kind == type_token(ss.str)
SkipsEmpty == ss.str = <<>>
AnyEnd(str) == TRUE                                                     \* (faulty)
ClosesQuote(str) == Last(str) = DoubleQuote
Wrong == kind = "none" \/ (kind = "STRING_LITERAL" /\ ~ClosesQuote(ss.str))
Includes == ss.str = <<"include">>

NewestFile == [row |-> lexer.row, col |-> ss.col, file_id |-> Len(FILES) - 1] \* (faulty)
Here == [row |-> lexer.row, col |-> ss.col, file_id |-> lexer.file_id]
new_token == [loc_id |-> Len(LOCS), kind |-> kind, str |-> ss.str]
Written(tokens, place, token) ==
    [p \in DOMAIN tokens \union {place} |-> IF p = place THEN token ELSE tokens[p]]
Capacity(l) == MAXIMUM_TOKENS_AMOUNT_PER_LINE * Len(l.lines)

SkipWord ==
    /\ InLine /\ SkipsEmpty
    /\ Innermost([lexer EXCEPT !.i = @ + 1])
    /\ UNCHANGED <<disk, below, FILES, LOCS, stage>>
BadWord ==
    /\ InLine /\ ~SkipsEmpty /\ Wrong
    /\ Stop("rejected")
PushToken ==
    /\ InLine /\ ~SkipsEmpty /\ ~Wrong /\ ~Includes
    /\ IF Len(LOCS) = LOCS_CAP \/ lexer.count >= Capacity(lexer) THEN Stop("corrupt")
       ELSE /\ LOCS' = Append(LOCS, Here)
            /\ Innermost([lexer EXCEPT !.tokens = Written(@, lexer.count, new_token),
                                     !.count = @ + 1, !.i = @ + 1])
            /\ UNCHANGED <<disk, below, FILES, stage>>

(* handle_include looks at the second word of the line, wherever `include`    *)
(* stands, and takes all but its first and last characters for a path.  Of a  *)
(* lone quote it reads the byte behind the terminator: zero, and the path is  *)
(* reported as empty; else a length of -1 goes to the allocator.              *)
Quoted == IF Len(line) < 2 THEN <<>> ELSE line[2].str
Path(str) == SubSeq(str, 2, Len(str) - 1)
BadInclude ==
    /\ InLine /\ ~SkipsEmpty /\ ~Wrong /\ Includes
    /\ type_token(Quoted) # "STRING_LITERAL" \/ Len(Quoted) < 3
    /\ \/ Stop("rejected")
       \/ Quoted = <<DoubleQuote>> /\ Stop("crashed")
Include ==
    /\ InLine /\ ~SkipsEmpty /\ ~Wrong /\ Includes
    /\ type_token(Quoted) = "STRING_LITERAL" /\ Len(Quoted) >= 3
    /\ OpenFile(Path(Quoted))

SameLine(l) == l                                                        \* (faulty)
NextLine(l) == [l EXCEPT !.row = @ + 1, !.i = 1]
EndLine ==
    /\ Lexing /\ ~InLine
    /\ Innermost(NextLine(lexer))
    /\ UNCHANGED <<disk, below, FILES, LOCS, stage>>

(* lexer_lex returns, and what follows the include in its line is not lexed.  *)
(* A buffer is a function from the places that have been written, and the     *)
(* copy takes the places of the inner buffer as they are, written or not.     *)
Returns == stage = "lexing" /\ lexer.lexing /\ lexer.row = Len(lexer.lines)
Place(outer) == SIZEOF_TOKEN * outer.count
Copied(outer, inner) ==
    LET at == Place(outer)
        places == at .. at + inner.count - 1
        filled == {p \in places : p - at \in DOMAIN inner.tokens}
    IN [p \in (DOMAIN outer.tokens \ places) \union filled |->
            IF p \in filled THEN inner.tokens[p - at] ELSE outer.tokens[p]]
Splice(outer, inner) ==
    [NextLine(outer) EXCEPT !.tokens = Copied(outer, inner), !.count = @ + inner.count]
Overruns(outer, inner) == inner.count > 0 /\ Place(outer) + inner.count > Capacity(outer)
IncludeReturns ==
    /\ Returns /\ Len(lexers) > 1
    /\ LET outer == lexers[Len(lexers) - 1]
       IN IF Overruns(outer, lexer) THEN Stop("corrupt")
          ELSE /\ lexers' = Append(SubSeq(lexers, 1, Len(lexers) - 2), Splice(outer, lexer))
               /\ UNCHANGED <<disk, below, FILES, LOCS, stage>>
LexStepReturns ==
    /\ Returns /\ Len(lexers) = 1
    /\ Stop("done")

LexerInit ==
    /\ disk \in Disks /\ below \in {"blank", "other"}
    /\ FILES = <<>> /\ LOCS = <<>> /\ lexers = <<>> /\ stage = "start"
Lexes ==
    \/ Start \/ ReadLine \/ LastLineRead \/ SkipWord \/ BadWord \/ PushToken \/ BadInclude \/ Include
    \/ EndLine \/ IncludeReturns \/ LexStepReturns
LexerStopped == stage \in Halted /\ UNCHANGED lexerVars
LexerNext == Lexes \/ LexerStopped
LexerSpec == LexerInit /\ [][LexerNext]_lexerVars
LexerFairSpec == LexerSpec /\ WF_lexerVars(Lexes)

-----------------------------------------------------------------------------
(* The lines of a text, read off the text.                                    *)
Ascending(S) == [k \in 1 .. Cardinality(S) |-> CHOOSE x \in S : Cardinality({y \in S : y <= x}) = k]
LinesOf(text) ==
    LET starts == Ascending({i \in 0 .. Len(text) - 1 : i = 0 \/ text[i] = Newline})
        End(s) == Min({Len(text) + 1} \union {i \in s + 1 .. Len(text) : text[i] = Newline})
    IN [k \in DOMAIN starts |-> SubSeq(text, starts[k] + 1, End(starts[k]) - 1)]

(* loc_t: whatever a file holds and however files include each other, each    *)
(* token's location names the file, line and column its word stands at, if    *)
(* the lines of that file fit the buffer.                                     *)
StandsAt(str, at) ==
    LET lines == LinesOf(disk[FILES[at.file_id + 1]])
    IN /\ at.row < Len(lines)
       /\ SubSeq(lines[at.row + 1], at.col + 1, at.col + Len(str)) = str
LinesFit(path) == \A k \in DOMAIN LinesOf(disk[path]) : Len(LinesOf(disk[path])[k]) + 2 <= LINE_CAP
LocationsPoint ==
    \A d \in DOMAIN lexers : \A p \in DOMAIN lexers[d].tokens :
        LET token == lexers[d].tokens[p]
            at == LOCS[token.loc_id + 1]
        IN LinesFit(FILES[at.file_id + 1]) => StandsAt(token.str, at)

(* split: whatever quotes, blanks and comments a line holds, the scan stays   *)
(* within the line and its words: a text without includes, of few words and   *)
(* few lines, ends lexed or rejected, if no line of it begins with a comment. *)
FewWords(path) ==
    LET lines == LinesOf(disk[path])
    IN /\ Len(lines) <= LinesRoom /\ LinesFit(path)
       /\ \A k \in DOMAIN lines :
             Len(lines[k]) <= Min({ITEMS_CAP, MAXIMUM_TOKENS_AMOUNT_PER_LINE, LOCS_CAP \div Len(lines)})
TextsAreSafe ==
    stage \in {"crashed", "corrupt"} =>
        \/ Len(FILES) > 1 \/ Len(MainPath) >= PATH_CAP \/ ~FewWords(MainPath)
        \/ \E k \in DOMAIN lexer.unread : lexer.unread[k] = Hash /\ below = "blank"
        \/ \E k \in DOMAIN disk[MainPath] : disk[MainPath][k] = "include"

(* Files that include each other or themselves are not told from others, but  *)
(* the lexer always ends: the limits are reached.                             *)
LexerStops == <>(stage \in Halted)
=============================================================================
