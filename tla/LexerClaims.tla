---------------------------- MODULE LexerClaims ----------------------------
(* What a comment of pracc says of included tokens, and the copy does not     *)
(* keep to.                                                                   *)
EXTENDS Lexer, TLC

(* lexer.c:331, handle_include: "Append new tokens right after the old ones". *)
(* The places of a buffer up to its count have been written.                  *)
TokensAreAppended ==
    \A d \in DOMAIN lexers : \A p \in 0 .. lexers[d].count - 1 : p \in DOMAIN lexers[d].tokens
Main == <<"m">>
IncludeSecond ==
    {(Main :> <<"a", Newline, "include", Blank, DoubleQuote, "b", DoubleQuote>>) @@ (<<"b">> :> <<"0">>)}
=============================================================================
