-------------------------------- MODULE Lang --------------------------------
(* What every part of pracc shares: the kinds of values the compiler tracks, *)
(* the 64-bit words the program computes with (here of Width bits) and the   *)
(* arithmetic of the emitted instructions.                                   *)
EXTENDS Integers, Sequences

CONSTANT Width                  \* bits of a machine word; 64 in the program

ASSUME WidthAssumption == Width \in Nat \ {0}

(* value_kind_t; VALUE_KIND_POISONED is the zero of the enumeration, which is *)
(* what a zeroed value_kind_t reads as.                                       *)
Kinds == {"poisoned", "int", "str", "byte", "funcptr"}

Word == 0 .. 2^Width - 1
Unwrapped(x) == x                                          \* (faulty)
Wrap(x) == x % 2^Width
Signed(x) == IF x < 2^(Width - 1) THEN x ELSE x - 2^Width

Truth(b) == IF b THEN 1 ELSE 0

Bit(x, i) == (x \div 2^i) % 2
BitOr(x, y) == CHOOSE z \in Word :
    \A i \in 0 .. Width - 1 : Bit(z, i) = Truth(Bit(x, i) = 1 \/ Bit(y, i) = 1)

(* The operators that need two integers, with the instruction each emits:     *)
(* x is the deeper operand, y the one on top.  `div` is the unsigned division *)
(* and has no result for y = 0.                                               *)
ArithOps == {"PLUS", "BOR", "MINUS", "DIV", "MOD", "MUL"}
OrderOps == {"LESS", "GREATER", "GREATER_EQUAL", "LESS_EQUAL"}
BinaryOps == ArithOps \union OrderOps \union {"EQUAL"}

Traps(op, y) == op \in {"DIV", "MOD"} /\ y = 0

Emitted(op, x, y) ==
    CASE op = "PLUS"          -> Wrap(x + y)
      [] op = "MINUS"         -> Wrap(x - y)
      [] op = "MUL"           -> Wrap(x * y)
      [] op = "DIV"           -> x \div y
      [] op = "MOD"           -> x % y
      [] op = "BOR"           -> BitOr(x, y)
      [] op = "EQUAL"         -> Truth(x = y)
      [] op = "LESS"          -> Truth(x < y)                    \* setb
      [] op = "GREATER"       -> Truth(Signed(x) > Signed(y))    \* setg
      [] op = "GREATER_EQUAL" -> Truth(Signed(x) >= Signed(y))   \* cmovl
      [] op = "LESS_EQUAL"    -> Truth(Signed(x) <= Signed(y))   \* cmovg

BitNot(x) == 2^Width - 1 - x

(* A sequence, whatever of.                                                   *)
IsSeq(s) == s \in Seq({s[i] : i \in DOMAIN s})

(* Stacks are sequences whose last element is the top.                        *)
Drop(s, n) == SubSeq(s, 1, Len(s) - n)
Top(s) == s[Len(s)]
Reversed(s) == [i \in 1 .. Len(s) |-> s[Len(s) + 1 - i]]
TopN(s, n) == SubSeq(s, Len(s) - n + 1, Len(s))
=============================================================================
