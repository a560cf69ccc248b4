--------------------------------- MODULE Dump ---------------------------------
(* What `.` runs: dmp_i64, which writes a word in decimal, and strlen with    *)
(* the write after it, for a string.  One step is a block of the assembly     *)
(* text that compiler.c prints.  The word has Width bits and is read signed;  *)
(* the frame of dmp_i64 keeps ROOM bytes between its buffer and the number.   *)
EXTENDS Lang

CONSTANTS ROOM,
          Strings            \* what may lie at the address of a string

(* 24 bytes are room for 64 bits: a number of 19 digits, its sign and a zero. *)
Half == 2 ^ (Width - 1)
TenTo[n \in Nat] == IF n = 0 THEN 1 ELSE 10 * TenTo[n - 1]
ASSUME DumpAssumption ==
    /\ ROOM \in Nat /\ ROOM >= 2 /\ TenTo[ROOM - 2] >= Half
    /\ \A s \in Strings : s \in Seq(Nat) /\ \E k \in DOMAIN s : s[k] = 0

VARIABLES kind,               \* of the top of the stack: "int" or "string"
          top,                \* its value: a word, or the bytes at its address
          at,                 \* the label that is next
          number, negative,   \* [rbp - 8], [rbp - 40]
          buffer, len,        \* [rbp - 32 ..], [rbp - 36]
          i, j,               \* [rbp - 48], [rbp - 52]
          rax,                \* in strlen
          written

frame == <<number, negative, buffer, len, i, j>>
vars == <<kind, top, at, frame, rax, written>>

SignedWord == -Half .. Half - 1
Narrowed(x) == ((x + Half) % (2 * Half)) - Half
DIGIT == 48      MINUS == 45      NEWLINE == 10
Goto(l) == at' = l /\ UNCHANGED <<kind, top>>
Put(place, byte) == buffer' = [k \in DOMAIN buffer \union {place} |-> IF k = place THEN byte ELSE buffer[k]]
Appends(byte) == Put(len, byte) /\ len' = len + 1

-----------------------------------------------------------------------------
(* dmp_i64                                                                    *)
Enter ==
    /\ at = "dmp_i64" /\ Goto(".LBB0_2")
    /\ negative' = (top < 0)
    /\ number' = IF top < 0 THEN Narrowed(0 - top) ELSE top
    /\ UNCHANGED <<buffer, len, i, j, rax, written>>

Zero ==                                   \* .LBB0_2
    /\ at = ".LBB0_2"
    /\ IF number = 0 THEN Goto(".LBB0_8") /\ Appends(DIGIT)
                     ELSE Goto(".LBB0_5") /\ UNCHANGED <<buffer, len>>
    /\ UNCHANGED <<number, negative, i, j, rax, written>>

AnyLeft == number >= 0                                     \* (faulty)
MoreDigits == number > 0
NextDigit ==                              \* .LBB0_5; both idivs are of a positive word
    /\ at = ".LBB0_5"
    /\ IF ~MoreDigits THEN Goto(".LBB0_8") /\ UNCHANGED <<number, buffer, len>>
       ELSE /\ Goto(".LBB0_5")
            /\ Appends(DIGIT + (number % 10))
            /\ number' = number \div 10
    /\ UNCHANGED <<negative, i, j, rax, written>>

Sign ==                                   \* .LBB0_8
    /\ at = ".LBB0_8" /\ Goto(".LBB0_10")
    /\ IF negative THEN Appends(MINUS) ELSE UNCHANGED <<buffer, len>>
    /\ UNCHANGED <<number, negative, i, j, rax, written>>

LastPlace == len                                           \* (faulty)
LastOf == len - 1
Terminate ==                              \* .LBB0_10
    /\ at = ".LBB0_10" /\ Goto(".LBB0_11")
    /\ Put(len, 0)
    /\ i' = 0 /\ j' = LastOf
    /\ UNCHANGED <<number, negative, len, rax, written>>

Swap ==                                   \* .LBB0_11
    /\ at = ".LBB0_11"
    /\ IF i >= j THEN Goto(".LBB0_13") /\ UNCHANGED <<buffer, i, j>>
       ELSE /\ Goto(".LBB0_11")
            /\ buffer' = [buffer EXCEPT ![i] = buffer[j], ![j] = buffer[i]]
            /\ i' = i + 1 /\ j' = j - 1
    /\ UNCHANGED <<number, negative, len, rax, written>>

Newline ==                                \* .LBB0_13; `.` always asks for it in r14b
    /\ at = ".LBB0_13" /\ Goto(".write")
    /\ Appends(NEWLINE)
    /\ UNCHANGED <<number, negative, i, j, rax, written>>

Write ==
    /\ at = ".write" /\ Goto("ret")
    /\ written' = [k \in 1 .. len |-> buffer[k - 1]]
    /\ UNCHANGED <<frame, rax>>

-----------------------------------------------------------------------------
(* strlen, and the write of the string                                        *)
Stay == rax                                                \* (faulty)
Inc == rax + 1
Loop ==
    /\ at = ".loop"
    /\ IF top[rax + 1] = 0 THEN Goto(".done") /\ UNCHANGED rax
                           ELSE Goto(".loop") /\ rax' = Inc
    /\ UNCHANGED <<frame, written>>

WriteString ==
    /\ at = ".done" /\ Goto("ret")
    /\ written' = SubSeq(top, 1, rax)
    /\ UNCHANGED <<frame, rax>>

-----------------------------------------------------------------------------
(* The case AST_DOT: a byte, an integer or a function pointer is dumped.      *)
Init ==
    /\ \/ kind = "int" /\ top \in SignedWord /\ at = "dmp_i64"
       \/ kind = "string" /\ top \in Strings /\ at = ".loop"
    /\ number = 0 /\ negative = FALSE /\ buffer = <<>> /\ len = 0 /\ i = 0 /\ j = 0
    /\ rax = 0 /\ written = <<>>
Returned == at = "ret" /\ UNCHANGED vars
Runs == \/ Enter \/ Zero \/ NextDigit \/ Sign \/ Terminate \/ Swap \/ Newline \/ Write
        \/ Loop \/ WriteString
Next == Runs \/ Returned
Spec == Init /\ [][Next]_vars /\ WF_vars(Runs)

-----------------------------------------------------------------------------
(* Properties.                                                                *)

(* What dmp_i64 writes reads back, in decimal, as the word it was given, with *)
(* no zero in front and a newline after it; of the least word, whose negation *)
(* is itself, only the sign is written.  Of a string all is written up to its *)
(* first zero, whatever lies behind.                                          *)
Least == -Half
ValueOf(digits) ==
    LET upTo[k \in 0 .. Len(digits)] ==
            IF k = 0 THEN 0 ELSE 10 * upTo[k - 1] + (digits[k] - DIGIT)
    IN upTo[Len(digits)]
IsNumeral(s) == /\ s # <<>> /\ \A k \in DOMAIN s : s[k] \in DIGIT .. DIGIT + 9
                /\ s[1] = DIGIT => Len(s) = 1
Reads(s, x) == IF x < 0 THEN s # <<>> /\ s[1] = MINUS /\ IsNumeral(Tail(s)) /\ ValueOf(Tail(s)) = -x
                        ELSE IsNumeral(s) /\ ValueOf(s) = x
WritesTop ==
    at = "ret" =>
        IF kind = "string"
        THEN \E k \in DOMAIN top : /\ top[k] = 0 /\ written = SubSeq(top, 1, k - 1)
                                   /\ \A l \in 1 .. k - 1 : top[l] # 0
        ELSE \E s \in {SubSeq(written, 1, Len(written) - 1)} :
                /\ written = Append(s, NEWLINE)
                /\ IF top = Least THEN s = <<MINUS>> ELSE Reads(s, top)

(* The frame of dmp_i64 has no check: digits, sign, zero and newline stay     *)
(* below the number, which they are taken from, because a word has no more.   *)
StaysInBuffer == \A k \in DOMAIN buffer : k \in 0 .. ROOM - 1

(* Both loops end: the quotient, the two ends of the reversal and the count   *)
(* of strlen all move.                                                        *)
DumpStops == <>(at = "ret")
=============================================================================
