--------------------------- MODULE ToolchainProof ---------------------------
(* For every text whose links lead forward, the driver stays within its stack *)
(* unless the body drops a value or overfills it, and stores the last value   *)
(* pushed.  For every text, every directory that earlier runs may have left   *)
(* and every way the child processes may end, the tools take turns, and a     *)
(* debug build links the program it was given.                                *)
EXTENDS Toolchain, SeqFacts

Stages == {"driver", "writing", "assemble", "assembling", "rename", "link", "linking"}
          \union Ended
Ways == {"idle", "running", "exited", "failed", "killed", "reaped"}

(* Where main is says which tool may be at work.                              *)
Turns ==
    /\ at \in Stages
    /\ child \in [Tools -> Ways]
    /\ child["assembler"] = "running" => at = "assembling"
    /\ child["linker"] = "running" => at = "linking"
    /\ at \in {"driver", "writing", "assemble"} => child["assembler"] = "idle"
    /\ at \notin {"linking"} \union Ended => child["linker"] = "idle"

(* What the files hold while a debug build goes well in a directory without   *)
(* an out.tmp: that file is never made, so that Rename finds none, and each   *)
(* tool that was waited for has succeeded.                                    *)
Held ==
    /\ content \in [Outputs -> {"own", "old", "partial", "none"}]
    /\ (build = "debug" /\ sound /\ "out.tmp" \notin old /\ at \notin {"driver", "writing", "exit1"}) =>
        /\ content["out.asm"] = "own" /\ content["out.tmp"] = "none"
        /\ at = "assembling" => child["assembler"] \in {"running", "exited"}
        /\ (at \in {"rename", "link", "linking", "exit0"} \/ child["assembler"] = "exited") =>
               content["out.o"] = "own"
        /\ at = "linking" => child["linker"] \in {"running", "exited"}
        /\ (at = "exit0" \/ child["linker"] = "exited") => content["out"] = "own"
    /\ (at = "writing" /\ "out.tmp" \notin old) => content["out.tmp"] = "none"

-----------------------------------------------------------------------------
(* Whoever takes a step, the turns are kept.                                  *)
LEMMA TurnsKept ==
    ASSUME Turns, [MainNext]_mainVars
    PROVE  Turns'
<1>. USE DEF Turns, Stages, Ways, Tools, Ended
<1>1. CASE Drives /\ UNCHANGED toolVars
  BY <1>1 DEF toolVars
<1>2. CASE OpenAsm
  BY <1>2 DEF OpenAsm
<1>3. CASE Compiled \/ Reports \/ Aborts
  BY <1>3 DEF Compiled, Reports, Aborts
<1>4. CASE Forks
  BY <1>4 DEF Forks, Tool
<1>5. CASE ForkFails
  BY <1>5 DEF ForkFails, Tool, After
<1>6. CASE Waits
  BY <1>6 DEF Waits, WaitReturns, Tool, After
<1>7. CASE WaitsAgain
  BY <1>7 DEF WaitsAgain, Reaped, Tool
<1>8. CASE Rename
  BY <1>8 DEF Rename
<1>9. ASSUME NEW tool \in Tools, Runs(tool) PROVE Turns'
  BY <1>9 DEF Runs, ToolSucceeds, ToolFails
<1>10. CASE UNCHANGED mainVars
  BY <1>10 DEF mainVars, toolVars
<1>. QED
  BY <1>1, <1>2, <1>3, <1>4, <1>5, <1>6, <1>7, <1>8, <1>9, <1>10 DEF MainNext, Goes, MainEnded

(* So are the files.                                                          *)
LEMMA FilesHeld ==
    ASSUME Turns, Held, [MainNext]_mainVars
    PROVE  Held'
<1>. USE DEF Turns, Held, Stages, Ways, Tools, Ended, Outputs
<1>1. CASE Drives /\ UNCHANGED toolVars
  BY <1>1 DEF toolVars
<1>2. CASE OpenAsm
  BY <1>2 DEF OpenAsm
<1>3. CASE Compiled \/ Reports \/ Aborts
  BY <1>3 DEF Compiled, Reports, Aborts, Closed
<1>4. CASE Forks
  BY <1>4 DEF Forks, Tool
<1>5. CASE ForkFails
  BY <1>5 DEF ForkFails, Tool, After
<1>6. CASE Waits
  BY <1>6 DEF Waits, WaitReturns, Tool, After
<1>7. CASE WaitsAgain
  BY <1>7 DEF WaitsAgain, Reaped, Tool
<1>8. CASE Rename
  BY <1>8 DEF Rename
<1>9. ASSUME NEW tool \in Tools, Runs(tool) PROVE Held'
  <2>1. CASE ToolSucceeds("assembler")
    BY <2>1 DEF ToolSucceeds, Source, Target
  <2>2. CASE ToolSucceeds("linker")
    BY <2>2 DEF ToolSucceeds, Source, Target
  <2>3. CASE ToolFails("assembler")
    BY <2>3 DEF ToolFails, Source, Target
  <2>4. CASE ToolFails("linker")
    BY <2>4 DEF ToolFails, Source, Target
  <2>. QED
    BY <1>9, <2>1, <2>2, <2>3, <2>4 DEF Runs
<1>10. CASE UNCHANGED mainVars
  BY <1>10 DEF mainVars, toolVars
<1>. QED
  BY <1>1, <1>2, <1>3, <1>4, <1>5, <1>6, <1>7, <1>8, <1>9, <1>10 DEF MainNext, Goes, MainEnded

LEMMA ToolchainStarts ==
    ASSUME MainInit
    PROVE  Turns /\ Held
BY DEF MainInit, Turns, Held, Stages, Ways, Tools, Ended, Outputs

-----------------------------------------------------------------------------
(* nob_cmd_run_sync, compile_asm_step: whichever way a child ends, and also   *)
(* when it is waited for twice or was never started, the linker is started    *)
(* after the assembler has ended, and main ends after both.                   *)
THEOREM ToolsAlwaysTakeTurns == MainSpec => []ToolsTakeTurns
<1>1. Turns => ToolsTakeTurns
  BY DEF Turns, ToolsTakeTurns, Ended
<1>. QED
  BY <1>1, ToolchainStarts, TurnsKept, PTL DEF MainSpec

(* compile_asm_step: in a directory without an out.tmp a debug build whose    *)
(* tools succeed makes the executable of the program it compiled, whatever    *)
(* else earlier runs have left there.                                         *)
THEOREM DebugBuildAlwaysLinksIt == MainSpec => []DebugBuildLinksIt
<1>1. Held => DebugBuildLinksIt
  BY DEF Held, DebugBuildLinksIt
<1>. QED
  BY <1>1, ToolchainStarts, TurnsKept, FilesHeld, PTL DEF MainSpec


-----------------------------------------------------------------------------
(* The bodies of a text whose links lead forward.                             *)

(* The function that BodyFrom is defined by exists: it is made from the last  *)
(* AST to the first, each from what it leads to.                              *)
LEMMA BodyFromIs ==
    ASSUME NEW asts, LinksForward(asts), NEW id \in -1 .. Len(asts)
    PROVE  BodyFrom(asts, id) =
               IF id \in 0 .. Len(asts) - 1
               THEN <<asts[id + 1]>> \o BodyFrom(asts, asts[id + 1].next) ELSE <<>>
<1> DEFINE n == Len(asts)
           D == -1 .. n
           At(f, k) == IF k \in 0 .. n - 1 THEN <<asts[k + 1]>> \o f[asts[k + 1].next] ELSE <<>>
           Made(f) == [k \in D |-> At(f, k)]
           UpTo(m) == {k \in D : k < 0 \/ k >= n - m}
           Right(f, m) == DOMAIN f = D /\ \A k \in UpTo(m) : f[k] = At(f, k)
           P == {m \in Nat : m <= n => \E f : Right(f, m)}
<1>1. n \in Nat /\ DOMAIN asts = 1 .. n BY IsSeqProperties DEF LinksForward
<1>2. ASSUME NEW k \in 0 .. n - 1
      PROVE  asts[k + 1].next \in D /\ (asts[k + 1].next = -1 \/ asts[k + 1].next > k)
  <2>1. k + 1 \in DOMAIN asts BY <1>1
  <2>2. Leads(asts[k + 1].next, k + 1, asts) BY <2>1 DEF LinksForward
  <2> QED BY <1>1, <2>2 DEF Leads
<1>12. \A k : BodyFrom(asts, k) = (CHOOSE x : x = Made(x))[k] BY DEF BodyFrom
<1>13. id \in D /\ n = Len(asts) OBVIOUS
<1> HIDE DEF n
<1>3. 0 \in P
  <2> DEFINE f == [k \in D |-> <<>>]
  <2>1. \A k \in UpTo(0) : f[k] = At(f, k) BY <1>1
  <2>2. DOMAIN f = D OBVIOUS
  <2> HIDE DEF f, At, UpTo, D
  <2>3. Right(f, 0) BY <2>1, <2>2
  <2> HIDE DEF Right
  <2> QED BY <2>3
<1>4. ASSUME NEW m \in Nat, m \in P PROVE m + 1 \in P
  <2>1. SUFFICES ASSUME m + 1 <= n PROVE \E g : Right(g, m + 1) OBVIOUS
  <2>2. PICK f : Right(f, m)
    <3>1. m <= n BY <1>1, <2>1
    <3> HIDE DEF Right
    <3> QED BY <1>4, <3>1
  <2> DEFINE g == [k \in D |-> IF k = n - (m + 1) THEN At(f, k) ELSE f[k]]
  <2>3. DOMAIN g = D OBVIOUS
  <2>4. \A k \in D : k # n - (m + 1) => g[k] = f[k] OBVIOUS
  <2>5. n - (m + 1) \in D /\ g[n - (m + 1)] = At(f, n - (m + 1))
    <3>1. n - (m + 1) \in D BY <1>1, <2>1
    <3> HIDE DEF At
    <3> QED BY <3>1
  <2> HIDE DEF g
  <2>6. ASSUME NEW k \in UpTo(m + 1) PROVE g[k] = At(g, k)
    <3>1. k \in D /\ (k < 0 \/ k >= n - (m + 1)) OBVIOUS
    <3>2. At(g, k) = At(f, k)
      <4>1. CASE k \in 0 .. n - 1
        <5>3. asts[k + 1].next \in D /\ (asts[k + 1].next = -1 \/ asts[k + 1].next > k) BY <1>2, <4>1
        <5>4. k >= n - (m + 1) /\ n - (m + 1) >= 0 BY <1>1, <2>1, <3>1, <4>1
        <5>1. asts[k + 1].next \in D /\ asts[k + 1].next # n - (m + 1)
          <6> DEFINE next == asts[k + 1].next
          <6>1. next \in Int BY <1>1, <5>3
          <6> HIDE DEF next
          <6> QED BY <1>1, <4>1, <5>3, <5>4, <6>1 DEF next
        <5>2. g[asts[k + 1].next] = f[asts[k + 1].next] BY <2>4, <5>1
        <5> QED BY <4>1, <5>2
      <4>2. CASE k \notin 0 .. n - 1 BY <4>2
      <4> QED BY <4>1, <4>2
    <3>3. CASE k = n - (m + 1)
      <4> HIDE DEF At
      <4> QED BY <2>5, <3>2, <3>3
    <3>4. CASE k # n - (m + 1)
      <4>1. k \in UpTo(m) BY <1>1, <2>1, <3>1, <3>4
      <4>2. f[k] = At(f, k)
        <5> HIDE DEF At, UpTo
        <5> QED BY <2>2, <4>1
      <4>3. g[k] = f[k] BY <2>4, <3>1, <3>4
      <4> HIDE DEF At
      <4> QED BY <3>2, <4>2, <4>3
    <3> QED BY <3>3, <3>4
  <2> HIDE DEF At, UpTo, D
  <2>7. Right(g, m + 1) BY <2>3, <2>6
  <2> HIDE DEF Right
  <2> QED BY <2>7
<1>5. \A m \in Nat : m \in P
  <2> HIDE DEF P
  <2> QED BY <1>3, <1>4, Induction
<1>6. PICK f : Right(f, n)
  <2>1. n \in P BY <1>1, <1>5
  <2> HIDE DEF Right
  <2> QED BY <1>1, <2>1
<1>7. \A k \in D : k \in UpTo(n) BY <1>1
<1>8. DOMAIN f = D /\ \A k \in D : f[k] = At(f, k)
  <2> HIDE DEF At, UpTo, D
  <2> QED BY <1>6, <1>7
<1> DEFINE c == CHOOSE x : x = Made(x)
<1>9. c = Made(c)
  <2> DEFINE h == [k \in D |-> f[k]]
  <2>1. \A k \in D : h[k] = At(h, k)
    <3>1. ASSUME NEW k \in D PROVE h[k] = At(h, k)
      <4>1. h[k] = At(f, k)
        <5> HIDE DEF At, D
        <5> QED BY <1>8
      <4>2. CASE k \in 0 .. n - 1
        <5>1. asts[k + 1].next \in D BY <1>2, <4>2
        <5>2. h[asts[k + 1].next] = f[asts[k + 1].next]
          <6> HIDE DEF D
          <6> QED BY <5>1
        <5> HIDE DEF h
        <5> QED BY <4>1, <4>2, <5>2
      <4>3. CASE k \notin 0 .. n - 1 BY <4>1, <4>3
      <4> QED BY <4>2, <4>3
    <3> QED BY <3>1
  <2>2. h = [k \in D |-> h[k]] OBVIOUS
  <2> HIDE DEF h, At, D
  <2>3. h = Made(h) BY <2>1, <2>2
  <2> HIDE DEF Made
  <2> QED BY <2>3
<1>10. \A k : BodyFrom(asts, k) = c[k] BY <1>12
<1> HIDE DEF c
<1>11. c[id] = At(c, id)
  <2> HIDE DEF At, D
  <2> QED BY <1>9, <1>13
<1>14. BodyFrom(asts, id) = c[id] /\ BodyFrom(asts, asts[id + 1].next) = c[asts[id + 1].next]
  BY <1>10
<1> QED BY <1>11, <1>13, <1>14

LEMMA ConcatSeqs ==
    ASSUME NEW s, IsSeq(s), NEW t, IsSeq(t)
    PROVE  /\ IsSeq(s \o t) /\ Len(s \o t) = Len(s) + Len(t)
           /\ \A i \in 1 .. Len(t) : (s \o t)[Len(s) + i] = t[i]
           /\ \A i \in 1 .. Len(s) : (s \o t)[i] = s[i]
<1> DEFINE S == {s[i] : i \in DOMAIN s} \union {t[i] : i \in DOMAIN t}
<1>1. s \in Seq(S) /\ t \in Seq(S)
  <2>1. {s[i] : i \in DOMAIN s} \subseteq S /\ {t[i] : i \in DOMAIN t} \subseteq S OBVIOUS
  <2> HIDE DEF S
  <2>2. \A T : T \subseteq S => Seq(T) \subseteq Seq(S) OBVIOUS
  <2> QED BY <2>1, <2>2 DEF IsSeq
<1> HIDE DEF S
<1>2. Len(s) \in Nat /\ Len(t) \in Nat BY IsSeqProperties
<1>3. /\ s \o t \in Seq(S) /\ Len(s \o t) = Len(s) + Len(t)
      /\ \A i \in 1 .. Len(s) + Len(t) : (s \o t)[i] = IF i <= Len(s) THEN s[i] ELSE t[i - Len(s)]
  BY <1>1, ConcatProperties
<1>4. IsSeq(s \o t) BY <1>3, SeqIsSeq
<1> QED BY <1>2, <1>3, <1>4

(* A body is a sequence, as far as it goes.                                   *)
LEMMA BodyFromIsSeq ==
    ASSUME NEW asts, LinksForward(asts), NEW id \in -1 .. Len(asts)
    PROVE  IsSeq(BodyFrom(asts, id))
<1> DEFINE n == Len(asts)
           D == -1 .. n
           UpTo(m) == {k \in D : k < 0 \/ k >= n - m}
           P == {m \in Nat : m <= n => \A k \in UpTo(m) : IsSeq(BodyFrom(asts, k))}
<1>1. n \in Nat /\ DOMAIN asts = 1 .. n BY IsSeqProperties DEF LinksForward
<1>2. ASSUME NEW k \in 0 .. n - 1 PROVE asts[k + 1].next \in -1 .. n /\ (asts[k + 1].next < 0 \/ asts[k + 1].next > k)
  <2>1. k + 1 \in DOMAIN asts BY <1>1
  <2>2. Leads(asts[k + 1].next, k + 1, asts) BY <2>1 DEF LinksForward
  <2> QED BY <1>1, <2>2 DEF Leads
<1>3. ASSUME NEW k \in D, k \notin 0 .. n - 1 PROVE IsSeq(BodyFrom(asts, k))
  BY <1>3, BodyFromIs, SmallSeqs
<1>4. 0 \in P
  <2>1. \A k \in UpTo(0) : k \in D /\ k \notin 0 .. n - 1 BY <1>1
  <2> HIDE DEF UpTo, D
  <2> QED BY <1>3, <2>1
<1>5. ASSUME NEW m \in Nat, m \in P PROVE m + 1 \in P
  <2>1. SUFFICES ASSUME m + 1 <= n, NEW k \in UpTo(m + 1) PROVE IsSeq(BodyFrom(asts, k)) OBVIOUS
  <2>2. \A i \in UpTo(m) : IsSeq(BodyFrom(asts, i))
    <3>1. m <= n BY <1>1, <2>1
    <3> HIDE DEF UpTo
    <3> QED BY <1>5, <3>1
  <2>3. CASE k \in 0 .. n - 1
    <3> DEFINE next == asts[k + 1].next
    <3>1. next \in -1 .. n /\ (next < 0 \/ next > k) BY <1>2, <2>3
    <3> HIDE DEF next
    <3>2. k \in D /\ (k < 0 \/ k >= n - (m + 1)) BY <2>1
    <3>3. next \in UpTo(m) BY <1>1, <2>1, <2>3, <3>1, <3>2
    <3>4. IsSeq(BodyFrom(asts, next)) BY <2>2, <3>3
    <3>5. IsSeq(<<asts[k + 1]>> \o BodyFrom(asts, next)) BY <3>4, SmallSeqs, ConcatSeqs
    <3> QED BY <2>3, <3>2, <3>5, BodyFromIs DEF next
  <2>4. CASE k \notin 0 .. n - 1 BY <1>3, <2>1, <2>4
  <2> QED BY <2>3, <2>4
<1>6. \A m \in Nat : m \in P
  <2> HIDE DEF P
  <2> QED BY <1>4, <1>5, Induction
<1>7. id \in UpTo(n) BY <1>1
<1>8. n \in P BY <1>1, <1>6
<1> HIDE DEF UpTo
<1> QED BY <1>1, <1>7, <1>8

(* The next statement of a body is moved to those that were run.              *)
LEMMA MovesOn ==
    ASSUME NEW run, IsSeq(run), NEW rest, IsSeq(rest), NEW e
    PROVE  run \o (<<e>> \o rest) = Append(run, e) \o rest
<1> DEFINE S == {run[i] : i \in DOMAIN run} \union {rest[i] : i \in DOMAIN rest} \union {e}
<1>1. run \in Seq(S) /\ rest \in Seq(S) /\ e \in S
  <2>1. {run[i] : i \in DOMAIN run} \subseteq S /\ {rest[i] : i \in DOMAIN rest} \subseteq S OBVIOUS
  <2> HIDE DEF S
  <2>2. \A T : T \subseteq S => Seq(T) \subseteq Seq(S) OBVIOUS
  <2>3. run \in Seq(S) /\ rest \in Seq(S) BY <2>1, <2>2 DEF IsSeq
  <2> QED BY <2>3 DEF S
<1> HIDE DEF S
<1>2. <<e>> \in Seq(S) BY <1>1
<1>3. (run \o <<e>>) \o rest = run \o (<<e>> \o rest) BY <1>1, <1>2, ConcatAssociative
<1>4. run \o <<e>> = Append(run, e) BY <1>1, AppendIsConcat
<1> QED BY <1>3, <1>4

(* The last AST of a body that is not AST_DUP is the value it ends with.      *)
LastAt(run, i) == run[i].kind # "DUP" /\ \A j \in i + 1 .. Len(run) : run[j].kind = "DUP"
LEMMA LastPushedIs ==
    ASSUME NEW run, IsSeq(run), NEW i \in DOMAIN run, LastAt(run, i)
    PROVE  LastPushed(run) = run[i]
<1>1. DOMAIN run = 1 .. Len(run) /\ Len(run) \in Nat BY IsSeqProperties
<1>2. \A j \in DOMAIN run : LastAt(run, j) => j = i BY <1>1 DEF LastAt
<1> DEFINE last == CHOOSE j \in DOMAIN run :
            run[j].kind # "DUP" /\ \A k \in j + 1 .. Len(run) : run[k].kind = "DUP"
<1>3. last \in DOMAIN run /\ LastAt(run, last) BY DEF LastAt
<1>4. last = i BY <1>2, <1>3
<1> QED BY <1>4 DEF LastPushed

-----------------------------------------------------------------------------
(* The simulation of one statement.                                           *)

IsValue(v) == "value" \in DOMAIN v /\ "id" \in DOMAIN v
IsStack(s) == IsSeq(s) /\ \A i \in DOMAIN s : IsValue(s[i])
ConstantsAreValues == \A x \in DOMAIN const_map : IsValue(const_map[x])

(* What the top of the stack is after the statements of `run`.                *)
Tops(run, s) ==
    (PushesOnly(run) /\ run # <<>>) =>
        \E i \in DOMAIN run : LastAt(run, i) /\ s # <<>> /\ Top(s).value = ValueOf(run[i])

LEMMA StackPushed ==
    ASSUME NEW s, IsStack(s), NEW v, IsValue(v)
    PROVE  IsStack(Append(s, v)) /\ Len(Append(s, v)) = Len(s) + 1 /\ Top(Append(s, v)) = v
           /\ Append(s, v) # <<>>
<1>1. /\ IsSeq(Append(s, v)) /\ Len(Append(s, v)) = Len(s) + 1
      /\ Append(s, v)[Len(s) + 1] = v /\ \A i \in 1 .. Len(s) : Append(s, v)[i] = s[i]
  BY AppendSeq DEF IsStack
<1>2. Len(s) \in Nat /\ DOMAIN s = 1 .. Len(s) BY IsSeqProperties DEF IsStack
<1>3. DOMAIN Append(s, v) = 1 .. Len(s) + 1 BY <1>1, IsSeqProperties
<1>4. \A i \in DOMAIN Append(s, v) : IsValue(Append(s, v)[i]) BY <1>1, <1>2, <1>3 DEF IsStack
<1>5. Append(s, v) # <<>>
  <2>1. Len(Append(s, v)) # 0 BY <1>1, <1>2
  <2> QED BY <2>1, SmallSeqs
<1> QED BY <1>1, <1>4, <1>5 DEF IsStack, Top

LEMMA StackDropped ==
    ASSUME NEW s, IsStack(s), s # <<>>
    PROVE  /\ IsStack(Drop(s, 1)) /\ Len(Drop(s, 1)) = Len(s) - 1 /\ Len(s) \in Nat \ {0}
           /\ IsValue(Top(s))
<1> DEFINE S == {s[i] : i \in DOMAIN s}
<1>1. s \in Seq(S) BY DEF IsStack, IsSeq
<1>2. Len(s) \in Nat /\ DOMAIN s = 1 .. Len(s) BY <1>1
<1>3. Len(s) # 0 BY <1>1
<1>4. \A v \in S : IsValue(v) BY DEF IsStack
<1>5. Top(s) \in S BY <1>2, <1>3 DEF Top
<1> HIDE DEF S
<1>9. Len(s) >= 1 BY <1>2, <1>3
<1>6. Drop(s, 1) \in Seq(S) /\ Len(Drop(s, 1)) = Len(s) - 1 BY <1>1, <1>9, DropOne
<1>7. IsSeq(Drop(s, 1)) BY <1>6, SeqIsSeq
<1>8. \A i \in DOMAIN Drop(s, 1) : Drop(s, 1)[i] \in S BY <1>6
<1> QED BY <1>2, <1>3, <1>4, <1>5, <1>6, <1>7, <1>8 DEF IsStack

(* A result that is written over the value on top leaves a stack.             *)
LEMMA StackWritten ==
    ASSUME NEW s, IsStack(s), s # <<>>, NEW r
    PROVE  /\ IsStack([s EXCEPT ![Len(s)].value = r])
           /\ Len([s EXCEPT ![Len(s)].value = r]) = Len(s)
<1> DEFINE v == [s[Len(s)] EXCEPT !.value = r]
           t == [s EXCEPT ![Len(s)] = v]
           T == {s[i] : i \in DOMAIN s} \union {v}
<1>1. t = [s EXCEPT ![Len(s)].value = r] OBVIOUS
<1>2. Len(s) \in Nat /\ DOMAIN s = 1 .. Len(s) BY IsSeqProperties DEF IsStack
<1>3. IsValue(v)
  <2>1. Len(s) # 0
    <3>1. s \in Seq({s[i] : i \in DOMAIN s}) BY DEF IsStack, IsSeq
    <3> QED BY <3>1
  <2>2. IsValue(s[Len(s)]) BY <1>2, <2>1 DEF IsStack
  <2> QED BY <2>2 DEF IsValue
<1> HIDE DEF v
<1>4. DOMAIN t = 1 .. Len(s) /\ \A i \in DOMAIN t : t[i] = IF i = Len(s) THEN v ELSE s[i] BY <1>2
<1>5. t \in Seq(T)
  <2>1. \A i \in 1 .. Len(s) : t[i] \in T BY <1>2, <1>4
  <2>2. t = [i \in 1 .. Len(s) |-> t[i]] BY <1>4
  <2> HIDE DEF t, T
  <2> QED BY <1>2, <2>1, <2>2
<1>6. Len(t) = Len(s) BY <1>2, <1>4, <1>5
<1>7. IsSeq(t) BY <1>5, SeqIsSeq
<1>8. \A i \in DOMAIN t : IsValue(t[i]) BY <1>2, <1>3, <1>4 DEF IsStack
<1> HIDE DEF t
<1> QED BY <1>1, <1>6, <1>7, <1>8 DEF IsStack

(* simulate_ast by the kind of the AST.                                       *)
LEMMA SimulateIs ==
    ASSUME NEW s, NEW e
    PROVE  /\ e.kind = "PUSH" =>
                  Simulate(e, s) = Pushed(s, [kind |-> e.of, value |-> Wrap(e.value), id |-> NULL])
           /\ e.kind = "LITERAL" =>
                  Simulate(e, s) = IF Known(e.name) THEN Pushed(s, const_map[e.name]) ELSE Fails("rejected")
           /\ e.kind = "DUP" =>
                  Simulate(e, s) = IF s = <<>> THEN Fails("rejected") ELSE Pushed(s, Top(s))
           /\ e.kind = "DROP" =>
                  Simulate(e, s) = IF s = <<>> THEN Fails("corrupt") ELSE On(Drop(s, 1))
           /\ e.kind \in BinaryOps => Simulate(e, s) = Operate(e.kind, s)
           /\ e.kind \notin {"PUSH", "LITERAL", "DUP", "DROP"} \union BinaryOps =>
                  Simulate(e, s).how \in {"rejected", "crashed"}
<1> USE DEF BinaryOps, ArithOps, OrderOps
<1> DEFINE k == e.kind
<1>1. ASSUME k = "PUSH"
      PROVE  Simulate(e, s) = Pushed(s, [kind |-> e.of, value |-> Wrap(e.value), id |-> NULL])
  BY <1>1 DEF Simulate
<1>2. ASSUME k = "LITERAL"
      PROVE  Simulate(e, s) = IF Known(e.name) THEN Pushed(s, const_map[e.name]) ELSE Fails("rejected")
  BY <1>2 DEF Simulate
<1>3. ASSUME k = "DUP"
      PROVE  Simulate(e, s) = IF s = <<>> THEN Fails("rejected") ELSE Pushed(s, Top(s))
  BY <1>3 DEF Simulate, Dup
<1>4. ASSUME k = "DROP"
      PROVE  Simulate(e, s) = IF s = <<>> THEN Fails("corrupt") ELSE On(Drop(s, 1))
  BY <1>4 DEF Simulate
<1>5. ASSUME k \in BinaryOps PROVE Simulate(e, s) = Operate(k, s)
  BY <1>5 DEF Simulate
<1>6. ASSUME k \notin {"PUSH", "LITERAL", "DUP", "DROP"} \union BinaryOps
      PROVE  Simulate(e, s).how \in {"rejected", "crashed"}
  BY <1>6 DEF Simulate, Fails
<1> QED BY <1>1, <1>2, <1>3, <1>4, <1>5, <1>6

(* simulate_ast that goes well makes the stack at most one higher, and a      *)
(* value that it pushes is the one the AST stands for.                        *)
LEMMA SimulatesWell ==
    ASSUME ConstantsAreValues, NEW s, IsStack(s), NEW e, Simulate(e, s).how = "eval"
    PROVE  LET t == Simulate(e, s).stack
           IN /\ IsStack(t) /\ Len(t) <= Len(s) + 1 /\ e.kind # "POISONED"
              /\ e.kind \in {"PUSH", "LITERAL"} => t # <<>> /\ Top(t).value = ValueOf(e)
              /\ e.kind = "DUP" => s # <<>> /\ t # <<>> /\ Top(t) = Top(s)
<1>0. Len(s) \in Nat BY IsSeqProperties DEF IsStack
<1>1. ASSUME NEW v, IsValue(v), Pushed(s, v).how = "eval"
      PROVE  Pushed(s, v).stack = Append(s, v)
  BY <1>1 DEF Pushed, On, Fails
<1>8. \A how : Fails(how).how = how BY DEF Fails
<1>2. CASE e.kind = "PUSH"
  <2> DEFINE v == [kind |-> e.of, value |-> Wrap(e.value), id |-> NULL]
  <2>1. Simulate(e, s) = Pushed(s, v) BY <1>2, SimulateIs
  <2>2. IsValue(v) /\ v.value = ValueOf(e) BY <1>2 DEF ValueOf, IsValue
  <2> HIDE DEF v
  <2>3. Simulate(e, s).stack = Append(s, v) BY <1>1, <2>1, <2>2
  <2> QED BY <1>0, <1>2, <2>2, <2>3, StackPushed
<1>3. CASE e.kind = "LITERAL"
  <2> DEFINE v == const_map[e.name]
  <2>0. Simulate(e, s) = IF Known(e.name) THEN Pushed(s, v) ELSE Fails("rejected") BY <1>3, SimulateIs
  <2>1. Known(e.name) /\ Simulate(e, s) = Pushed(s, v) BY <2>0, <1>8
  <2>2. IsValue(v) /\ v.value = ValueOf(e) BY <1>3, <2>1 DEF ValueOf, Known, ConstantsAreValues
  <2> HIDE DEF v
  <2>3. Simulate(e, s).stack = Append(s, v) BY <1>1, <2>1, <2>2
  <2> QED BY <1>0, <1>3, <2>2, <2>3, StackPushed
<1>4. CASE e.kind = "DUP"
  <2>0. Simulate(e, s) = IF s = <<>> THEN Fails("rejected") ELSE Pushed(s, Top(s)) BY <1>4, SimulateIs
  <2>1. s # <<>> /\ Simulate(e, s) = Pushed(s, Top(s)) BY <2>0, <1>8
  <2>2. IsValue(Top(s)) BY <2>1, StackDropped
  <2>3. Simulate(e, s).stack = Append(s, Top(s)) BY <1>1, <2>1, <2>2
  <2> QED BY <1>0, <1>4, <2>1, <2>2, <2>3, StackPushed
<1>5. CASE e.kind = "DROP"
  <2>0. Simulate(e, s) = IF s = <<>> THEN Fails("corrupt") ELSE On(Drop(s, 1)) BY <1>5, SimulateIs
  <2>1. s # <<>> /\ Simulate(e, s) = On(Drop(s, 1)) BY <2>0, <1>8
  <2>2. Simulate(e, s).stack = Drop(s, 1) BY <2>1 DEF On
  <2> QED BY <1>0, <1>5, <2>1, <2>2, StackDropped
<1>6. CASE e.kind \in BinaryOps
  <2>1. e.kind \notin {"PUSH", "LITERAL", "DUP", "DROP", "BNOT", "POISONED"}
    BY <1>6 DEF BinaryOps, ArithOps, OrderOps
  <2>2. Simulate(e, s) = Operate(e.kind, s) BY <1>6, SimulateIs
  <2>3. Len(s) >= 2 BY <1>0, <2>2 DEF Operate, Fails
  <2>4. s # <<>> BY <2>3, SmallSeqs
  <2> DEFINE below == Drop(s, 1)
             r == last_two_binop(e.kind, Top(below).value, Top(s).value)
  <2>5. Operate(e.kind, s) = On(IF order = "index" THEN below ELSE [below EXCEPT ![Len(below)].value = r])
    BY <2>2, <2>3, <1>0 DEF Operate, Fails
  <2> HIDE DEF r
  <2>6. IsStack(below) /\ Len(below) = Len(s) - 1 BY <2>4, StackDropped
  <2> HIDE DEF below
  <2>7. below # <<>> BY <1>0, <2>3, <2>6, SmallSeqs
  <2>8. /\ IsStack([below EXCEPT ![Len(below)].value = r])
        /\ Len([below EXCEPT ![Len(below)].value = r]) = Len(below)
    BY <2>6, <2>7, StackWritten
  <2>9. Simulate(e, s).stack = below \/ Simulate(e, s).stack = [below EXCEPT ![Len(below)].value = r]
    BY <2>2, <2>5 DEF On
  <2> QED BY <1>0, <2>1, <2>6, <2>8, <2>9
<1>7. CASE e.kind \notin {"PUSH", "LITERAL", "DUP", "DROP"} \union BinaryOps
  <2>1. Simulate(e, s).how # "eval" BY <1>7, SimulateIs
  <2> QED BY <2>1
<1> QED BY <1>2, <1>3, <1>4, <1>5, <1>6, <1>7

(* simulate_ast leaves its stack at the bottom by AST_DROP alone, and at the  *)
(* top when the stack is full.                                                *)
LEMMA SimulatesBeyond ==
    ASSUME NEW s, IsStack(s), NEW e, Simulate(e, s).how = "corrupt"
    PROVE  e.kind # "POISONED" /\ (e.kind = "DROP" \/ Len(s) >= SIMULATION_STACK_CAP)
<1> USE DEF On, Fails
<1>0. Len(s) \in Nat /\ SIMULATION_STACK_CAP \in Nat BY IsSeqProperties, DriverAssumption DEF IsStack
<1>1. ASSUME NEW v, Pushed(s, v).how = "corrupt" PROVE Len(s) >= SIMULATION_STACK_CAP
  BY <1>0, <1>1 DEF Pushed
<1>5. \A how : Fails(how).how = how BY DEF Fails
<1>2. CASE e.kind \in {"PUSH", "LITERAL", "DUP"}
  <2>1. (\E v : Simulate(e, s) = Pushed(s, v)) \/ Simulate(e, s) = Fails("rejected")
    BY <1>2, SimulateIs, Zenon
  <2> QED BY <1>1, <1>2, <1>5, <2>1
<1>6. CASE e.kind = "DROP" BY <1>6
<1>3. CASE e.kind \in BinaryOps
  <2>1. Simulate(e, s) = Operate(e.kind, s) BY <1>3, SimulateIs
  <2>2. Operate(e.kind, s).how # "corrupt" BY DEF Operate
  <2> QED BY <2>1, <2>2
<1>4. CASE e.kind \notin {"PUSH", "LITERAL", "DUP", "DROP"} \union BinaryOps BY <1>4, SimulateIs
<1> QED BY <1>2, <1>3, <1>4, <1>6
-----------------------------------------------------------------------------
(* While a body is evaluated: it consists of what was run and what is left,   *)
(* and the stack holds no more values than statements were run.               *)
Evaluates ==
    /\ outer \in 0 .. ASTS_SIZE - 1 /\ astid(outer).kind \in {"CONST", "VAR"}
    /\ ast \in -1 .. ASTS_SIZE
    /\ IsStack(stack)
    /\ \E run : /\ IsSeq(run) /\ Body = run \o BodyFrom(file.asts, ast)
                /\ Len(stack) <= Len(run) /\ Tops(run, stack)
Driven ==
    /\ file \in Files
    /\ ConstantsAreValues
    /\ stage = "eval" => Evaluates
    /\ OnlyDropsCorrupt

(* What the AST that is evaluated leads to.                                   *)
LEMMA NodeLeads ==
    ASSUME file \in Files, ast \in 0 .. ASTS_SIZE - 1
    PROVE  /\ LinksForward(file.asts) /\ ASTS_SIZE \in Nat
           /\ Node.next \in -1 .. ASTS_SIZE
           /\ Node.kind \in {"CONST", "VAR"} => Node.body \in -1 .. ASTS_SIZE
           /\ IsSeq(BodyFrom(file.asts, Node.next))
           /\ BodyFrom(file.asts, ast) = <<Node>> \o BodyFrom(file.asts, Node.next)
           /\ Node.next < 0 => BodyFrom(file.asts, Node.next) = <<>>
<1> DEFINE asts == file.asts
           next == asts[ast + 1].next
<1>1. LinksForward(asts) BY DriverAssumption
<1>2. Len(asts) \in Nat /\ DOMAIN asts = 1 .. Len(asts) BY <1>1, IsSeqProperties DEF LinksForward
<1>3. ast \in 0 .. Len(asts) - 1 /\ ASTS_SIZE = Len(asts) BY DEF ASTS_SIZE
<1>4. Node = asts[ast + 1] BY <1>3 DEF Node, astid
<1>5. ast + 1 \in DOMAIN asts BY <1>2, <1>3
<1>6. /\ Leads(next, ast + 1, asts)
      /\ Node.kind \in {"CONST", "VAR"} => Leads(Node.body, ast + 1, asts)
  BY <1>1, <1>4, <1>5 DEF LinksForward
<1>7. /\ next \in -1 .. Len(asts)
      /\ Node.kind \in {"CONST", "VAR"} => Node.body \in -1 .. Len(asts)
  BY <1>2, <1>3, <1>6 DEF Leads
<1>8. Node.next = next BY <1>4
<1>9. ast \in -1 .. Len(asts) BY <1>2, <1>3
<1> HIDE DEF next
<1>10. IsSeq(BodyFrom(asts, next)) BY <1>1, <1>7, BodyFromIsSeq
<1>11. BodyFrom(asts, ast) = <<asts[ast + 1]>> \o BodyFrom(asts, next)
  BY <1>1, <1>3, <1>9, BodyFromIs DEF next
<1>12. ASSUME next < 0 PROVE BodyFrom(asts, next) = <<>>
  <2>1. next \notin 0 .. Len(asts) - 1 BY <1>2, <1>7, <1>12
  <2> HIDE DEF asts
  <2> QED BY <1>1, <1>7, <2>1, BodyFromIs
<1> QED BY <1>1, <1>2, <1>3, <1>4, <1>7, <1>8, <1>10, <1>11, <1>12

(* An AST whose simulation goes well, or leaves its stack, is there.          *)
LEMMA NodeIsThere ==
    ASSUME Evaluates, Node.kind # "POISONED"
    PROVE  ast \in 0 .. ASTS_SIZE - 1
BY DEF Evaluates, Node, astid

(* One statement has been run: on the stack that it leaves, what was said of  *)
(* the one before holds.                                                      *)
LEMMA TopsAfter ==
    ASSUME ConstantsAreValues, NEW run, IsSeq(run), NEW s, IsStack(s), Len(s) <= Len(run), Tops(run, s),
           NEW e, Simulate(e, s).how = "eval"
    PROVE  Tops(Append(run, e), Simulate(e, s).stack)
<1> DEFINE t == Simulate(e, s).stack
           u == Append(run, e)
           n == Len(run)
<1>1. /\ IsStack(t) /\ e.kind # "POISONED"
      /\ e.kind \in {"PUSH", "LITERAL"} => t # <<>> /\ Top(t).value = ValueOf(e)
      /\ e.kind = "DUP" => s # <<>> /\ t # <<>> /\ Top(t) = Top(s)
  BY SimulatesWell
<1> HIDE DEF t
<1>2. /\ IsSeq(u) /\ Len(u) = n + 1 /\ u[n + 1] = e /\ \A i \in 1 .. n : u[i] = run[i]
      /\ n \in Nat /\ DOMAIN run = 1 .. n /\ DOMAIN u = 1 .. n + 1
  <2>1. IsSeq(u) /\ Len(u) = n + 1 /\ u[n + 1] = e /\ \A i \in 1 .. n : u[i] = run[i] BY AppendSeq
  <2>2. n \in Nat /\ DOMAIN run = 1 .. n BY IsSeqProperties
  <2>3. DOMAIN u = 1 .. Len(u) BY <2>1, IsSeqProperties
  <2> QED BY <2>1, <2>2, <2>3
<1> HIDE DEF u, n
<1>3. SUFFICES ASSUME PushesOnly(u)
      PROVE  \E i \in DOMAIN u : LastAt(u, i) /\ t # <<>> /\ Top(t).value = ValueOf(u[i])
  BY DEF Tops, t, u
<1>4. PushesOnly(run) /\ e.kind \in {"PUSH", "LITERAL", "DUP"} BY <1>2, <1>3 DEF PushesOnly
<1>5. CASE e.kind # "DUP"
  <2>1. n + 1 \in DOMAIN u /\ LastAt(u, n + 1) BY <1>2, <1>5 DEF LastAt
  <2> QED BY <1>1, <1>2, <1>4, <1>5, <2>1
<1>6. CASE e.kind = "DUP"
  <2>1. run # <<>>
    <3>1. s # <<>> BY <1>1, <1>6
    <3>2. Len(s) \in Nat \ {0} BY <3>1, StackDropped
    <3>3. n # 0 BY <1>2, <3>2 DEF n
    <3> QED BY <3>3, SmallSeqs DEF n
  <2>2. PICK i \in DOMAIN run : LastAt(run, i) /\ Top(s).value = ValueOf(run[i])
    BY <1>4, <2>1 DEF Tops
  <2>3. i \in DOMAIN u /\ u[i] = run[i] BY <1>2
  <2>4. LastAt(u, i) BY <1>2, <1>6, <2>2, <2>3 DEF LastAt, n
  <2> QED BY <1>1, <1>6, <2>2, <2>3, <2>4
<1> QED BY <1>5, <1>6

(* consteval_eval on the AST it has reached, the last of a body being run     *)
(* twice.                                                                     *)
LEMMA StatementRuns ==
    ASSUME Driven, stage = "eval", Simulated(stack).how = "eval"
    PROVE  LET t == Simulated(stack).stack
           IN /\ ast \in 0 .. ASTS_SIZE - 1 /\ IsStack(t)
              /\ \E run : /\ IsSeq(run) /\ run # <<>> /\ Body = run \o BodyFrom(file.asts, Node.next)
                          /\ Node.next >= 0 => Len(t) <= Len(run)
                          /\ Tops(run, t)
<1> DEFINE once == Simulate(Node, stack)
           t == Simulated(stack).stack
           rest == BodyFrom(file.asts, Node.next)
<1>1. once.how = "eval" BY DEF Simulated
<1>2. Evaluates /\ ConstantsAreValues /\ IsStack(stack) BY DEF Driven, Evaluates
<1>3. PICK ran : /\ IsSeq(ran) /\ Body = ran \o BodyFrom(file.asts, ast)
                 /\ Len(stack) <= Len(ran) /\ Tops(ran, stack)
  BY <1>2 DEF Evaluates
<1>4. IsStack(once.stack) /\ Len(once.stack) <= Len(stack) + 1 /\ Node.kind # "POISONED"
  BY <1>1, <1>2, SimulatesWell
<1>5. ast \in 0 .. ASTS_SIZE - 1 BY <1>2, <1>4, NodeIsThere
<1>6. /\ IsSeq(rest) /\ BodyFrom(file.asts, ast) = <<Node>> \o rest /\ Node.next \in -1 .. ASTS_SIZE
      /\ ASTS_SIZE \in Nat
  BY <1>5, NodeLeads DEF Driven
<1> DEFINE run == Append(ran, Node)
<1>7. IsSeq(run) /\ Len(run) = Len(ran) + 1 BY <1>3, AppendSeq
<1>8. Body = run \o rest
  <2> HIDE DEF rest
  <2>1. \A e : ran \o (<<e>> \o rest) = Append(ran, e) \o rest BY <1>3, <1>6, MovesOn
  <2>2. Body = ran \o (<<Node>> \o rest) BY <1>3, <1>6
  <2> QED BY <2>1, <2>2
<1>9. Tops(run, once.stack) BY <1>1, <1>2, <1>3, TopsAfter
<1>10. Len(stack) \in Nat /\ Len(ran) \in Nat /\ Len(once.stack) \in Nat
  BY <1>2, <1>3, <1>4, IsSeqProperties DEF IsStack
<1>11. run # <<>>
  <2> HIDE DEF run
  <2> QED BY <1>7, <1>10, SmallSeqs
<1>12. CASE Node.next >= 0
  <2>1. Simulated(stack) = once BY <1>6, <1>12 DEF Simulated
  <2>2. Len(once.stack) <= Len(run) BY <1>3, <1>4, <1>7, <1>10
  <2> QED BY <1>4, <1>5, <1>7, <1>8, <1>9, <1>11, <2>1, <2>2
<1>13. CASE Node.next < 0
  <2>1. Simulated(stack) = Simulate(Node, once.stack) BY <1>1, <1>13 DEF Simulated
  <2>2. Simulate(Node, once.stack).how = "eval" BY <2>1
  <2> HIDE DEF once
  <2>3. /\ IsStack(t)
        /\ Node.kind \in {"PUSH", "LITERAL"} => t # <<>> /\ Top(t).value = ValueOf(Node)
        /\ Node.kind = "DUP" => t # <<>> /\ Top(t) = Top(once.stack)
    BY <1>2, <1>4, <2>1, <2>2, SimulatesWell
  <2>4. /\ DOMAIN run = 1 .. Len(run) /\ run[Len(run)] = Node BY <1>3, <1>7, AppendSeq, IsSeqProperties
  <2>5. Tops(run, t)
    <3> HIDE DEF run, t
    <3>1. SUFFICES ASSUME PushesOnly(run)
                   PROVE  \E i \in DOMAIN run : LastAt(run, i) /\ t # <<>> /\ Top(t).value = ValueOf(run[i])
      BY DEF Tops
    <3>2. PICK i \in DOMAIN run : LastAt(run, i) /\ Top(once.stack).value = ValueOf(run[i])
      BY <1>9, <1>11, <3>1 DEF Tops
    <3>3. Len(run) \in DOMAIN run BY <1>7, <1>10, <2>4
    <3>4. Node.kind \in {"PUSH", "LITERAL", "DUP"} BY <2>4, <3>1, <3>3 DEF PushesOnly
    <3>5. CASE Node.kind = "DUP" BY <2>3, <3>2, <3>5
    <3>6. CASE Node.kind # "DUP"
      <4>1. Len(run) \in i + 1 .. Len(run) \/ i = Len(run) BY <1>7, <1>10, <2>4
      <4>2. i = Len(run) BY <2>4, <3>2, <3>6, <4>1 DEF LastAt
      <4> QED BY <2>3, <2>4, <3>2, <3>4, <3>6, <4>2
    <3> QED BY <3>5, <3>6
  <2>6. ~(Node.next >= 0) BY <1>6, <1>13
  <2> HIDE DEF run, t
  <2> QED BY <1>5, <1>7, <1>8, <1>11, <2>3, <2>5, <2>6 DEF t
<1>14. Node.next >= 0 \/ Node.next < 0 BY <1>6
<1> QED BY <1>12, <1>13, <1>14

LEMMA StatementGoesBeyond ==
    ASSUME Driven, stage = "eval", Simulated(stack).how = "corrupt"
    PROVE  Len(Body) >= SIMULATION_STACK_CAP \/ \E i \in DOMAIN Body : Body[i].kind = "DROP"
<1> DEFINE once == Simulate(Node, stack)
           rest == BodyFrom(file.asts, Node.next)
<1>1. Evaluates /\ ConstantsAreValues /\ IsStack(stack) BY DEF Driven, Evaluates
<1>2. PICK ran : /\ IsSeq(ran) /\ Body = ran \o BodyFrom(file.asts, ast)
                 /\ Len(stack) <= Len(ran)
  BY <1>1 DEF Evaluates
<1>3. Len(stack) \in Nat /\ Len(ran) \in Nat /\ SIMULATION_STACK_CAP \in Nat
  BY <1>1, <1>2, IsSeqProperties, DriverAssumption DEF IsStack
<1>4. /\ Node.kind # "POISONED"
      /\ Node.kind = "DROP" \/ Len(ran) + 1 >= SIMULATION_STACK_CAP
  <2>1. CASE once.how = "eval"
    <3>1. IsStack(once.stack) /\ Len(once.stack) <= Len(stack) + 1 BY <1>1, <2>1, SimulatesWell
    <3>2. Simulate(Node, once.stack).how = "corrupt" BY <2>1 DEF Simulated
    <3>3. Len(once.stack) \in Nat BY <3>1, IsSeqProperties DEF IsStack
    <3> HIDE DEF once
    <3>4. Node.kind # "POISONED" /\ (Node.kind = "DROP" \/ Len(once.stack) >= SIMULATION_STACK_CAP)
      BY <3>1, <3>2, SimulatesBeyond
    <3> QED BY <1>2, <1>3, <3>1, <3>3, <3>4
  <2>2. CASE once.how # "eval"
    <3>1. Simulate(Node, stack).how = "corrupt" BY <2>2 DEF Simulated
    <3>2. Node.kind # "POISONED" /\ (Node.kind = "DROP" \/ Len(stack) >= SIMULATION_STACK_CAP)
      BY <1>1, <3>1, SimulatesBeyond
    <3> QED BY <1>2, <1>3, <3>2
  <2> QED BY <2>1, <2>2
<1>5. ast \in 0 .. ASTS_SIZE - 1 BY <1>1, <1>4, NodeIsThere
<1>6. IsSeq(rest) /\ BodyFrom(file.asts, ast) = <<Node>> \o rest
  BY <1>5, NodeLeads DEF Driven
<1> HIDE DEF rest
<1>7. /\ IsSeq(<<Node>> \o rest) /\ Len(<<Node>> \o rest) = 1 + Len(rest)
      /\ (<<Node>> \o rest)[1] = Node
  <2>1. IsSeq(<<Node>>) /\ Len(<<Node>>) = 1 /\ <<Node>>[1] = Node BY SmallSeqs
  <2>2. /\ IsSeq(<<Node>> \o rest) /\ Len(<<Node>> \o rest) = Len(<<Node>>) + Len(rest)
        /\ \A i \in 1 .. Len(<<Node>>) : (<<Node>> \o rest)[i] = <<Node>>[i]
    BY <1>6, <2>1, ConcatSeqs
  <2>3. 1 \in 1 .. Len(<<Node>>) BY <2>1
  <2> QED BY <2>1, <2>2, <2>3
<1> DEFINE left == <<Node>> \o rest
<1>8. Len(rest) \in Nat BY <1>6, IsSeqProperties
<1> HIDE DEF left
<1>9. IsSeq(left) /\ Len(left) = 1 + Len(rest) /\ left[1] = Node /\ Body = ran \o left
  BY <1>2, <1>6, <1>7 DEF left
<1>10. /\ IsSeq(Body) /\ Len(Body) = Len(ran) + Len(left) /\ Body[Len(ran) + 1] = Node
  <2>1. /\ IsSeq(ran \o left) /\ Len(ran \o left) = Len(ran) + Len(left)
        /\ \A i \in 1 .. Len(left) : (ran \o left)[Len(ran) + i] = left[i]
    BY <1>2, <1>9, ConcatSeqs
  <2>2. 1 \in 1 .. Len(left) BY <1>8, <1>9
  <2> QED BY <1>9, <2>1, <2>2
<1>11. Len(ran) + 1 \in DOMAIN Body BY <1>3, <1>8, <1>9, <1>10, IsSeqProperties
<1>12. Len(Body) >= Len(ran) + 1 BY <1>3, <1>8, <1>9, <1>10
<1>13. Len(Body) \in Nat BY <1>10, IsSeqProperties
<1>14. CASE Node.kind = "DROP" BY <1>10, <1>11, <1>14
<1>15. CASE Len(ran) + 1 >= SIMULATION_STACK_CAP BY <1>3, <1>12, <1>13, <1>15
<1> QED BY <1>4, <1>14, <1>15

-----------------------------------------------------------------------------
(* The steps of the driver.                                                   *)

LEMMA ConstantKept ==
    ASSUME NEW s, IsStack(s), s # <<>>
    PROVE  IsValue(Constant(s)) /\ Constant(s).value = Top(s).value /\ Constant(s).id = outer
<1>1. IsValue(Top(s)) BY StackDropped
<1> DEFINE v == Top(s)
           c == [v EXCEPT !.id = outer]
<1> HIDE DEF v
<1>2. "value" \in DOMAIN v /\ "id" \in DOMAIN v BY <1>1 DEF v, IsValue
<1>3. DOMAIN c = DOMAIN v /\ c.value = v.value /\ c.id = outer BY <1>2
<1> QED BY <1>2, <1>3 DEF Constant, v, IsValue

(* How the simulation of an AST ends.                                         *)
LEMMA SimulatedEnds == \A s : Simulated(s).how \in {"eval", "rejected", "crashed", "corrupt"}
<1> DEFINE Ends == {"eval", "rejected", "crashed", "corrupt"}
<1>1. ASSUME NEW e, NEW s PROVE Simulate(e, s).how \in Ends
  <2>1. \A how : Fails(how).how = how BY DEF Fails
  <2>2. \A t : On(t).how = "eval" BY DEF On
  <2>3. \A v : Pushed(s, v).how \in Ends BY <2>1, <2>2 DEF Pushed
  <2>4. Operate(e.kind, s).how \in Ends BY <2>1, <2>2 DEF Operate
  <2>5. CASE e.kind \in {"PUSH", "LITERAL", "DUP"}
    <3>1. (\E v : Simulate(e, s) = Pushed(s, v)) \/ Simulate(e, s) = Fails("rejected")
      BY <2>5, SimulateIs, Zenon
    <3> QED BY <2>1, <2>3, <3>1
  <2>6. CASE e.kind = "DROP"
    <3>1. Simulate(e, s) = IF s = <<>> THEN Fails("corrupt") ELSE On(Drop(s, 1)) BY <2>6, SimulateIs
    <3>2. Simulate(e, s) = Fails("corrupt") \/ Simulate(e, s) = On(Drop(s, 1)) BY <3>1
    <3> QED BY <2>1, <2>2, <3>2
  <2>7. CASE e.kind \in BinaryOps BY <2>4, <2>7, SimulateIs
  <2>8. CASE e.kind \notin {"PUSH", "LITERAL", "DUP", "DROP"} \union BinaryOps BY <2>8, SimulateIs
  <2> QED BY <2>5, <2>6, <2>7, <2>8
<1>2. ASSUME NEW s PROVE Simulated(s).how \in Ends
  <2>1. Simulated(s) = Simulate(Node, s) \/ Simulated(s) = Simulate(Node, Simulate(Node, s).stack)
    BY DEF Simulated
  <2> HIDE DEF Ends
  <2> QED BY <1>1, <2>1
<1> QED BY <1>2

(* The maps change with a body's last statement, which is what is stored.     *)
LEMMA LastStatement ==
    ASSUME Driven, EvalStep, stage' # stage, stage' = "walk"
    PROVE  LET t == Simulated(stack).stack
               owner == astid(outer)
           IN /\ Simulated(stack).how = "eval" /\ Node.next < 0 /\ t # <<>> /\ stage = "eval"
              /\ const_map' = IF owner.kind = "CONST"
                              THEN MapTo(const_map, owner.name, Constant(t)) ELSE const_map
              /\ var_map' = IF owner.kind = "VAR"
                            THEN MapTo(var_map, owner.name, Constant(t)) ELSE var_map
              /\ file' = file /\ outer' = outer
<1>1. Simulated(stack).how # "walk" BY SimulatedEnds
<1> QED BY <1>1 DEF EvalStep, Stop

LEMMA DriverKeepsDriven ==
    ASSUME Driven, Drives \/ UNCHANGED driverVars
    PROVE  Driven'
<1>1. ASSUME file' = file, outer' = outer PROVE Body' = Body /\ ASTS_SIZE' = ASTS_SIZE
  BY <1>1 DEF Body, astid, ASTS_SIZE
<1>2. CASE UNCHANGED driverVars
  <2>1. UNCHANGED <<file, order, stage, ast, outer, stack, const_map>> BY <1>2 DEF driverVars, maps
  <2>2. Body' = Body /\ ASTS_SIZE' = ASTS_SIZE BY <1>1, <2>1
  <2> QED BY <2>1, <2>2
          DEF Driven, ConstantsAreValues, Evaluates, astid, Tops, ValueOf, OnlyDropsCorrupt
<1>3. ASSUME NEW how, Stop(how), how # "eval", how # "corrupt" PROVE Driven'
  BY <1>3 DEF Stop, maps, Driven, ConstantsAreValues, OnlyDropsCorrupt
<1>4. CASE NoAsts \/ HandOver
  BY <1>3, <1>4 DEF NoAsts, HandOver
<1>5. CASE FindMain
  <2>1. CASE Stop("rejected") BY <1>3, <2>1
  <2>2. CASE ~Stop("rejected")
    <3>1. file' = file /\ const_map' = const_map /\ stage' \in {"walk", "main"}
      BY <1>5, <2>2 DEF FindMain, maps
    <3> QED BY <3>1 DEF Driven, ConstantsAreValues, OnlyDropsCorrupt
  <2> QED BY <2>1, <2>2
<1>6. CASE Walk
  <2>1. file' = file /\ const_map' = const_map /\ stage' = "walk"
    BY <1>6 DEF Walk, Walking, maps
  <2> QED BY <2>1 DEF Driven, ConstantsAreValues, OnlyDropsCorrupt
<1>7. CASE Evaluate
  <2>1. /\ file' = file /\ const_map' = const_map /\ stage' = "eval"
        /\ outer' = ast /\ ast' = Node.body /\ stack' = <<>> /\ Node.kind \in {"CONST", "VAR"}
    BY <1>7 DEF Evaluate, maps
  <2>2. ast \in 0 .. ASTS_SIZE - 1 BY <2>1 DEF Node, astid
  <2>3. Node.body \in -1 .. ASTS_SIZE /\ LinksForward(file.asts) BY <2>1, <2>2, NodeLeads DEF Driven
  <2>4. ASTS_SIZE' = ASTS_SIZE /\ astid(outer)' = Node /\ Body' = BodyFrom(file.asts, Node.body)
    BY <2>1 DEF ASTS_SIZE, astid, Node, Body
  <2>5. IsSeq(BodyFrom(file.asts, Node.body)) BY <2>3, BodyFromIsSeq DEF ASTS_SIZE
  <2>6. <<>> \o BodyFrom(file.asts, Node.body) = BodyFrom(file.asts, Node.body)
    BY <2>5, ConcatEmptySeq DEF IsSeq
  <2>7. IsSeq(<<>>) /\ Len(<<>>) = 0 BY SmallSeqs
  <2>8. IsStack(<<>>) BY <2>7, IsSeqProperties DEF IsStack
  <2>9. Tops(<<>>, stack)' BY DEF Tops
  <2>10. Evaluates'
    <3>1. /\ IsSeq(<<>>) /\ Body' = <<>> \o BodyFrom(file.asts, ast)'
          /\ Len(stack') <= Len(<<>>) /\ Tops(<<>>, stack)'
      BY <2>1, <2>4, <2>6, <2>7, <2>9
    <3> HIDE DEF Evaluates
    <3>2. (\E run : /\ IsSeq(run) /\ Body = run \o BodyFrom(file.asts, ast)
                    /\ Len(stack) <= Len(run) /\ Tops(run, stack))'
      BY <3>1
    <3> QED BY <2>1, <2>2, <2>3, <2>4, <2>8, <3>2 DEF Evaluates
  <2> QED BY <2>1, <2>10 DEF Driven, ConstantsAreValues, OnlyDropsCorrupt
<1>8. CASE EvalStep
  <2> DEFINE now == Simulated(stack)
             t == now.stack
  <2>1. stage = "eval" BY <1>8 DEF EvalStep
  <2>2. CASE now.how # "eval"
    <3>1. Stop(now.how) BY <1>8, <2>2 DEF EvalStep
    <3>2. CASE now.how = "corrupt"
      <4>1. UNCHANGED <<file, outer, const_map>> /\ stage' = "corrupt" BY <3>1, <3>2 DEF Stop, maps
      <4>2. Body' = Body BY <1>1, <4>1
      <4>3. Len(Body) >= SIMULATION_STACK_CAP \/ \E i \in DOMAIN Body : Body[i].kind = "DROP"
        BY <2>1, <3>2, StatementGoesBeyond
      <4> QED BY <4>1, <4>2, <4>3 DEF Driven, ConstantsAreValues, OnlyDropsCorrupt
    <3> QED BY <1>3, <2>2, <3>1, <3>2
  <2>3. CASE now.how = "eval" /\ Node.next < 0 /\ t = <<>>
    BY <1>3, <1>8, <2>3 DEF EvalStep
  <2>4. CASE now.how = "eval" /\ Node.next < 0 /\ t # <<>>
    <3>1. /\ file' = file /\ outer' = outer /\ stage' = "walk"
          /\ const_map' = const_map \/ const_map' = MapTo(const_map, astid(outer).name, Constant(t))
      BY <1>8, <2>4 DEF EvalStep
    <3>2. IsStack(t) BY <2>1, <2>4, StatementRuns
    <3>3. IsValue(Constant(t)) BY <2>4, <3>2, ConstantKept
    <3> HIDE DEF t
    <3>4. ConstantsAreValues' BY <3>1, <3>3 DEF Driven, ConstantsAreValues, MapTo
    <3> QED BY <3>1, <3>4 DEF Driven, OnlyDropsCorrupt
  <2>5. CASE now.how = "eval" /\ ~(Node.next < 0)
    <3>1. /\ UNCHANGED <<file, outer, const_map, stage, order>> /\ stack' = t /\ ast' = Node.next
      BY <1>8, <2>5 DEF EvalStep, maps
    <3>2. /\ ast \in 0 .. ASTS_SIZE - 1 /\ IsStack(t)
          /\ \E run : /\ IsSeq(run) /\ Body = run \o BodyFrom(file.asts, Node.next)
                      /\ Node.next >= 0 => Len(t) <= Len(run)
                      /\ Tops(run, t)
      BY <2>1, <2>5, StatementRuns
    <3>3. Node.next \in -1 .. ASTS_SIZE /\ Node.next >= 0 BY <2>5, <3>2, NodeLeads DEF Driven
    <3> HIDE DEF t
    <3>4. Body' = Body /\ ASTS_SIZE' = ASTS_SIZE /\ astid(outer)' = astid(outer)
      BY <1>1, <3>1 DEF astid, ASTS_SIZE
    <3>5. PICK run : /\ IsSeq(run) /\ Body = run \o BodyFrom(file.asts, Node.next)
                     /\ Len(t) <= Len(run) /\ Tops(run, t)
      BY <3>2, <3>3
    <3>6. Tops(run, stack)' BY <3>1, <3>5 DEF Tops, ValueOf
    <3>7. (\E ran : /\ IsSeq(ran) /\ Body = ran \o BodyFrom(file.asts, ast)
                    /\ Len(stack) <= Len(ran) /\ Tops(ran, stack))'
      BY <3>1, <3>4, <3>5, <3>6
    <3>8. Evaluates BY <2>1 DEF Driven
    <3>9. Evaluates' BY <3>1, <3>2, <3>3, <3>4, <3>7, <3>8 DEF Evaluates
    <3> QED BY <2>1, <3>1, <3>9 DEF Driven, ConstantsAreValues, OnlyDropsCorrupt
  <2> QED BY <2>2, <2>3, <2>4, <2>5
<1> QED BY <1>2, <1>4, <1>5, <1>6, <1>7, <1>8 DEF Drives

LEMMA DrivenStoresWhatIsLeft ==
    ASSUME Driven, Drives
    PROVE  StoresWhatIsLeft
<1>1. SUFFICES ASSUME stage = "eval", stage' = "walk", PushesOnly(Body)
      PROVE  LET map == IF astid(outer).kind = "CONST" THEN const_map' ELSE var_map'
             IN map[astid(outer).name].value = ValueOf(LastPushed(Body))
  BY DEF StoresWhatIsLeft
<1>2. EvalStep
  BY <1>1 DEF Drives, NoAsts, FindMain, Walk, Walking, Evaluate, HandOver
<1> DEFINE t == Simulated(stack).stack
           owner == astid(outer)
<1>3. /\ Simulated(stack).how = "eval" /\ Node.next < 0 /\ t # <<>>
      /\ const_map' = IF owner.kind = "CONST"
                      THEN MapTo(const_map, owner.name, Constant(t)) ELSE const_map
      /\ var_map' = IF owner.kind = "VAR"
                    THEN MapTo(var_map, owner.name, Constant(t)) ELSE var_map
  BY <1>1, <1>2, LastStatement
<1>4. owner.kind \in {"CONST", "VAR"} BY <1>1 DEF Driven, Evaluates
<1>5. /\ ast \in 0 .. ASTS_SIZE - 1 /\ IsStack(t)
      /\ \E run : /\ IsSeq(run) /\ run # <<>> /\ Body = run \o BodyFrom(file.asts, Node.next)
                  /\ Tops(run, t)
  BY <1>1, <1>3, StatementRuns
<1> HIDE DEF t, owner
<1>6. BodyFrom(file.asts, Node.next) = <<>> BY <1>3, <1>5, NodeLeads DEF Driven
<1>7. IsSeq(Body) /\ Body # <<>> /\ Tops(Body, t)
  <2>1. PICK run : IsSeq(run) /\ run # <<>> /\ Body = run \o <<>> /\ Tops(run, t) BY <1>5, <1>6
  <2>2. run \o <<>> = run BY <2>1, ConcatEmptySeq DEF IsSeq
  <2> QED BY <2>1, <2>2
<1>8. PICK i \in DOMAIN Body : LastAt(Body, i) /\ Top(t).value = ValueOf(Body[i])
  BY <1>1, <1>7 DEF Tops
<1>9. LastPushed(Body) = Body[i] BY <1>7, <1>8, LastPushedIs
<1>10. Constant(t).value = Top(t).value BY <1>3, <1>5, ConstantKept
<1>11. \A m, name, v : MapTo(m, name, v)[name] = v BY DEF MapTo
<1> DEFINE map == IF owner.kind = "CONST" THEN const_map' ELSE var_map'
<1>12. \E m : map = MapTo(m, owner.name, Constant(t)) BY <1>3, <1>4
<1> HIDE DEF map
<1>13. map[owner.name].value = ValueOf(LastPushed(Body)) BY <1>8, <1>9, <1>10, <1>11, <1>12
<1> QED BY <1>13 DEF map, owner

-----------------------------------------------------------------------------
(* The top level of a text whose links lead forward.                          *)

(* The function that TopLevel is defined by: what is reached from each AST.   *)
Reaches(from, asts) ==
    /\ DOMAIN from = -1 .. Len(asts)
    /\ \A i \in DOMAIN from :
          from[i] = IF i \in 0 .. Len(asts) - 1 THEN {i} \union from[asts[i + 1].next] ELSE {}
From(asts) ==
    LET from[i \in -1 .. Len(asts)] ==
            IF i \in 0 .. Len(asts) - 1 THEN {i} \union from[asts[i + 1].next] ELSE {}
    IN from

LEMMA NextIsAhead ==
    ASSUME NEW asts, LinksForward(asts), NEW i \in 0 .. Len(asts) - 1
    PROVE  /\ Len(asts) \in Nat
           /\ asts[i + 1].next \in -1 .. Len(asts) /\ (asts[i + 1].next = -1 \/ asts[i + 1].next > i)
<1>1. Len(asts) \in Nat /\ DOMAIN asts = 1 .. Len(asts) BY IsSeqProperties DEF LinksForward
<1>2. i + 1 \in DOMAIN asts BY <1>1
<1>3. Leads(asts[i + 1].next, i + 1, asts) BY <1>2 DEF LinksForward
<1> QED BY <1>1, <1>3 DEF Leads

(* It exists: it is made from the last AST to the first.                      *)
LEMMA SomethingReaches ==
    ASSUME NEW asts, LinksForward(asts)
    PROVE  \E from : Reaches(from, asts)
<1> DEFINE n == Len(asts)
           D == -1 .. n
           At(f, k) == IF k \in 0 .. n - 1 THEN {k} \union f[asts[k + 1].next] ELSE {}
           UpTo(m) == {k \in D : k < 0 \/ k >= n - m}
           Right(f, m) == DOMAIN f = D /\ \A k \in UpTo(m) : f[k] = At(f, k)
           P == {m \in Nat : m <= n => \E f : Right(f, m)}
<1>1. n \in Nat BY IsSeqProperties DEF LinksForward
<1>2. ASSUME NEW k \in 0 .. n - 1
      PROVE  asts[k + 1].next \in D /\ (asts[k + 1].next = -1 \/ asts[k + 1].next > k)
  BY <1>2, NextIsAhead
<1>13. n = Len(asts) OBVIOUS
<1> HIDE DEF n
<1>3. 0 \in P
  <2> DEFINE f == [k \in D |-> {}]
  <2>1. \A k \in UpTo(0) : f[k] = At(f, k) BY <1>1
  <2>2. DOMAIN f = D OBVIOUS
  <2> HIDE DEF f, At, UpTo, D
  <2>3. Right(f, 0) BY <2>1, <2>2
  <2> HIDE DEF Right
  <2> QED BY <2>3
<1>4. ASSUME NEW m \in Nat, m \in P PROVE m + 1 \in P
  <2>1. SUFFICES ASSUME m + 1 <= n PROVE \E g : Right(g, m + 1)
    <3> HIDE DEF Right
    <3> QED OBVIOUS
  <2>2. PICK f : Right(f, m)
    <3>1. m <= n BY <1>1, <2>1
    <3> HIDE DEF Right
    <3> QED BY <1>4, <3>1
  <2> DEFINE g == [k \in D |-> IF k = n - (m + 1) THEN At(f, k) ELSE f[k]]
  <2>3. DOMAIN g = D OBVIOUS
  <2>4. \A k \in D : k # n - (m + 1) => g[k] = f[k] OBVIOUS
  <2>5. n - (m + 1) \in D /\ g[n - (m + 1)] = At(f, n - (m + 1))
    <3>1. n - (m + 1) \in D BY <1>1, <2>1
    <3> HIDE DEF At
    <3> QED BY <3>1
  <2> HIDE DEF g
  <2>6. ASSUME NEW k \in UpTo(m + 1) PROVE g[k] = At(g, k)
    <3>1. k \in D /\ (k < 0 \/ k >= n - (m + 1)) OBVIOUS
    <3>2. At(g, k) = At(f, k)
      <4>1. CASE k \in 0 .. n - 1
        <5> DEFINE next == asts[k + 1].next
        <5>1. next \in D /\ (next = -1 \/ next > k) BY <1>2, <4>1
        <5> HIDE DEF next
        <5>2. next # n - (m + 1) BY <1>1, <2>1, <3>1, <4>1, <5>1
        <5>3. g[next] = f[next] BY <2>4, <5>1, <5>2
        <5> QED BY <4>1, <5>3 DEF next
      <4>2. CASE k \notin 0 .. n - 1 BY <4>2
      <4> QED BY <4>1, <4>2
    <3>3. CASE k = n - (m + 1)
      <4> HIDE DEF At
      <4> QED BY <2>5, <3>2, <3>3
    <3>4. CASE k # n - (m + 1)
      <4>1. k \in UpTo(m) BY <1>1, <2>1, <3>1, <3>4
      <4>2. f[k] = At(f, k)
        <5> HIDE DEF At, UpTo
        <5> QED BY <2>2, <4>1
      <4>3. g[k] = f[k] BY <2>4, <3>1, <3>4
      <4> HIDE DEF At
      <4> QED BY <3>2, <4>2, <4>3
    <3> QED BY <3>3, <3>4
  <2> HIDE DEF At, UpTo, D
  <2>7. Right(g, m + 1) BY <2>3, <2>6
  <2> HIDE DEF Right
  <2> QED BY <2>7
<1>5. \A m \in Nat : m \in P
  <2> HIDE DEF P
  <2> QED BY <1>3, <1>4, Induction
<1>6. PICK f : Right(f, n)
  <2>1. n \in P BY <1>1, <1>5
  <2> HIDE DEF Right
  <2> QED BY <1>1, <2>1
<1>7. \A k \in D : k \in UpTo(n) BY <1>1
<1>8. DOMAIN f = D /\ \A k \in D : f[k] = At(f, k)
  <2> HIDE DEF At, UpTo, D
  <2> QED BY <1>6, <1>7
<1>9. Reaches(f, asts) BY <1>8, <1>13 DEF Reaches
<1> QED BY <1>9

LEMMA TopLevelIs ==
    ASSUME NEW asts, LinksForward(asts)
    PROVE  Reaches(From(asts), asts) /\ TopLevel(asts) = From(asts)[0]
<1> DEFINE D == -1 .. Len(asts)
           At(f, k) == IF k \in 0 .. Len(asts) - 1 THEN {k} \union f[asts[k + 1].next] ELSE {}
           Made(f) == [k \in D |-> At(f, k)]
           c == CHOOSE x : x = Made(x)
<1>1. From(asts) = c BY DEF From
<1>2. TopLevel(asts) = c[0] BY DEF TopLevel
<1>3. PICK from : Reaches(from, asts) BY SomethingReaches
<1>4. \E x : x = Made(x)
  <2> DEFINE f == [k \in D |-> from[k]]
  <2>1. ASSUME NEW k \in D PROVE f[k] = At(f, k)
    <3>1. f[k] = At(from, k) BY <1>3 DEF Reaches
    <3>2. CASE k \in 0 .. Len(asts) - 1
      <4>1. asts[k + 1].next \in D BY <3>2, NextIsAhead
      <4>2. f[asts[k + 1].next] = from[asts[k + 1].next] BY <4>1
      <4> HIDE DEF f
      <4> QED BY <3>1, <3>2, <4>2
    <3>3. CASE k \notin 0 .. Len(asts) - 1 BY <3>1, <3>3
    <3> QED BY <3>2, <3>3
  <2>2. f = [k \in D |-> f[k]] OBVIOUS
  <2> HIDE DEF f, At, D
  <2>3. f = Made(f) BY <2>1, <2>2
  <2> HIDE DEF Made
  <2> QED BY <2>3
<1>5. c = Made(c) BY <1>4
<1> HIDE DEF c
<1>6. DOMAIN c = D /\ \A k \in D : c[k] = At(c, k)
  <2> HIDE DEF At, D
  <2> QED BY <1>5
<1>7. Reaches(c, asts) BY <1>6 DEF Reaches
<1> QED BY <1>1, <1>2, <1>7

(* What is reached from an AST lies behind it in the list.                    *)
LEMMA ReachedIsAhead ==
    ASSUME NEW asts, LinksForward(asts), NEW p \in -1 .. Len(asts)
    PROVE  \A i \in From(asts)[p] : i \in 0 .. Len(asts) - 1 /\ i >= p
<1> DEFINE n == Len(asts)
           D == -1 .. n
           from == From(asts)
           UpTo(m) == {k \in D : k < 0 \/ k >= n - m}
           Ahead(k) == \A i \in from[k] : i \in 0 .. n - 1 /\ i >= k
           P == {m \in Nat : m <= n => \A k \in UpTo(m) : Ahead(k)}
<1>1. n \in Nat BY IsSeqProperties DEF LinksForward
<1>2. DOMAIN from = D /\ \A k \in D : from[k] = IF k \in 0 .. n - 1 THEN {k} \union from[asts[k + 1].next] ELSE {}
  BY TopLevelIs DEF Reaches
<1>3. ASSUME NEW k \in 0 .. n - 1
      PROVE  asts[k + 1].next \in D /\ (asts[k + 1].next = -1 \/ asts[k + 1].next > k)
  BY <1>3, NextIsAhead
<1>4. p \in D OBVIOUS
<1> HIDE DEF n, from
<1>5. ASSUME NEW k \in D, k \notin 0 .. n - 1 PROVE Ahead(k) BY <1>2, <1>5
<1>6. 0 \in P
  <2>1. \A k \in UpTo(0) : k \in D /\ k \notin 0 .. n - 1 BY <1>1
  <2> HIDE DEF UpTo, D, Ahead
  <2> QED BY <1>5, <2>1
<1>7. ASSUME NEW m \in Nat, m \in P PROVE m + 1 \in P
  <2>1. SUFFICES ASSUME m + 1 <= n, NEW k \in UpTo(m + 1) PROVE Ahead(k)
    <3> HIDE DEF UpTo, Ahead
    <3> QED OBVIOUS
  <2>2. \A i \in UpTo(m) : Ahead(i)
    <3>1. m <= n BY <1>1, <2>1
    <3> HIDE DEF UpTo, Ahead
    <3> QED BY <1>7, <3>1
  <2>3. k \in D /\ (k < 0 \/ k >= n - (m + 1)) BY <2>1
  <2>4. CASE k \in 0 .. n - 1
    <3> DEFINE next == asts[k + 1].next
    <3>1. next \in D /\ (next = -1 \/ next > k) BY <1>3, <2>4
    <3>2. from[k] = {k} \union from[next] BY <1>2, <2>3, <2>4
    <3> HIDE DEF next
    <3>3. next \in UpTo(m) BY <1>1, <2>1, <2>3, <2>4, <3>1
    <3>4. Ahead(next)
      <4> HIDE DEF Ahead, UpTo
      <4> QED BY <2>2, <3>3
    <3>5. from[-1] = {}
      <4>1. -1 \in D /\ -1 \notin 0 .. n - 1 BY <1>1
      <4> QED BY <1>2, <4>1
    <3> QED BY <1>1, <2>4, <3>1, <3>2, <3>4, <3>5
  <2>5. CASE k \notin 0 .. n - 1 BY <1>5, <2>3, <2>5
  <2> QED BY <2>4, <2>5
<1>8. \A m \in Nat : m \in P
  <2> HIDE DEF P
  <2> QED BY <1>6, <1>7, Induction
<1>9. n \in P /\ p \in UpTo(n)
  <2>1. p \in UpTo(n) BY <1>1, <1>4
  <2> HIDE DEF UpTo, P
  <2> QED BY <1>1, <1>8, <2>1
<1>10. Ahead(p)
  <2> HIDE DEF UpTo, Ahead
  <2> QED BY <1>1, <1>9
<1> QED BY <1>10 DEF n, from

LEMMA TopLevelInts ==
    ASSUME NEW asts, LinksForward(asts)
    PROVE  TopLevel(asts) \subseteq 0 .. Len(asts) - 1
<1>1. 0 \in -1 .. Len(asts) BY IsSeqProperties DEF LinksForward
<1> QED BY <1>1, TopLevelIs, ReachedIsAhead

(* Those of the top level that the walk has passed when it is at p.           *)
Passed(asts, p) == TopLevel(asts) \ From(asts)[p]
Stands(asts, p) ==
    /\ p \in -1 .. Len(asts)
    /\ From(asts)[p] \subseteq TopLevel(asts)
    /\ p >= 0 => \A i \in Passed(asts, p) : i < p

(* The walk goes on from p: p is passed, and nothing else.                    *)
LEMMA WalkGoesOn ==
    ASSUME NEW asts, LinksForward(asts), NEW p, Stands(asts, p), p \in 0 .. Len(asts) - 1
    PROVE  /\ Stands(asts, asts[p + 1].next) /\ p \in TopLevel(asts)
           /\ Passed(asts, asts[p + 1].next) = Passed(asts, p) \union {p}
           /\ \A i \in Passed(asts, p) : i \in Int /\ i < p
<1> DEFINE next == asts[p + 1].next
           all == TopLevel(asts)
           from == From(asts)
<1>1. Len(asts) \in Nat /\ next \in -1 .. Len(asts) /\ (next = -1 \/ next > p) BY NextIsAhead
<1>2. p \in -1 .. Len(asts) BY <1>1
<1>3. from[p] = {p} \union from[next] BY <1>2, TopLevelIs DEF Reaches
<1>4. \A i \in from[next] : i \in 0 .. Len(asts) - 1 /\ i >= next BY <1>1, ReachedIsAhead
<1>5. from[-1] = {}
  <2>1. -1 \in -1 .. Len(asts) /\ -1 \notin 0 .. Len(asts) - 1 BY <1>1
  <2> QED BY <2>1, TopLevelIs DEF Reaches
<1>6. from[p] \subseteq all /\ \A i \in all \ from[p] : i < p BY DEF Stands, Passed
<1>7. Passed(asts, p) = all \ from[p] /\ Passed(asts, next) = all \ from[next] BY DEF Passed
<1>8. all \subseteq 0 .. Len(asts) - 1 BY TopLevelInts
<1>13. \A i \in Passed(asts, p) : i \in Int BY <1>1, <1>7, <1>8
<1> HIDE DEF next, all, from
<1>9. p \notin from[next] BY <1>1, <1>4, <1>5
<1>10. all \ from[next] = (all \ from[p]) \union {p} BY <1>3, <1>6, <1>9
<1>11. next >= 0 => \A i \in all \ from[next] : i < next
  <2>1. SUFFICES ASSUME next >= 0, NEW i \in all \ from[next] PROVE i < next OBVIOUS
  <2>2. i = p \/ i < p BY <1>6, <1>10
  <2>3. i \in Int /\ p \in Int /\ next \in Int BY <1>1, <1>8
  <2>4. p < next BY <1>1, <2>1
  <2> QED BY <2>2, <2>3, <2>4
<1>12. Stands(asts, next)
  <2>1. from[next] \subseteq all BY <1>3, <1>6
  <2> QED BY <1>1, <1>7, <1>11, <2>1 DEF Stands, from, all
<1> QED BY <1>3, <1>6, <1>7, <1>10, <1>12, <1>13 DEF all, next

(* Behind the last AST everything is passed, and at the first nothing.        *)
LEMMA WalkEnds ==
    ASSUME NEW asts, LinksForward(asts)
    PROVE  /\ Stands(asts, 0) /\ Passed(asts, 0) = {}
           /\ \A p : (Stands(asts, p) /\ p \notin 0 .. Len(asts) - 1) => Passed(asts, p) = TopLevel(asts)
<1>1. Len(asts) \in Nat BY IsSeqProperties DEF LinksForward
<1>2. Passed(asts, 0) = {} BY TopLevelIs DEF Passed
<1>3. Stands(asts, 0) BY <1>1, <1>2, TopLevelIs DEF Stands
<1>4. ASSUME NEW p, Stands(asts, p), p \notin 0 .. Len(asts) - 1 PROVE Passed(asts, p) = TopLevel(asts)
  BY <1>4, TopLevelIs DEF Stands, Passed, Reaches
<1> QED BY <1>2, <1>3, <1>4

-----------------------------------------------------------------------------
(* The maps while the walk goes on: of those that were passed, the last.      *)

PutOf(asts, map, kind, S) ==
    LET those == {i \in S : asts[i + 1].kind = kind}
    IN /\ DOMAIN map = {asts[i + 1].name : i \in those}
       /\ \A i \in those :
             LET last == map[asts[i + 1].name].id
             IN last \in those /\ asts[last + 1].name = asts[i + 1].name /\ i <= last
MainOf(asts, i) == asts[i + 1].kind = "FUNC" /\ asts[i + 1].name = "main"
Finds(asts, main) ==
    /\ main \in TopLevel(asts) /\ MainOf(asts, main)
    /\ \A i \in TopLevel(asts) : MainOf(asts, i) => main <= i
Place == IF stage = "eval" THEN outer ELSE ast
Told ==
    /\ stage = "main" =>
          /\ Stands(file.asts, ast) /\ const_map = <<>> /\ var_map = <<>>
          /\ \A i \in Passed(file.asts, ast) : ~MainOf(file.asts, i)
    /\ stage \in {"walk", "eval"} =>
          /\ Stands(file.asts, Place) /\ Finds(file.asts, main_function)
          /\ PutOf(file.asts, const_map, "CONST", Passed(file.asts, Place))
          /\ PutOf(file.asts, var_map, "VAR", Passed(file.asts, Place))
    /\ stage = "done" =>
          /\ Finds(file.asts, main_function)
          /\ PutOf(file.asts, const_map, "CONST", TopLevel(file.asts))
          /\ PutOf(file.asts, var_map, "VAR", TopLevel(file.asts))

LEMMA OthersArePassed ==
    ASSUME NEW asts, NEW map, NEW kind, NEW S, PutOf(asts, map, kind, S),
           NEW p, asts[p + 1].kind # kind
    PROVE  PutOf(asts, map, kind, S \union {p})
<1>1. {i \in S \union {p} : asts[i + 1].kind = kind} = {i \in S : asts[i + 1].kind = kind} OBVIOUS
<1> QED BY <1>1 DEF PutOf

LEMMA LastIsPut ==
    ASSUME NEW asts, NEW map, NEW kind, NEW S, PutOf(asts, map, kind, S),
           NEW p \in Int, asts[p + 1].kind = kind, \A i \in S : i \in Int /\ i < p, NEW v, v.id = p
    PROVE  PutOf(asts, MapTo(map, asts[p + 1].name, v), kind, S \union {p})
<1> DEFINE those == {i \in S : asts[i + 1].kind = kind}
           now == {i \in S \union {p} : asts[i + 1].kind = kind}
           name(i) == asts[i + 1].name
           put == MapTo(map, name(p), v)
<1>1. /\ DOMAIN map = {name(i) : i \in those}
      /\ \A i \in those : map[name(i)].id \in those /\ name(map[name(i)].id) = name(i) /\ i <= map[name(i)].id
  BY DEF PutOf
<1>2. now = those \union {p} /\ those \subseteq S OBVIOUS
<1>3. /\ DOMAIN put = DOMAIN map \union {name(p)} /\ put[name(p)] = v
      /\ \A x \in DOMAIN map : x # name(p) => put[x] = map[x]
  BY DEF MapTo
<1>6. \A i \in now : i <= p BY <1>2
<1> HIDE DEF those, now, put, name
<1>4. DOMAIN put = {name(i) : i \in now} BY <1>1, <1>2, <1>3
<1>5. ASSUME NEW i \in now
      PROVE  put[name(i)].id \in now /\ name(put[name(i)].id) = name(i) /\ i <= put[name(i)].id
  <2>1. CASE name(i) = name(p)
    <3>1. put[name(i)].id = p BY <1>3, <2>1
    <3> QED BY <1>2, <1>6, <2>1, <3>1
  <2>2. CASE name(i) # name(p)
    <3>1. i \in those BY <1>2, <2>2
    <3>2. put[name(i)] = map[name(i)] BY <1>1, <1>3, <2>2, <3>1
    <3> QED BY <1>1, <1>2, <3>1, <3>2
  <2> QED BY <2>1, <2>2
<1> QED BY <1>4, <1>5 DEF PutOf, now, put, name

(* Whatever the driver does next.                                             *)
LEMMA DriverKeepsTold ==
    ASSUME Told, Driven, Drives \/ UNCHANGED driverVars
    PROVE  Told'
<1> DEFINE asts == file.asts
<1>0. LinksForward(asts) /\ ASTS_SIZE = Len(asts) /\ Len(asts) \in Nat
  BY DriverAssumption, IsSeqProperties DEF Driven, LinksForward, ASTS_SIZE
<1>1. ASSUME ast \in 0 .. Len(asts) - 1 PROVE Node = asts[ast + 1] BY <1>1 DEF Node, astid, ASTS_SIZE
<1>2. ASSUME ast \notin 0 .. Len(asts) - 1 PROVE Node.kind = "POISONED" /\ Node.next = 0
  BY <1>2 DEF Node, astid, ASTS_SIZE
<1>3. CASE UNCHANGED driverVars
  <2>1. UNCHANGED <<file, stage, ast, outer, const_map, var_map, main_function>> BY <1>3 DEF driverVars, maps
  <2> QED BY <2>1 DEF Told, Place
<1>4. ASSUME NEW how \in {"nothing", "rejected", "crashed", "corrupt"}, Stop(how) PROVE Told'
  BY <1>4 DEF Stop, Told
<1>5. CASE NoAsts BY <1>4, <1>5 DEF NoAsts
<1>6. CASE FindMain
  <2>1. stage = "main" BY <1>6 DEF FindMain
  <2>2. Stands(asts, ast) /\ const_map = <<>> /\ var_map = <<>> /\ \A i \in Passed(asts, ast) : ~MainOf(asts, i)
    BY <2>1 DEF Told
  <2>3. CASE Stop("rejected") BY <1>4, <2>3
  <2>4. CASE IsMain /\ RightSignature
    <3>1. /\ UNCHANGED <<file, outer, const_map, var_map>> /\ main_function' = ast /\ stage' = "walk" /\ ast' = 0
      BY <1>6, <2>4 DEF FindMain, maps
    <3>2. ast \in 0 .. Len(asts) - 1 BY <1>2, <2>4 DEF IsMain
    <3>3. MainOf(asts, ast) BY <1>1, <2>4, <3>2 DEF IsMain, MainOf
    <3>4. ast \in TopLevel(asts) BY <1>0, <2>2, <3>2, WalkGoesOn
    <3>5. ASSUME NEW i \in TopLevel(asts), MainOf(asts, i) PROVE ast <= i
      <4>1. i \in From(asts)[ast] BY <2>2, <3>5 DEF Passed
      <4>2. ast \in -1 .. Len(asts) BY <1>0, <3>2
      <4>3. i >= ast /\ i \in 0 .. Len(asts) - 1 BY <1>0, <4>1, <4>2, ReachedIsAhead
      <4> QED BY <1>0, <3>2, <4>3
    <3>6. Finds(asts, ast) BY <3>3, <3>4, <3>5 DEF Finds
    <3>7. Stands(asts, 0) /\ Passed(asts, 0) = {} BY <1>0, WalkEnds
    <3>8. \A kind : PutOf(asts, <<>>, kind, {}) BY DEF PutOf
    <3> QED BY <2>2, <3>1, <3>6, <3>7, <3>8 DEF Told, Place
  <2>5. CASE ~Stop("rejected") /\ ~(IsMain /\ RightSignature)
    <3>1. /\ UNCHANGED <<file, stage, const_map, var_map>> /\ ast' = Node.next
          /\ ~IsMain /\ Node.kind \in Declarations
      BY <1>6, <2>5 DEF FindMain, maps
    <3>2. ast \in 0 .. Len(asts) - 1 BY <1>2, <3>1 DEF Declarations
    <3>3. ~MainOf(asts, ast) BY <1>1, <3>1, <3>2 DEF IsMain, MainOf
    <3>4. ast' = asts[ast + 1].next BY <1>1, <3>1, <3>2
    <3>5. Stands(asts, ast') /\ Passed(asts, ast') = Passed(asts, ast) \union {ast}
      BY <1>0, <2>2, <3>2, <3>4, WalkGoesOn
    <3> QED BY <2>1, <2>2, <3>1, <3>3, <3>5 DEF Told
  <2> QED BY <2>3, <2>4, <2>5
<1>7. ASSUME stage \in {"walk", "eval"}
      PROVE  /\ Stands(asts, Place) /\ Finds(asts, main_function)
             /\ PutOf(asts, const_map, "CONST", Passed(asts, Place))
             /\ PutOf(asts, var_map, "VAR", Passed(asts, Place))
  BY <1>7 DEF Told
<1>8. CASE Walk
  <2>1. /\ UNCHANGED <<file, stage, const_map, var_map, main_function>> /\ ast' = Node.next
        /\ stage = "walk" /\ Node.next # 0 /\ Node.kind \notin {"CONST", "VAR"}
    BY <1>8 DEF Walk, Walking, NextDeclaration, Node, maps
  <2>2. Place = ast /\ Place' = ast' BY <2>1 DEF Place
  <2>3. ast \in 0 .. Len(asts) - 1 BY <1>2, <2>1
  <2>4. ast' = asts[ast + 1].next /\ asts[ast + 1].kind \notin {"CONST", "VAR"} BY <1>1, <2>1, <2>3
  <2>7. Stands(asts, ast) BY <1>7, <2>1, <2>2
  <2>5. Stands(asts, ast') /\ Passed(asts, ast') = Passed(asts, ast) \union {ast}
    BY <1>0, <2>3, <2>4, <2>7, WalkGoesOn
  <2>6. /\ PutOf(asts, const_map, "CONST", Passed(asts, ast'))
        /\ PutOf(asts, var_map, "VAR", Passed(asts, ast'))
    BY <1>7, <2>1, <2>2, <2>4, <2>5, OthersArePassed
  <2> QED BY <1>7, <2>1, <2>2, <2>5, <2>6 DEF Told
<1>9. CASE Evaluate
  <2>1. /\ UNCHANGED <<file, const_map, var_map, main_function>> /\ outer' = ast
        /\ stage = "walk" /\ stage' = "eval"
    BY <1>9 DEF Evaluate, Walking, maps
  <2>2. Place = ast /\ Place' = ast BY <2>1 DEF Place
  <2> QED BY <1>7, <2>1, <2>2 DEF Told
<1>10. CASE HandOver
  <2>1. /\ UNCHANGED <<file, const_map, var_map, main_function>> /\ stage = "walk" /\ stage' = "done"
        /\ Node.next = 0 \/ ~(Node.next <= ASTS_SIZE)
    BY <1>10 DEF HandOver, Walking, Stop, maps
  <2>2. Place = ast BY <2>1 DEF Place
  <2>3. ast \notin 0 .. Len(asts) - 1
    <3>1. SUFFICES ASSUME ast \in 0 .. Len(asts) - 1 PROVE FALSE OBVIOUS
    <3>2. Node.next \in -1 .. Len(asts) /\ (Node.next = -1 \/ Node.next > ast)
      BY <1>0, <1>1, <3>1, NextIsAhead
    <3> QED BY <1>0, <2>1, <3>1, <3>2
  <2>4. Passed(asts, ast) = TopLevel(asts) BY <1>0, <1>7, <2>1, <2>2, <2>3, WalkEnds
  <2> QED BY <1>7, <2>1, <2>2, <2>4 DEF Told
<1>11. CASE EvalStep
  <2> DEFINE now == Simulated(stack)
             t == now.stack
  <2>1. stage = "eval" /\ Place = outer BY <1>11 DEF EvalStep, Place
  <2>2. now.how \in {"eval", "rejected", "crashed", "corrupt"} BY SimulatedEnds
  <2>3. CASE now.how # "eval"
    <3>1. Stop(now.how) BY <1>11, <2>3 DEF EvalStep
    <3> QED BY <1>4, <2>2, <2>3, <3>1
  <2>4. CASE now.how = "eval" /\ Node.next < 0 /\ t = <<>>
    BY <1>4, <1>11, <2>4 DEF EvalStep
  <2>5. CASE now.how = "eval" /\ ~(Node.next < 0)
    <3>1. UNCHANGED <<file, outer, const_map, var_map, stage, main_function>>
      BY <1>11, <2>5 DEF EvalStep, maps
    <3>2. Place' = outer BY <2>1, <3>1 DEF Place
    <3> QED BY <1>7, <2>1, <3>1, <3>2 DEF Told
  <2>6. CASE now.how = "eval" /\ Node.next < 0 /\ t # <<>>
    <3> DEFINE owner == asts[outer + 1]
    <3>1. outer \in 0 .. Len(asts) - 1 /\ owner.kind \in {"CONST", "VAR"} /\ astid(outer) = owner
      BY <1>0, <2>1 DEF Driven, Evaluates, astid
    <3>2. /\ UNCHANGED <<file, main_function>> /\ stage' = "walk" /\ ast' = astid(outer).next
          /\ const_map' = IF astid(outer).kind = "CONST"
                          THEN MapTo(const_map, astid(outer).name, Constant(t)) ELSE const_map
          /\ var_map' = IF astid(outer).kind = "VAR"
                        THEN MapTo(var_map, astid(outer).name, Constant(t)) ELSE var_map
      BY <1>11, <2>6 DEF EvalStep, NextDeclaration
    <3>3. Place' = owner.next BY <3>1, <3>2 DEF Place
    <3> DEFINE v == Constant(t)
               S == Passed(asts, outer)
    <3>4. v.id = outer
      <4>1. IsStack(t) BY <2>1, <2>6, StatementRuns
      <4> QED BY <2>6, <4>1, ConstantKept
    <3>5. /\ Stands(asts, owner.next) /\ Passed(asts, owner.next) = Passed(asts, outer) \union {outer}
          /\ \A i \in Passed(asts, outer) : i \in Int /\ i < outer
      BY <1>0, <1>7, <2>1, <3>1, WalkGoesOn
    <3>6. outer \in Int BY <1>0, <3>1
    <3>9. \A i \in S : i \in Int /\ i < outer BY <3>5
    <3> HIDE DEF t, v
    <3>7. PutOf(asts, const_map', "CONST", Passed(asts, owner.next))
      <4>1. CASE owner.kind = "CONST"
        <5>1. const_map' = MapTo(const_map, owner.name, v) BY <3>1, <3>2, <4>1 DEF v
        <5>2. PutOf(asts, const_map, "CONST", S) BY <1>7, <2>1
        <5>3. PutOf(asts, MapTo(const_map, owner.name, v), "CONST", S \union {outer})
          <6> HIDE DEF S, asts
          <6> QED BY <3>4, <3>6, <3>9, <4>1, <5>2, LastIsPut
        <5> QED BY <3>5, <5>1, <5>3
      <4>2. CASE owner.kind # "CONST"
        <5>1. const_map' = const_map BY <3>1, <3>2, <4>2
        <5> QED BY <1>7, <2>1, <3>5, <4>2, <5>1, OthersArePassed
      <4> QED BY <4>1, <4>2
    <3>8. PutOf(asts, var_map', "VAR", Passed(asts, owner.next))
      <4>1. CASE owner.kind = "VAR"
        <5>1. var_map' = MapTo(var_map, owner.name, v) BY <3>1, <3>2, <4>1 DEF v
        <5>2. PutOf(asts, var_map, "VAR", S) BY <1>7, <2>1
        <5>3. PutOf(asts, MapTo(var_map, owner.name, v), "VAR", S \union {outer})
          <6> HIDE DEF S, asts
          <6> QED BY <3>4, <3>6, <3>9, <4>1, <5>2, LastIsPut
        <5> QED BY <3>5, <5>1, <5>3
      <4>2. CASE owner.kind # "VAR"
        <5>1. var_map' = var_map BY <3>1, <3>2, <4>2
        <5> QED BY <1>7, <2>1, <3>5, <4>2, <5>1, OthersArePassed
      <4> QED BY <4>1, <4>2
    <3> QED BY <1>7, <2>1, <3>2, <3>3, <3>5, <3>7, <3>8 DEF Told
  <2> QED BY <2>3, <2>4, <2>5, <2>6
<1> QED BY <1>3, <1>5, <1>6, <1>8, <1>9, <1>10, <1>11 DEF Drives

(* What is told of the ASTs of the top level is what the property says.       *)
LEMMA ToldIsHandedOver ==
    ASSUME Told, Driven
    PROVE  LastDeclarationsWin
<1> DEFINE asts == file.asts
<1>1. SUFFICES ASSUME stage = "done" PROVE LastDeclarationsWin BY DEF LastDeclarationsWin
<1>2. /\ Finds(asts, main_function)
      /\ PutOf(asts, const_map, "CONST", TopLevel(asts)) /\ PutOf(asts, var_map, "VAR", TopLevel(asts))
  BY <1>1 DEF Told
<1>3. ASSUME NEW i \in TopLevel(asts) PROVE astid(i) = asts[i + 1]
  BY TopLevelInts, DriverAssumption DEF Driven, astid, ASTS_SIZE
<1>4. ASSUME NEW map, NEW kind, PutOf(asts, map, kind, TopLevel(asts)) PROVE HoldsTheLast(map, kind)
  <2> DEFINE those == {i \in TopLevel(asts) : asts[i + 1].kind = kind}
  <2>1. Declared(kind) = those BY <1>3 DEF Declared
  <2>2. those \subseteq TopLevel(asts) OBVIOUS
  <2>3. /\ DOMAIN map = {asts[i + 1].name : i \in those}
        /\ \A i \in those : /\ map[asts[i + 1].name].id \in those
                            /\ asts[map[asts[i + 1].name].id + 1].name = asts[i + 1].name
                            /\ i <= map[asts[i + 1].name].id
    BY <1>4 DEF PutOf
  <2> HIDE DEF those, asts
  <2>4. \A i \in those : astid(i) = asts[i + 1] BY <1>3, <2>2
  <2>5. {astid(i).name : i \in those} = {asts[i + 1].name : i \in those} BY <2>4
  <2> QED BY <2>1, <2>3, <2>4, <2>5 DEF HoldsTheLast
<1>5. \A i \in TopLevel(asts) : MainAt(i) <=> MainOf(asts, i) BY <1>3 DEF MainAt, MainOf
<1> QED BY <1>2, <1>4, <1>5 DEF LastDeclarationsWin, Finds

LEMMA ToldAtFirst ==
    ASSUME MainInit
    PROVE  Told
<1>1. stage = "main" /\ ast = 0 /\ const_map = <<>> /\ var_map = <<>> /\ file \in Files
  BY DEF MainInit, DriverInit
<1>2. Stands(file.asts, 0) /\ Passed(file.asts, 0) = {} BY <1>1, DriverAssumption, WalkEnds
<1> QED BY <1>1, <1>2 DEF Told

-----------------------------------------------------------------------------
(* Every step of main is one of the driver, or leaves it alone.               *)
LEMMA MainDrives ==
    ASSUME [MainNext]_mainVars
    PROVE  Drives \/ UNCHANGED driverVars
<1>1. ASSUME NEW tool \in Tools, Runs(tool) PROVE UNCHANGED driverVars
  BY <1>1 DEF Runs, ToolSucceeds, ToolFails, HandedOver
<1>2. CASE Goes
  BY <1>2 DEF Goes, OpenAsm, Compiled, Reports, Aborts, Forks, ForkFails, Waits, WaitsAgain,
              Rename, HandedOver
<1>3. CASE MainEnded \/ UNCHANGED mainVars
  BY <1>3 DEF MainEnded, mainVars
<1> QED BY <1>1, <1>2, <1>3 DEF MainNext

LEMMA DrivenStarts ==
    ASSUME MainInit
    PROVE  Driven
BY DEF MainInit, DriverInit, Driven, ConstantsAreValues, OnlyDropsCorrupt

(* simulate_ast: whatever the texts, the order the build evaluates in and the *)
(* size of the stack, the simulation goes beyond its stack only in a body     *)
(* that drops a value or has as many statements as the stack holds values.    *)
THEOREM OnlyDropsCorruptHolds == MainSpec => []OnlyDropsCorrupt
<1>1. Driven => OnlyDropsCorrupt BY DEF Driven
<1>2. Driven /\ [MainNext]_mainVars => Driven'
  BY MainDrives, DriverKeepsDriven
<1> QED BY <1>1, <1>2, DrivenStarts, PTL DEF MainSpec

(* consteval_step: whatever the texts, the driver that comes to its end has   *)
(* found the first main, and each name declared along the top level, as often *)
(* as it may be, is in its map with its last declaration.                     *)
THEOREM LastDeclarationsWinHolds == MainSpec => []LastDeclarationsWin
<1>1. Driven /\ Told => LastDeclarationsWin BY ToldIsHandedOver
<1>2. Driven /\ [MainNext]_mainVars => Driven'
  BY MainDrives, DriverKeepsDriven
<1>3. Driven /\ Told /\ [MainNext]_mainVars => Told'
  BY MainDrives, DriverKeepsTold
<1> QED BY <1>1, <1>2, <1>3, DrivenStarts, ToldAtFirst, PTL DEF MainSpec

(* consteval_eval: whatever the texts, what is stored for a body that only    *)
(* pushes and duplicates is the last value it pushes, although its last       *)
(* statement is simulated twice.                                              *)
THEOREM PushedValuesAreExactHolds == MainSpec => PushedValuesAreExact
<1>1. Driven /\ [MainNext]_mainVars => [StoresWhatIsLeft]_driverVars
  BY MainDrives, DrivenStoresWhatIsLeft
<1>2. Driven /\ [MainNext]_mainVars => Driven'
  BY MainDrives, DriverKeepsDriven
<1> QED BY <1>1, <1>2, DrivenStarts, PTL DEF MainSpec, PushedValuesAreExact
=============================================================================
