------------------------------ MODULE Toolchain ------------------------------
(* main of main.c as a whole: the driver, the compiler's hold on out.asm, and *)
(* compile_asm_step, which runs the assembler and the linker by nob.c and     *)
(* takes no notice of how they end.  What the tools do is external; so is     *)
(* what earlier runs have left in the directory.                              *)
EXTENDS Driver

CONSTANTS
    Builds,           \* "debug" (nasm) or "release" (fasm)
    Leftovers         \* sets of files that an earlier run may have left

Outputs == {"out.asm", "out.tmp", "out.o", "out"}
Tools == {"assembler", "linker"}
ASSUME ToolchainAssumption == Builds \subseteq {"debug", "release"} /\ Leftovers \subseteq SUBSET Outputs

VARIABLES
    build,
    at,               \* where main is, once the driver has handed over
    content,          \* of each output: this program's ("own"), another's ("old"), "partial", "none"
    child,            \* each tool: "idle", "running", "exited", "failed", "killed", "reaped"
    old,              \* history: what earlier runs have left
    sound             \* history: no tool has failed, and out.asm could be written

toolVars == <<build, at, content, child, old, sound>>
mainVars == <<driverVars, toolVars>>
Ended == {"exit0", "exit1"}

HandedOver == stage = "done" /\ UNCHANGED driverVars

-----------------------------------------------------------------------------
(* compiler_compile opens out.asm, which empties it, and writes.  An error it *)
(* reports removes the file; exit, UNREACHABLE and signals leave it as it is. *)
(* The directory is looked at here for the first time.  (Texts that are not   *)
(* marked `assembled` are followed up to here.)                               *)

OpenAsm ==
    /\ HandedOver /\ at = "driver" /\ file.assembled
    /\ build' \in Builds
    /\ old' \in Leftovers
    /\ LET found == [f \in Outputs |-> IF f \in old' THEN "old" ELSE "none"]
       IN \/ /\ content' = [found EXCEPT !["out.asm"] = "partial"]
             /\ at' = "writing" /\ UNCHANGED sound
          \/ content' = found /\ at' = "exit1" /\ sound' = FALSE      \* cannot be opened
    /\ UNCHANGED child
NotClosed(asm) == asm                                                   \* (faulty)
Closed(asm) == "own"                      \* fclose in compiler_deinit writes what is left
Compiled ==
    /\ HandedOver /\ at = "writing"
    /\ content' = [content EXCEPT !["out.asm"] = Closed(@)] /\ at' = "assemble"
    /\ UNCHANGED <<build, child, old, sound>>
Reports ==
    /\ HandedOver /\ at = "writing"
    /\ content' = [content EXCEPT !["out.asm"] = "none"] /\ at' = "exit1"
    /\ UNCHANGED <<build, old, child, sound>>
Aborts ==
    /\ HandedOver /\ at = "writing"
    /\ at' = "exit1" /\ sound' = FALSE
    /\ UNCHANGED <<build, old, content, child>>

-----------------------------------------------------------------------------
(* nob_cmd_run_sync: fork, then wait in a loop that a child ended by a signal *)
(* goes through twice; the second waitpid has no child and fails.             *)

Tool == IF at \in {"assemble", "assembling"} THEN "assembler" ELSE "linker"
Source(tool) == IF tool = "assembler" THEN "out.asm" ELSE "out.o"
Target(tool) == IF tool = "linker" THEN "out" ELSE IF build = "release" THEN "out.tmp" ELSE "out.o"
After(tool) == IF tool = "linker" THEN "exit0" ELSE IF build = "debug" THEN "rename" ELSE "link"

Forks ==
    /\ HandedOver /\ at \in {"assemble", "link"}
    /\ at' = IF at = "assemble" THEN "assembling" ELSE "linking"
    /\ child' = [child EXCEPT ![Tool] = "running"]
    /\ UNCHANGED <<build, old, content, sound>>
ForkFails ==                              \* NOB_INVALID_PROC
    /\ HandedOver /\ at \in {"assemble", "link"}
    /\ at' = After(Tool) /\ sound' = FALSE
    /\ UNCHANGED <<build, old, content, child>>

(* A tool that succeeds makes its output of its input.  One that cannot be    *)
(* executed exits with 1; one that fails may have removed its output.         *)
ToolSucceeds(tool) ==
    /\ child[tool] = "running" /\ content[Source(tool)] # "none" /\ HandedOver
    /\ content' = [content EXCEPT ![Target(tool)] = content[Source(tool)]]
    /\ child' = [child EXCEPT ![tool] = "exited"]
    /\ UNCHANGED <<build, old, at, sound>>
ToolFails(tool) ==
    /\ child[tool] = "running" /\ HandedOver
    /\ \E left \in {content[Target(tool)], "none"} :
          content' = [content EXCEPT ![Target(tool)] = left]
    /\ child' \in {[child EXCEPT ![tool] = how] : how \in {"failed", "killed"}}
    /\ sound' = (sound /\ content[Source(tool)] = "none")
    /\ UNCHANGED <<build, old, at>>

DoesNotWait(how) == TRUE                                                \* (faulty)
WaitReturns(how) == how \in {"exited", "failed", "reaped"}
Waits ==
    /\ HandedOver /\ at \in {"assembling", "linking"} /\ WaitReturns(child[Tool])
    /\ at' = After(Tool)
    /\ UNCHANGED <<build, old, content, child, sound>>
Again(how) == how                                                       \* (faulty)
Reaped(how) == "reaped"
WaitsAgain ==
    /\ HandedOver /\ at \in {"assembling", "linking"} /\ child[Tool] = "killed"
    /\ child' = [child EXCEPT ![Tool] = Reaped(@)]
    /\ UNCHANGED <<build, old, at, content, sound>>

(* nob_rename, in the debug build alone, whose assembler writes no out.tmp.   *)
Rename ==
    /\ HandedOver /\ at = "rename"
    /\ at' = "link"
    /\ content' = IF content["out.tmp"] = "none" THEN content
                  ELSE [content EXCEPT !["out.o"] = content["out.tmp"], !["out.tmp"] = "none"]
    /\ UNCHANGED <<build, old, child, sound>>

MainInit ==
    /\ DriverInit
    /\ build = "unknown" /\ at = "driver" /\ sound = TRUE
    /\ content = [f \in Outputs |-> "none"] /\ child = [t \in Tools |-> "idle"] /\ old = {}
Goes ==
    \/ Drives /\ UNCHANGED toolVars
    \/ OpenAsm \/ Compiled \/ Reports \/ Aborts \/ Forks \/ ForkFails \/ Waits \/ WaitsAgain \/ Rename
Runs(tool) == ToolSucceeds(tool) \/ ToolFails(tool)
MainHalted == at \in Ended \/ stage \in Halted \ {"done"} \/ (stage = "done" /\ ~file.assembled)
MainEnded == MainHalted /\ UNCHANGED mainVars
MainNext == Goes \/ (\E tool \in Tools : Runs(tool)) \/ MainEnded
MainSpec == MainInit /\ [][MainNext]_mainVars
MainFairSpec == MainSpec /\ WF_mainVars(Goes) /\ \A tool \in Tools : WF_mainVars(Runs(tool))

-----------------------------------------------------------------------------
(* Properties.                                                                *)

(* compile_asm_step: although the result of no step is looked at, a debug     *)
(* build that finds no out.tmp of an earlier run makes the executable of this *)
(* program, if the tools succeed on what they are given.                      *)
DebugBuildLinksIt ==
    (at = "exit0" /\ build = "debug" /\ sound /\ "out.tmp" \notin old) => content["out"] = "own"

(* nob_cmd_run_sync: the linker is not started, and main does not end, while  *)
(* the assembler still writes, whichever way its child ends.                  *)
ToolsTakeTurns ==
    child["assembler"] = "running" => child["linker"] = "idle" /\ at \notin Ended \union {"rename", "link"}

(* main ends whatever the tools do, if each child process ends.               *)
MainStops == <>MainHalted
=============================================================================
