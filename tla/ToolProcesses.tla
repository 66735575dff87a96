--------------------------- MODULE ToolProcesses ---------------------------
(***************************************************************************)
(* The tools that run a program for the agent: shell_execute,              *)
(* python_execute and the tools of dev-tools (tests, linter, formatter,    *)
(* build).  Each is one subprocess.run() with pipes and a time limit.      *)
(*                                                                         *)
(* subprocess.run() is external: it returns when the child has exited and  *)
(* every process that inherited the pipes has closed them; after the limit *)
(* it kills the child, not the processes the child began, and on Windows   *)
(* waits for the pipes again, without a limit.                             *)
(*                                                                         *)
(* Left out: the command line, its checks and the parsing of the output,   *)
(* which is the set of processes that had finished writing.                *)
(* Bound: MaxProcessCalls.                                                 *)
(***************************************************************************)
EXTENDS Naturals, ToolCalls

CONSTANTS
    MaxProcessCalls

VARIABLES
    windows,            \* the pipes are read to their end after the kill
    programs,           \* what each caller runs: tool, step of the call, processes
    workspaces,         \* temporary directories that are on the disk
    spilled,            \* history: directories that a live process kept from being removed
    programAnswer,      \* how the last call of each caller ended
    programCalls

processVars == <<windows, programs, workspaces, spilled, programAnswer, programCalls>>

NoProgram == [tool |-> Absent, at |-> "idle", child |-> "none", other |-> "none", code |-> Absent,
              dir |-> Absent]

ProcessInit ==
    /\ windows \in BOOLEAN
    /\ programs = [c \in Callers |-> NoProgram]
    /\ workspaces = {}
    /\ spilled = {}
    /\ programAnswer = [c \in Callers |-> Absent]
    /\ programCalls = 0

At(c, step) == programs[c].at = step
Goes(c, fields) ==
    programs' = [programs EXCEPT ![c] = [f \in DOMAIN @ |->
                    IF f \in DOMAIN fields THEN fields[f] ELSE @[f]]]

\* A process of an earlier call of the same caller may still be there: it keeps its own
\* pipes and no call waits for it, so the model forgets it.
StartProgram(c, tool) ==
    /\ At(c, "idle")
    /\ programCalls < MaxProcessCalls
    /\ programCalls' = programCalls + 1
    /\ LET dir == IF tool = "python_execute" THEN programCalls ELSE Absent
       IN  /\ programs' = [programs EXCEPT ![c] =
                  [tool |-> tool, at |-> "wait", child |-> "runs", other |-> "none", code |-> Absent,
                   dir |-> dir]]
           /\ workspaces' = workspaces \cup ({dir} \ {Absent})
    /\ programAnswer' = [programAnswer EXCEPT ![c] = Absent]
    /\ UNCHANGED <<windows, spilled>>

RunCommand(c) == StartProgram(c, "shell_execute")
RunCode(c) == StartProgram(c, "python_execute")
RunTests(c) == StartProgram(c, "run_tests")
RunLinter(c) == StartProgram(c, "run_linter")
RunFormatter(c) == StartProgram(c, "run_formatter")
InspectBuild(c) == StartProgram(c, "inspect_build_errors")

\* what the processes do by themselves
ProcessMoves(c) ==
    /\ \/ programs[c].child = "runs" /\ programs[c].other = "none" /\ Goes(c, [other |-> "runs"])
       \/ /\ programs[c].child = "runs"
          /\ \E code \in {0, 1} : Goes(c, [child |-> "exited", code |-> code])
       \/ programs[c].other = "runs" /\ Goes(c, [other |-> "exited"])
    /\ UNCHANGED <<windows, workspaces, spilled, programAnswer, programCalls>>

Finished(c) == programs[c].child # "runs" /\ programs[c].other # "runs"

\* the pipes are closed and the child has been waited for
Completes(c) ==
    /\ At(c, "wait")
    /\ Finished(c)
    /\ Goes(c, [at |-> "clean"])
    /\ programAnswer' = [programAnswer EXCEPT ![c] =
           [code |-> programs[c].code,
            ok |-> programs[c].code = 0 \/ programs[c].tool = "inspect_build_errors"]]
    /\ UNCHANGED <<windows, workspaces, spilled, programCalls>>

\* Mutant: the child is given up and not killed.
GivesUp(c) ==
    /\ At(c, "wait")
    /\ Goes(c, [code |-> Absent, at |-> IF windows THEN "drain" ELSE "clean"])
    /\ programAnswer' = [programAnswer EXCEPT ![c] = [code |-> Absent, ok |-> FALSE]]
    /\ UNCHANGED <<windows, workspaces, spilled, programCalls>>

\* the limit passes: the child is killed and, on Windows, the pipes are read to their end
TimesOut(c) ==
    /\ At(c, "wait")
    /\ Goes(c, [child |-> "killed", code |-> Absent, at |-> IF windows THEN "drain" ELSE "clean"])
    /\ programAnswer' = [programAnswer EXCEPT ![c] = [code |-> Absent, ok |-> FALSE]]
    /\ UNCHANGED <<windows, workspaces, spilled, programCalls>>
Drains(c) ==
    /\ At(c, "drain")
    /\ Finished(c)
    /\ Goes(c, [at |-> "clean"])
    /\ UNCHANGED <<windows, workspaces, spilled, programAnswer, programCalls>>

\* finally: rmtree(ignore_errors): what a live process still writes there stays for good
CleansUp(c) ==
    /\ At(c, "clean")
    /\ Goes(c, [at |-> "idle"])
    /\ LET dir == programs[c].dir
           inUse == dir # Absent /\ ~Finished(c)
       IN  \/ workspaces' = workspaces \ {dir} /\ UNCHANGED spilled
           \/ inUse /\ spilled' = spilled \cup {dir} /\ UNCHANGED workspaces
    /\ UNCHANGED <<windows, programAnswer, programCalls>>

\* the sidecar dies in the middle of a call: its children live on
CallDies(c) ==
    /\ ~At(c, "idle")
    /\ Goes(c, [at |-> "idle", child |-> "none", other |-> "none"])
    /\ spilled' = spilled \cup ({programs[c].dir} \ {Absent})
    /\ UNCHANGED <<windows, workspaces, programAnswer, programCalls>>

CallStep(c) == Completes(c) \/ Drains(c) \/ CleansUp(c)
ProcessNext ==
    \E c \in Callers :
        \/ RunCommand(c) \/ RunCode(c) \/ RunTests(c) \/ RunLinter(c) \/ RunFormatter(c)
        \/ InspectBuild(c)
        \/ ProcessMoves(c)
        \/ TimesOut(c) \/ CallStep(c) \/ CallDies(c)

ProcessSpec == ProcessInit /\ [][ProcessNext]_processVars

------------------------------------------------------------------------------
\* Properties

ProcessTypeOK ==
    /\ \A c \in Callers : programs[c].at \in {"idle", "wait", "drain", "clean"}
    /\ spilled \subseteq workspaces

\* When a call has returned, its program is over: an exit code is that of a child that
\* ended by itself after all of its output was read, a time-out leaves no child alive, and
\* no directory stays behind unless a process it did not know of kept it
\* (run_code(), run_command(), dev-tools _run()).
ReturnedMeansOver ==
    /\ \A c \in Callers : At(c, "idle") =>
           /\ programs[c].child # "runs"
           /\ /\ programAnswer[c] # Absent /\ programAnswer[c].code # Absent
              /\ programs[c].tool # Absent
              => programs[c].child # "killed" /\ programs[c].other # "runs"
    /\ workspaces \ spilled = {programs[c].dir : c \in {d \in Callers : ~At(d, "idle")}} \ {Absent}

\* Programs, directories and answers agree.
ProcessesOK == ProcessTypeOK /\ ReturnedMeansOver
=============================================================================
