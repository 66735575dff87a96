------------------------------ MODULE GitTools ------------------------------
(***************************************************************************)
(* The git tools (git-tools/tool.py).  A call runs one git command after   *)
(* another in a working tree and an index that all calls, of all runs,     *)
(* share; nothing holds them together, and a command that takes longer     *)
(* than 30 s is killed where it stands.                                    *)
(*                                                                         *)
(* git is external: a command is one step that succeeds, fails, or is      *)
(* killed before or after its effect, with index.lock left behind.  Left   *)
(* out: the contents of files, remotes, the tools that only read, a branch *)
(* name that looks like a flag (refused before anything runs).             *)
(* Bound: MaxGitCalls.                                                     *)
(***************************************************************************)
EXTENDS Naturals, Sequences, ToolCalls

CONSTANTS
    Paths, Branches,
    Main,           \* the branch the repository starts on
    MaxGitCalls

VARIABLES
    branch,         \* the branch that is checked out
    commits,        \* commits of each branch, Absent if there is no such branch
    index,          \* paths staged with a change
    unmerged,       \* paths in conflict
    operation,      \* MERGE_HEAD or rebase-merge exists
    gitLock,        \* index.lock was left by a command that was killed
    gitCall,        \* what each caller runs, and the commands still to run
    gitAnswer,      \* history: how the last call of each caller ended
    mixed,          \* history: callers whose call overlapped with another one
    startedBy,      \* history: the caller whose command stopped in the operation
    gitCalls

gitVars == <<branch, commits, index, unmerged, operation, gitLock, gitCall, gitAnswer, mixed,
             startedBy, gitCalls>>
repoVars == <<branch, commits, index, unmerged, operation, startedBy>>

GitCommits == [by : Callers, at : Nat, paths : SUBSET Paths]

ASSUME GitAssumption == Main \in Branches /\ Absent \notin Seq(GitCommits)

GitInit ==
    /\ branch = Main
    /\ commits = [b \in Branches |-> IF b = Main THEN <<>> ELSE Absent]
    /\ index = {}
    /\ unmerged = {}
    /\ operation = "none"
    /\ gitLock = FALSE
    /\ gitCall = [c \in Callers |-> Idle]
    /\ gitAnswer = [c \in Callers |-> Absent]
    /\ mixed = {}
    /\ startedBy = Absent
    /\ gitCalls = 0

Cmd(name, arg) == [do |-> name, arg |-> arg]

------------------------------------------------------------------------------
\* The tools and the commands they run.

Begin(c, tool, paths, todo) ==
    LET busy == {d \in Callers : gitCall[d] # Idle}
    IN  /\ gitCall[c] = Idle
        /\ gitCalls < MaxGitCalls
        /\ gitCalls' = gitCalls + 1
        /\ gitCall' = [gitCall EXCEPT ![c] = [tool |-> tool, paths |-> paths, todo |-> todo]]
        /\ mixed' = (IF busy = {} THEN mixed \ {c} ELSE mixed \cup busy \cup {c})
        /\ gitAnswer' = [gitAnswer EXCEPT ![c] = Absent]
        /\ UNCHANGED <<repoVars, gitLock>>

GitStage(c) == \E p \in Paths : Begin(c, "stage", {p}, <<Cmd("add", {p})>>)
GitUnstage(c) == \E p \in Paths : Begin(c, "unstage", {p}, <<Cmd("restore-staged", {p})>>)
GitRestore(c) ==
    \E p \in Paths, staged \in BOOLEAN :
        Begin(c, "restore", {p},
              <<Cmd(IF staged THEN "restore-staged" ELSE "restore", {p})>>)

\* Mutant: what is staged is committed, whatever paths were asked for.
GitCommitStaged(c) ==
    \E paths \in SUBSET Paths, amend \in BOOLEAN :
        Begin(c, "commit", paths,
              <<Cmd(IF amend THEN "commit-amend" ELSE "commit", {}), Cmd("log-1", {})>>)

GitCommit(c) ==
    \E paths \in SUBSET Paths, amend \in BOOLEAN :
        Begin(c, "commit", paths,
              (IF paths = {} THEN <<>> ELSE <<Cmd("add", paths)>>)
                  \o <<Cmd(IF amend THEN "commit-amend" ELSE "commit", {}), Cmd("log-1", {})>>)
GitCreateBranch(c) ==
    \E b \in Branches, switch \in BOOLEAN :
        Begin(c, "create_branch", {}, <<Cmd(IF switch THEN "checkout-b" ELSE "branch", b)>>)
GitCheckout(c) ==
    \E b \in Branches, create \in BOOLEAN :
        Begin(c, "checkout", {}, <<Cmd(IF create THEN "checkout-b" ELSE "checkout", b)>>)
GitMerge(c) == Begin(c, "merge", {}, <<Cmd("merge", {})>>)
GitRebase(c) == Begin(c, "rebase", {}, <<Cmd("rebase", {})>>)
GitPull(c) ==
    \E rebase \in BOOLEAN : Begin(c, "pull", {}, <<Cmd(IF rebase THEN "rebase" ELSE "merge", {})>>)
GitFetch(c) == Begin(c, "fetch", {}, <<Cmd("fetch", {})>>)
GitPush(c) == Begin(c, "push", {}, <<Cmd("push", {})>>)
\* _detect_operation() asks git for its directory first
GitAbort(c) == Begin(c, "abort", {}, <<Cmd("rev-parse", {})>>)
GitResolve(c) ==
    \E p \in Paths : Begin(c, "resolve", {p}, <<Cmd("checkout-side", {p}), Cmd("add", {p})>>)

------------------------------------------------------------------------------
\* The commands.

ReadsOnly == {"log-1", "diff", "rev-parse", "fetch", "push", "branch"}
Stops(c, kind, paths) ==
    /\ operation' = kind /\ unmerged' = paths /\ startedBy' = c
    /\ UNCHANGED <<branch, commits, index>>
Commit(c, earlier, more) ==
    /\ commits' = [commits EXCEPT
           ![branch] = Append(earlier, [by |-> c, at |-> gitCalls, paths |-> index \cup more])]
    /\ index' = {}

\* what a command does when it succeeds; it is refused when its guard is false
Effect(c, cmd) ==
    CASE cmd.do = "add" ->
           /\ index' = index \cup cmd.arg
           /\ unmerged' = unmerged \ cmd.arg
           /\ UNCHANGED <<branch, commits, operation, startedBy>>
      [] cmd.do = "restore-staged" ->
           /\ index' = index \ cmd.arg
           /\ unmerged' = unmerged \ cmd.arg
           /\ UNCHANGED <<branch, commits, operation, startedBy>>
      [] cmd.do \in {"restore", "checkout-side"} ->
           /\ (cmd.arg \subseteq unmerged) = (cmd.do = "checkout-side")
           /\ UNCHANGED repoVars
      [] cmd.do = "commit" ->
           /\ unmerged = {} /\ (index # {} \/ operation = "merge")
           /\ Commit(c, commits[branch], {})
           /\ operation' = IF operation = "merge" THEN "none" ELSE operation
           /\ UNCHANGED <<branch, unmerged, startedBy>>
      [] cmd.do = "commit-amend" ->
           /\ unmerged = {} /\ operation # "merge" /\ commits[branch] # <<>>
           /\ LET n == Len(commits[branch])
              IN  Commit(c, SubSeq(commits[branch], 1, n - 1), commits[branch][n].paths)
           /\ UNCHANGED <<branch, unmerged, operation, startedBy>>
      [] cmd.do \in {"checkout-b", "branch"} ->
           /\ commits[cmd.arg] = Absent
           /\ commits' = [commits EXCEPT ![cmd.arg] = commits[branch]]
           /\ cmd.do = "checkout-b" => operation = "none" /\ unmerged = {}
           /\ branch' = IF cmd.do = "branch" THEN branch ELSE cmd.arg
           /\ UNCHANGED <<index, unmerged, operation, startedBy>>
      [] cmd.do = "checkout" ->
           /\ commits[cmd.arg] # Absent
           /\ operation = "none" /\ unmerged = {}
           /\ branch' = cmd.arg
           /\ UNCHANGED <<commits, index, unmerged, operation, startedBy>>
      [] cmd.do \in {"merge", "rebase"} ->
           /\ operation = "none" /\ unmerged = {} /\ index = {}
           /\ commits' \in {commits, [commits EXCEPT
                  ![branch] = Append(@, [by |-> c, at |-> gitCalls, paths |-> {}])]}
           /\ UNCHANGED <<branch, index, unmerged, operation, startedBy>>
      [] cmd.do \in {"merge-abort", "rebase-abort"} ->
           /\ operation = (IF cmd.do = "merge-abort" THEN "merge" ELSE "rebase")
           /\ operation' = "none" /\ unmerged' = {} /\ index' = {}
           /\ UNCHANGED <<branch, commits, startedBy>>
      [] OTHER -> UNCHANGED repoVars

Current(c) == Head(gitCall[c].todo)
Rest(c) == Tail(gitCall[c].todo)

\* the next command of the call, or the answer
Continue(c, todo) ==
    /\ gitCall' = [gitCall EXCEPT ![c] = [@ EXCEPT !.todo = todo]]
    /\ UNCHANGED <<gitAnswer, mixed, gitCalls>>
Answer(c, code, sha) ==
    /\ gitAnswer' = [gitAnswer EXCEPT ![c] = [tool |-> gitCall[c].tool, paths |-> gitCall[c].paths,
                                              code |-> code, sha |-> sha]]
    /\ gitCall' = [gitCall EXCEPT ![c] = Idle]
    /\ UNCHANGED <<mixed, gitCalls>>

\* what a call makes of a command that exits with 0
AfterSuccess(c) ==
    LET cmd == Current(c)
    IN  CASE cmd.do = "rev-parse" /\ gitCall[c].tool = "abort" ->
               IF operation = "none" THEN Answer(c, "no_operation", Absent)
               ELSE Continue(c, <<Cmd(IF operation = "merge" THEN "merge-abort"
                                      ELSE "rebase-abort", {})>>)
          [] cmd.do = "rev-parse" /\ gitCall[c].tool # "abort" ->
               Answer(c, IF operation = "rebase" THEN "rebase_conflict" ELSE "git_error", Absent)
          [] cmd.do = "diff" ->
               IF gitCall[c].tool = "merge" THEN Answer(c, "merge_conflict", Absent)
               ELSE IF unmerged # {} THEN Answer(c, "rebase_conflict", Absent)
               ELSE Continue(c, <<Cmd("rev-parse", {})>>)
          [] cmd.do = "log-1" ->
               Answer(c, "ok", IF commits[branch] = <<>> THEN Absent
                               ELSE commits[branch][Len(commits[branch])])
          [] OTHER -> IF Rest(c) = <<>> THEN Answer(c, "ok", Absent) ELSE Continue(c, Rest(c))

CommandSucceeds(c) ==
    /\ gitCall[c] # Idle
    /\ gitLock => Current(c).do \in ReadsOnly
    /\ Effect(c, Current(c))
    /\ AfterSuccess(c)
    /\ UNCHANGED gitLock

\* git_merge() and git_rebase() look at the conflicts of a command that exits with 1;
\* git_pull() does not
AfterFailure(c) ==
    IF gitCall[c].tool \in {"merge", "rebase"} /\ Current(c).do \in {"merge", "rebase"}
    THEN Continue(c, <<Cmd("diff", {})>>)
    ELSE Answer(c, "git_error", Absent)

CommandStops(c) ==
    /\ gitCall[c] # Idle
    /\ ~gitLock
    /\ Current(c).do \in {"merge", "rebase"}
    /\ operation = "none" /\ unmerged = {} /\ index = {}
    /\ \E paths \in SUBSET Paths \ {{}} : Stops(c, Current(c).do, paths)
    /\ AfterFailure(c)
    /\ UNCHANGED gitLock

\* refused, or index.lock exists: nothing has changed
CommandFails(c) ==
    /\ gitCall[c] # Idle
    /\ Current(c).do \notin {"diff", "rev-parse"}
    /\ IF Current(c).do = "merge" THEN Answer(c, "git_error", Absent) ELSE AfterFailure(c)
    /\ UNCHANGED <<repoVars, gitLock>>

\* subprocess.run() kills git: the change is made or not, the lock left or not.  Output
\* that is missing reads as no conflicts and no operation; everything else is a timeout.
AfterTimeout(c) ==
    CASE Current(c).do = "diff" /\ gitCall[c].tool = "merge" -> Answer(c, "merge_conflict", Absent)
      [] Current(c).do = "diff" /\ gitCall[c].tool # "merge" ->
           Continue(c, <<Cmd("rev-parse", {})>>)
      [] Current(c).do = "rev-parse" ->
           Answer(c, IF gitCall[c].tool = "abort" THEN "no_operation" ELSE "git_error", Absent)
      [] OTHER -> Answer(c, "timeout", Absent)
CommandKilled(c) ==
    /\ gitCall[c] # Idle
    /\ IF Current(c).do \in ReadsOnly \/ gitLock
       THEN UNCHANGED <<repoVars, gitLock>>
       ELSE /\ gitLock' \in BOOLEAN
            /\ \/ UNCHANGED repoVars
               \/ Effect(c, Current(c))
    /\ AfterTimeout(c)

GitNext ==
    \E c \in Callers :
        \/ GitStage(c) \/ GitUnstage(c) \/ GitRestore(c) \/ GitCommit(c)
        \/ GitCreateBranch(c) \/ GitCheckout(c)
        \/ GitMerge(c) \/ GitRebase(c) \/ GitPull(c) \/ GitFetch(c) \/ GitPush(c)
        \/ GitAbort(c) \/ GitResolve(c)
        \/ CommandSucceeds(c) \/ CommandStops(c) \/ CommandFails(c) \/ CommandKilled(c)

GitSpec == GitInit /\ [][GitNext]_gitVars

------------------------------------------------------------------------------
\* Properties

GitTypeOK ==
    /\ branch \in Branches /\ commits[branch] # Absent
    /\ index \subseteq Paths /\ unmerged \subseteq Paths
    /\ operation \in {"none", "merge", "rebase"}
    /\ gitLock \in BOOLEAN
    /\ \A c \in Callers : gitCall[c] # Idle => gitCall[c].todo # <<>>

\* The answers are true although each is put together from several commands any of which
\* may fail or be killed: a commit that was not mixed up with another call is reported as
\* the one it made, with the paths it was asked for; and a merge, rebase or pull that
\* stopped half way is never reported as done (git_commit, git_merge, git_rebase, _finish).
GitAnswersAreTrue ==
    \A c \in Callers :
        LET answer == gitAnswer[c]
        IN  answer # Absent /\ answer.code = "ok" =>
                /\ answer.tool = "commit" /\ c \notin mixed =>
                       answer.sha.by = c /\ answer.paths \subseteq answer.sha.paths
                /\ answer.tool \in {"merge", "rebase", "pull"} =>
                       ~(operation # "none" /\ startedBy = c)

\* The repository and what the tools say of it agree.
GitOK == GitTypeOK /\ GitAnswersAreTrue
=============================================================================
