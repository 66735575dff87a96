---------------------------- MODULE GoalContracts ----------------------------
(***************************************************************************)
(* The goal contracts of the goal-supervisor tool                          *)
(* (src/tools/goal-supervisor/tool.py): one contract, its criteria, the    *)
(* results of its evaluations and the attempts to recover.                 *)
(*                                                                         *)
(* As in TodoPlans a call reads and checks first (Begin...) and writes in  *)
(* a transaction later (CommitGoalCall).  An evaluation takes its time     *)
(* stamp and runs its first validator before it holds the write lock, the  *)
(* others under it; the result of a criterion that counts is the one with  *)
(* the latest time stamp, not the one stored last.                         *)
(*                                                                         *)
(* A criterion is checked against what the call brings as evidence or      *)
(* against the files and tables (`world`), which change under it.  Left    *)
(* out: texts, progress snapshots' content, budgets other than recovery.   *)
(* Bounds: Criteria, MaxGoalCalls.                                         *)
(***************************************************************************)
EXTENDS Naturals, FiniteSets, ToolCalls

CONSTANTS
    Criteria,       \* 1 .. n: the success criteria in their order
    ByEvidence,     \* the criteria that the caller's evidence decides
    MaxRecoveries,  \* maximum_recovery_attempts
    MaxGoalCalls    \* bound: calls that may begin

ASSUME GoalAssumption ==
    /\ IsFiniteSet(Callers) /\ Callers # {}
    /\ MaxRecoveries \in Nat /\ MaxGoalCalls \in Nat
    /\ Absent # "stored"

VARIABLES
    contract,       \* goal_contracts.status, or Absent
    results,        \* goal_validation_results: [index, at, passed]
    recoveries,     \* rows of run_recovery_attempts that were granted
    manual,         \* rows of run_recovery_attempts that mark_blocked() wrote
    progress,       \* progress_json: for each list the call that wrote it
    world,          \* whether the files and tables satisfy each criterion now
    goalCall,       \* what each caller read and is about to write, or Idle
    clock,          \* number of calls that have begun; their time stamps
    proof           \* history: where the completing call found its verdicts

goalVars == <<contract, results, recoveries, manual, progress, world, goalCall, clock, proof>>

ProgressLists == {"completed_items", "remaining_items"}

GoalInit ==
    /\ contract = Absent
    /\ results = {}
    /\ recoveries = 0
    /\ manual = 0
    /\ progress = [l \in ProgressLists |-> 0]
    /\ world = [i \in Criteria |-> FALSE]
    /\ goalCall = [c \in Callers |-> Idle]
    /\ clock = 0
    /\ proof = Absent

\* create_contract()
CreateContract ==
    /\ contract = Absent
    /\ contract' = "active"
    /\ UNCHANGED <<results, recoveries, manual, progress, world, goalCall, clock, proof>>

\* files are written, artifacts and memories come and go
WorldChanges ==
    /\ \E i \in Criteria \ ByEvidence : world' = [world EXCEPT ![i] = ~@]
    /\ UNCHANGED <<contract, results, recoveries, manual, progress, goalCall, clock, proof>>

\* _run_validator(): evidence that is missing fails, it never passes.
Verdict(i, evidence) == IF i \in ByEvidence THEN evidence[i] = TRUE ELSE world[i]

\* the result of criterion i that get_status() shows and mark_complete() relies on
LatestResult(i) == {r \in results : /\ r.index = i
                              /\ \A q \in results : q.index = i => q.at <= r.at}

BeginGoal(c, call) ==
    /\ goalCall[c] = Idle
    /\ clock < MaxGoalCalls
    /\ clock' = clock + 1
    /\ goalCall' = [goalCall EXCEPT ![c] = call]
    /\ UNCHANGED <<contract, results, recoveries, manual, progress, world, proof>>

\* evaluate(): a blocked contract may be evaluated too.
BeginEvaluate(c) ==
    /\ contract \in {"active", "blocked"}
    /\ \E evidence \in [ByEvidence -> {Absent, TRUE, FALSE}] :
        BeginGoal(c, [op |-> "evaluate", at |-> clock + 1, evidence |-> evidence,
                      first |-> Verdict(1, evidence)])

\* record_progress(): the snapshot that was read is merged and written back whole.
BeginProgress(c) ==
    /\ contract = "active"
    /\ \E lists \in SUBSET ProgressLists \ {{}} :
        BeginGoal(c, [op |-> "progress",
                      to |-> [l \in ProgressLists |-> IF l \in lists THEN clock + 1
                                                      ELSE progress[l]]])

\* request_recovery(): the attempts are counted before the row is written.
BeginRecovery(c) ==
    /\ contract = "active"
    /\ recoveries + manual < MaxRecoveries
    /\ BeginGoal(c, [op |-> "recover"])

\* mark_blocked(), with or without attempts that the caller made itself
BeginBlock(c) ==
    /\ contract \in {"active", "blocked"}
    /\ \E n \in 0 .. 1 : BeginGoal(c, [op |-> "block", rows |-> n])

\* The verdict that the stored results give of criterion i; none is no verdict.
StoredVerdicts == [i \in Criteria |-> {r.passed : r \in LatestResult(i)}]

\* Mutant: only a criterion that failed stands in the way, not one without a verdict.
BeginCompleteUnproved(c) ==
    /\ contract = "active"
    /\ \/ BeginGoal(c, [op |-> "complete", source |-> "supplied"])
       \/ /\ \A i \in Criteria : StoredVerdicts[i] # {FALSE}
          /\ BeginGoal(c, [op |-> "complete", source |-> "stored"])

\* mark_complete(): every criterion has a verdict and none failed, in what the
\* caller supplies or in what is stored.
BeginCompleteGoal(c) ==
    /\ contract = "active"
    /\ \/ BeginGoal(c, [op |-> "complete", source |-> "supplied"])
       \/ /\ \A i \in Criteria : StoredVerdicts[i] = {TRUE}
          /\ BeginGoal(c, [op |-> "complete", source |-> "stored"])

CommitEvaluate(c) ==
    /\ LET e == goalCall[c]
       IN  results' = results \cup
               {[index |-> i, at |-> e.at,
                 passed |-> IF i = 1 THEN e.first ELSE Verdict(i, e.evidence)] : i \in Criteria}
    /\ UNCHANGED <<contract, recoveries, manual, progress, proof>>

CommitProgress(c) ==
    /\ progress' = goalCall[c].to
    /\ UNCHANGED <<contract, results, recoveries, manual, proof>>

CommitRecovery(c) ==
    /\ recoveries' = recoveries + 1
    /\ UNCHANGED <<contract, results, manual, progress, proof>>

CommitBlock(c) ==
    /\ contract' = "blocked"
    /\ manual' = manual + goalCall[c].rows
    /\ UNCHANGED <<results, recoveries, progress, proof>>

CommitComplete(c) ==
    /\ contract' = "completed"
    /\ proof' = goalCall[c].source
    /\ UNCHANGED <<results, recoveries, manual, progress>>

CommitGoalCall(c) ==
    /\ goalCall[c] # Idle
    /\ CASE goalCall[c].op = "evaluate" -> CommitEvaluate(c)
         [] goalCall[c].op = "progress" -> CommitProgress(c)
         [] goalCall[c].op = "recover"  -> CommitRecovery(c)
         [] goalCall[c].op = "block"    -> CommitBlock(c)
         [] goalCall[c].op = "complete" -> CommitComplete(c)
    /\ goalCall' = [goalCall EXCEPT ![c] = Idle]
    /\ UNCHANGED <<world, clock>>

\* the write lock is not to be had in five seconds: rollback
GoalCallFails(c) ==
    /\ goalCall[c] # Idle
    /\ goalCall' = [goalCall EXCEPT ![c] = Idle]
    /\ UNCHANGED <<contract, results, recoveries, manual, progress, world, clock, proof>>

GoalNext ==
    \/ CreateContract
    \/ WorldChanges
    \/ \E c \in Callers :
        \/ BeginEvaluate(c)
        \/ BeginProgress(c)
        \/ BeginRecovery(c)
        \/ BeginBlock(c)
        \/ BeginCompleteGoal(c)
        \/ CommitGoalCall(c)
        \/ GoalCallFails(c)

GoalSpec == GoalInit /\ [][GoalNext]_goalVars

------------------------------------------------------------------------------
(* Properties                                                              *)

GoalTypeOK ==
    /\ contract \in {Absent, "active", "blocked", "completed"}
    /\ \A r \in results : r.index \in Criteria /\ r.at <= clock /\ r.passed \in BOOLEAN
    /\ progress \in [ProgressLists -> 0 .. MaxGoalCalls]
    /\ world \in [Criteria -> BOOLEAN]

\* A contract that was completed on its stored results has for each criterion an
\* evaluation that it passed ("Completion requires proof", tool.py:736): no failed,
\* missing or overlapping evaluation lets it through, although a later one may
\* have failed by the time the completion is written.
CompletedWasProved ==
    proof = "stored" =>
        \A i \in Criteria : \E r \in results : r.index = i /\ r.passed

\* The recovery budget is overdrawn by at most one attempt for each further caller
\* that was between the count and the insert: it bounds the recoveries of a goal
\* that does not get better.
RecoveriesBounded == recoveries < MaxRecoveries + Cardinality(Callers)

\* A contract is kept: it is completed with proof, and its recoveries are bounded.
GoalsOK == GoalTypeOK /\ CompletedWasProved /\ RecoveriesBounded
=============================================================================
