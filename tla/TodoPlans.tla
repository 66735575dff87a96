------------------------------ MODULE TodoPlans ------------------------------
(***************************************************************************)
(* The plans of the todo-list tool (src/tools/todo-list/tool.py): one plan *)
(* and its steps, changed by tool calls of several threads and runs.       *)
(*                                                                         *)
(* Each call opens its own SQLite connection.  What it reads before its    *)
(* first write is read without a transaction and may be out of date when   *)
(* it writes; from its first write to the commit it holds the write lock.  *)
(* A call is therefore two steps: Begin... reads and checks, and keeps in  *)
(* planCall what it will write; CommitPlanCall writes it, recomputes the   *)
(* readiness of the steps and the status of the plan from what is stored   *)
(* then, and commits.                                                      *)
(*                                                                         *)
(* Left out: texts, criteria, capabilities, budgets, evidence and time     *)
(* stamps, reads that change nothing, the audit rows of plan_events.  A    *)
(* call of revise_plan() changes one step.                                 *)
(* Bounds: Steps, GivenDeps, GivenStatuses, MaxPlanCalls.                  *)
(***************************************************************************)
EXTENDS Naturals, FiniteSets, ToolCalls

CONSTANTS
    Steps,          \* 1 .. n: the ids of the steps, in the order of their positions
    Unknown,        \* a dependency on no step of the plan: a title, an id of another plan
    GivenDeps,      \* bound: the dependency lists that calls give
    GivenStatuses,  \* bound: the statuses that calls give
    MaxAttempts,    \* maximum_attempts of every step
    MaxPlanCalls    \* bound: calls that may begin

VARIABLES
    plan,           \* plans.status, or Absent
    step,           \* plan_steps.status of each step, or Absent
    needs,          \* dependencies_json of each step
    attempts,       \* attempts of each step
    planCall,       \* what each caller read and is about to write, or Idle
    planCalls,      \* number of calls that have begun
    late,           \* history: steps written by a call after the plan had ended under it
    misread         \* history: next_ready_steps() wrote what it had read from older rows,
                    \* and no call has recomputed the readiness since

planData == <<plan, step, needs, attempts>>
planVars == <<plan, step, needs, attempts, planCall, planCalls, late, misread>>

PlanStatuses == {"draft", "ready", "running", "paused", "blocked", "completed", "cancelled"}
StepStatuses == {"pending", "ready", "in_progress", "blocked", "failed",
                 "completed", "skipped", "cancelled"}
StepEnded     == {"completed", "skipped", "cancelled"}
DepSatisfied == {"completed", "skipped"}
DepDoomed    == {"cancelled", "failed", "blocked"}
PlanEnded        == {"completed", "cancelled"}

ASSUME PlansAssumption ==
    /\ Steps \subseteq Nat
    /\ Absent \notin StepStatuses \cup PlanStatuses
    /\ Unknown \notin Steps \cup {Absent}
    /\ GivenDeps \subseteq SUBSET (Steps \cup {Unknown})
    /\ GivenStatuses \subseteq StepStatuses

Transitions ==
    [pending     |-> {"ready", "in_progress", "blocked", "skipped", "cancelled"},
     ready       |-> {"in_progress", "completed", "failed", "blocked", "skipped", "cancelled"},
     in_progress |-> {"completed", "failed", "blocked", "skipped", "cancelled"},
     failed      |-> {"ready", "in_progress", "completed", "blocked", "skipped", "cancelled"},
     blocked     |-> {"ready", "in_progress", "completed", "skipped", "cancelled"},
     completed   |-> {}, skipped |-> {}, cancelled |-> {}]

ExistingSteps(st) == {s \in Steps : st[s] # Absent}

TodoInit ==
    /\ plan = Absent
    /\ step = [s \in Steps |-> Absent]
    /\ needs = [s \in Steps |-> {}]
    /\ attempts = [s \in Steps |-> 0]
    /\ planCall = [c \in Callers |-> Idle]
    /\ planCalls = 0
    /\ late = {}
    /\ misread = FALSE

------------------------------------------------------------------------------
(* Recomputation                                                           *)

\* Mutant: only pending steps are looked at, so what is ready stays ready.
ReadinessSticky(st, dep) ==
    [s \in Steps |->
        LET states == {st[d] : d \in dep[s] \cap ExistingSteps(st)}
        IN  IF st[s] # "pending" THEN st[s]
            ELSE IF states \cap DepDoomed # {} THEN "blocked"
            ELSE IF states \subseteq DepSatisfied THEN "ready"
            ELSE "pending"]

\* _recompute_readiness(): one pass over the rows as they were read, so that a
\* step blocked in this pass does not yet block the steps behind it.
Readiness(st, dep) ==
    [s \in Steps |->
        LET states == {st[d] : d \in dep[s] \cap ExistingSteps(st)}
        IN  IF st[s] \notin {"pending", "ready"} THEN st[s]
            ELSE IF states \cap DepDoomed # {} THEN "blocked"
            ELSE IF states \subseteq DepSatisfied THEN "ready"
            ELSE "pending"]

\* _recompute_plan_status()
PlanStatus(pl, st) ==
    LET states == {st[s] : s \in ExistingSteps(st)}
    IN  IF pl \in PlanEnded \cup {"paused"} \/ states = {} THEN pl
        ELSE IF states \subseteq StepEnded THEN "completed"
        ELSE IF states \cap {"pending", "ready", "in_progress"} = {} THEN "blocked"
        ELSE IF "in_progress" \in states THEN "running"
        ELSE pl

\* create_plan(): a single transaction, nothing read before.  Dependencies are given by
\* index or title, and only on steps of the new plan.
CreatePlan ==
    /\ plan = Absent
    /\ \E n \in 0 .. Cardinality(Steps), graph \in [Steps -> GivenDeps] :
        LET st  == [s \in Steps |-> IF s <= n THEN "pending" ELSE Absent]
            dep == [s \in Steps |-> IF s <= n THEN graph[s] \cap ExistingSteps(st) ELSE {}]
        IN  /\ plan' = IF n > 0 THEN "ready" ELSE "draft"
            /\ step' = Readiness(st, dep)
            /\ needs' = dep
    /\ UNCHANGED <<attempts, planCall, planCalls, late, misread>>

------------------------------------------------------------------------------
(* What a call reads, checks and will write                                *)

NoStatus == [s \in Steps |-> Absent]        \* no status is written
NoRewiring == [s \in Steps |-> {Absent}]    \* no dependency list is written

BeginPlanCall(c, call) ==
    /\ planCall[c] = Idle
    /\ planCalls < MaxPlanCalls
    /\ planCalls' = planCalls + 1
    /\ planCall' = [planCall EXCEPT ![c] = call]
    /\ UNCHANGED <<plan, step, needs, attempts, late, misread>>

PlanWrite(op, st, dep) ==
    [op |-> op, to |-> plan, st |-> st, dep |-> dep, tries |-> attempts, seen |-> Absent]
Status(s, to) == [NoStatus EXCEPT ![s] = to]
Rewiring(s, deps) == [NoRewiring EXCEPT ![s] = deps]

\* The new row of add_step() and of a revision takes the next free id; no other
\* call is about to take it too.
IsNextStep(n) ==
    /\ \A s \in Steps : (step[s] = Absent) = (s >= n)
    /\ \A d \in Callers : planCall[d] # Idle => planCall[d].st[n] = Absent

\* add_step()
BeginAddStep(c) ==
    /\ plan \notin PlanEnded \cup {Absent}
    /\ \E n \in Steps, deps \in GivenDeps \cap SUBSET ExistingSteps(step) :
        /\ IsNextStep(n)
        /\ BeginPlanCall(c, PlanWrite("add", Status(n, "pending"), Rewiring(n, deps)))

\* update_step(): a status, dependencies, or both; a failure spends an attempt, and the
\* last one blocks.
FinalStatus(s, to) ==
    IF to = "failed" /\ attempts[s] + 1 >= MaxAttempts THEN "blocked" ELSE to

BeginUpdateStep(c) ==
    /\ plan \notin PlanEnded \cup {Absent}
    /\ \E s \in ExistingSteps(step) :
        \E to \in (GivenStatuses \cap Transitions[step[s]]) \cup {Absent},
           deps \in (GivenDeps \cap SUBSET (ExistingSteps(step) \ {s})) \cup {{Absent}} :
            BeginPlanCall(c, [PlanWrite("status", Status(s, FinalStatus(s, to)), Rewiring(s, deps))
                              EXCEPT !.tries[s] = IF to = "failed" THEN @ + 1 ELSE @])

\* revise_plan(): a new step, or a patch with any status (cancelled is a removal) and any
\* dependencies: unlike the other calls it stores ids that no step of the plan has, and
\* may make a step depend on itself.
BeginRevise(c) ==
    /\ plan \notin PlanEnded \cup {Absent}
    /\ \E deps \in (GivenDeps \cap SUBSET (ExistingSteps(step) \cup {Unknown})) \cup {{Absent}} :
        \/ \E n \in Steps :
            /\ IsNextStep(n)
            /\ BeginPlanCall(c, PlanWrite("revise", Status(n, "pending"), Rewiring(n, deps)))
        \/ \E s \in ExistingSteps(step), to \in GivenStatuses \cup {Absent} :
            BeginPlanCall(c, PlanWrite("revise", Status(s, to), Rewiring(s, deps)))

\* the target of _set_plan_status(): a resumed plan runs if a step is under way
ResumeTarget == IF \E s \in Steps : step[s] = "in_progress" THEN "running" ELSE "ready"

\* the table of _set_plan_status(): from where each target may be reached
ReachedFrom(target) ==
    CASE target = "paused"    -> {"draft", "ready", "running", "blocked"}
      [] target = "ready"     -> {"paused"}
      [] target = "cancelled" -> {"draft", "ready", "running", "paused", "blocked"}
      [] OTHER                -> {}

BeginSetStatus(c) ==
    \E asked \in {"paused", "ready", "cancelled"} :
        LET target == IF asked = "ready" /\ plan = "paused" THEN ResumeTarget ELSE asked
        IN  /\ plan \in ReachedFrom(target)
            /\ BeginPlanCall(c, [PlanWrite("set", NoStatus, NoRewiring) EXCEPT !.to = target])

\* complete_plan(): a completed plan only gets its summary, which is not modelled.
BeginComplete(c) ==
    /\ plan \notin PlanEnded \cup {Absent}
    /\ \A s \in ExistingSteps(step) : step[s] \in DepSatisfied
    /\ BeginPlanCall(c, [PlanWrite("complete", NoStatus, NoRewiring) EXCEPT !.to = "completed"])

\* next_ready_steps() decides the readiness before its first write: it will write the
\* steps whose readiness differs in the rows as it reads them here.
Offered(st, dep) ==
    [s \in Steps |-> IF Readiness(st, dep)[s] # st[s] THEN Readiness(st, dep)[s] ELSE Absent]

BeginNextReady(c) ==
    /\ plan # Absent
    /\ Offered(step, needs) # NoStatus
    /\ BeginPlanCall(c, [PlanWrite("next", Offered(step, needs), NoRewiring)
                         EXCEPT !.seen = <<step, needs>>])

------------------------------------------------------------------------------
(* Writing                                                                 *)

\* the rows after the statements of the call, before anything is recomputed
StatusesWritten(w) == [s \in Steps |->
    IF w.st[s] # Absent THEN w.st[s]
    ELSE IF w.op = "set" /\ w.to = "cancelled" /\ step[s] \notin StepEnded \cup {Absent}
    THEN "cancelled" ELSE step[s]]

CommitPlanCall(c) ==
    /\ planCall[c] # Idle
    /\ LET w     == planCall[c]
           deps  == [s \in Steps |-> IF w.dep[s] # {Absent} THEN w.dep[s] ELSE needs[s]]
           ready == IF w.op \in {"add", "status", "revise"}
                    THEN Readiness(StatusesWritten(w), deps) ELSE StatusesWritten(w)
       IN  /\ step' = ready
           /\ needs' = deps
           /\ plan' = CASE w.op \in {"set", "complete"}  -> w.to
                        [] w.op \in {"status", "revise"} -> PlanStatus(plan, ready)
                        [] OTHER                         -> plan
           /\ attempts' = [s \in Steps |->
                              IF w.op = "status" /\ w.st[s] # Absent THEN w.tries[s]
                              ELSE attempts[s]]
           /\ late' = late \cup
                  (IF w.op = "complete"
                   THEN {s \in ExistingSteps(step) : step[s] \notin DepSatisfied}
                   ELSE IF plan \in PlanEnded THEN {s \in Steps : ready[s] # step[s]}
                   ELSE {})
           /\ misread' = CASE w.op = "next"                     -> w.seen # <<step, needs>>
                           [] w.op \in {"add", "status", "revise"} -> FALSE
                           [] OTHER                             -> misread
    /\ planCall' = [planCall EXCEPT ![c] = Idle]
    /\ UNCHANGED planCalls

\* the write lock is not to be had in five seconds: rollback
PlanCallFails(c) ==
    /\ planCall[c] # Idle
    /\ planCall' = [planCall EXCEPT ![c] = Idle]
    /\ UNCHANGED <<plan, step, needs, attempts, planCalls, late, misread>>

TodoNext ==
    \/ CreatePlan
    \/ \E c \in Callers :
        \/ BeginAddStep(c)
        \/ BeginUpdateStep(c)
        \/ BeginRevise(c)
        \/ BeginSetStatus(c)
        \/ BeginComplete(c)
        \/ BeginNextReady(c)
        \/ CommitPlanCall(c)
        \/ PlanCallFails(c)

TodoSpec == TodoInit /\ [][TodoNext]_planVars

------------------------------------------------------------------------------
(* Properties                                                              *)

TodoTypeOK ==
    /\ plan \in PlanStatuses \cup {Absent}
    /\ step \in [Steps -> StepStatuses \cup {Absent}]
    /\ needs \in [Steps -> SUBSET (Steps \cup {Unknown})]
    /\ attempts \in [Steps -> Nat]
    /\ late \subseteq Steps
    /\ misread \in BOOLEAN

\* A step is offered as ready only when every step of the plan it depends on is completed
\* or skipped, whatever calls overlap (tool.py:15-16): a call that changes a step
\* recomputes the readiness from the rows as they are at its commit, not from what it read.
\* Two exceptions are the code's.  A dependency that names no step of the plan, which
\* revise_plan() stores unchecked (tool.py:345, 730-735, 761-770), never holds a step back.
\* And next_ready_steps() decides before its transaction (tool.py:232-245): it may write
\* "blocked" over a step that has been completed meanwhile, and the steps behind it stay
\* ready until a call recomputes the readiness.
ReadyMeansUnblocked ==
    ~misread => \A s \in Steps : step[s] = "ready" =>
                    \A d \in needs[s] \ {Unknown} : step[d] \in DepSatisfied

\* A plan that is over has no step that could still be worked on, unless two calls
\* crossed: the check that "steps are frozen" (tool.py:609) and the one of
\* complete_plan() that all are finished are made outside the transaction, and so is
\* the reading of next_ready_steps(), which may write over a step that has been cancelled.
EndedPlanIsOver ==
    plan \in PlanEnded => \A s \in ExistingSteps(step) \ late : step[s] \in StepEnded

\* A plan holds together: its steps are ready only when nothing blocks them, and none
\* is left open when it is over.
PlansOK == TodoTypeOK /\ ReadyMeansUnblocked /\ EndedPlanIsOver
=============================================================================
