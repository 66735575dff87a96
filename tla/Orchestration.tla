--------------------------- MODULE Orchestration ---------------------------
(***************************************************************************)
(* One max-mode run: the coroutine run_max_thinking of coordinator.py with *)
(* the workers of workers.py, the budget of budgets.py and the transition  *)
(* table of state_machine.py.                                              *)
(*                                                                         *)
(* The coordinator runs from one awaited role call to the next, so an      *)
(* action here is the return of a call and all the code up to the next     *)
(* one.  While a batch is awaited its workers advance on the same loop,    *)
(* one stream event at a time.  The dispatcher thread sets the two user    *)
(* flags at any moment, and the budget may run out at any moment: it only  *)
(* matters when it is looked at, and once seen it stays exhausted.         *)
(***************************************************************************)
EXTENDS Naturals, FiniteSets

CONSTANTS
    Presets,      \* the depths a run can be started with
    MaxFollowUps, \* MAX_FOLLOW_UP_SUBPROBLEMS
    RolesRaise    \* bound: whether a role call may raise

ASSUME PresetAssumption ==
    /\ Presets \subseteq [subproblems : Nat \ {0}, iterations : Nat,
                          resolvePasses : Nat, parallel : Nat \ {0}]
    /\ MaxFollowUps \in Nat \ {0}
    /\ RolesRaise \in BOOLEAN

\* The table of state_machine.py.  The coordinator enters FRAME before it
\* first awaits, so a run starts there.
Transitions ==
    [FRAME       |-> {"DECOMPOSE", "SYNTHESIZE", "FAILED"},
     DECOMPOSE   |-> {"INVESTIGATE", "SYNTHESIZE", "FAILED"},
     INVESTIGATE |-> {"REVIEW", "CRITIQUE", "SYNTHESIZE", "FAILED"},
     REVIEW      |-> {"INVESTIGATE", "CRITIQUE", "SYNTHESIZE", "FAILED"},
     CRITIQUE    |-> {"INVESTIGATE", "RESOLVE", "SYNTHESIZE", "FAILED"},
     RESOLVE     |-> {"INVESTIGATE", "SYNTHESIZE", "FAILED"},
     SYNTHESIZE  |-> {"COMPLETE", "FAILED"},
     COMPLETE    |-> {},
     FAILED      |-> {}]
States == DOMAIN Transitions

\* A subproblem is named by its batch, which is the number of loop-backs
\* before it, and its place there.  Follow-up ids are made unique by
\* follow_up_subproblems, so no two subproblems share a name.
Workers ==
    UNION {(0 .. p.iterations) \X ((1 .. p.subproblems) \cup (1 .. MaxFollowUps)) :
              p \in Presets}

\* "first" and "second" are a worker's two attempts.
Running   == {"first", "second"}
Settled   == {"complete", "failed", "cancelled"}
WorkerPcs == {"none", "queued"} \cup Running \cup Settled

VARIABLES
    preset,        \* the run's depth
    state,         \* machine.state, which is also the call being awaited
    result,        \* how run_max_thinking ended
    onward,        \* the stage the code goes to after the batch
    worker,        \* what became of each subproblem
    iterations,    \* budget.iterations
    resolvePasses, \* budget.resolve_passes
    conflicts,     \* the reviewer reported conflicting findings
    gaps,          \* subproblems the answer names as unanswered
    notes,         \* other limitations the answer discloses
    cancelled,     \* cancel_event
    synthesizeNow, \* synthesize_now_event
    exhausted      \* a hard limit of the budget has tripped

progressVars == <<iterations, resolvePasses, conflicts>>
answerVars   == <<gaps, notes>>
controlVars  == <<preset, cancelled, synthesizeNow, exhausted>>
vars == <<state, result, onward, worker, progressVars, answerVars, controlVars>>

TypeOK ==
    /\ preset \in Presets
    /\ state \in States
    /\ result \in {"none", "answered", "cancelled", "failed"}
    /\ onward \in {"REVIEW", "CRITIQUE", "RESOLVE", "SYNTHESIZE"}
    /\ worker \in [Workers -> WorkerPcs]
    /\ iterations \in 0 .. preset.iterations
    /\ resolvePasses \in 0 .. preset.resolvePasses
    /\ conflicts \in BOOLEAN
    /\ gaps \subseteq Workers
    /\ notes \subseteq {"empty", "budget", "stopped"}
    /\ cancelled \in BOOLEAN
    /\ synthesizeNow \in BOOLEAN
    /\ exhausted \in BOOLEAN

Init ==
    /\ preset \in Presets
    /\ state = "FRAME"
    /\ result = "none"
    /\ onward = "REVIEW"
    /\ worker = [w \in Workers |-> "none"]
    /\ iterations = 0
    /\ resolvePasses = 0
    /\ conflicts = FALSE
    /\ gaps = {}
    /\ notes = {}
    /\ cancelled = FALSE
    /\ synthesizeNow = FALSE
    /\ exhausted = FALSE

-----------------------------------------------------------------------------
(* The code between two calls.                                             *)

\* The order is the code's: a cancel hides a synthesize-now, which hides the
\* budget.
Control ==
    CASE cancelled                                  -> "cancel"
      [] ~cancelled /\ synthesizeNow                -> "synthesize"
      [] ~cancelled /\ ~synthesizeNow /\ exhausted  -> "budget"
      [] OTHER                                      -> "none"

CanIterate == iterations < preset.iterations /\ ~exhausted
HasResults == \E w \in Workers : worker[w] = "complete"

Fail == state' = "FAILED" /\ result' = "failed"

\* transition() raises on a pair the table does not have; the handler of the
\* whole coroutine then marks the run FAILED.
Enter(s) ==
    IF s \in Transitions[state]
    THEN state' = s /\ UNCHANGED result
    ELSE Fail

\* Mutant: only failed workers are reported.
UnansweredFailed == {w \in Workers : worker[w] = "failed"}
\* Subproblems collect_gaps reports.
Unanswered == {w \in Workers : worker[w] \in {"failed", "cancelled"}}

\* What follows the last stage.  A cancelled run returns without an answer.
Finish(found) ==
    /\ notes' = notes \cup found
                      \cup (IF exhausted THEN {"budget"} ELSE {})
                      \cup (IF Control = "synthesize" THEN {"stopped"} ELSE {})
    /\ UNCHANGED <<onward, worker, iterations, resolvePasses>>
    /\ IF Control = "cancel"
       THEN result' = "cancelled" /\ UNCHANGED <<state, gaps>>
       ELSE gaps' = Unanswered /\ Enter("SYNTHESIZE")

\* Every later stage has the same two conditions, so a stage that is skipped
\* for one of them leads to the synthesis.
GoOn(s) ==
    IF Control = "none" /\ HasResults /\ (s = "RESOLVE" => conflicts)
    THEN Enter(s) /\ UNCHANGED <<onward, worker, iterations, resolvePasses, answerVars>>
    ELSE Finish({})

\* A batch of n subproblems; its outcomes are appended when all are there.
Investigate(batch, n, then) ==
    /\ Enter("INVESTIGATE")
    /\ onward' = then
    /\ worker' = [w \in Workers |->
                     IF w[1] = batch /\ w[2] <= n THEN "queued" ELSE worker[w]]
    /\ UNCHANGED answerVars

LoopBack(n, then) ==
    /\ iterations' = iterations + 1
    /\ Investigate(iterations + 1, n, then)

-----------------------------------------------------------------------------
(* The calls return.                                                       *)

Await(s) == result = "none" /\ state = s

\* No control is looked at between the framing and the decomposition.
Frame ==
    /\ Await("FRAME")
    /\ Enter("DECOMPOSE")
    /\ UNCHANGED <<onward, worker, progressVars, answerVars, controlVars>>

Decompose(n) ==
    /\ Await("DECOMPOSE")
    /\ IF Control = "none" /\ n > 0
       THEN Investigate(0, n, "REVIEW") /\ UNCHANGED <<iterations, resolvePasses>>
       ELSE Finish(IF n = 0 THEN {"empty"} ELSE {})
    /\ UNCHANGED <<conflicts, controlVars>>

Batch == {w \in Workers : w[1] = iterations /\ worker[w] # "none"}

BatchEnds ==
    /\ Await("INVESTIGATE")
    /\ \A w \in Batch : worker[w] \in Settled
    /\ IF onward = "SYNTHESIZE" THEN Finish({}) ELSE GoOn(onward)
    /\ UNCHANGED <<conflicts, controlVars>>

\* missing: follow-up questions, none if the evidence is sufficient.
Review(missing, conflicting) ==
    /\ Await("REVIEW")
    /\ conflicts' = conflicting
    /\ IF Control = "none" /\ missing > 0 /\ CanIterate
       THEN LoopBack(missing, "CRITIQUE") /\ UNCHANGED resolvePasses
       ELSE GoOn("CRITIQUE")
    /\ UNCHANGED controlVars

Critique(questions) ==
    /\ Await("CRITIQUE")
    /\ IF Control = "none" /\ questions > 0 /\ CanIterate
       THEN LoopBack(questions, "RESOLVE") /\ UNCHANGED resolvePasses
       ELSE GoOn("RESOLVE")
    /\ UNCHANGED <<conflicts, controlVars>>

Resolve(needs) ==
    /\ Await("RESOLVE")
    /\ IF /\ Control = "none" /\ needs > 0
          /\ resolvePasses < preset.resolvePasses
          /\ CanIterate
       THEN LoopBack(needs, "SYNTHESIZE") /\ resolvePasses' = resolvePasses + 1
       ELSE Finish({})
    /\ UNCHANGED <<conflicts, controlVars>>

\* The synthesizer's answer or, when it raises, the deterministic fallback:
\* the run is answered either way, and no control is looked at any more.
Synthesize ==
    /\ Await("SYNTHESIZE")
    /\ "COMPLETE" \in Transitions[state]
    /\ state' = "COMPLETE"
    /\ result' = "answered"
    /\ UNCHANGED <<onward, worker, progressVars, answerVars, controlVars>>

\* Every other role call that raises ends the run; the workers' failures do
\* not, they are handled one by one.
RoleRaises ==
    /\ RolesRaise
    /\ \E s \in {"FRAME", "DECOMPOSE", "REVIEW", "CRITIQUE", "RESOLVE"} : Await(s)
    /\ Fail
    /\ UNCHANGED <<onward, worker, progressVars, answerVars, controlVars>>

-----------------------------------------------------------------------------
(* The workers of the batch.                                               *)

\* Mutant: a worker that fails for good keeps its place in the semaphore.
SlotsLeaked == Cardinality({w \in Batch : worker[w] \in Running \cup {"failed"}})
SlotsTaken == Cardinality({w \in Batch : worker[w] \in Running})
Stopping   == cancelled \/ synthesizeNow

WorkerGoes(w, pc) ==
    /\ worker' = [worker EXCEPT ![w] = pc]
    /\ UNCHANGED <<state, result, onward, progressVars, answerVars, controlVars>>

\* The semaphore is fair: the workers enter it in their order.
WorkerStarts(w) ==
    /\ worker[w] = "queued"
    /\ SlotsTaken < preset.parallel
    /\ \A v \in Batch : v[2] < w[2] => worker[v] # "queued"
    /\ WorkerGoes(w, IF Stopping THEN "cancelled" ELSE "first")

\* A stream event arrives and finds one of the user's flags set.
WorkerStopped(w) ==
    /\ worker[w] \in Running
    /\ Stopping
    /\ WorkerGoes(w, "cancelled")

\* The flags are not looked at after the last stream event.
WorkerSucceeds(w) ==
    /\ worker[w] \in Running
    /\ WorkerGoes(w, "complete")

\* Mutant: the retry does not look at the flags again.
WorkerRetries(w) ==
    \/ worker[w] = "first" /\ WorkerGoes(w, "second")
    \/ worker[w] = "second" /\ WorkerGoes(w, "failed")

WorkerFails(w) ==
    \/ worker[w] = "first" /\ WorkerGoes(w, IF Stopping THEN "cancelled" ELSE "second")
    \/ worker[w] = "second" /\ WorkerGoes(w, "failed")

Worker(w) ==
    /\ Await("INVESTIGATE")
    /\ w \in Batch
    /\ WorkerStarts(w) \/ WorkerStopped(w) \/ WorkerSucceeds(w) \/ WorkerFails(w)

-----------------------------------------------------------------------------
(* The dispatcher thread and the clock.                                    *)

\* run.cancel; a run that is over is no longer in the registry.
Cancel ==
    /\ result = "none" /\ ~cancelled
    /\ cancelled' = TRUE
    /\ UNCHANGED <<state, result, onward, worker, progressVars, answerVars,
                   preset, synthesizeNow, exhausted>>

\* run.synthesize_now.
SynthesizeNow ==
    /\ result = "none" /\ ~synthesizeNow
    /\ synthesizeNow' = TRUE
    /\ UNCHANGED <<state, result, onward, worker, progressVars, answerVars,
                   preset, cancelled, exhausted>>

\* The tokens of a role call or the elapsed time pass the preset's limit.
BudgetTrips ==
    /\ result = "none" /\ ~exhausted
    /\ exhausted' = TRUE
    /\ UNCHANGED <<state, result, onward, worker, progressVars, answerVars,
                   preset, cancelled, synthesizeNow>>

Coordinator ==
    \/ Frame
    \/ \E n \in 0 .. preset.subproblems : Decompose(n)
    \/ BatchEnds
    \/ \E n \in 0 .. MaxFollowUps, c \in BOOLEAN : Review(n, c)
    \/ \E n \in 0 .. MaxFollowUps : Critique(n)
    \/ \E n \in 0 .. MaxFollowUps : Resolve(n)
    \/ Synthesize
    \/ RoleRaises

Next ==
    \/ Coordinator
    \/ \E w \in Workers : Worker(w)
    \/ Cancel
    \/ SynthesizeNow
    \/ BudgetTrips

Spec == Init /\ [][Next]_vars

\* Every role call returns or raises and every worker's attempt goes on; the
\* user and the clock owe nothing.
FairSpec ==
    /\ Spec
    /\ WF_vars(Coordinator)
    /\ \A w \in Workers : WF_vars(Worker(w))

-----------------------------------------------------------------------------
(* Properties.                                                             *)

\* The answer hides nothing: a subproblem some batch took up and no result
\* answers is disclosed as a gap, and an answer from cut-off workers says
\* that the user stopped the run.  Worker, coordinator and the user's flags
\* have to agree for this (collect_gaps, coordinator.py:605-616 and 773-778).
AnswerDisclosesGaps ==
    result = "answered" =>
        /\ gaps = {w \in Workers : worker[w] \notin {"none", "complete"}}
        /\ (\E w \in Workers : worker[w] = "cancelled") => "stopped" \in notes

\* After the user stopped the run, or its budget tripped, nothing but the
\* synthesis begins: no stage, no loop-back, no queued or retried worker; and
\* a cancelled run does not begin that either.  Exempt is the decomposition,
\* which follows the framing without a look at the controls (coordinator.py:
\* 656-671), and for the budget the rest of a batch.
StopIsHonoured ==
    [][/\ Control # "none" /\ state # "FRAME"
              => state' \in {state, "SYNTHESIZE", "COMPLETE", "FAILED"}
       /\ cancelled /\ state # "SYNTHESIZE" => state' # "SYNTHESIZE"
       /\ Stopping => \A w \in Workers :
              worker'[w] # worker[w] => worker'[w] \in Settled]_vars

\* A run ends: retries, loop-backs and the wait for a batch are all bounded.
RunEnds == <>(result # "none")

\* "Any -> FAILED: fatal error with no usable partial results" (thinking-modes
\* design, line 159, and coordinator.py:831): when no role call raised, a run
\* that has results of its workers does not fail.
FailsOnlyWithoutResults ==
    result = "failed" /\ ~RolesRaise => ~HasResults
=============================================================================
