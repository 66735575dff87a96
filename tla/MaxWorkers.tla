----------------------------- MODULE MaxWorkers -----------------------------
(***************************************************************************)
(* One batch of max-mode workers in detail (workers.py, run_investigations *)
(* and attempt_worker, with the approval bridge of coordinator.py): the    *)
(* events of a worker's agent, its tool calls and their prompts, the       *)
(* second question after an answer that cannot be parsed, and the retry.   *)
(*                                                                         *)
(* The workers share one event loop; from one event of an agent to the     *)
(* next nothing else of the run happens, but the dispatcher thread sets    *)
(* the user's flags and settles prompts at any moment.  Orchestration has  *)
(* the same workers with one step per attempt, and Coarse says that the    *)
(* steps here are steps there.                                             *)
(*                                                                         *)
(* A worker's agent runs one tool at a time.  Left out: what is asked and  *)
(* answered, the rows of the workers, and how a decision of the user       *)
(* reaches the registry (see Approvals).  Bound: MaxToolCalls.             *)
(***************************************************************************)
EXTENDS Naturals, FiniteSets

CONSTANTS
    BatchSize,      \* subproblems of the batch
    Parallel,       \* max_parallel_workers
    MaxToolCalls    \* bound: tool calls of an attempt

ASSUME BatchAssumption ==
    BatchSize \in Nat \ {0} /\ Parallel \in Nat \ {0} /\ MaxToolCalls \in Nat

Subproblems == 1 .. BatchSize

VARIABLES
    gated,          \* workers with an approval gate
    pace,           \* queued, the attempt a worker is in, or how it ended
    doing,          \* what the agent of the attempt does
    reasked,        \* workers that were asked for their JSON once more
    toolCalls,      \* tool calls of the attempt
    onUi,           \* workers whose prompt is in the registry
    told,           \* verdict in the future of a worker's prompt
    cancelEvent, nowEvent,      \* cancel_event, synthesize_now_event
    denying         \* cancel() has set the event and not yet denied the prompts

batchVars == <<gated, pace, doing, reasked, toolCalls, onUi, told, cancelEvent, nowEvent, denying>>
userVars == <<gated, cancelEvent, nowEvent, denying>>

Attempts == {"first", "second"}
Ended    == {"complete", "failed", "cancelled"}
Stopped  == cancelEvent \/ nowEvent

\* intervention_for(): a gate is built for a worker that has a tool which needs none,
\* so which workers have one depends on the tools recommended to them
BatchInit ==
    /\ gated \in SUBSET Subproblems
    /\ pace = [w \in Subproblems |-> "queued"]
    /\ doing = [w \in Subproblems |-> "nothing"]
    /\ reasked = {}
    /\ toolCalls = [w \in Subproblems |-> 0]
    /\ onUi = {}
    /\ told = [w \in Subproblems |-> "none"]
    /\ cancelEvent = FALSE /\ nowEvent = FALSE /\ denying = FALSE

\* an attempt begins with a new agent, or the worker finds a flag set
Attempting(w, n) ==
    /\ pace' = [pace EXCEPT ![w] = IF Stopped THEN "cancelled" ELSE n]
    /\ doing' = [doing EXCEPT ![w] = IF Stopped THEN "nothing" ELSE "model"]
    /\ toolCalls' = [toolCalls EXCEPT ![w] = 0]
    /\ reasked' = reasked \ {w}
Settle(w, outcome) ==
    /\ pace' = [pace EXCEPT ![w] = outcome]
    /\ doing' = [doing EXCEPT ![w] = "nothing"]
    /\ UNCHANGED <<toolCalls, reasked>>

\* Mutant: a worker that ends keeps its place.
RunWorkerHoldingPlace(w) ==
    /\ pace[w] = "queued"
    /\ Cardinality({v \in Subproblems : pace[v] # "queued"}) < Parallel
    /\ \A v \in Subproblems : v < w => pace[v] # "queued"
    /\ Attempting(w, "first")
    /\ UNCHANGED <<onUi, told, userVars>>

\* run_worker() gets a place in the semaphore; the places are given in order
RunWorker(w) ==
    /\ pace[w] = "queued"
    /\ Cardinality({v \in Subproblems : pace[v] \in Attempts}) < Parallel
    /\ \A v \in Subproblems : v < w => pace[v] # "queued"
    /\ Attempting(w, "first")
    /\ UNCHANGED <<onUi, told, userVars>>

\* an event arrives and a flag is set: the agent is cancelled.  The second question
\* is not a stream and looks at no flag.
WorkerIsStopped(w) ==
    /\ doing[w] \in {"model", "tool"} /\ w \notin reasked
    /\ Stopped
    /\ Settle(w, "cancelled")
    /\ UNCHANGED <<onUi, told, userVars>>

\* the model calls a tool
CallsTool(w) ==
    /\ doing[w] = "model"
    /\ Stopped => w \in reasked
    /\ toolCalls[w] < MaxToolCalls
    /\ toolCalls' = [toolCalls EXCEPT ![w] = @ + 1]
    /\ doing' = [doing EXCEPT ![w] = "tool"]
    /\ UNCHANGED <<pace, reasked, onUi, told, userVars>>

\* the tool runs and returns
ToolReturns(w) ==
    /\ doing[w] = "tool"
    /\ doing' = [doing EXCEPT ![w] = "model"]
    /\ UNCHANGED <<pace, reasked, toolCalls, onUi, told, userVars>>

\* ask_ui(): run.approval_needed is sent, then the registry is entered
AsksUser(w) ==
    /\ doing[w] = "tool" /\ w \in gated
    /\ doing' = [doing EXCEPT ![w] = "ask"]
    /\ UNCHANGED <<pace, reasked, toolCalls, onUi, told, userVars>>
Registers(w) ==
    /\ doing[w] = "ask"
    /\ doing' = [doing EXCEPT ![w] = "await"]
    /\ onUi' = onUi \cup {w}
    /\ told' = [told EXCEPT ![w] = "none"]
    /\ UNCHANGED <<pace, reasked, toolCalls, userVars>>

\* the future is set: the tool runs, or the model is told that it may not
IsTold(w) ==
    /\ doing[w] = "await" /\ told[w] # "none"
    /\ doing' = [doing EXCEPT ![w] = "model"]
    /\ UNCHANGED <<pace, reasked, toolCalls, onUi, told, userVars>>

\* the agent's answer, parsed
Answers(w) ==
    /\ doing[w] = "model"
    /\ Settle(w, "complete")
    /\ UNCHANGED <<onUi, told, userVars>>

\* no JSON in the first answer: one more question to the same agent
Reasks(w) ==
    /\ doing[w] = "model" /\ w \notin reasked
    /\ reasked' = reasked \cup {w}
    /\ UNCHANGED <<pace, doing, toolCalls, onUi, told, userVars>>

\* Mutant: the second attempt looks at no flag before it begins.
AttemptFailsBlindly(w) ==
    /\ doing[w] \in {"model", "tool"}
    /\ IF pace[w] = "first"
       THEN /\ pace' = [pace EXCEPT ![w] = "second"]
            /\ doing' = [doing EXCEPT ![w] = "model"]
            /\ toolCalls' = [toolCalls EXCEPT ![w] = 0]
            /\ reasked' = reasked \ {w}
       ELSE Settle(w, "failed")
    /\ UNCHANGED <<onUi, told, userVars>>
\* no answer, no JSON in the second one either, or an exception
AttemptFails(w) ==
    /\ doing[w] \in {"model", "tool"}
    /\ IF pace[w] = "first" THEN Attempting(w, "second") ELSE Settle(w, "failed")
    /\ UNCHANGED <<onUi, told, userVars>>

WorkerMoves(w) ==
    \/ RunWorker(w) \/ WorkerIsStopped(w)
    \/ CallsTool(w) \/ ToolReturns(w)
    \/ AsksUser(w) \/ Registers(w) \/ IsTold(w)
    \/ Answers(w) \/ Reasks(w) \/ AttemptFails(w)

------------------------------------------------------------------------------
\* The dispatcher thread

\* resolve()
UserDecides(w) ==
    /\ w \in onUi
    /\ onUi' = onUi \ {w}
    /\ \E verdict \in {"approved", "denied"} : told' = [told EXCEPT ![w] = verdict]
    /\ UNCHANGED <<pace, doing, reasked, toolCalls, userVars>>

\* cancel(): the event, then cancel_run() with the prompts there are
CancelSet ==
    /\ ~cancelEvent
    /\ cancelEvent' = TRUE /\ denying' = TRUE
    /\ UNCHANGED <<gated, pace, doing, reasked, toolCalls, onUi, told, nowEvent>>
DenyPrompts ==
    /\ denying
    /\ denying' = FALSE
    /\ onUi' = {}
    /\ told' = [w \in Subproblems |-> IF w \in onUi THEN "denied" ELSE told[w]]
    /\ UNCHANGED <<gated, pace, doing, reasked, toolCalls, cancelEvent, nowEvent>>

\* synthesize_now() denies nothing
NowSet ==
    /\ ~nowEvent
    /\ nowEvent' = TRUE
    /\ UNCHANGED <<gated, pace, doing, reasked, toolCalls, onUi, told, cancelEvent, denying>>

BatchNext ==
    \/ \E w \in Subproblems : WorkerMoves(w) \/ UserDecides(w)
    \/ CancelSet \/ DenyPrompts \/ NowSet

BatchSpec == BatchInit /\ [][BatchNext]_batchVars

\* The model answers, tools return, and the dispatcher finishes a cancel; the user
\* owes nothing.
BatchFairness ==
    /\ \A w \in Subproblems : WF_batchVars(WorkerMoves(w))
    /\ WF_batchVars(DenyPrompts)

FairBatchSpec == BatchSpec /\ BatchFairness

------------------------------------------------------------------------------
\* Properties

BatchTypeOK ==
    /\ gated \subseteq Subproblems /\ reasked \subseteq Subproblems
    /\ pace \in [Subproblems -> {"queued"} \cup Attempts \cup Ended]
    /\ doing \in [Subproblems -> {"nothing", "model", "tool", "ask", "await"}]
    /\ toolCalls \in [Subproblems -> 0 .. MaxToolCalls]
    /\ onUi \subseteq Subproblems
    /\ told \in [Subproblems -> {"none", "approved", "denied"}]
    /\ cancelEvent \in BOOLEAN /\ nowEvent \in BOOLEAN /\ denying \in BOOLEAN

\* The stage INVESTIGATE of a run, of which this is the one batch.
Depth == [subproblems |-> BatchSize, iterations |-> 0, resolvePasses |-> 0, parallel |-> Parallel]
Coarse == INSTANCE Orchestration WITH
    Presets <- {Depth}, MaxFollowUps <- 1, RolesRaise <- FALSE,
    preset <- Depth, state <- "INVESTIGATE", result <- "none", onward <- "REVIEW",
    worker <- [w \in {0} \X Subproblems |-> pace[w[2]]],
    iterations <- 0, resolvePasses <- 0, conflicts <- FALSE, gaps <- {}, notes <- {},
    cancelled <- cancelEvent, synthesizeNow <- nowEvent, exhausted <- FALSE

\* What happens inside an attempt, whatever the order of events, prompts and flags, comes
\* to a step of Orchestration's workers: none goes on after a stop but to an end, none
\* exceeds the semaphore, none is tried three times.
AttemptsAreCoarseSteps ==
    [][\/ \E w \in {0} \X Subproblems : Coarse!Worker(w)
       \/ Coarse!Cancel
       \/ Coarse!SynthesizeNow]_<<pace, cancelEvent, nowEvent>>

\* A batch ends if no prompt stays open for ever: a denied or decided prompt never leaves
\* its worker waiting, and a worker that ends gives its place to the next.  A stop alone
\* is not enough: synthesize_now() denies no prompt, and cancel() only those that have
\* been registered (coordinator.py:369-377, chat.py:277-280).
BatchSettles == []<>(onUi = {}) => <>(\A w \in Subproblems : pace[w] \in Ended)
=============================================================================
