-------------------------------- MODULE Roles --------------------------------
(***************************************************************************)
(* The role calls of a max-mode run and what they cost: framing,           *)
(* decomposition, review, critique, resolution and synthesis, each one or  *)
(* several questions to the model that are asked once more when the answer *)
(* is no JSON (coordinator.py, reviewer.py, critic.py, synthesizer.py).    *)
(*                                                                         *)
(* Orchestration has the stages with their conditions; here a stage goes   *)
(* on to any stage it may go on to, INVESTIGATE left out, and the requests *)
(* inside it are steps.  An answer costs one token.                        *)
(*                                                                         *)
(* Left out: what is asked and answered, the rows of the stages.           *)
(***************************************************************************)
EXTENDS Integers

CONSTANTS
    MaxSpecialists      \* specialist_critics of the deepest preset

ASSUME RolesAssumption == MaxSpecialists \in Nat

VARIABLES
    stage,              \* the stage being awaited, or how the run ended
    specialists,        \* critics besides the general one
    accumulates,        \* what the agent reports includes its earlier answers
    exchange,           \* the request of each prompt of the stage
    usage,              \* usage of each prompt, as the role sums it
    counted,            \* budget.tokens_used
    billed,             \* history: answers received
    reasks,             \* history: prompts asked once more
    fellBack,           \* the synthesis is the deterministic one
    stopSet             \* cancel_event

roleVars == <<stage, specialists, accumulates, exchange, usage, counted, billed, reasks,
              fellBack, stopSet>>

Prompts == 0 .. MaxSpecialists
Over == {"COMPLETE", "CANCELLED", "FAILED"}

\* critique_with_model() asks the general critic and the specialists together, the
\* other roles ask one question.
PromptsOf(s) == IF s = "CRITIQUE" THEN 0 .. specialists
                ELSE IF s \in Over THEN {} ELSE {0}

Ask(s) ==
    /\ stage' = s
    /\ exchange' = [p \in Prompts |-> IF p \in PromptsOf(s) THEN "first" ELSE "none"]
    /\ usage' = [p \in Prompts |-> 0]

\* specialist_kinds() gives at most as many kinds as the preset has.
RolesInit ==
    /\ stage = "FRAME"
    /\ specialists \in 0 .. MaxSpecialists
    /\ accumulates \in BOOLEAN
    /\ exchange = [p \in Prompts |-> IF p = 0 THEN "first" ELSE "none"]
    /\ usage = [p \in Prompts |-> 0]
    /\ counted = 0 /\ billed = 0 /\ reasks = 0
    /\ fellBack = FALSE /\ stopSet = FALSE

------------------------------------------------------------------------------
(* _call_json(): one prompt                                                *)

\* what usage_from_result() finds after the n-th answer of an agent
UsageFromResult(n) == IF accumulates THEN n ELSE 1

\* a JSON object is in the answer
Answered(p) ==
    \/ exchange[p] = "first" /\ usage' = [usage EXCEPT ![p] = UsageFromResult(1)]
    \/ exchange[p] = "again" /\ usage' = [usage EXCEPT ![p] = @ + UsageFromResult(2)]
AnswerIsJson(p) ==
    /\ Answered(p)
    /\ exchange' = [exchange EXCEPT ![p] = "answered"]
    /\ billed' = billed + 1
    /\ UNCHANGED <<stage, specialists, accumulates, counted, reasks, fellBack, stopSet>>

\* Mutant: only the usage of the last answer is kept.
ReaskForgetful(p) ==
    /\ exchange[p] = "first"
    /\ exchange' = [exchange EXCEPT ![p] = "again"]
    /\ billed' = billed + 1 /\ reasks' = reasks + 1
    /\ UNCHANGED <<stage, specialists, accumulates, usage, counted, fellBack, stopSet>>
\* no JSON: the same agent is asked once more
Reask(p) ==
    /\ exchange[p] = "first"
    /\ exchange' = [exchange EXCEPT ![p] = "again"]
    /\ usage' = [usage EXCEPT ![p] = UsageFromResult(1)]
    /\ billed' = billed + 1 /\ reasks' = reasks + 1
    /\ UNCHANGED <<stage, specialists, accumulates, counted, fellBack, stopSet>>

\* no JSON in the second answer either
ReaskFails(p) ==
    /\ exchange[p] = "again"
    /\ exchange' = [exchange EXCEPT ![p] = "raised"]
    /\ billed' = billed + 1
    /\ UNCHANGED <<stage, specialists, accumulates, usage, counted, reasks, fellBack, stopSet>>

\* the request fails
RequestFails(p) ==
    /\ exchange[p] \in {"first", "again"}
    /\ exchange' = [exchange EXCEPT ![p] = "raised"]
    /\ UNCHANGED <<stage, specialists, accumulates, usage, counted, billed, reasks,
                   fellBack, stopSet>>

------------------------------------------------------------------------------
(* The stages                                                              *)

\* The loop around merge_usage(), which adds the usage of one prompt after the other.
MergedUpTo(calls) ==
    LET merged[n \in 0 .. MaxSpecialists + 1] ==
            IF n = 0 THEN 0 ELSE merged[n - 1] + calls[n - 1]
    IN  merged
Merged(calls) == MergedUpTo(calls)[MaxSpecialists + 1]

\* all prompts of the stage are answered; record_usage()
Returns(s) ==
    /\ stage = s
    /\ \A p \in PromptsOf(s) : exchange[p] = "answered"
    /\ counted' = counted + Merged(usage)
    /\ UNCHANGED <<specialists, accumulates, billed, reasks, fellBack, stopSet>>

\* controls(): a cancel ends the run here, synthesize-now and an exhausted budget
\* leave only the synthesis
OnTo(stages) ==
    IF stopSet THEN Ask("CANCELLED") ELSE \E s \in stages \cup {"SYNTHESIZE"} : Ask(s)

FrameReturns == Returns("FRAME") /\ Ask("DECOMPOSE")
DecomposeReturns == Returns("DECOMPOSE") /\ OnTo({"REVIEW"})
ReviewReturns == Returns("REVIEW") /\ OnTo({"CRITIQUE"})
CritiqueReturns == Returns("CRITIQUE") /\ OnTo({"RESOLVE"})
ResolveReturns == Returns("RESOLVE") /\ OnTo({})
SynthesizeReturns == Returns("SYNTHESIZE") /\ Ask("COMPLETE")

\* A role raises: asyncio.gather() at the first of its prompts that does, or
\* parse_tolerant() when a required field is missing or wrong.
PromptRaises ==
    /\ stage \notin Over
    /\ \/ \E p \in Prompts : exchange[p] = "raised"
       \/ \A p \in PromptsOf(stage) : exchange[p] = "answered"

\* the synthesis is made from the workers' results, the others' usage is lost
FallbackSynthesis ==
    /\ stage = "SYNTHESIZE"
    /\ PromptRaises
    /\ fellBack' = TRUE
    /\ Ask("COMPLETE")
    /\ UNCHANGED <<specialists, accumulates, counted, billed, reasks, stopSet>>

\* the run fails while other critics may still be asking
StageFails ==
    /\ stage # "SYNTHESIZE"
    /\ PromptRaises
    /\ stage' = "FAILED"
    /\ UNCHANGED <<specialists, accumulates, exchange, usage, counted, billed, reasks,
                   fellBack, stopSet>>

\* asyncio.run() cancels what is left on the loop, then run.failed is sent
LoopCloses ==
    /\ stage = "FAILED"
    /\ \E p \in Prompts : exchange[p] # "none"
    /\ exchange' = [p \in Prompts |-> "none"]
    /\ UNCHANGED <<stage, specialists, accumulates, usage, counted, billed, reasks,
                   fellBack, stopSet>>

\* The flag is set from the dispatcher; no role call looks at it.
StopRun ==
    /\ ~stopSet
    /\ stopSet' = TRUE
    /\ UNCHANGED <<stage, specialists, accumulates, exchange, usage, counted, billed,
                   reasks, fellBack>>

RolesNext ==
    \/ \E p \in Prompts : AnswerIsJson(p) \/ Reask(p) \/ ReaskFails(p) \/ RequestFails(p)
    \/ FrameReturns \/ DecomposeReturns \/ ReviewReturns
    \/ CritiqueReturns \/ ResolveReturns \/ SynthesizeReturns
    \/ FallbackSynthesis \/ StageFails \/ LoopCloses
    \/ StopRun

RolesSpec == RolesInit /\ [][RolesNext]_roleVars

------------------------------------------------------------------------------
(* Properties                                                              *)

\* The usage a run reports is what its roles were billed, with every answer of a
\* question that was asked twice and every one of the parallel critics; if the agent
\* library reports what an agent has used since it was made, the first answer of a
\* question asked twice is counted twice, and nothing else is.  A synthesis that
\* failed is billed and not counted.
UsageIsWhole ==
    stage \in {"COMPLETE", "CANCELLED"} /\ ~fellBack =>
        counted = billed + IF accumulates THEN reasks ELSE 0
=============================================================================
