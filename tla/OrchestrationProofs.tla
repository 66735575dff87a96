------------------------ MODULE OrchestrationProofs ------------------------
(***************************************************************************)
(* For every set of presets and every number of follow-ups: the types, the *)
(* disclosure of gaps and the obedience to the user's controls; and that   *)
(* the record of a run, which only observes it, tells what it did.         *)
(*                                                                         *)
(* AnswerDisclosesGaps is not inductive: that the answer names every gap   *)
(* rests on what is known before the answer exists, namely that no worker  *)
(* is active outside INVESTIGATE, that only a flag of the user cuts a      *)
(* worker off, and that nothing moves once the synthesis began.  IInv says *)
(* so.                                                                     *)
(***************************************************************************)
EXTENDS RunRecord, TLAPS

Active == {"queued"} \cup Running

\* Only a batch that is awaited has unsettled workers, and it is the last.
ActiveInBatch ==
    \A w \in Workers : worker[w] \in Active =>
        state = "INVESTIGATE" /\ result = "none" /\ w[1] = iterations

\* Nobody but the user cuts a worker off.
CutOffByUser == \A w \in Workers : worker[w] = "cancelled" => Stopping

\* From the synthesis on the limitations are complete.
GapsDisclosed ==
    /\ gaps = {w \in Workers : worker[w] \notin {"none", "complete"}}
    /\ (\E w \in Workers : worker[w] = "cancelled") => "stopped" \in notes

Disclosed == state \in {"SYNTHESIZE", "COMPLETE"} => GapsDisclosed

AnsweredIsComplete == result = "answered" => state = "COMPLETE"

\* The first batch is number 0.
NoLoopBackYet == state \in {"FRAME", "DECOMPOSE"} => iterations = 0

Kept ==
    /\ ActiveInBatch
    /\ CutOffByUser
    /\ Disclosed
    /\ AnsweredIsComplete
    /\ NoLoopBackYet

IInv == TypeOK /\ Kept

-----------------------------------------------------------------------------
(* What a run's preset is.                                                 *)

\* The preset of a run is a record of natural numbers (budgets.py:25-33).
LEMMA PresetIsTyped ==
    ASSUME preset \in Presets
    PROVE  preset.iterations \in Nat /\ preset.resolvePasses \in Nat
<1>1. preset \in [subproblems : Nat \ {0}, iterations : Nat,
                  resolvePasses : Nat, parallel : Nat \ {0}]
  BY PresetAssumption
<1> QED BY <1>1

\* A transition ends in the state asked for or in FAILED, and only a failed
\* one changes the result (state_machine.py:57-62 and coordinator.py:829-838).
LEMMA EnterMoves ==
    ASSUME NEW s \in States, Enter(s)
    PROVE  /\ state' \in {s, "FAILED"}
           /\ state' \in States
           /\ result' \in {result, "failed"}
           /\ state' # "FAILED" \/ s = "FAILED" \/ result' = "failed"
BY DEF Enter, Fail, States, Transitions

-----------------------------------------------------------------------------
(* Types.                                                                  *)

LEMMA FinishTyped ==
    ASSUME TypeOK, NEW found, found \subseteq {"empty", "budget", "stopped"}, Finish(found)
    PROVE  /\ state' \in States
           /\ result' \in {"none", "answered", "cancelled", "failed"}
           /\ onward' = onward /\ worker' = worker
           /\ iterations' = iterations /\ resolvePasses' = resolvePasses
           /\ gaps' \subseteq Workers
           /\ notes' \subseteq {"empty", "budget", "stopped"}
<1>1. notes' \subseteq {"empty", "budget", "stopped"}
  BY DEF Finish, TypeOK
<1>2. onward' = onward /\ worker' = worker
      /\ iterations' = iterations /\ resolvePasses' = resolvePasses
  BY DEF Finish
<1>3. CASE Control = "cancel"
  BY <1>1, <1>2, <1>3 DEF Finish, TypeOK
<1>4. CASE Control # "cancel"
  <2>1. gaps' \subseteq Workers
    BY <1>4 DEF Finish, Unanswered
  <2>2. Enter("SYNTHESIZE")
    BY <1>4 DEF Finish
  <2>3. state' \in States /\ result' \in {result, "failed"}
    BY <2>2, EnterMoves DEF States, Transitions
  <2> QED BY <1>1, <1>2, <2>1, <2>3 DEF TypeOK
<1> QED BY <1>3, <1>4

LEMMA GoOnTyped ==
    ASSUME TypeOK, NEW s \in {"REVIEW", "CRITIQUE", "RESOLVE"}, GoOn(s)
    PROVE  /\ state' \in States
           /\ result' \in {"none", "answered", "cancelled", "failed"}
           /\ onward' = onward /\ worker' = worker
           /\ iterations' = iterations /\ resolvePasses' = resolvePasses
           /\ gaps' \subseteq Workers
           /\ notes' \subseteq {"empty", "budget", "stopped"}
<1>1. CASE Finish({})
  BY <1>1, FinishTyped
<1>2. CASE /\ Enter(s)
           /\ UNCHANGED <<onward, worker, iterations, resolvePasses, answerVars>>
  <2>1. state' \in States /\ result' \in {result, "failed"}
    BY <1>2, EnterMoves DEF States, Transitions
  <2> QED BY <1>2, <2>1 DEF TypeOK, answerVars
<1> QED BY <1>1, <1>2 DEF GoOn

LEMMA InvestigateTyped ==
    ASSUME TypeOK, NEW batch, NEW n, NEW then \in {"REVIEW", "CRITIQUE", "RESOLVE", "SYNTHESIZE"},
           Investigate(batch, n, then)
    PROVE  /\ state' \in States
           /\ result' \in {"none", "answered", "cancelled", "failed"}
           /\ onward' = then
           /\ worker' \in [Workers -> WorkerPcs]
           /\ gaps' = gaps /\ notes' = notes
<1>1. state' \in States /\ result' \in {result, "failed"}
  BY EnterMoves DEF Investigate, States, Transitions
<1>2. worker' \in [Workers -> WorkerPcs]
  BY DEF Investigate, TypeOK, WorkerPcs
<1> QED BY <1>1, <1>2 DEF Investigate, TypeOK, answerVars

\* Every step keeps the variables in their types.
LEMMA TypeStep == ASSUME TypeOK, [Next]_vars PROVE TypeOK'
<1> USE DEF TypeOK
<1>0. preset.iterations \in Nat /\ preset.resolvePasses \in Nat
  BY PresetIsTyped
<1>1. CASE Frame
  BY <1>1, EnterMoves DEF Frame, progressVars, answerVars, controlVars, States, Transitions
<1>2. ASSUME NEW n \in 0 .. preset.subproblems, Decompose(n) PROVE TypeOK'
  <2>1. UNCHANGED <<conflicts, preset, cancelled, synthesizeNow, exhausted>>
    BY <1>2 DEF Decompose, controlVars
  <2>2. CASE Investigate(0, n, "REVIEW") /\ UNCHANGED <<iterations, resolvePasses>>
    BY <2>1, <2>2, InvestigateTyped
  <2>3. CASE Finish({"empty"}) \/ Finish({})
    BY <2>1, <2>3, FinishTyped
  <2> QED BY <1>2, <2>2, <2>3 DEF Decompose
<1>3. CASE BatchEnds
  <2>1. UNCHANGED <<conflicts, preset, cancelled, synthesizeNow, exhausted>>
    BY <1>3 DEF BatchEnds, controlVars
  <2>2. CASE onward = "SYNTHESIZE"
    BY <1>3, <2>1, <2>2, FinishTyped DEF BatchEnds
  <2>3. CASE onward # "SYNTHESIZE"
    BY <1>3, <2>1, <2>3, GoOnTyped DEF BatchEnds
  <2> QED BY <2>2, <2>3
<1>4. ASSUME NEW n \in 0 .. MaxFollowUps, NEW c \in BOOLEAN, Review(n, c) PROVE TypeOK'
  <2>1. conflicts' \in BOOLEAN /\ UNCHANGED <<preset, cancelled, synthesizeNow, exhausted>>
    BY <1>4 DEF Review, controlVars
  <2>2. CASE CanIterate /\ LoopBack(n, "CRITIQUE") /\ UNCHANGED resolvePasses
    <3>1. iterations' \in 0 .. preset.iterations
      BY <1>0, <2>2 DEF CanIterate, LoopBack
    <3> QED BY <2>1, <2>2, <3>1, InvestigateTyped DEF LoopBack
  <2>3. CASE GoOn("CRITIQUE")
    BY <2>1, <2>3, GoOnTyped
  <2> QED BY <1>4, <2>2, <2>3 DEF Review
<1>5. ASSUME NEW n \in 0 .. MaxFollowUps, Critique(n) PROVE TypeOK'
  <2>1. UNCHANGED <<conflicts, preset, cancelled, synthesizeNow, exhausted>>
    BY <1>5 DEF Critique, controlVars
  <2>2. CASE CanIterate /\ LoopBack(n, "RESOLVE") /\ UNCHANGED resolvePasses
    <3>1. iterations' \in 0 .. preset.iterations
      BY <1>0, <2>2 DEF CanIterate, LoopBack
    <3> QED BY <2>1, <2>2, <3>1, InvestigateTyped DEF LoopBack
  <2>3. CASE GoOn("RESOLVE")
    BY <2>1, <2>3, GoOnTyped
  <2> QED BY <1>5, <2>2, <2>3 DEF Critique
<1>6. ASSUME NEW n \in 0 .. MaxFollowUps, Resolve(n) PROVE TypeOK'
  <2>1. UNCHANGED <<conflicts, preset, cancelled, synthesizeNow, exhausted>>
    BY <1>6 DEF Resolve, controlVars
  <2>2. CASE /\ CanIterate /\ LoopBack(n, "SYNTHESIZE")
             /\ resolvePasses < preset.resolvePasses
             /\ resolvePasses' = resolvePasses + 1
    <3>1. iterations' \in 0 .. preset.iterations
      BY <1>0, <2>2 DEF CanIterate, LoopBack
    <3>2. resolvePasses' \in 0 .. preset.resolvePasses
      BY <1>0, <2>2
    <3> QED BY <2>1, <2>2, <3>1, <3>2, InvestigateTyped DEF LoopBack
  <2>3. CASE Finish({})
    BY <2>1, <2>3, FinishTyped
  <2> QED BY <1>6, <2>2, <2>3 DEF Resolve
<1>7. CASE Synthesize
  BY <1>7 DEF Synthesize, progressVars, answerVars, controlVars, States, Transitions
<1>8. CASE RoleRaises
  BY <1>8 DEF RoleRaises, Fail, progressVars, answerVars, controlVars, States, Transitions
<1>9. ASSUME NEW w \in Workers, Worker(w) PROVE TypeOK'
  <2>1. PICK pc \in WorkerPcs : WorkerGoes(w, pc)
    BY <1>9 DEF Worker, WorkerStarts, WorkerStopped, WorkerSucceeds, WorkerFails,
                WorkerPcs, Running, Settled
  <2> QED BY <2>1 DEF WorkerGoes, progressVars, answerVars, controlVars
<1>10. CASE Cancel \/ SynthesizeNow \/ BudgetTrips
  BY <1>10 DEF Cancel, SynthesizeNow, BudgetTrips, progressVars, answerVars
<1>11. CASE UNCHANGED vars
  BY <1>11 DEF vars, progressVars, answerVars, controlVars
<1> QED BY <1>1, <1>2, <1>3, <1>4, <1>5, <1>6, <1>7, <1>8, <1>9, <1>10, <1>11
        DEF Next, Coordinator

LEMMA TypeInit == Init => TypeOK
<1> SUFFICES ASSUME Init PROVE TypeOK
  OBVIOUS
<1>1. preset.iterations \in Nat /\ preset.resolvePasses \in Nat
  BY PresetIsTyped DEF Init
<1>2. state \in States
  BY DEF Init, States, Transitions
<1>3. worker \in [Workers -> WorkerPcs]
  BY DEF Init, WorkerPcs
<1>4. iterations \in 0 .. preset.iterations /\ resolvePasses \in 0 .. preset.resolvePasses
  BY <1>1 DEF Init
<1> QED BY <1>2, <1>3, <1>4 DEF Init, TypeOK

\* Type correctness of a max-mode run, the iteration cap of budgets.py:112-113
\* and the pass limit of coordinator.py:750 included.
THEOREM OrchestrationTyped == Spec => []TypeOK
BY TypeInit, TypeStep, PTL DEF Spec

-----------------------------------------------------------------------------
(* What the coordinator hands on.                                          *)

\* The precedence of the controls (coordinator.py:576-585).
LEMMA ControlMeans ==
    /\ Control = "cancel" <=> cancelled
    /\ Control = "synthesize" <=> ~cancelled /\ synthesizeNow
    /\ Control = "none" => ~cancelled /\ ~synthesizeNow /\ ~exhausted
BY DEF Control

\* Between two calls no worker is active, and the batch ends with none.
Quiet ==
    /\ result = "none"
    /\ state \notin {"SYNTHESIZE", "COMPLETE"}
    /\ \A w \in Workers : worker[w] \notin Active

LEMMA QuietOutsideBatch ==
    ASSUME IInv, result = "none", state \notin {"INVESTIGATE", "SYNTHESIZE", "COMPLETE"}
    PROVE  Quiet
BY DEF Quiet, IInv, Kept, ActiveInBatch

LEMMA QuietAfterBatch == ASSUME IInv, BatchEnds PROVE Quiet
<1>1. result = "none" /\ state = "INVESTIGATE"
  BY DEF BatchEnds, Await
<1>2. ASSUME NEW w \in Workers, worker[w] \in Active PROVE FALSE
  <2>1. w \in Batch
    BY <1>2 DEF IInv, Kept, ActiveInBatch, Batch, Active, Running
  <2> QED BY <1>2, <2>1 DEF BatchEnds, Settled, Active, Running
<1> QED BY <1>1, <1>2 DEF Quiet

\* Finish computes the gaps when every worker has settled, and reads the flag
\* that cut them off.
LEMMA FinishKeeps ==
    ASSUME IInv, Quiet, NEW found, Finish(found),
           UNCHANGED <<cancelled, synthesizeNow>>
    PROVE  Kept'
<1> USE DEF IInv, Kept
<1>1. worker' = worker /\ iterations' = iterations
  BY DEF Finish
<1>2. ActiveInBatch' /\ CutOffByUser'
  BY <1>1 DEF Quiet, ActiveInBatch, CutOffByUser, Stopping
<1>3. CASE Control = "cancel"
  <2>1. state' = state /\ result' = "cancelled"
    BY <1>3 DEF Finish
  <2> QED BY <1>1, <1>2, <2>1 DEF Kept, Quiet, Disclosed, AnsweredIsComplete, NoLoopBackYet
<1>4. CASE Control # "cancel"
  <2>1. Enter("SYNTHESIZE") /\ gaps' = Unanswered
    BY <1>4 DEF Finish
  <2>2. state' \in {"SYNTHESIZE", "FAILED"} /\ result' \in {"none", "failed"}
    BY <2>1, EnterMoves DEF States, Transitions, Quiet
  <2>3. gaps' = {w \in Workers : worker[w] \notin {"none", "complete"}}
    <3>1. \A w \in Workers : worker[w] \in {"none"} \cup Settled
      BY DEF Quiet, TypeOK, WorkerPcs, Active
    <3> QED BY <2>1, <3>1 DEF Unanswered, Settled
  <2>4. (\E w \in Workers : worker[w] = "cancelled") => "stopped" \in notes'
    <3>1. (\E w \in Workers : worker[w] = "cancelled") => Control = "synthesize"
      BY <1>4, ControlMeans DEF CutOffByUser, Stopping
    <3> QED BY <3>1 DEF Finish
  <2> QED BY <1>1, <1>2, <2>2, <2>3, <2>4
          DEF Kept, Disclosed, GapsDisclosed, AnsweredIsComplete, NoLoopBackYet
<1> QED BY <1>3, <1>4

LEMMA GoOnKeeps ==
    ASSUME IInv, Quiet, NEW s \in {"REVIEW", "CRITIQUE", "RESOLVE"}, GoOn(s),
           UNCHANGED <<cancelled, synthesizeNow>>
    PROVE  Kept'
<1>1. CASE Finish({})
  BY <1>1, FinishKeeps
<1>2. CASE Enter(s) /\ UNCHANGED <<onward, worker, iterations, resolvePasses, answerVars>>
  <2>1. state' \in {s, "FAILED"} /\ result' \in {"none", "failed"}
    BY <1>2, EnterMoves DEF States, Transitions, Quiet
  <2> QED BY <1>2, <2>1 DEF IInv, Kept, Quiet, ActiveInBatch, CutOffByUser, Stopping,
                            Disclosed, AnsweredIsComplete, NoLoopBackYet
<1> QED BY <1>1, <1>2 DEF GoOn

\* The new batch is the only one with active workers.
LEMMA InvestigateKeeps ==
    ASSUME IInv, Quiet, NEW n, NEW then, Investigate(iterations', n, then),
           state \in {"DECOMPOSE", "REVIEW", "CRITIQUE", "RESOLVE"},
           UNCHANGED <<cancelled, synthesizeNow>>
    PROVE  Kept'
<1>1. state' = "INVESTIGATE" /\ result' = "none"
  BY DEF Investigate, Enter, Transitions, Quiet
<1>2. ASSUME NEW w \in Workers
      PROVE  /\ (worker'[w] = "queued" /\ w[1] = iterations') \/ worker'[w] = worker[w]
             /\ worker'[w] # "cancelled" \/ worker[w] = "cancelled"
  BY DEF Investigate
<1> QED BY <1>1, <1>2 DEF IInv, Kept, Quiet, ActiveInBatch, CutOffByUser, Stopping,
                          Disclosed, AnsweredIsComplete, NoLoopBackYet

-----------------------------------------------------------------------------
(* The inductive invariant.                                                *)

LEMMA KeptInit == Init => Kept
BY DEF Init, Kept, ActiveInBatch, CutOffByUser, Disclosed, AnsweredIsComplete, NoLoopBackYet, Active, Running

LEMMA CoordinatorKeeps == ASSUME IInv, Coordinator PROVE Kept'
<1>1. CASE Frame
  <2>1. Quiet /\ state' \in {"DECOMPOSE", "FAILED"} /\ result' \in {"none", "failed"}
    BY <1>1, QuietOutsideBatch, EnterMoves DEF Frame, Await, States, Transitions
  <2> QED BY <1>1, <2>1 DEF Frame, Await, progressVars, controlVars, IInv, Kept, Quiet,
             ActiveInBatch,
             CutOffByUser, Stopping, Disclosed, AnsweredIsComplete, NoLoopBackYet
<1>2. ASSUME NEW n \in 0 .. preset.subproblems, Decompose(n) PROVE Kept'
  <2>1. Quiet /\ UNCHANGED <<cancelled, synthesizeNow>>
    BY <1>2, QuietOutsideBatch DEF Decompose, Await, controlVars
  <2>2. CASE n > 0 /\ Control = "none"
    <3>1. Investigate(0, n, "REVIEW") /\ iterations' = iterations
      BY <1>2, <2>2 DEF Decompose
    <3>2. state = "DECOMPOSE" /\ iterations = 0
      BY <1>2 DEF Decompose, Await, IInv, Kept, NoLoopBackYet
    <3> QED BY <2>1, <3>1, <3>2, InvestigateKeeps
  <2>3. CASE Finish({"empty"}) \/ Finish({})
    BY <2>1, <2>3, FinishKeeps
  <2> QED BY <1>2, <2>2, <2>3 DEF Decompose
<1>3. CASE BatchEnds
  <2>1. Quiet /\ UNCHANGED <<cancelled, synthesizeNow>>
    BY <1>3, QuietAfterBatch DEF BatchEnds, controlVars
  <2>2. CASE onward = "SYNTHESIZE"
    BY <1>3, <2>1, <2>2, FinishKeeps DEF BatchEnds
  <2>3. CASE onward # "SYNTHESIZE"
    BY <1>3, <2>1, <2>3, GoOnKeeps DEF BatchEnds, IInv, TypeOK
  <2> QED BY <2>2, <2>3
<1>4. ASSUME NEW n \in 0 .. MaxFollowUps, NEW c \in BOOLEAN, Review(n, c) PROVE Kept'
  <2>1. Quiet /\ UNCHANGED <<cancelled, synthesizeNow>>
    BY <1>4, QuietOutsideBatch DEF Review, Await, controlVars
  <2>2. CASE LoopBack(n, "CRITIQUE")
    BY <1>4, <2>1, <2>2, InvestigateKeeps DEF Review, Await, LoopBack
  <2>3. CASE GoOn("CRITIQUE")
    BY <2>1, <2>3, GoOnKeeps
  <2> QED BY <1>4, <2>2, <2>3 DEF Review
<1>5. ASSUME NEW n \in 0 .. MaxFollowUps, Critique(n) PROVE Kept'
  <2>1. Quiet /\ UNCHANGED <<cancelled, synthesizeNow>>
    BY <1>5, QuietOutsideBatch DEF Critique, Await, controlVars
  <2>2. CASE LoopBack(n, "RESOLVE")
    BY <1>5, <2>1, <2>2, InvestigateKeeps DEF Critique, Await, LoopBack
  <2>3. CASE GoOn("RESOLVE")
    BY <2>1, <2>3, GoOnKeeps
  <2> QED BY <1>5, <2>2, <2>3 DEF Critique
<1>6. ASSUME NEW n \in 0 .. MaxFollowUps, Resolve(n) PROVE Kept'
  <2>1. Quiet /\ UNCHANGED <<cancelled, synthesizeNow>>
    BY <1>6, QuietOutsideBatch DEF Resolve, Await, controlVars
  <2>2. CASE LoopBack(n, "SYNTHESIZE")
    BY <1>6, <2>1, <2>2, InvestigateKeeps DEF Resolve, Await, LoopBack
  <2>3. CASE Finish({})
    BY <2>1, <2>3, FinishKeeps
  <2> QED BY <1>6, <2>2, <2>3 DEF Resolve
<1>7. CASE Synthesize
  BY <1>7 DEF Synthesize, Await, progressVars, answerVars, controlVars, IInv, Kept,
     ActiveInBatch, CutOffByUser, Stopping, Disclosed, GapsDisclosed, AnsweredIsComplete, NoLoopBackYet
<1>8. CASE RoleRaises
  <2>1. Quiet /\ state' = "FAILED" /\ result' = "failed"
    BY <1>8, QuietOutsideBatch DEF RoleRaises, Await, Fail
  <2> QED BY <1>8, <2>1 DEF RoleRaises, controlVars, IInv, Kept, Quiet, ActiveInBatch,
             CutOffByUser, Stopping, Disclosed, AnsweredIsComplete, NoLoopBackYet
<1> QED BY <1>1, <1>2, <1>3, <1>4, <1>5, <1>6, <1>7, <1>8 DEF Coordinator

LEMMA InvStep == ASSUME IInv, [Next]_vars PROVE IInv'
<1>1. TypeOK'
  BY TypeStep DEF IInv
<1>2. CASE Coordinator
  BY <1>1, <1>2, CoordinatorKeeps DEF IInv
<1>3. ASSUME NEW w \in Workers, Worker(w) PROVE IInv'
  <2>1. PICK pc \in WorkerPcs : WorkerGoes(w, pc) /\ (pc = "cancelled" => Stopping)
    BY <1>3 DEF Worker, WorkerStarts, WorkerStopped, WorkerSucceeds, WorkerFails,
                WorkerPcs, Running, Settled
  <2>2. state = "INVESTIGATE" /\ result = "none" /\ w[1] = iterations
    BY <1>3 DEF Worker, Await, Batch
  <2>3. /\ UNCHANGED <<state, result, iterations, cancelled, synthesizeNow>>
        /\ \A v \in Workers : worker'[v] = worker[v] \/ (v = w /\ worker'[v] = pc)
    <3>1. worker' = [worker EXCEPT ![w] = pc] /\ worker \in [Workers -> WorkerPcs]
      BY <2>1 DEF WorkerGoes, IInv, TypeOK
    <3>2. \A v \in Workers : worker'[v] = worker[v] \/ (v = w /\ worker'[v] = pc)
      BY <3>1
    <3> QED BY <2>1, <3>2 DEF WorkerGoes, progressVars, controlVars
  <2> QED BY <1>1, <2>1, <2>2, <2>3 DEF IInv, Kept, ActiveInBatch, CutOffByUser, Stopping,
             Disclosed, AnsweredIsComplete, NoLoopBackYet
<1>4. CASE Cancel \/ SynthesizeNow \/ BudgetTrips
  <2>1. /\ UNCHANGED <<state, result, worker, iterations, gaps, notes>>
        /\ Stopping => Stopping'
    BY <1>4 DEF Cancel, SynthesizeNow, BudgetTrips, progressVars, answerVars, Stopping
  <2> QED BY <1>1, <2>1 DEF IInv, Kept, ActiveInBatch, CutOffByUser, Disclosed,
             GapsDisclosed, AnsweredIsComplete, NoLoopBackYet
<1>5. CASE UNCHANGED vars
  BY <1>1, <1>5 DEF vars, progressVars, answerVars, controlVars, IInv, Kept, ActiveInBatch,
     CutOffByUser, Stopping, Disclosed, GapsDisclosed, AnsweredIsComplete, NoLoopBackYet
<1> QED BY <1>2, <1>3, <1>4, <1>5 DEF Next

\* The inductive invariant of a max-mode run.
THEOREM OrchestrationInv == Spec => []IInv
<1>1. Init => IInv
  BY TypeInit, KeptInit DEF IInv
<1> QED BY <1>1, InvStep, PTL DEF Spec

\* collect_gaps (coordinator.py:605-616) and the limitations of
\* coordinator.py:773-778: an answer names every subproblem that a batch took
\* up and no result answers, and says so when the user cut the run short.
THEOREM GapsAlwaysDisclosed == Spec => []AnswerDisclosesGaps
<1>1. IInv => AnswerDisclosesGaps
  BY DEF IInv, Kept, Disclosed, AnsweredIsComplete, GapsDisclosed, AnswerDisclosesGaps
<1> QED BY <1>1, OrchestrationInv, PTL

-----------------------------------------------------------------------------
(* The user's controls.                                                    *)

Obeys ==
    /\ Control # "none" /\ state # "FRAME"
           => state' \in {state, "SYNTHESIZE", "COMPLETE", "FAILED"}
    /\ cancelled /\ state # "SYNTHESIZE" => state' # "SYNTHESIZE"
    /\ Stopping => \A w \in Workers :
           worker'[w] # worker[w] => worker'[w] \in Settled

LEMMA StoppingShows == Stopping => Control # "none"
BY ControlMeans DEF Stopping

LEMMA FinishObeys == ASSUME NEW found, Finish(found) PROVE Obeys
<1>1. worker' = worker
  BY DEF Finish
<1>2. CASE Control = "cancel"
  BY <1>1, <1>2 DEF Finish, Obeys
<1>3. CASE Control # "cancel"
  <2>1. ~cancelled /\ Enter("SYNTHESIZE")
    BY <1>3, ControlMeans DEF Finish
  <2>2. state' \in {"SYNTHESIZE", "FAILED"}
    BY <2>1, EnterMoves DEF States, Transitions
  <2> QED BY <1>1, <2>1, <2>2 DEF Obeys
<1> QED BY <1>2, <1>3

\* A stage or a batch begins only where no control is set.
LEMMA FreeObeys ==
    ASSUME Control = "none", state' # "SYNTHESIZE" \/ ~cancelled PROVE Obeys
BY StoppingShows DEF Obeys

LEMMA GoOnObeys ==
    ASSUME NEW s \in {"REVIEW", "CRITIQUE", "RESOLVE"}, GoOn(s) PROVE Obeys
<1>1. CASE Finish({})
  BY <1>1, FinishObeys
<1>2. CASE Control = "none"
  BY <1>2, FreeObeys, ControlMeans
<1> QED BY <1>1, <1>2 DEF GoOn

LEMMA StepObeys == ASSUME TypeOK, [Next]_vars PROVE Obeys
<1>1. CASE Control = "none"
  BY <1>1, FreeObeys, ControlMeans
<1>2. CASE Control # "none" /\ Coordinator
  <2>1. CASE Frame
    <3>1. state = "FRAME" /\ state' # "SYNTHESIZE" /\ worker' = worker
      BY <2>1, EnterMoves DEF Frame, Await, States, Transitions
    <3> QED BY <3>1 DEF Obeys
  <2>2. ASSUME NEW n \in 0 .. preset.subproblems, Decompose(n) PROVE Obeys
    BY <1>2, <2>2, FinishObeys DEF Decompose
  <2>3. CASE BatchEnds
    <3>1. CASE onward = "SYNTHESIZE"
      BY <2>3, <3>1, FinishObeys DEF BatchEnds
    <3>2. CASE onward # "SYNTHESIZE"
      BY <2>3, <3>2, GoOnObeys DEF BatchEnds, TypeOK
    <3> QED BY <3>1, <3>2
  <2>4. ASSUME NEW n \in 0 .. MaxFollowUps, NEW c \in BOOLEAN, Review(n, c) PROVE Obeys
    BY <1>2, <2>4, GoOnObeys DEF Review
  <2>5. ASSUME NEW n \in 0 .. MaxFollowUps, Critique(n) PROVE Obeys
    BY <1>2, <2>5, GoOnObeys DEF Critique
  <2>6. ASSUME NEW n \in 0 .. MaxFollowUps, Resolve(n) PROVE Obeys
    BY <1>2, <2>6, FinishObeys DEF Resolve
  <2>7. CASE Synthesize
    BY <2>7 DEF Synthesize, Obeys
  <2>8. CASE RoleRaises
    BY <2>8 DEF RoleRaises, Fail, Obeys
  <2> QED BY <1>2, <2>1, <2>2, <2>3, <2>4, <2>5, <2>6, <2>7, <2>8 DEF Coordinator
<1>3. ASSUME NEW w \in Workers, Worker(w) PROVE Obeys
  <2>1. PICK pc : WorkerGoes(w, pc) /\ (Stopping => pc \in Settled)
    BY <1>3 DEF Worker, WorkerStarts, WorkerStopped, WorkerSucceeds, WorkerFails, Settled
  <2> QED BY <2>1 DEF WorkerGoes, TypeOK, Obeys
<1>4. CASE Cancel \/ SynthesizeNow \/ BudgetTrips
  BY <1>4 DEF Cancel, SynthesizeNow, BudgetTrips, Obeys
<1>5. CASE UNCHANGED vars
  BY <1>5 DEF vars, Obeys
<1> QED BY <1>1, <1>2, <1>3, <1>4, <1>5 DEF Next

\* controls() and the workers' checks (coordinator.py:576-585 and
\* 771-779, workers.py:164-226): after a cancel, a synthesize-now or a tripped budget
\* no stage and no worker begins any more.
THEOREM StopsObeyed == Spec => StopIsHonoured
<1>1. TypeOK /\ [Next]_vars => [Obeys]_vars
  BY StepObeys
<1> QED BY <1>1, OrchestrationTyped, PTL DEF Spec, StopIsHonoured, Obeys
-----------------------------------------------------------------------------
(* Rows, files and the decision record.                                    *)

HasBatches == \E w \in Workers : worker[w] # "none"

\* A path names a file that is there, and nothing is recorded before the answer.
FiledAreThere == filed \subseteq files /\ (result # "answered" => record.written = {})

\* While a run goes on, only the row of the stage it is in is running.
RunningIsCurrent ==
    \A s \in Stages : stageRow[s] = "running" => result = "none" /\ s = state

\* The row of INVESTIGATE tells whether there was a batch.
InvestigateTells ==
    /\ ~HasBatches => stageRow["INVESTIGATE"] = "pending"
    /\ HasBatches =>
           \/ stageRow["INVESTIGATE"] = "complete"
           \/ stageRow["INVESTIGATE"] = "running" /\ state = "INVESTIGATE" /\ result = "none"
    /\ result = "none" /\ state \in {"FRAME", "DECOMPOSE"} => ~HasBatches
    /\ result = "none" /\ state \in {"INVESTIGATE", "REVIEW", "CRITIQUE", "RESOLVE"} => HasBatches

\* RESOLVE is skipped on the way to the synthesis, of a run without conflicts.
SkippedIsPassed ==
    stageRow["RESOLVE"] = "skipped" => ~conflicts /\ (result = "none" => state = "SYNTHESIZE")

RowsKept == result # "failed" => RunningIsCurrent /\ InvestigateTells /\ SkippedIsPassed

RecordInv == RecordTypeOK /\ FiledAreThere /\ RecordHoldsResults /\ RowsKept

LEMMA RecordStepIsStep == [RecordNext]_allVars => [Next]_vars
BY DEF RecordNext, RecordCoordinator, Next, Coordinator, allVars

\* A decision record run is a max-mode run: rows, files and the record never hold it up.
THEOREM RecordOnlyObserves == RecordSpec => Spec
<1>1. RecordInit => Init
  BY DEF RecordInit
<1> QED BY <1>1, RecordStepIsStep, PTL DEF RecordSpec, Spec

\* What the row updates of a call do: complete(), the skipped RESOLVE and enter().
LEMMA CallDoneRows ==
    ASSUME RecordTypeOK, state \in Stages, NEW status \in {"complete", "failed"}, CallDone(status)
    PROVE  /\ stageRow' \in [Stages -> {"pending", "running", "complete", "failed", "skipped"}]
           /\ \A s \in Stages : stageRow'[s] = "running" =>
                  \/ s # state /\ s = state'
                  \/ s # state /\ stageRow[s] = "running"
           /\ stageRow'["INVESTIGATE"] =
                  CASE state = "INVESTIGATE" -> status
                    [] state # "INVESTIGATE" /\ state' = "INVESTIGATE"
                       /\ stageRow["INVESTIGATE"] = "pending" -> "running"
                    [] OTHER -> stageRow["INVESTIGATE"]
           /\ stageRow'["RESOLVE"] = "skipped" =>
                  \/ ~conflicts' /\ (state' = "SYNTHESIZE" \/ result' = "cancelled")
                  \/ stageRow["RESOLVE"] = "skipped"
<1> DEFINE Rows == [Stages -> {"pending", "running", "complete", "failed", "skipped"}]
<1> DEFINE done == [stageRow EXCEPT ![state] = status]
<1> DEFINE passed == Skipped(done)
<1>1. done \in Rows /\ \A s \in Stages : done[s] = IF s = state THEN status ELSE stageRow[s]
  BY DEF RecordTypeOK
<1>2. /\ passed \in Rows
      /\ \A s \in Stages : passed[s] = done[s] \/ (s = "RESOLVE" /\ passed[s] = "skipped")
      /\ passed["RESOLVE"] = "skipped" =>
             \/ done["RESOLVE"] = "skipped"
             \/ ~conflicts' /\ (state' = "SYNTHESIZE" \/ result' = "cancelled")
  <2>1. "RESOLVE" \in Stages
    BY DEF Stages
  <2> HIDE DEF done
  <2> QED BY <1>1, <2>1 DEF Skipped
<1>3. stageRow' = Entered(passed)
  BY DEF CallDone
<1> HIDE DEF done, passed
<1>4. /\ stageRow' \in Rows
      /\ \A s \in Stages : stageRow'[s] =
             IF s = state' /\ s # state /\ passed[s] = "pending" THEN "running" ELSE passed[s]
  BY <1>2, <1>3 DEF Entered
<1>5. "INVESTIGATE" \in Stages /\ "RESOLVE" \in Stages /\ "INVESTIGATE" # "RESOLVE"
  BY DEF Stages
<1> QED BY <1>1, <1>2, <1>4, <1>5

-----------------------------------------------------------------------------
(* Where the coordinator goes, as far as the rows depend on it.            *)

LEMMA FinishMoves ==
    ASSUME NEW found, Finish(found), result = "none"
    PROVE  /\ worker' = worker
           /\ result' # "answered"
           /\ result' = "none" => state' = "SYNTHESIZE"
           /\ result' = "cancelled" => state' = state
<1>1. CASE Control = "cancel"
  BY <1>1 DEF Finish
<1>2. CASE Control # "cancel"
  BY <1>2, EnterMoves DEF Finish, States, Transitions
<1> QED BY <1>1, <1>2

LEMMA GoOnMoves ==
    ASSUME NEW s \in {"REVIEW", "CRITIQUE", "RESOLVE"}, GoOn(s), result = "none"
    PROVE  /\ worker' = worker
           /\ result' # "answered"
           /\ result' = "none" => state' \in {"REVIEW", "CRITIQUE", "RESOLVE", "SYNTHESIZE"}
           /\ result' = "cancelled" => state' = state
<1>1. CASE Finish({})
  BY <1>1, FinishMoves
<1>2. CASE Enter(s) /\ UNCHANGED <<onward, worker, iterations, resolvePasses, answerVars>>
  BY <1>2, EnterMoves DEF States, Transitions
<1> QED BY <1>1, <1>2 DEF GoOn

LEMMA InvestigateMoves ==
    ASSUME IInv, NEW b, NEW n, NEW then, Investigate(b, n, then), result = "none"
    PROVE  /\ HasBatches => HasBatches'
           /\ result' # "answered"
           /\ result' = "none" => state' = "INVESTIGATE"
<1>1. state' \in {"INVESTIGATE", "FAILED"} /\ result' \in {"none", "failed"}
      /\ (state' # "FAILED" \/ result' = "failed")
  BY EnterMoves DEF Investigate, States, Transitions
<1>2. ASSUME HasBatches PROVE HasBatches'
  <2>1. PICK w \in Workers : worker[w] # "none"
    BY <1>2 DEF HasBatches
  <2>2. worker'[w] # "none"
    BY <2>1 DEF Investigate
  <2> QED BY <2>2 DEF HasBatches
<1> QED BY <1>1, <1>2

\* The first batch has a first place.
LEMMA FirstBatch ==
    ASSUME IInv, NEW n \in 1 .. preset.subproblems, NEW then, Investigate(0, n, then)
    PROVE  HasBatches'
<1>1. preset \in Presets /\ preset.subproblems \in Nat \ {0} /\ preset.iterations \in Nat
  <2>1. preset \in [subproblems : Nat \ {0}, iterations : Nat,
                    resolvePasses : Nat, parallel : Nat \ {0}]
    BY PresetAssumption DEF IInv, TypeOK
  <2> QED BY <2>1 DEF IInv, TypeOK
<1>2. <<0, 1>> \in (0 .. preset.iterations) \X ((1 .. preset.subproblems) \cup (1 .. MaxFollowUps))
  BY <1>1
<1>3. <<0, 1>> \in Workers
  BY <1>1, <1>2 DEF Workers
<1>4. worker'[<<0, 1>>] = "queued"
  BY <1>3 DEF Investigate
<1> QED BY <1>3, <1>4 DEF HasBatches

Late == {"INVESTIGATE", "REVIEW", "CRITIQUE", "RESOLVE"}

\* Every step of the coordinator but the answer and a raised call.
Walks ==
    /\ result = "none" /\ state \in Stages /\ state # "SYNTHESIZE"
    /\ result' # "answered"
    /\ HasBatches => HasBatches'
    /\ state = "FRAME" => result' = "none" /\ state' = "DECOMPOSE" /\ worker' = worker
    /\ state # "FRAME" /\ result' = "none" => state' \in Late \cup {"SYNTHESIZE"}
    /\ state = "DECOMPOSE" =>
           \/ worker' = worker /\ (result' = "none" => state' = "SYNTHESIZE")
           \/ HasBatches' /\ (result' = "none" => state' = "INVESTIGATE")
    /\ conflicts' # conflicts => state = "REVIEW"
    /\ result' = "cancelled" => worker' = worker /\ state' = state

LEMMA CoordinatorWalks ==
    ASSUME IInv,
           \/ Frame \/ BatchEnds
           \/ \E n \in 0 .. preset.subproblems : Decompose(n)
           \/ \E n \in 0 .. MaxFollowUps, c \in BOOLEAN : Review(n, c)
           \/ \E n \in 0 .. MaxFollowUps : Critique(n)
           \/ \E n \in 0 .. MaxFollowUps : Resolve(n)
    PROVE  Walks
<1> USE DEF Await, Stages, Late
<1>1. CASE Frame
  <2>1. result' = "none" /\ state' = "DECOMPOSE"
    BY <1>1 DEF Frame, Enter, Transitions
  <2> QED BY <1>1, <2>1 DEF Frame, Walks, progressVars, HasBatches
<1>2. ASSUME NEW n \in 0 .. preset.subproblems, Decompose(n) PROVE Walks
  <2>0. result = "none" /\ state = "DECOMPOSE" /\ conflicts' = conflicts
    BY <1>2 DEF Decompose
  <2>1. CASE Control = "none" /\ n > 0
    <3>1. Investigate(0, n, "REVIEW") /\ n \in 1 .. preset.subproblems
      BY <1>2, <2>1 DEF Decompose
    <3>2. HasBatches' /\ result' # "answered" /\ (result' = "none" => state' = "INVESTIGATE")
      BY <2>0, <3>1, FirstBatch, InvestigateMoves
    <3>3. result' # "cancelled"
      BY <2>0, <3>1, EnterMoves DEF Investigate, States, Transitions
    <3> QED BY <2>0, <3>2, <3>3 DEF Walks
  <2>2. CASE ~(Control = "none" /\ n > 0)
    <3>1. Finish({"empty"}) \/ Finish({})
      BY <1>2, <2>2 DEF Decompose
    <3> QED BY <2>0, <3>1, FinishMoves DEF Walks, HasBatches
  <2> QED BY <2>1, <2>2
<1>3. CASE BatchEnds
  <2>0. result = "none" /\ state = "INVESTIGATE" /\ conflicts' = conflicts
    BY <1>3 DEF BatchEnds
  <2>1. CASE onward = "SYNTHESIZE"
    BY <1>3, <2>0, <2>1, FinishMoves DEF BatchEnds, Walks, HasBatches
  <2>2. CASE onward # "SYNTHESIZE"
    BY <1>3, <2>0, <2>2, GoOnMoves DEF BatchEnds, Walks, HasBatches, IInv, TypeOK
  <2> QED BY <2>1, <2>2
<1>4. ASSUME NEW then, result = "none", state \in {"REVIEW", "CRITIQUE", "RESOLVE"},
             \E n \in Nat : LoopBack(n, then), conflicts' = conflicts \/ state = "REVIEW"
      PROVE  Walks
  <2>1. PICK n : Investigate(iterations + 1, n, then)
    BY <1>4 DEF LoopBack
  <2>2. result' # "cancelled"
    BY <1>4, <2>1, EnterMoves DEF Investigate, States, Transitions
  <2> QED BY <1>4, <2>1, <2>2, InvestigateMoves DEF Walks
<1>5. ASSUME result = "none", state \in {"REVIEW", "CRITIQUE", "RESOLVE"},
             GoOn("CRITIQUE") \/ GoOn("RESOLVE") \/ Finish({}), conflicts' = conflicts \/ state = "REVIEW"
      PROVE  Walks
  BY <1>5, GoOnMoves, FinishMoves DEF Walks, HasBatches
<1>6. ASSUME NEW n \in 0 .. MaxFollowUps, NEW c \in BOOLEAN, Review(n, c) PROVE Walks
  BY <1>4, <1>5, <1>6 DEF Review
<1>7. ASSUME NEW n \in 0 .. MaxFollowUps, Critique(n) PROVE Walks
  BY <1>4, <1>5, <1>7 DEF Critique
<1>8. ASSUME NEW n \in 0 .. MaxFollowUps, Resolve(n) PROVE Walks
  BY <1>4, <1>5, <1>8 DEF Resolve
<1> QED BY <1>1, <1>2, <1>3, <1>6, <1>7, <1>8
LEMMA RowsWalk ==
    ASSUME RecordTypeOK, RowsKept, Walks, NEW status \in {"complete", "failed"}, CallDone(status),
           status = "complete" \/ state = "DECOMPOSE", result' \in {"none", "cancelled", "failed"}
    PROVE  RowsKept'
<1> SUFFICES ASSUME result' # "failed" PROVE (RunningIsCurrent /\ InvestigateTells /\ SkippedIsPassed)'
  BY DEF RowsKept
<1>0. result = "none" /\ state \in Stages /\ RunningIsCurrent /\ InvestigateTells /\ SkippedIsPassed
  BY DEF Walks, RowsKept
<1>1. RunningIsCurrent'
  <2>1. ASSUME NEW s \in Stages, stageRow'[s] = "running" PROVE s # state /\ s = state'
    BY <1>0, <2>1, CallDoneRows DEF RunningIsCurrent
  <2> QED BY <2>1 DEF RunningIsCurrent, Walks
<1>2. InvestigateTells'
  <2>1. stageRow'["INVESTIGATE"] =
            CASE state = "INVESTIGATE" -> status
              [] state # "INVESTIGATE" /\ state' = "INVESTIGATE"
                 /\ stageRow["INVESTIGATE"] = "pending" -> "running"
              [] OTHER -> stageRow["INVESTIGATE"]
    BY <1>0, CallDoneRows
  <2>2. CASE state = "FRAME"
    <3>1. stageRow'["INVESTIGATE"] = "pending" /\ ~HasBatches /\ ~HasBatches'
          /\ result' = "none" /\ state' = "DECOMPOSE"
      BY <1>0, <2>1, <2>2 DEF InvestigateTells, Walks, HasBatches
    <3> QED BY <3>1 DEF InvestigateTells
  <2>3. CASE state = "DECOMPOSE"
    <3>1. stageRow["INVESTIGATE"] = "pending" /\ ~HasBatches
      BY <1>0, <2>3 DEF InvestigateTells
    <3>2. CASE worker' = worker /\ (result' = "none" => state' = "SYNTHESIZE")
      <4>1. stageRow'["INVESTIGATE"] = "pending" /\ ~HasBatches'
        BY <2>1, <2>3, <3>1, <3>2 DEF Walks, HasBatches
      <4> QED BY <3>2, <4>1 DEF InvestigateTells
    <3>3. CASE HasBatches' /\ (result' = "none" => state' = "INVESTIGATE")
      <4>0. worker' # worker
        BY <3>1, <3>3 DEF HasBatches
      <4>1. result' = "none" /\ state' = "INVESTIGATE" /\ stageRow'["INVESTIGATE"] = "running"
        BY <2>1, <2>3, <3>1, <3>3, <4>0 DEF Walks
      <4> QED BY <3>3, <4>1 DEF InvestigateTells
    <3> QED BY <2>3, <3>2, <3>3 DEF Walks
  <2>4. CASE state \notin {"FRAME", "DECOMPOSE"}
    <3>1. HasBatches /\ HasBatches' /\ status = "complete"
      BY <1>0, <2>4 DEF InvestigateTells, Walks, Stages
    <3>2. stageRow["INVESTIGATE"] = "complete" \/ state = "INVESTIGATE"
      BY <1>0, <3>1 DEF InvestigateTells
    <3>3. stageRow'["INVESTIGATE"] = "complete"
      BY <2>1, <3>1, <3>2
    <3>4. result' = "none" => state' \in Late \cup {"SYNTHESIZE"}
      BY <2>4 DEF Walks
    <3> QED BY <3>1, <3>3, <3>4 DEF InvestigateTells, Late
  <2> QED BY <2>2, <2>3, <2>4
<1>3. SkippedIsPassed'
  BY <1>0, CallDoneRows DEF SkippedIsPassed, Walks
<1> QED BY <1>1, <1>2, <1>3

\* The answer: its row is complete and the record is written.
LEMMA RowsAnswer ==
    ASSUME RecordTypeOK, RowsKept, Synthesize, CallDone("complete")
    PROVE  RowsKept'
<1>0. /\ result = "none" /\ state = "SYNTHESIZE" /\ state \in Stages
      /\ result' = "answered" /\ state' = "COMPLETE" /\ UNCHANGED <<worker, conflicts>>
      /\ RunningIsCurrent /\ InvestigateTells /\ SkippedIsPassed
  BY DEF Synthesize, Await, RowsKept, Stages, progressVars
<1>1. RunningIsCurrent'
  <2>1. "COMPLETE" \notin Stages
    BY DEF Stages
  <2>2. ASSUME NEW s \in Stages PROVE stageRow'[s] # "running"
    BY <1>0, <2>1, <2>2, CallDoneRows DEF RunningIsCurrent
  <2> QED BY <2>2 DEF RunningIsCurrent
<1>2. InvestigateTells'
  <2>1. stageRow'["INVESTIGATE"] = stageRow["INVESTIGATE"]
    BY <1>0, CallDoneRows
  <2> QED BY <1>0, <2>1 DEF InvestigateTells, HasBatches
<1>3. SkippedIsPassed'
  BY <1>0, CallDoneRows DEF SkippedIsPassed
<1> QED BY <1>1, <1>2, <1>3 DEF RowsKept

\* A worker, a flag or the clock moves no row.
LEMMA RowsStay ==
    ASSUME RowsKept, UNCHANGED stageRow, UNCHANGED <<state, result, conflicts>>,
           HasBatches' = HasBatches
    PROVE  RowsKept'
BY DEF RowsKept, RunningIsCurrent, InvestigateTells, SkippedIsPassed

LEMMA WorkerBatches == ASSUME IInv, NEW w \in Workers, Worker(w) PROVE HasBatches' = HasBatches
<1>1. PICK pc \in WorkerPcs \ {"none"} : WorkerGoes(w, pc)
  BY DEF Worker, WorkerStarts, WorkerStopped, WorkerSucceeds, WorkerFails, WorkerPcs, Running, Settled
<1>2. worker[w] # "none" /\ worker'[w] # "none"
  BY <1>1 DEF Worker, Batch, WorkerGoes, IInv, TypeOK
<1> QED BY <1>2 DEF HasBatches

-----------------------------------------------------------------------------
(* The inductive invariant of rows, files and record.                      *)

LEMMA RecordInvInit == RecordInit => RecordInv
<1> SUFFICES ASSUME RecordInit PROVE RecordInv
  OBVIOUS
<1>1. RecordTypeOK
  BY DEF RecordInit, RecordTypeOK, NoRecord
<1>2. FiledAreThere /\ RecordHoldsResults
  BY DEF RecordInit, FiledAreThere, RecordHoldsResults, NoRecord
<1>3. ~HasBatches /\ state = "FRAME" /\ result = "none"
  BY DEF RecordInit, Init, HasBatches
<1>4. RowsKept
  BY <1>3 DEF RecordInit, RowsKept, RunningIsCurrent, InvestigateTells, SkippedIsPassed, Stages
<1> QED BY <1>1, <1>2, <1>4 DEF RecordInv

\* The steps that keep files and record.
LEMMA NothingRecorded ==
    ASSUME RecordInv, result = "none", result' # "answered", UNCHANGED record, filed' \subseteq files'
    PROVE  FiledAreThere' /\ RecordHoldsResults'
BY DEF RecordInv, FiledAreThere, RecordHoldsResults

LEMMA CoordinatorRecords == ASSUME IInv, IInv', RecordInv, RecordCoordinator PROVE RecordInv'
<1>0. result' \in {"none", "answered", "cancelled", "failed"} /\ RecordTypeOK /\ RowsKept /\ FiledAreThere
  BY DEF IInv, TypeOK, RecordInv
<1>1. ASSUME Walks, NEW status \in {"complete", "failed"}, CallDone(status),
             status = "complete" \/ state = "DECOMPOSE",
             UNCHANGED record, filed' \subseteq files', files' \subseteq Workers
      PROVE  RecordInv'
  <2>1. RowsKept'
    BY <1>0, <1>1, RowsWalk DEF Walks
  <2>2. RecordTypeOK'
    BY <1>0, <1>1, CallDoneRows DEF RecordTypeOK, Walks
  <2>3. FiledAreThere' /\ RecordHoldsResults'
    BY <1>1, NothingRecorded DEF Walks
  <2> QED BY <2>1, <2>2, <2>3 DEF RecordInv
<1>2. filed \subseteq files /\ files \subseteq Workers
  BY <1>0 DEF FiledAreThere, RecordTypeOK
<1>3. CASE Frame /\ CallDone("complete") /\ UNCHANGED <<filed, files, record>>
  BY <1>1, <1>2, <1>3, CoordinatorWalks
<1>4. ASSUME NEW n \in 0 .. preset.subproblems, Decompose(n),
             CallDone(IF n = 0 THEN "failed" ELSE "complete"), UNCHANGED <<filed, files, record>>
      PROVE  RecordInv'
  <2>1. Walks /\ state = "DECOMPOSE"
    BY <1>4, CoordinatorWalks DEF Decompose, Await
  <2> QED BY <1>1, <1>2, <1>4, <2>1
<1>5. CASE BatchEnds /\ CallDone("complete") /\ BatchPersisted /\ UNCHANGED record
  <2>1. filed' \subseteq files' /\ files' \subseteq Workers
    BY <1>2, <1>5 DEF BatchPersisted, Batch
  <2> QED BY <1>1, <1>5, <2>1, CoordinatorWalks
<1>6. CASE /\ \/ \E n \in 0 .. MaxFollowUps, c \in BOOLEAN : Review(n, c)
              \/ \E n \in 0 .. MaxFollowUps : Critique(n)
              \/ \E n \in 0 .. MaxFollowUps : Resolve(n)
           /\ CallDone("complete")
           /\ UNCHANGED <<filed, files, record>>
  BY <1>1, <1>2, <1>6, CoordinatorWalks
<1>7. CASE Synthesize /\ CallDone("complete") /\ RecordWritten /\ UNCHANGED <<filed, files>>
  <2>1. RowsKept'
    BY <1>0, <1>7, RowsAnswer
  <2>2. PICK written \in {{}, {"decision"}, {"decision", "evidence"}} :
            record' = [written |-> written,
                       inline |-> {w \in Workers : worker[w] = "complete"} \ filed,
                       named |-> filed]
    BY <1>7 DEF RecordWritten
  <2>3. /\ record'.written = written /\ record'.named = filed
        /\ record'.inline = {w \in Workers : worker[w] = "complete"} \ filed
    BY <2>2
  <2>4. RecordTypeOK'
    <3>1. state \in Stages
      BY <1>7 DEF Synthesize, Await, Stages
    <3>2. stageRow' \in [Stages -> {"pending", "running", "complete", "failed", "skipped"}]
      BY <1>0, <1>7, <3>1, CallDoneRows
    <3> QED BY <1>2, <1>7, <2>3, <3>2 DEF RecordTypeOK
  <2>5. FiledAreThere' /\ RecordHoldsResults'
    BY <1>2, <1>7, <2>3 DEF FiledAreThere, RecordHoldsResults, Synthesize
  <2> QED BY <2>1, <2>4, <2>5 DEF RecordInv
<1>8. CASE RoleRaises /\ UNCHANGED recordVars
  <2>1. result = "none" /\ result' = "failed"
    BY <1>8 DEF RoleRaises, Await, Fail
  <2>2. FiledAreThere' /\ RecordHoldsResults'
    BY <1>2, <1>8, <2>1, NothingRecorded DEF recordVars
  <2> QED BY <1>0, <1>8, <2>1, <2>2 DEF recordVars, RecordInv, RecordTypeOK, RowsKept
<1> QED BY <1>3, <1>4, <1>5, <1>6, <1>7, <1>8 DEF RecordCoordinator

LEMMA RecordInvStep == IInv /\ RecordInv /\ [RecordNext]_allVars => RecordInv'
<1> SUFFICES ASSUME IInv, RecordInv, [RecordNext]_allVars PROVE RecordInv'
  OBVIOUS
<1>0. IInv'
  BY InvStep, RecordStepIsStep
<1>1. CASE RecordCoordinator
  BY <1>0, <1>1, CoordinatorRecords
<1>2. ASSUME NEW w \in Workers, Worker(w), UNCHANGED recordVars PROVE RecordInv'
  <2>1. result = "none" /\ UNCHANGED <<state, result, conflicts>>
    BY <1>2 DEF Worker, Await, WorkerStarts, WorkerStopped, WorkerSucceeds, WorkerFails, WorkerGoes, progressVars
  <2>2. RowsKept'
    BY <1>2, <2>1, RowsStay, WorkerBatches DEF RecordInv, recordVars
  <2>3. FiledAreThere' /\ RecordHoldsResults'
    BY <1>2, <2>1, NothingRecorded DEF RecordInv, FiledAreThere, recordVars
  <2> QED BY <1>2, <2>2, <2>3 DEF RecordInv, RecordTypeOK, recordVars
<1>3. CASE (Cancel \/ SynthesizeNow \/ BudgetTrips \/ UNCHANGED vars) /\ UNCHANGED recordVars
  <2>1. UNCHANGED <<state, result, conflicts, worker>>
    BY <1>3 DEF Cancel, SynthesizeNow, BudgetTrips, vars, progressVars
  <2>2. RowsKept'
    BY <1>3, <2>1, RowsStay DEF RecordInv, recordVars, HasBatches
  <2> QED BY <1>3, <2>1, <2>2 DEF RecordInv, RecordTypeOK, FiledAreThere, RecordHoldsResults, recordVars
<1> QED BY <1>1, <1>2, <1>3 DEF RecordNext, allVars

\* Rows, files and the decision record agree with the run (StepTracker,
\* persist_worker_outputs and persist_decision_record of coordinator.py), however far it
\* came and whichever writes failed: a written record holds every result, inline or in a
\* file that is there, and no row of a run that is over is left running.
THEOREM RecordAlwaysOK == RecordSpec => []RecordOK
<1>1. RecordInit => IInv /\ RecordInv
  BY TypeInit, KeptInit, RecordInvInit DEF RecordInit, IInv
<1>2. IInv /\ RecordInv /\ [RecordNext]_allVars => IInv' /\ RecordInv'
  BY InvStep, RecordStepIsStep, RecordInvStep
<1>3. IInv /\ RecordInv => RecordOK
  <2> SUFFICES ASSUME IInv, RecordInv PROVE RowsSettle
    BY DEF IInv, RecordInv, RecordOK
  <2> QED
    BY DEF RecordInv, RowsKept, RunningIsCurrent, InvestigateTells, SkippedIsPassed, RowsSettle, HasBatches
<1> QED BY <1>1, <1>2, <1>3, PTL DEF RecordSpec
=============================================================================
