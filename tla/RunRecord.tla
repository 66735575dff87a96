----------------------------- MODULE RunRecord -----------------------------
(***************************************************************************)
(* What a max-mode run shows and leaves behind: the rows of its stages     *)
(* (StepTracker), the files of large worker results and the decision       *)
(* record under app-data/runs/ct_<run_id> (coordinator.py).  Every step is *)
(* a step of Orchestration with what it does to rows and files.            *)
(*                                                                         *)
(* The row of a subproblem is a function of the worker's status            *)
(* (on_worker_status) and needs no variable.  Bound: BigResults.           *)
(***************************************************************************)
EXTENDS Orchestration

CONSTANTS
    BigResults    \* bound: places in a batch whose results exceed 8 KB

VARIABLES
    stageRow,     \* status of each stage's row
    filed,        \* workers whose output_path is set
    files,        \* worker files on the disk
    record        \* what decision.json and evidence.json hold

recordVars == <<stageRow, filed, files, record>>
allVars == <<vars, recordVars>>

Stages == {"FRAME", "DECOMPOSE", "INVESTIGATE", "REVIEW", "CRITIQUE", "RESOLVE", "SYNTHESIZE"}
NoRecord == [written |-> {}, inline |-> {}, named |-> {}]

\* FRAME was entered before the first call
RecordInit ==
    /\ Init
    /\ stageRow = [s \in Stages |-> IF s = "FRAME" THEN "running" ELSE "pending"]
    /\ filed = {}
    /\ files = {}
    /\ record = NoRecord

\* enter(): only a pending row becomes running, so INVESTIGATE says complete through
\* every loop-back
Entered(rows) ==
    IF state' \in Stages \ {state} /\ rows[state'] = "pending"
    THEN [rows EXCEPT ![state'] = "running"] ELSE rows

\* the code that is passed on the way to the synthesis without conflicts
Skipped(rows) ==
    IF ~conflicts' /\ (state' = "SYNTHESIZE" \/ result' = "cancelled")
    THEN [rows EXCEPT !["RESOLVE"] = "skipped"] ELSE rows

\* complete(), then the transition to the next stage
CallDone(status) == stageRow' = Entered(Skipped([stageRow EXCEPT ![state] = status]))

\* Mutant: the path is set although the write failed.
BatchPersistedBlindly ==
    \E saved \in SUBSET {w \in Batch : worker[w] = "complete" /\ w[2] \in BigResults} :
        /\ files' = files \cup saved
        /\ filed' = filed \cup {w \in Batch : worker[w] = "complete" /\ w[2] \in BigResults}
\* persist_worker_outputs(): a path is set only when the file is there
BatchPersisted ==
    \E saved \in SUBSET {w \in Batch : worker[w] = "complete" /\ w[2] \in BigResults} :
        files' = files \cup saved /\ filed' = filed \cup saved

\* persist_decision_record(): two files, and the disk may refuse either
RecordWritten ==
    \E written \in {{}, {"decision"}, {"decision", "evidence"}} :
        record' = [written |-> written,
                   inline |-> {w \in Workers : worker[w] = "complete"} \ filed,
                   named |-> filed]

RecordCoordinator ==
    \/ Frame /\ CallDone("complete") /\ UNCHANGED <<filed, files, record>>
    \/ \E n \in 0 .. preset.subproblems :
        /\ Decompose(n)
        /\ CallDone(IF n = 0 THEN "failed" ELSE "complete")
        /\ UNCHANGED <<filed, files, record>>
    \/ BatchEnds /\ CallDone("complete") /\ BatchPersisted /\ UNCHANGED record
    \/ /\ \/ \E n \in 0 .. MaxFollowUps, c \in BOOLEAN : Review(n, c)
          \/ \E n \in 0 .. MaxFollowUps : Critique(n)
          \/ \E n \in 0 .. MaxFollowUps : Resolve(n)
       /\ CallDone("complete")
       /\ UNCHANGED <<filed, files, record>>
    \/ Synthesize /\ CallDone("complete") /\ RecordWritten /\ UNCHANGED <<filed, files>>
    \/ RoleRaises /\ UNCHANGED recordVars

RecordNext ==
    \/ RecordCoordinator
    \/ /\ \/ \E w \in Workers : Worker(w)
          \/ Cancel \/ SynthesizeNow \/ BudgetTrips
       /\ UNCHANGED recordVars

RecordSpec == RecordInit /\ [][RecordNext]_allVars

\* as in Orchestration
FairRecordSpec ==
    /\ RecordSpec
    /\ WF_allVars(RecordCoordinator)
    /\ \A w \in Workers : WF_allVars(Worker(w) /\ UNCHANGED recordVars)

-----------------------------------------------------------------------------
(* Properties.                                                             *)

RecordTypeOK ==
    /\ stageRow \in [Stages -> {"pending", "running", "complete", "failed", "skipped"}]
    /\ filed \subseteq Workers /\ files \subseteq Workers
    /\ record.written \subseteq {"decision", "evidence"}

\* A decision record that was written holds the result of every worker that has one,
\* inline or in a file that is there, although every write of the run may have failed
\* (persist_worker_outputs, persist_decision_record).
RecordHoldsResults ==
    "decision" \in record.written =>
        /\ record.named \subseteq files
        /\ {w \in Workers : worker[w] = "complete"} \subseteq record.inline \cup files

\* A run that was answered or cancelled leaves no row running, and the rows tell which
\* stages it went through: no worker has run unless INVESTIGATE is complete, and conflicts
\* are not passed over as skipped.
RowsSettle ==
    result \in {"answered", "cancelled"} =>
        /\ \A s \in Stages : stageRow[s] # "running"
        /\ (stageRow["INVESTIGATE"] = "complete") = (\E w \in Workers : worker[w] # "none")
        /\ conflicts => stageRow["RESOLVE"] # "skipped"

\* Rows, files and the record agree with the run, whose loop-backs keep to their cap.
RecordOK == TypeOK /\ RecordTypeOK /\ RecordHoldsResults /\ RowsSettle
=============================================================================
