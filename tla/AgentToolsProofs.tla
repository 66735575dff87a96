-------------------------- MODULE AgentToolsProofs --------------------------
(***************************************************************************)
(* What holds of the models that MCAgentTools composes, for every number   *)
(* of callers, rows, names, contents, runs and workers: however calls      *)
(* overlap, fail and die.  One section per model; the invariant of a       *)
(* section says what makes the writes of a call harmless however late they *)
(* come, or which of them may go wrong and how that is known.              *)
(***************************************************************************)
EXTENDS TodoPlans, Artifacts, MaxWorkers, ToolProcesses, GoalContracts, SkillStore, Listings, RunStream, WorkFiles,
        GitTools, Knowledge, Memories, Roles, WellFoundedInduction,
        SequenceTheorems, FiniteSetTheorems, TLAPS

-----------------------------------------------------------------------------
(* Workers.                                                                *)

\* An agent does something only within an attempt.
BusyInAttempt == \A w \in Subproblems : doing[w] # "nothing" => pace[w] \in Attempts

BatchInv == BatchTypeOK /\ BusyInAttempt

LEMMA BatchInitInv == BatchInit => BatchInv
<1> SUFFICES ASSUME BatchInit PROVE BatchInv
  OBVIOUS
<1>1. 0 \in 0 .. MaxToolCalls
  BY BatchAssumption
<1>2. cancelEvent \in BOOLEAN /\ nowEvent \in BOOLEAN /\ denying \in BOOLEAN
  BY DEF BatchInit
<1> QED
  BY <1>1, <1>2 DEF BatchInit, BatchInv, BatchTypeOK, BusyInAttempt, Attempts, Ended

LEMMA AttemptingInv ==
    ASSUME BatchInv, NEW w \in Subproblems, NEW n \in Attempts, Attempting(w, n),
           UNCHANGED <<onUi, told, userVars>>
    PROVE  BatchInv'
BY BatchAssumption
   DEF BatchInv, BatchTypeOK, BusyInAttempt, Attempting, Attempts, Ended, userVars

LEMMA SettleInv ==
    ASSUME BatchInv, NEW w \in Subproblems, NEW outcome \in Ended, Settle(w, outcome),
           UNCHANGED <<onUi, told, userVars>>
    PROVE  BatchInv'
BY DEF BatchInv, BatchTypeOK, BusyInAttempt, Settle, Attempts, Ended, userVars

LEMMA WorkerMovesInv ==
    ASSUME BatchInv, NEW w \in Subproblems, WorkerMoves(w)
    PROVE  BatchInv'
<1> USE DEF BatchInv
<1>1. CASE RunWorker(w)
  BY <1>1, AttemptingInv DEF RunWorker, Attempts
<1>2. CASE WorkerIsStopped(w)
  BY <1>2, SettleInv DEF WorkerIsStopped, Ended
<1>3. CASE CallsTool(w)
  BY <1>3, BatchAssumption DEF CallsTool, BatchTypeOK, BusyInAttempt, userVars
<1>4. CASE ToolReturns(w)
  BY <1>4 DEF ToolReturns, BatchTypeOK, BusyInAttempt, userVars
<1>5. CASE AsksUser(w)
  BY <1>5 DEF AsksUser, BatchTypeOK, BusyInAttempt, userVars
<1>6. CASE Registers(w)
  BY <1>6 DEF Registers, BatchTypeOK, BusyInAttempt, userVars
<1>7. CASE IsTold(w)
  BY <1>7 DEF IsTold, BatchTypeOK, BusyInAttempt, userVars
<1>8. CASE Answers(w)
  BY <1>8, SettleInv DEF Answers, Ended
<1>9. CASE Reasks(w)
  BY <1>9 DEF Reasks, BatchTypeOK, BusyInAttempt, userVars
<1>10. CASE AttemptFails(w)
  BY <1>10, AttemptingInv, SettleInv DEF AttemptFails, Attempts, Ended
<1> QED
  BY <1>1, <1>2, <1>3, <1>4, <1>5, <1>6, <1>7, <1>8, <1>9, <1>10 DEF WorkerMoves

LEMMA BatchStepInv == BatchInv /\ [BatchNext]_batchVars => BatchInv'
<1> SUFFICES ASSUME BatchInv, [BatchNext]_batchVars PROVE BatchInv'
  OBVIOUS
<1> USE DEF BatchInv, BatchTypeOK, BusyInAttempt
<1>1. CASE \E w \in Subproblems : WorkerMoves(w)
  BY <1>1, WorkerMovesInv
<1>2. CASE \E w \in Subproblems : UserDecides(w)
  BY <1>2 DEF UserDecides, userVars
<1>3. CASE CancelSet
  BY <1>3 DEF CancelSet
<1>4. CASE DenyPrompts
  BY <1>4 DEF DenyPrompts
<1>5. CASE NowSet
  BY <1>5 DEF NowSet
<1>6. CASE UNCHANGED batchVars
  BY <1>6 DEF batchVars
<1> QED BY <1>1, <1>2, <1>3, <1>4, <1>5, <1>6 DEF BatchNext

\* The workers of a batch keep their types, and an agent is at work only in an attempt.
THEOREM BatchTyped == BatchSpec => []BatchInv
BY BatchInitInv, BatchStepInv, PTL DEF BatchSpec

-----------------------------------------------------------------------------
(* The workers of Orchestration.                                           *)

\* The batch of Orchestration is the one of this module.
LEMMA BatchesAgree ==
    ASSUME BatchInv
    PROVE  Coarse!Batch = {0} \X Subproblems
<1>1. Coarse!Workers = {0} \X Subproblems
  BY BatchAssumption DEF Coarse!Workers, Depth, Subproblems
<1> QED
  BY <1>1 DEF Coarse!Batch, Attempts, BatchInv, BatchTypeOK, Ended

\* A place in the semaphore of this module is one of Orchestration's.
LEMMA SlotsAgree ==
    ASSUME BatchInv
    PROVE  Coarse!SlotsTaken = Cardinality({v \in Subproblems : pace[v] \in Attempts})
<1> DEFINE S == {v \in Subproblems : pace[v] \in Attempts}
           T == {w \in Coarse!Batch : [x \in {0} \X Subproblems |-> pace[x[2]]][w]
                                         \in Coarse!Running}
           f == [v \in S |-> <<0, v>>]
<1>1. IsFiniteSet(S)
  <2>1. IsFiniteSet(1 .. BatchSize)
    BY BatchAssumption, FS_Interval
  <2> QED BY <2>1, FS_Subset DEF Subproblems
<1>2. T = {<<0, v>> : v \in S}
  BY BatchesAgree DEF Coarse!Running, Attempts
<1>3. f \in Bijection(S, T)
  <2>1. f \in Injection(S, T)
    BY <1>2 DEF Injection, IsInjective
  <2>2. f \in Surjection(S, T)
    BY <1>2 DEF Surjection
  <2> QED BY <2>1, <2>2 DEF Bijection
<1>4. Cardinality(T) = Cardinality(S)
  BY <1>1, <1>3, FS_Bijection DEF ExistsBijection
<1>5. Coarse!Cardinality(T) = Cardinality(T)
  BY DEF Coarse!Cardinality, Cardinality
<1> QED BY <1>4, <1>5 DEF Coarse!SlotsTaken

\* What becomes of a worker here becomes of it there.
LEMMA WorkersMoveTogether ==
    ASSUME BatchInv, NEW w \in Subproblems, NEW pc, pace' = [pace EXCEPT ![w] = pc],
           UNCHANGED <<cancelEvent, nowEvent>>
    PROVE  Coarse!WorkerGoes(<<0, w>>, pc)
<1>1. [v \in {0} \X Subproblems |-> pace[v[2]]]'
        = [[v \in {0} \X Subproblems |-> pace[v[2]]] EXCEPT ![<<0, w>>] = pc]
  <2>1. \A v \in Subproblems : pace'[v] = IF v = w THEN pc ELSE pace[v]
    BY DEF BatchInv, BatchTypeOK
  <2>2. \A v \in {0} \X Subproblems : pace'[v[2]] = IF v = <<0, w>> THEN pc ELSE pace[v[2]]
    BY <2>1
  <2> QED BY <2>2
<1> QED
  BY <1>1 DEF Coarse!WorkerGoes, Coarse!progressVars, Coarse!answerVars, Coarse!controlVars

\* A worker's move is one of Orchestration's workers, or inside an attempt.
LEMMA WorkerMovesRefine ==
    ASSUME BatchInv, NEW w \in Subproblems, WorkerMoves(w)
    PROVE  Coarse!Worker(<<0, w>>) \/ UNCHANGED <<pace, cancelEvent, nowEvent>>
<1> DEFINE x == <<0, w>>
           coarse == [v \in {0} \X Subproblems |-> pace[v[2]]]
<1>1. /\ Coarse!Await("INVESTIGATE")
      /\ x \in Coarse!Batch
      /\ coarse[x] = pace[w]
  BY BatchesAgree DEF Coarse!Await
<1>2. Coarse!Stopping = Stopped
  BY DEF Coarse!Stopping, Stopped
<1>3. UNCHANGED <<cancelEvent, nowEvent>>
  BY DEF WorkerMoves, RunWorker, WorkerIsStopped, CallsTool, ToolReturns, AsksUser, Registers,
         IsTold, Answers, Reasks, AttemptFails, userVars
<1>4. doing[w] \in {"model", "tool"} => pace[w] \in Attempts
  BY DEF BatchInv, BusyInAttempt
<1>5. CASE RunWorker(w)
  <2>1. Coarse!SlotsTaken < Depth.parallel
    BY <1>5, SlotsAgree DEF RunWorker, Depth
  <2>2. \A v \in Coarse!Batch : v[2] < x[2] => coarse[v] # "queued"
    BY <1>5, BatchesAgree DEF RunWorker
  <2>3. Coarse!WorkerGoes(x, IF Coarse!Stopping THEN "cancelled" ELSE "first")
    <3>1. PICK pc : pc = IF Coarse!Stopping THEN "cancelled" ELSE "first"
      OBVIOUS
    <3>2. pace' = [pace EXCEPT ![w] = pc]
      BY <1>5, <3>1 DEF RunWorker, Attempting, Stopped, Coarse!Stopping
    <3>3. Coarse!WorkerGoes(x, pc)
      BY <1>3, <3>2, WorkersMoveTogether
    <3> QED BY <3>1, <3>3 DEF Coarse!WorkerGoes
  <2>4. Coarse!WorkerStarts(x)
    <3>1. coarse[x] = "queued"
      BY <1>1, <1>5 DEF RunWorker
    <3> QED BY <2>1, <2>2, <2>3, <3>1 DEF Coarse!WorkerStarts
  <2> QED BY <1>1, <2>4 DEF Coarse!Worker
<1>6. CASE WorkerIsStopped(w)
  <2>1. Coarse!WorkerGoes(x, "cancelled")
    BY <1>3, <1>6, WorkersMoveTogether DEF WorkerIsStopped, Settle
  <2>2. Coarse!WorkerStopped(x)
    BY <1>1, <1>2, <1>4, <1>6, <2>1
       DEF Coarse!WorkerStopped, Coarse!Running, WorkerIsStopped, Attempts
  <2> QED BY <1>1, <2>2 DEF Coarse!Worker
<1>7. CASE Answers(w)
  <2>1. Coarse!WorkerGoes(x, "complete")
    BY <1>3, <1>7, WorkersMoveTogether DEF Answers, Settle
  <2>2. Coarse!WorkerSucceeds(x)
    BY <1>1, <1>4, <1>7, <2>1 DEF Coarse!WorkerSucceeds, Coarse!Running, Answers, Attempts
  <2> QED BY <1>1, <2>2 DEF Coarse!Worker
<1>8. CASE AttemptFails(w) /\ pace[w] = "first"
  <2>1. Coarse!WorkerGoes(x, IF Coarse!Stopping THEN "cancelled" ELSE "second")
    <3>1. PICK pc : pc = IF Coarse!Stopping THEN "cancelled" ELSE "second"
      OBVIOUS
    <3>2. pace' = [pace EXCEPT ![w] = pc]
      BY <1>8, <3>1 DEF AttemptFails, Attempting, Stopped, Coarse!Stopping
    <3>3. Coarse!WorkerGoes(x, pc)
      BY <1>3, <3>2, WorkersMoveTogether
    <3> QED BY <3>1, <3>3 DEF Coarse!WorkerGoes
  <2>2. Coarse!WorkerFails(x)
    <3>1. coarse[x] = "first"
      BY <1>1, <1>8
    <3> QED BY <2>1, <3>1 DEF Coarse!WorkerFails
  <2> QED BY <1>1, <2>2 DEF Coarse!Worker
<1>9. CASE AttemptFails(w) /\ pace[w] # "first"
  <2>1. Coarse!WorkerGoes(x, "failed")
    BY <1>3, <1>9, WorkersMoveTogether DEF AttemptFails, Settle
  <2>2. pace[w] = "second"
    BY <1>4, <1>9 DEF AttemptFails, Attempts
  <2>3. Coarse!WorkerFails(x)
    BY <1>1, <2>1, <2>2 DEF Coarse!WorkerFails
  <2> QED BY <1>1, <2>3 DEF Coarse!Worker
<1>10. CASE CallsTool(w) \/ ToolReturns(w) \/ AsksUser(w) \/ Registers(w) \/ IsTold(w) \/ Reasks(w)
  BY <1>3, <1>10 DEF CallsTool, ToolReturns, AsksUser, Registers, IsTold, Reasks
<1> QED
  BY <1>5, <1>6, <1>7, <1>8, <1>9, <1>10 DEF WorkerMoves

LEMMA CancelsRefine == ASSUME CancelSet PROVE Coarse!Cancel
BY DEF CancelSet, Coarse!Cancel, Coarse!progressVars, Coarse!answerVars, Depth

LEMMA NowRefines == ASSUME NowSet PROVE Coarse!SynthesizeNow
BY DEF NowSet, Coarse!SynthesizeNow, Coarse!progressVars, Coarse!answerVars, Depth

\* For every size of a batch, any number of parallel workers and of tool calls: each step
\* of the detailed workers is a step of Orchestration's workers, or hidden in an attempt.
THEOREM AttemptsAlwaysCoarse == BatchSpec => AttemptsAreCoarseSteps
<1>1. BatchInv /\ [BatchNext]_batchVars =>
        [\/ \E w \in {0} \X Subproblems : Coarse!Worker(w)
         \/ Coarse!Cancel
         \/ Coarse!SynthesizeNow]_<<pace, cancelEvent, nowEvent>>
  <2> SUFFICES ASSUME BatchInv, [BatchNext]_batchVars
               PROVE  \/ \E w \in {0} \X Subproblems : Coarse!Worker(w)
                      \/ Coarse!Cancel
                      \/ Coarse!SynthesizeNow
                      \/ UNCHANGED <<pace, cancelEvent, nowEvent>>
    OBVIOUS
  <2>1. CASE \E w \in Subproblems : WorkerMoves(w)
    <3>1. PICK w \in Subproblems : WorkerMoves(w)
      BY <2>1
    <3>2. <<0, w>> \in {0} \X Subproblems
      OBVIOUS
    <3> QED BY <3>1, <3>2, WorkerMovesRefine
  <2>2. CASE (\E w \in Subproblems : UserDecides(w)) \/ DenyPrompts
    BY <2>2 DEF UserDecides, DenyPrompts, userVars
  <2>3. CASE CancelSet
    BY <2>3, CancelsRefine
  <2>4. CASE NowSet
    BY <2>4, NowRefines
  <2>5. CASE UNCHANGED batchVars
    BY <2>5 DEF batchVars
  <2> QED BY <2>1, <2>2, <2>3, <2>4, <2>5 DEF BatchNext
<1> QED
  BY <1>1, BatchTyped, PTL DEF BatchSpec, AttemptsAreCoarseSteps

-----------------------------------------------------------------------------
(* Artifacts.                                                              *)

\* What a call may be about to write: a blob that is stored stays stored, and what is
\* named is there, since no row is ever removed.
ArtifactCallOK(call) ==
    \/ /\ call \in [op : {"create", "import"}, blob : Blobs, stored : BOOLEAN]
       /\ call.stored => call.blob \in blobs
    \/ call \in [op : {"attach", "delete"}, at : Artifacts]
    \/ call \in [op : {"remove"}, at : Attachments]

ArtifactCallsOK ==
    /\ DOMAIN artifactCall = Callers
    /\ \A c \in Callers : artifactCall[c] # Idle => ArtifactCallOK(artifactCall[c])

LinksHold == \A t \in Attachments : attachment[t].of \in Artifacts

ArtifactsInv == ArtifactsOK /\ ArtifactCallsOK /\ LinksHold

LEMMA ArtifactsInitInv == ArtifactsInit => ArtifactsInv
BY AbsentIsNoRow
   DEF ArtifactsInit, ArtifactsInv, ArtifactsOK, ArtifactsTypeOK, StoreIsWhole, ArtifactCallsOK,
       LinksHold, Artifacts, LiveArtifacts, Attachments, LiveAttachments

\* A call that ends leaves the others as they were.
LEMMA CallsStayOK ==
    ASSUME ArtifactCallsOK, NEW c \in Callers,
           artifactCall' = [artifactCall EXCEPT ![c] = Idle],
           blobs \subseteq blobs', Artifacts \subseteq Artifacts',
           Attachments \subseteq Attachments'
    PROVE  ArtifactCallsOK'
BY DEF ArtifactCallsOK, ArtifactCallOK

\* A call that begins is one of the three kinds.
LEMMA BeginArtifactInv ==
    ASSUME ArtifactsInv, NEW c \in Callers, NEW call, ArtifactCallOK(call),
           BeginArtifact(c, call)
    PROVE  ArtifactsInv'
<1>1. UNCHANGED <<Artifacts, LiveArtifacts, Attachments, LiveAttachments>>
  BY DEF BeginArtifact, Artifacts, LiveArtifacts, Attachments, LiveAttachments
<1>2. ArtifactCallsOK'
  BY <1>1 DEF BeginArtifact, ArtifactsInv, ArtifactCallsOK, ArtifactCallOK
<1>3. ArtifactsOK' /\ LinksHold'
  BY <1>1 DEF BeginArtifact, ArtifactsInv, ArtifactsOK, ArtifactsTypeOK, StoreIsWhole, LinksHold,
              Readable
<1> QED BY <1>2, <1>3 DEF ArtifactsInv

\* A new row is no missing one.
LEMMA NewRows ==
    /\ \A b \in Blobs, by \in {"agent", "attachments"} :
          NewArtifact(b, by) \in ArtifactRows /\ NewArtifact(b, by) # Absent
    /\ \A a \in ArtifactKeys :
          NewAttachment(a) \in AttachmentRows /\ NewAttachment(a) # Absent
<1>1. \A b \in Blobs, by \in {"agent", "attachments"} : NewArtifact(b, by) \in ArtifactRows
  BY DEF NewArtifact, ArtifactRows
<1>2. \A a \in ArtifactKeys : NewAttachment(a) \in AttachmentRows
  BY DEF NewAttachment, AttachmentRows
<1> QED BY <1>1, <1>2, AbsentIsNoRow

\* A new artifact is stored, and attached when it is an import.
LEMMA NewArtifactInv ==
    ASSUME ArtifactsInv, NEW a \in ArtifactKeys \ Artifacts, NEW b \in blobs,
           NEW by \in {"agent", "attachments"},
           artifact' = [artifact EXCEPT ![a] = NewArtifact(b, by)], UNCHANGED blobs,
           \/ by = "agent" /\ UNCHANGED attachment
           \/ \E t \in ArtifactKeys \ Attachments :
                  attachment' = [attachment EXCEPT ![t] = NewAttachment(a)]
    PROVE  /\ ArtifactsOK' /\ LinksHold'
           /\ Artifacts \subseteq Artifacts' /\ Attachments \subseteq Attachments'
<1> USE DEF ArtifactsInv, ArtifactsOK, ArtifactsTypeOK, Artifacts, Attachments
<1>1. NewArtifact(b, by) \in ArtifactRows /\ NewArtifact(b, by) # Absent
  BY NewRows
<1>2. NewAttachment(a) \in AttachmentRows /\ NewAttachment(a) # Absent
  BY NewRows
<1>3. ArtifactsTypeOK' /\ Artifacts' = Artifacts \cup {a} /\ Attachments \subseteq Attachments'
  BY <1>1, <1>2
<1>4. \A t \in Attachments' : \/ attachment'[t].of = a
                              \/ t \in Attachments /\ attachment'[t] = attachment[t]
  BY <1>2 DEF NewAttachment
<1>5. LinksHold'
  BY <1>3, <1>4 DEF LinksHold
<1>6. \A k \in Artifacts' : artifact'[k].blob \in blobs'
  BY <1>1, <1>3 DEF NewArtifact, StoreIsWhole
<1>7. \A k \in Artifacts' : artifact'[k].by = "attachments" =>
          \E t \in Attachments' : attachment'[t].of = k
  <2> SUFFICES ASSUME NEW k \in Artifacts', artifact'[k].by = "attachments"
               PROVE  \E t \in Attachments' : attachment'[t].of = k
    OBVIOUS
  <2>1. CASE k = a
    <3>1. by = "attachments"
      BY <2>1 DEF NewArtifact
    <3>2. PICK t \in ArtifactKeys \ Attachments :
              attachment' = [attachment EXCEPT ![t] = NewAttachment(a)]
      BY <3>1
    <3> QED BY <1>2, <2>1, <3>2 DEF NewAttachment
  <2>2. CASE k # a
    <3>1. k \in Artifacts /\ artifact'[k] = artifact[k]
      BY <1>3, <2>2
    <3>2. PICK t \in Attachments : attachment[t].of = k
      BY <3>1 DEF StoreIsWhole
    <3> QED BY <1>2, <3>2
  <2> QED BY <2>1, <2>2
<1>8. StoreIsWhole'
  BY <1>6, <1>7 DEF StoreIsWhole, Readable, LiveArtifacts, LiveAttachments
<1> QED BY <1>3, <1>5, <1>8

\* A row that is attached, deleted or removed keeps what it names.
LEMMA OldRowsInv ==
    ASSUME ArtifactsInv, UNCHANGED blobs,
           \/ /\ UNCHANGED artifact
              /\ \E t \in ArtifactKeys \ Attachments, a \in Artifacts :
                     attachment' = [attachment EXCEPT ![t] = NewAttachment(a)]
           \/ /\ UNCHANGED attachment
              /\ \E a \in Artifacts : artifact' = [artifact EXCEPT ![a].deleted = TRUE]
           \/ /\ UNCHANGED artifact
              /\ \E t \in Attachments : attachment' = [attachment EXCEPT ![t].deleted = TRUE]
    PROVE  /\ ArtifactsOK' /\ LinksHold'
           /\ Artifacts \subseteq Artifacts' /\ Attachments \subseteq Attachments'
<1> USE DEF ArtifactsInv, ArtifactsOK, ArtifactsTypeOK, Artifacts, Attachments
<1>1. ASSUME NEW t \in ArtifactKeys \ Attachments, NEW a \in Artifacts, UNCHANGED artifact,
             attachment' = [attachment EXCEPT ![t] = NewAttachment(a)]
      PROVE  /\ ArtifactsOK' /\ LinksHold'
             /\ Artifacts \subseteq Artifacts' /\ Attachments \subseteq Attachments'
  <2>1. NewAttachment(a) \in AttachmentRows /\ NewAttachment(a) # Absent
    BY NewRows
  <2>2. ArtifactsTypeOK' /\ Artifacts' = Artifacts /\ Attachments' = Attachments \cup {t}
    BY <1>1, <2>1
  <2>3. \A k \in Attachments : attachment'[k] = attachment[k]
    BY <1>1
  <2>4. LinksHold'
    BY <1>1, <2>2, <2>3 DEF LinksHold, NewAttachment
  <2>5. StoreIsWhole'
    BY <1>1, <2>2, <2>3 DEF StoreIsWhole, Readable, LiveArtifacts, LiveAttachments
  <2> QED BY <2>2, <2>4, <2>5
<1>2. ASSUME NEW a \in Artifacts, UNCHANGED attachment,
             artifact' = [artifact EXCEPT ![a].deleted = TRUE]
      PROVE  /\ ArtifactsOK' /\ LinksHold'
             /\ Artifacts \subseteq Artifacts' /\ Attachments \subseteq Attachments'
  <2>1. /\ artifact'[a] \in ArtifactRows /\ artifact'[a] # Absent
        /\ artifact'[a].blob = artifact[a].blob /\ artifact'[a].by = artifact[a].by
    BY <1>2, AbsentIsNoRow DEF ArtifactRows
  <2>2. ArtifactsTypeOK' /\ Artifacts' = Artifacts /\ Attachments' = Attachments
    BY <1>2, <2>1
  <2>3. \A k \in Artifacts : artifact'[k].blob = artifact[k].blob /\ artifact'[k].by = artifact[k].by
    BY <1>2, <2>1
  <2>4. LinksHold'
    BY <1>2, <2>2 DEF LinksHold
  <2>5. StoreIsWhole'
    BY <1>2, <2>2, <2>3 DEF StoreIsWhole, Readable, LiveArtifacts, LiveAttachments
  <2> QED BY <2>2, <2>4, <2>5
<1>3. ASSUME NEW t \in Attachments, UNCHANGED artifact,
             attachment' = [attachment EXCEPT ![t].deleted = TRUE]
      PROVE  /\ ArtifactsOK' /\ LinksHold'
             /\ Artifacts \subseteq Artifacts' /\ Attachments \subseteq Attachments'
  <2>1. /\ attachment'[t] \in AttachmentRows /\ attachment'[t] # Absent
        /\ attachment'[t].of = attachment[t].of
    BY <1>3, AbsentIsNoRow DEF AttachmentRows
  <2>2. ArtifactsTypeOK' /\ Artifacts' = Artifacts /\ Attachments' = Attachments
    BY <1>3, <2>1
  <2>3. \A k \in Attachments : attachment'[k].of = attachment[k].of
    BY <1>3, <2>1
  <2>4. LinksHold'
    BY <1>3, <2>2, <2>3 DEF LinksHold
  <2>5. StoreIsWhole'
    BY <1>3, <2>2, <2>3 DEF StoreIsWhole, Readable, LiveArtifacts, LiveAttachments
  <2> QED BY <2>2, <2>4, <2>5
<1> QED BY <1>1, <1>2, <1>3

LEMMA CommitArtifactInv ==
    ASSUME ArtifactsInv, NEW c \in Callers, CommitArtifactCall(c)
    PROVE  ArtifactsInv'
<1> DEFINE call == artifactCall[c]
<1>1. ArtifactCallOK(call)
  BY DEF CommitArtifactCall, ArtifactsInv, ArtifactCallsOK
<1>2. artifactCall' = [artifactCall EXCEPT ![c] = Idle] /\ UNCHANGED blobs
  BY DEF CommitArtifactCall
<1>3. /\ ArtifactsOK' /\ LinksHold'
      /\ Artifacts \subseteq Artifacts' /\ Attachments \subseteq Attachments'
  <2>1. CASE call.op = "create"
    <3>1. call.blob \in blobs /\ CommitCreate(c)
      BY <1>1, <2>1 DEF CommitArtifactCall, ArtifactCallOK
    <3> QED BY <1>2, <3>1, NewArtifactInv DEF CommitCreate
  <2>2. CASE call.op = "import"
    <3>1. call.blob \in blobs /\ CommitImport(c)
      BY <1>1, <2>2 DEF CommitArtifactCall, ArtifactCallOK
    <3> QED BY <1>2, <3>1, NewArtifactInv DEF CommitImport
  <2>3. CASE call.op = "attach"
    <3>1. call.at \in Artifacts /\ CommitAttach(c)
      BY <1>1, <2>3 DEF CommitArtifactCall, ArtifactCallOK
    <3> QED BY <1>2, <3>1, OldRowsInv DEF CommitAttach
  <2>4. CASE call.op = "delete"
    <3>1. call.at \in Artifacts /\ CommitSoftDelete(c)
      BY <1>1, <2>4 DEF CommitArtifactCall, ArtifactCallOK
    <3> QED BY <1>2, <3>1, OldRowsInv DEF CommitSoftDelete
  <2>5. CASE call.op = "remove"
    <3>1. call.at \in Attachments /\ CommitRemove(c)
      BY <1>1, <2>5 DEF CommitArtifactCall, ArtifactCallOK
    <3> QED BY <1>2, <3>1, OldRowsInv DEF CommitRemove
  <2> QED BY <1>1, <2>1, <2>2, <2>3, <2>4, <2>5 DEF ArtifactCallOK
<1> QED BY <1>2, <1>3, CallsStayOK DEF ArtifactsInv

LEMMA StoreBlobInv ==
    ASSUME ArtifactsInv, NEW c \in Callers, StoreBlob(c)
    PROVE  ArtifactsInv'
<1>1. UNCHANGED <<Artifacts, LiveArtifacts, Attachments, LiveAttachments>> /\ blobs \subseteq blobs'
  BY DEF StoreBlob, Artifacts, LiveArtifacts, Attachments, LiveAttachments
<1>2. artifactCall[c] \in [op : {"create", "import"}, blob : Blobs, stored : BOOLEAN]
  BY DEF StoreBlob, ArtifactsInv, ArtifactCallsOK, ArtifactCallOK
<1>3. ArtifactCallsOK'
  BY <1>1, <1>2 DEF StoreBlob, ArtifactsInv, ArtifactCallsOK, ArtifactCallOK
<1>4. ArtifactsOK' /\ LinksHold'
  BY <1>1, <1>2 DEF StoreBlob, ArtifactsInv, ArtifactsOK, ArtifactsTypeOK, StoreIsWhole, LinksHold,
                    Readable
<1> QED BY <1>3, <1>4 DEF ArtifactsInv

LEMMA ArtifactsStepInv == ArtifactsInv /\ [ArtifactsNext]_artifactVars => ArtifactsInv'
<1> SUFFICES ASSUME ArtifactsInv, [ArtifactsNext]_artifactVars PROVE ArtifactsInv'
  OBVIOUS
<1>1. ASSUME UNCHANGED <<artifact, attachment, blobs>> PROVE
          /\ ArtifactsOK' /\ LinksHold'
          /\ UNCHANGED <<Artifacts, LiveArtifacts, Attachments, LiveAttachments>>
  <2>1. UNCHANGED <<Artifacts, LiveArtifacts, Attachments, LiveAttachments>>
    BY <1>1 DEF Artifacts, LiveArtifacts, Attachments, LiveAttachments
  <2> QED BY <1>1, <2>1 DEF ArtifactsInv, ArtifactsOK, ArtifactsTypeOK, StoreIsWhole, LinksHold,
                            Readable
<1>2. CASE StoreProcessDies
  BY <1>1, <1>2 DEF StoreProcessDies, ArtifactsInv, ArtifactCallsOK
<1>3. ASSUME NEW c \in Callers, ArtifactCallFails(c) PROVE ArtifactsInv'
  BY <1>1, <1>3, CallsStayOK DEF ArtifactCallFails, ArtifactsInv
<1>4. ASSUME NEW c \in Callers, BeginCreate(c) PROVE ArtifactsInv'
  BY <1>4, BeginArtifactInv DEF BeginCreate, ArtifactCallOK
<1>5. ASSUME NEW c \in Callers, BeginAttach(c) \/ BeginSoftDelete(c) PROVE ArtifactsInv'
  <2>1. PICK a \in Artifacts, op \in {"attach", "delete"} : BeginArtifact(c, [op |-> op, at |-> a])
    BY <1>5 DEF BeginAttach, BeginSoftDelete, LiveArtifacts
  <2> QED BY <2>1, BeginArtifactInv DEF ArtifactCallOK
<1>6. ASSUME NEW c \in Callers, BeginRemove(c) PROVE ArtifactsInv'
  <2>1. PICK t \in Attachments : BeginArtifact(c, [op |-> "remove", at |-> t])
    BY <1>6 DEF BeginRemove, LiveAttachments
  <2> QED BY <2>1, BeginArtifactInv DEF ArtifactCallOK
<1>7. CASE UNCHANGED artifactVars
  BY <1>1, <1>7 DEF artifactVars, ArtifactsInv, ArtifactCallsOK, ArtifactCallOK
<1> QED
  BY <1>2, <1>3, <1>4, <1>5, <1>6, <1>7, StoreBlobInv, CommitArtifactInv DEF ArtifactsNext

\* The inductive invariant: what a call is about to name is there, and links hold.
THEOREM ArtifactsInductive == ArtifactsSpec => []ArtifactsInv
BY ArtifactsInitInv, ArtifactsStepInv, PTL DEF ArtifactsSpec

\* For any callers, keys and blobs: whatever fails or dies between the blob and its rows,
\* no row names a blob that is not there, and what was imported is attached.
THEOREM ArtifactsAlwaysOK == ArtifactsSpec => []ArtifactsOK
<1>1. ArtifactsInv => ArtifactsOK
  BY DEF ArtifactsInv
<1> QED BY <1>1, ArtifactsInductive, PTL

-----------------------------------------------------------------------------
(* Plans.                                                                  *)

StepRows == [Steps -> StepStatuses \cup {Absent}]

\* Every dependency a call writes is on a step that is there or on none at all, a change of
\* the plan's status writes nothing else, and next_ready_steps() writes what it decided on
\* the rows it had read.
PlanCallOK(w) ==
    /\ w.op \in {"add", "status", "revise", "set", "complete", "next"}
    /\ w.to \in PlanStatuses /\ w.st \in StepRows /\ w.tries \in [Steps -> Nat]
    /\ w.dep \in [Steps -> SUBSET (Steps \cup {Unknown, Absent})]
    /\ \A s \in Steps : w.dep[s] = {Absent} \/ w.dep[s] \subseteq ExistingSteps(step) \cup {Unknown}
    /\ w.op \in {"set", "complete", "next"} => w.dep = NoRewiring
    /\ w.op \in {"set", "complete"} => w.st = NoStatus
    /\ w.op = "set" => w.to # "completed"
    /\ w.op = "complete" => w.to = "completed"
    /\ w.op = "next" => w.st = Offered(w.seen[1], w.seen[2])

PlanCallsOK ==
    /\ DOMAIN planCall = Callers
    /\ \A c \in Callers : planCall[c] # Idle => plan # Absent /\ PlanCallOK(planCall[c])

\* Steps are never removed, so a dependency is on a step that is there, unless it is on none.
NeedsExist == \A s \in Steps : needs[s] \subseteq ExistingSteps(step) \cup {Unknown}

StepsHavePlan == plan = Absent => \A s \in Steps : step[s] = Absent

PlansInv == PlansOK /\ NeedsExist /\ StepsHavePlan /\ PlanCallsOK

\* What _recompute_readiness() returns: types, the same steps, nothing that is over, and
\* every ready step unblocked.
LEMMA ReadinessUnblocks ==
    ASSUME NEW st \in StepRows, NEW dep \in [Steps -> SUBSET (Steps \cup {Unknown})],
           \A s \in Steps : dep[s] \subseteq ExistingSteps(st) \cup {Unknown}
    PROVE  /\ Readiness(st, dep) \in StepRows
           /\ ExistingSteps(Readiness(st, dep)) = ExistingSteps(st)
           /\ \A s \in Steps : st[s] \in StepEnded => Readiness(st, dep)[s] = st[s]
           /\ \A s \in Steps : Readiness(st, dep)[s] = "ready" =>
                  \A d \in dep[s] \ {Unknown} : Readiness(st, dep)[d] \in DepSatisfied
<1> DEFINE r == Readiness(st, dep)
<1>1. \A s \in Steps : r[s] = st[s] \/ (st[s] \in {"pending", "ready"} /\ r[s] \in {"blocked", "ready", "pending"})
  BY DEF Readiness
<1>2. "blocked" # Absent /\ "ready" # Absent /\ "pending" # Absent
  BY PlansAssumption DEF StepStatuses
<1>3. r \in StepRows
  BY <1>1 DEF Readiness, StepRows, StepStatuses
<1>4. ExistingSteps(r) = ExistingSteps(st)
  BY <1>1, <1>2 DEF ExistingSteps
<1>5. \A s \in Steps : st[s] \in StepEnded => r[s] = st[s]
  BY <1>1 DEF StepEnded
<1>6. ASSUME NEW s \in Steps, r[s] = "ready", NEW d \in dep[s] \ {Unknown} PROVE r[d] \in DepSatisfied
  <2>1. d \in Steps /\ d \in ExistingSteps(st)
    BY <1>6
  <2>2. {st[e] : e \in dep[s] \cap ExistingSteps(st)} \subseteq DepSatisfied
    BY <1>6 DEF Readiness
  <2>3. st[d] \in DepSatisfied
    BY <1>6, <2>1, <2>2
  <2> QED BY <1>5, <2>1, <2>3 DEF DepSatisfied, StepEnded
<1> QED BY <1>3, <1>4, <1>5, <1>6

LEMMA TodoInitInv == TodoInit => PlansInv
<1> SUFFICES ASSUME TodoInit PROVE PlansInv
  OBVIOUS
<1>1. TodoTypeOK
  BY DEF TodoInit, TodoTypeOK
<1>2. ReadyMeansUnblocked /\ EndedPlanIsOver
  BY DEF TodoInit, ReadyMeansUnblocked, EndedPlanIsOver, ExistingSteps
<1>3. NeedsExist /\ StepsHavePlan /\ PlanCallsOK
  BY DEF TodoInit, NeedsExist, StepsHavePlan, PlanCallsOK
<1> QED BY <1>1, <1>2, <1>3 DEF PlansInv, PlansOK

\* Rows that are recomputed, under whatever becomes of the plan.
LEMMA CallsKeepDependencies ==
    ASSUME PlansInv, ExistingSteps(step) \subseteq ExistingSteps(step)', plan' # Absent,
           DOMAIN planCall' = Callers,
           \A c \in Callers : planCall'[c] \in {Idle, planCall[c]}
    PROVE  PlanCallsOK'
BY ZenonT(40) DEF PlansInv, PlanCallsOK, PlanCallOK, NoStatus, NoRewiring

\* create_plan(): a graph of existing steps, recomputed.
LEMMA CreatePlanInv == ASSUME PlansInv, CreatePlan PROVE PlansInv'
<1>0. PICK n \in 0 .. Cardinality(Steps) :
          \E graph \in [Steps -> GivenDeps] :
             LET st  == [s \in Steps |-> IF s <= n THEN "pending" ELSE Absent]
                 dep == [s \in Steps |-> IF s <= n THEN graph[s] \cap ExistingSteps(st) ELSE {}]
             IN  /\ plan' = IF n > 0 THEN "ready" ELSE "draft"
                 /\ step' = Readiness(st, dep)
                 /\ needs' = dep
  BY DEF CreatePlan
<1> DEFINE st == [s \in Steps |-> IF s <= n THEN "pending" ELSE Absent]
           dep(graph) == [s \in Steps |-> IF s <= n THEN graph[s] \cap ExistingSteps(st) ELSE {}]
<1>1. PICK graph \in [Steps -> GivenDeps] :
          /\ plan' = IF n > 0 THEN "ready" ELSE "draft"
          /\ step' = Readiness(st, dep(graph))
          /\ needs' = dep(graph)
  BY <1>0
<1>3. st \in StepRows /\ ExistingSteps(st) = {s \in Steps : s <= n}
  BY PlansAssumption DEF StepRows, StepStatuses, ExistingSteps
<1>4. dep(graph) \in [Steps -> SUBSET Steps]
  BY <1>3
<1>5. \A s \in Steps : dep(graph)[s] \subseteq ExistingSteps(st)
  OBVIOUS
<1> HIDE DEF st, dep
<1>7. /\ step' \in StepRows /\ ExistingSteps(step)' = ExistingSteps(st)
      /\ \A s \in Steps : step'[s] = "ready" =>
             \A d \in dep(graph)[s] \ {Unknown} : step'[d] \in DepSatisfied
  BY <1>1, <1>3, <1>4, <1>5, ReadinessUnblocks, SMTT(30) DEF ExistingSteps
<1>8. plan' \in PlanStatuses \ PlanEnded /\ plan' # Absent
  BY <1>1, PlansAssumption DEF PlanStatuses, PlanEnded
<1>9. PlansOK'
  BY <1>1, <1>4, <1>7, <1>8
     DEF CreatePlan, PlansInv, PlansOK, TodoTypeOK, ReadyMeansUnblocked, EndedPlanIsOver, StepRows
<1>10. NeedsExist' /\ StepsHavePlan'
  BY <1>1, <1>5, <1>7, <1>8 DEF NeedsExist, StepsHavePlan
<1>11. PlanCallsOK'
  BY <1>8 DEF CreatePlan, PlansInv, PlanCallsOK
<1> QED BY <1>9, <1>10, <1>11 DEF PlansInv

\* What a call is about to write is well formed when its parts are.
LEMMA WriteIsOK ==
    ASSUME PlansInv, plan # Absent, NEW op \in {"add", "status", "revise"},
           NEW st \in StepRows, NEW dep \in [Steps -> SUBSET (Steps \cup {Unknown, Absent})],
           \A s \in Steps : dep[s] = {Absent} \/ dep[s] \subseteq ExistingSteps(step) \cup {Unknown}
    PROVE  PlanCallOK(PlanWrite(op, st, dep))
<1>1. plan \in PlanStatuses /\ attempts \in [Steps -> Nat]
  BY DEF PlansInv, PlansOK, TodoTypeOK
<1> QED BY <1>1 DEF PlanCallOK, PlanWrite

LEMMA BareWrite ==
    /\ NoStatus \in StepRows
    /\ NoRewiring \in [Steps -> SUBSET (Steps \cup {Unknown, Absent})]
    /\ \A s \in Steps : NoRewiring[s] = {Absent}
BY DEF NoStatus, NoRewiring, StepRows

\* The dependency lists a call may give: {Absent} stands for none.
DepLists == (SUBSET (ExistingSteps(step) \cup {Unknown})) \cup {{Absent}}

\* One status or one dependency list.
LEMMA SingleWrite ==
    ASSUME NEW s \in Steps, NEW to \in StepStatuses \cup {Absent}, NEW deps \in DepLists
    PROVE  /\ Status(s, to) \in StepRows
           /\ Rewiring(s, deps) \in [Steps -> SUBSET (Steps \cup {Unknown, Absent})]
           /\ \A t \in Steps : \/ Rewiring(s, deps)[t] = {Absent}
                               \/ Rewiring(s, deps)[t] \subseteq ExistingSteps(step) \cup {Unknown}
<1>1. Status(s, to) \in StepRows
  BY BareWrite DEF Status, StepRows
<1>2. deps \in SUBSET (Steps \cup {Unknown, Absent})
  BY DEF ExistingSteps, DepLists
<1>3. deps = {Absent} \/ deps \subseteq ExistingSteps(step) \cup {Unknown}
  BY DEF DepLists
<1> HIDE DEF DepLists
<1> QED BY <1>1, <1>2, <1>3, BareWrite DEF Rewiring

\* A call that has read and checked changes nothing else.
LEMMA BeginPlanCallInv ==
    ASSUME PlansInv, NEW c \in Callers, NEW w, BeginPlanCall(c, w), plan # Absent, PlanCallOK(w)
    PROVE  PlansInv'
<1>1. PlansOK' /\ NeedsExist' /\ StepsHavePlan'
  BY DEF BeginPlanCall, PlansInv, PlansOK, TodoTypeOK, ReadyMeansUnblocked, EndedPlanIsOver,
         NeedsExist, StepsHavePlan, ExistingSteps
<1>2. PlanCallsOK'
  BY DEF BeginPlanCall, PlansInv, PlanCallsOK, PlanCallOK, ExistingSteps
<1> QED BY <1>1, <1>2 DEF PlansInv

\* The calls that write at most one status and one dependency list.
LEMMA BeginWriteInv ==
    ASSUME PlansInv, plan # Absent, NEW c \in Callers, NEW op \in {"add", "status", "revise"},
           NEW s \in Steps, NEW to \in StepStatuses \cup {Absent}, NEW deps \in DepLists,
           BeginPlanCall(c, PlanWrite(op, Status(s, to), Rewiring(s, deps)))
    PROVE  PlansInv'
<1>1. PlanCallOK(PlanWrite(op, Status(s, to), Rewiring(s, deps)))
  BY SingleWrite, WriteIsOK
<1> QED BY <1>1, BeginPlanCallInv

LEMMA BeginAddStepInv == ASSUME PlansInv, NEW c \in Callers, BeginAddStep(c) PROVE PlansInv'
<1>1. PICK n \in Steps, deps \in GivenDeps \cap SUBSET ExistingSteps(step) :
          BeginPlanCall(c, PlanWrite("add", Status(n, "pending"), Rewiring(n, deps)))
  BY DEF BeginAddStep
<1>2. plan # Absent /\ deps \in DepLists /\ "pending" \in StepStatuses
  BY <1>1 DEF BeginAddStep, StepStatuses, DepLists
<1> QED BY <1>1, <1>2, BeginWriteInv

LEMMA BeginUpdateStepInv == ASSUME PlansInv, NEW c \in Callers, BeginUpdateStep(c) PROVE PlansInv'
<1>0. PICK s \in ExistingSteps(step) :
          \E to \in (GivenStatuses \cap Transitions[step[s]]) \cup {Absent},
             deps \in (GivenDeps \cap SUBSET (ExistingSteps(step) \ {s})) \cup {{Absent}} :
              BeginPlanCall(c, [PlanWrite("status", Status(s, FinalStatus(s, to)), Rewiring(s, deps))
                                EXCEPT !.tries[s] = IF to = "failed" THEN @ + 1 ELSE @])
  BY DEF BeginUpdateStep
<1>1. PICK to \in (GivenStatuses \cap Transitions[step[s]]) \cup {Absent},
           deps \in (GivenDeps \cap SUBSET (ExistingSteps(step) \ {s})) \cup {{Absent}} :
          BeginPlanCall(c, [PlanWrite("status", Status(s, FinalStatus(s, to)), Rewiring(s, deps))
                            EXCEPT !.tries[s] = IF to = "failed" THEN @ + 1 ELSE @])
  BY <1>0
<1> DEFINE st == Status(s, FinalStatus(s, to))
           dep == Rewiring(s, deps)
           w == [PlanWrite("status", st, dep) EXCEPT !.tries[s] = IF to = "failed" THEN @ + 1 ELSE @]
<1>2. plan # Absent /\ s \in Steps
  BY DEF BeginUpdateStep, ExistingSteps
<1>3. to \in StepStatuses \cup {Absent} /\ deps \in DepLists
  BY <1>1, PlansAssumption DEF DepLists
<1>4. FinalStatus(s, to) \in StepStatuses \cup {Absent}
  BY <1>3 DEF FinalStatus, StepStatuses
<1>5. PlanCallOK(PlanWrite("status", st, dep))
  BY <1>2, <1>3, <1>4, SingleWrite, WriteIsOK
<1> HIDE DEF st, dep
<1>6. PlanCallOK(w)
  <2>1. attempts \in [Steps -> Nat]
    BY DEF PlansInv, PlansOK, TodoTypeOK
  <2>2. /\ w.op = "status" /\ w.to = plan /\ w.st = st /\ w.dep = dep
        /\ w.tries = [attempts EXCEPT ![s] = IF to = "failed" THEN attempts[s] + 1 ELSE attempts[s]]
    BY <1>2, <2>1 DEF PlanWrite
  <2> HIDE DEF w
  <2>3. w.tries \in [Steps -> Nat]
    BY <1>2, <2>1, <2>2
  <2> DEFINE v == PlanWrite("status", st, dep)
  <2>4. v.op = "status" /\ v.to = plan /\ v.st = st /\ v.dep = dep
    BY DEF PlanWrite
  <2> HIDE DEF v
  <2>5. PlanCallOK(v)
    BY <1>5 DEF v
  <2> QED BY <2>2, <2>3, <2>4, <2>5 DEF PlanCallOK
<1> QED BY <1>1, <1>2, <1>6, BeginPlanCallInv DEF st, dep

LEMMA BeginReviseInv == ASSUME PlansInv, NEW c \in Callers, BeginRevise(c) PROVE PlansInv'
<1>1. PICK deps \in (GivenDeps \cap SUBSET (ExistingSteps(step) \cup {Unknown})) \cup {{Absent}} :
          \E s \in Steps, to \in StepStatuses \cup {Absent} :
              BeginPlanCall(c, PlanWrite("revise", Status(s, to), Rewiring(s, deps)))
  <2>1. "pending" \in StepStatuses /\ GivenStatuses \subseteq StepStatuses /\ ExistingSteps(step) \subseteq Steps
    BY PlansAssumption DEF StepStatuses, ExistingSteps
  <2> QED BY <2>1, Zenon DEF BeginRevise
<1>2. plan # Absent /\ deps \in DepLists
  BY <1>1 DEF BeginRevise, DepLists
<1> QED BY <1>1, <1>2, BeginWriteInv

\* What next_ready_steps() decides is a row of statuses.
LEMMA BeginNextReadyInv == ASSUME PlansInv, NEW c \in Callers, BeginNextReady(c) PROVE PlansInv'
<1> DEFINE st == Offered(step, needs)
           w == [PlanWrite("next", st, NoRewiring) EXCEPT !.seen = <<step, needs>>]
<1>1. /\ plan \in PlanStatuses /\ attempts \in [Steps -> Nat] /\ step \in StepRows
      /\ needs \in [Steps -> SUBSET (Steps \cup {Unknown})] /\ NeedsExist /\ plan # Absent
  BY DEF BeginNextReady, PlansInv, PlansOK, TodoTypeOK, StepRows
<1>2. Readiness(step, needs) \in StepRows
  BY <1>1, ReadinessUnblocks DEF NeedsExist
<1>3. st \in StepRows
  BY <1>2 DEF Offered, StepRows
<1> HIDE DEF st
<1>4. /\ w.op = "next" /\ w.to = plan /\ w.st = st /\ w.dep = NoRewiring /\ w.tries = attempts
      /\ w.seen = <<step, needs>>
  BY DEF PlanWrite
<1> HIDE DEF w
<1>5. w.st = Offered(w.seen[1], w.seen[2])
  BY <1>4 DEF st
<1>6. PlanCallOK(w)
  BY <1>1, <1>3, <1>4, <1>5, BareWrite DEF PlanCallOK
<1>7. BeginPlanCall(c, w)
  BY DEF BeginNextReady, w, st
<1> QED BY <1>1, <1>6, <1>7, BeginPlanCallInv

\* The calls that change the status of the plan itself.
LEMMA PlanStatusWriteInv ==
    ASSUME PlansInv, plan # Absent, NEW c \in Callers, NEW op \in {"set", "complete"},
           NEW target \in PlanStatuses, (op = "complete") = (target = "completed"),
           BeginPlanCall(c, [PlanWrite(op, NoStatus, NoRewiring) EXCEPT !.to = target])
    PROVE  PlansInv'
<1> DEFINE w == [PlanWrite(op, NoStatus, NoRewiring) EXCEPT !.to = target]
<1>1. attempts \in [Steps -> Nat]
  BY DEF PlansInv, PlansOK, TodoTypeOK
<1>2. w.op = op /\ w.to = target /\ w.st = NoStatus /\ w.dep = NoRewiring /\ w.tries = attempts
  BY DEF PlanWrite
<1> HIDE DEF w
<1>4. PlanCallOK(w)
  BY <1>1, <1>2, BareWrite DEF PlanCallOK
<1> USE DEF w
<1> QED BY <1>4, BeginPlanCallInv

LEMMA BeginSetStatusInv == ASSUME PlansInv, NEW c \in Callers, BeginSetStatus(c) PROVE PlansInv'
<1>1. PICK target \in {"paused", "ready", "running", "cancelled"} :
          /\ plan \in ReachedFrom(target)
          /\ BeginPlanCall(c, [PlanWrite("set", NoStatus, NoRewiring) EXCEPT !.to = target])
  BY DEF BeginSetStatus, ResumeTarget
<1>2. plan # Absent /\ target \in PlanStatuses
  BY <1>1, PlansAssumption DEF ReachedFrom, PlanStatuses
<1> QED BY <1>1, <1>2, PlanStatusWriteInv

LEMMA BeginCompleteInv == ASSUME PlansInv, NEW c \in Callers, BeginComplete(c) PROVE PlansInv'
<1>1. plan # Absent /\ "completed" \in PlanStatuses
  BY DEF BeginComplete, PlanStatuses
<1> QED BY <1>1, PlanStatusWriteInv DEF BeginComplete

\* The rows that a call writes, before anything is recomputed.
LEMMA RowsWritten ==
    ASSUME PlansInv, NEW w, PlanCallOK(w)
    PROVE  /\ StatusesWritten(w) \in StepRows
           /\ ExistingSteps(step) \subseteq ExistingSteps(StatusesWritten(w))
           /\ w.op \in {"set", "complete"} => \A s \in Steps :
                  \/ StatusesWritten(w)[s] = step[s]
                  \/ step[s] \notin StepEnded /\ StatusesWritten(w)[s] = "cancelled"
           /\ w.op = "complete" => StatusesWritten(w) = step
           /\ w.op = "set" /\ w.to = "cancelled" => \A s \in Steps :
                  StatusesWritten(w)[s] \in StepEnded \cup {Absent}
<1>1. step \in StepRows /\ w.st \in StepRows /\ "cancelled" \in StepStatuses \cap StepEnded
  BY DEF PlansInv, PlansOK, TodoTypeOK, PlanCallOK, StepRows, StepStatuses, StepEnded
<1>2. StatusesWritten(w) \in StepRows
  BY <1>1 DEF StatusesWritten, StepRows
<1>3. ExistingSteps(step) \subseteq ExistingSteps(StatusesWritten(w))
  BY <1>1, PlansAssumption DEF StatusesWritten, ExistingSteps
<1>4. ASSUME w.op \in {"set", "complete"}, NEW s \in Steps
      PROVE  /\ \/ StatusesWritten(w)[s] = step[s]
                \/ step[s] \notin StepEnded /\ StatusesWritten(w)[s] = "cancelled"
             /\ w.op = "complete" => StatusesWritten(w)[s] = step[s]
             /\ w.op = "set" /\ w.to = "cancelled" =>
                    StatusesWritten(w)[s] \in StepEnded \cup {Absent}
  <2>1. w.st[s] = Absent
    BY <1>4 DEF PlanCallOK, NoStatus
  <2> QED BY <1>1, <1>4, <2>1 DEF StatusesWritten
<1>5. w.op = "complete" => StatusesWritten(w) = step
  BY <1>1, <1>2, <1>4 DEF StepRows
<1> QED BY <1>2, <1>3, <1>4, <1>5

\* _recompute_plan_status() completes a plan only when no step is left.
LEMMA PlanStatusIsOver ==
    ASSUME NEW pl \in PlanStatuses, NEW st \in StepRows
    PROVE  /\ PlanStatus(pl, st) \in PlanStatuses
           /\ pl \notin PlanEnded /\ PlanStatus(pl, st) \in PlanEnded =>
                  \A s \in ExistingSteps(st) : st[s] \in StepEnded
           /\ pl \in PlanEnded => PlanStatus(pl, st) = pl
BY DEF PlanStatus, PlanStatuses, PlanEnded

\* Rows on which the decided statuses are written, unless they have changed, are recomputed.
LEMMA OfferedIsReadiness ==
    ASSUME NEW w, w.op = "next", w.st = Offered(w.seen[1], w.seen[2]), w.seen = <<step, needs>>,
           step \in StepRows
    PROVE  StatusesWritten(w) = Readiness(step, needs)
<1>1. w.st = Offered(step, needs)
  OBVIOUS
<1>2. ASSUME NEW s \in Steps PROVE StatusesWritten(w)[s] = Readiness(step, needs)[s]
  <2>1. Readiness(step, needs)[s] = step[s] \/ Readiness(step, needs)[s] \in {"blocked", "ready", "pending"}
    BY DEF Readiness
  <2>2. Readiness(step, needs)[s] = step[s] \/ Readiness(step, needs)[s] # Absent
    BY <2>1, PlansAssumption DEF StepStatuses
  <2>3. w.st[s] = IF Readiness(step, needs)[s] # step[s] THEN Readiness(step, needs)[s] ELSE Absent
    BY <1>1 DEF Offered
  <2>4. StatusesWritten(w)[s] = IF w.st[s] # Absent THEN w.st[s] ELSE step[s]
    BY DEF StatusesWritten
  <2> QED BY <2>2, <2>3, <2>4
<1>3. /\ StatusesWritten(w) = [s \in Steps |-> StatusesWritten(w)[s]]
      /\ Readiness(step, needs) = [s \in Steps |-> Readiness(step, needs)[s]]
  BY DEF StatusesWritten, Readiness
<1> QED BY <1>2, <1>3

LEMMA CommitPlanCallInv == ASSUME PlansInv, NEW c \in Callers, CommitPlanCall(c) PROVE PlansInv'
<1> DEFINE w == planCall[c]
           deps == [s \in Steps |-> IF w.dep[s] # {Absent} THEN w.dep[s] ELSE needs[s]]
           now == StatusesWritten(w)
           ready == IF w.op \in {"add", "status", "revise"} THEN Readiness(now, deps) ELSE now
<1>1. /\ step' = ready
      /\ needs' = deps
      /\ plan' = CASE w.op \in {"set", "complete"}  -> w.to
                   [] w.op \in {"status", "revise"} -> PlanStatus(plan, ready)
                   [] OTHER                         -> plan
      /\ attempts' = [s \in Steps |-> IF w.op = "status" /\ w.st[s] # Absent THEN w.tries[s]
                                      ELSE attempts[s]]
      /\ late' = late \cup
             (IF w.op = "complete"
              THEN {s \in ExistingSteps(step) : step[s] \notin DepSatisfied}
              ELSE IF plan \in PlanEnded THEN {s \in Steps : ready[s] # step[s]}
              ELSE {})
      /\ misread' = CASE w.op = "next" -> w.seen # <<step, needs>>
                      [] w.op \in {"add", "status", "revise"} -> FALSE
                      [] OTHER -> misread
      /\ planCall' = [planCall EXCEPT ![c] = Idle]
  BY DEF CommitPlanCall
<1>2. plan # Absent /\ PlanCallOK(w)
  BY DEF CommitPlanCall, PlansInv, PlanCallsOK
<1>3. /\ w.op \in {"add", "status", "revise", "set", "complete", "next"} /\ w.to \in PlanStatuses
      /\ w.tries \in [Steps -> Nat]
      /\ w.op = "set" => w.to # "completed"
      /\ w.op = "complete" => w.to = "completed"
  BY <1>2 DEF PlanCallOK
<1>4. /\ plan \in PlanStatuses /\ step \in StepRows
      /\ needs \in [Steps -> SUBSET (Steps \cup {Unknown})]
      /\ attempts \in [Steps -> Nat] /\ late \subseteq Steps /\ misread \in BOOLEAN
      /\ ReadyMeansUnblocked /\ EndedPlanIsOver /\ NeedsExist
  BY <1>2 DEF PlansInv, PlansOK, TodoTypeOK, StepRows
<1>5. /\ now \in StepRows
      /\ ExistingSteps(step) \subseteq ExistingSteps(now)
      /\ w.op \in {"set", "complete"} => \A s \in Steps :
             now[s] = step[s] \/ (step[s] \notin StepEnded /\ now[s] = "cancelled")
      /\ w.op = "complete" => now = step
      /\ w.op = "set" /\ w.to = "cancelled" => \A s \in Steps : now[s] \in StepEnded \cup {Absent}
  BY <1>2, RowsWritten
<1>6. /\ deps \in [Steps -> SUBSET (Steps \cup {Unknown})]
      /\ \A s \in Steps : deps[s] \subseteq ExistingSteps(step) \cup {Unknown}
  BY <1>2, <1>4 DEF PlanCallOK, NeedsExist, ExistingSteps
<1>7. w.op \in {"set", "complete", "next"} => deps = needs
  BY <1>2, <1>4 DEF PlanCallOK, NoRewiring
<1>7a. w.op = "next" /\ w.seen = <<step, needs>> => now = Readiness(step, needs)
  BY <1>2, <1>4, OfferedIsReadiness DEF PlanCallOK
<1> HIDE DEF now, deps, w
<1>8. ready \in StepRows /\ ExistingSteps(ready) = ExistingSteps(now)
  BY <1>5, <1>6, ReadinessUnblocks
<1>9. ~misread' => \A s \in Steps : ready[s] = "ready" =>
          \A d \in deps[s] \ {Unknown} : ready[d] \in DepSatisfied
  <2>1. CASE w.op \in {"add", "status", "revise"}
    BY <2>1, <1>5, <1>6, ReadinessUnblocks
  <2>0. SUFFICES ASSUME ~misread' PROVE \A s \in Steps : ready[s] = "ready" =>
                      \A d \in deps[s] \ {Unknown} : ready[d] \in DepSatisfied
    OBVIOUS
  <2>3. CASE w.op = "next"
    <3>1. ready = Readiness(step, needs) /\ deps = needs
      BY <1>1, <1>7, <1>7a, <2>0, <2>3
    <3> QED BY <1>4, <3>1, ReadinessUnblocks DEF NeedsExist
  <2>2. CASE w.op \in {"set", "complete"}
    <3>0. ~misread
      BY <1>1, <2>0, <2>2
    <3>1. \A s \in Steps : now[s] = step[s] \/ (step[s] \notin StepEnded /\ now[s] = "cancelled")
      BY <2>2, <1>5
    <3>2. ready = now /\ deps = needs
      BY <2>2, <1>7
    <3>3. ASSUME NEW s \in Steps, now[s] = "ready", NEW d \in needs[s] \ {Unknown} PROVE now[d] \in DepSatisfied
      <4>1. d \in Steps /\ step[s] = "ready"
        BY <1>4, <3>1, <3>3
      <4>2. step[d] \in DepSatisfied
        BY <1>4, <3>0, <3>3, <4>1 DEF ReadyMeansUnblocked
      <4> QED BY <3>1, <4>1, <4>2 DEF DepSatisfied, StepEnded
    <3> QED BY <3>2, <3>3
  <2> QED BY <1>3, <2>0, <2>1, <2>2, <2>3
<1> HIDE DEF ready
<1>10. plan' \in PlanStatuses
  BY <1>1, <1>3, <1>4, <1>8, PlanStatusIsOver
<1>11. ASSUME plan' \in PlanEnded, NEW s \in ExistingSteps(ready) \ late' PROVE ready[s] \in StepEnded
  <2>0. s \in Steps /\ ready[s] # Absent
    BY <1>11 DEF ExistingSteps
  <2>1. CASE w.op = "set"
    <3>1. w.to = "cancelled"
      BY <1>1, <1>3, <1>11, <2>1 DEF PlanEnded
    <3> QED BY <1>5, <2>0, <2>1, <3>1 DEF ready
  <2>2. CASE w.op = "complete"
    <3>1. ready = step
      BY <1>5, <2>2 DEF ready
    <3>2. step[s] \in DepSatisfied
      BY <1>1, <1>11, <2>2, <3>1
    <3> QED BY <3>1, <3>2 DEF DepSatisfied, StepEnded
  <2>3. CASE w.op \in {"add", "status", "revise", "next"} /\ plan \in PlanEnded
    <3>1. ready[s] = step[s] /\ s \notin late
      BY <1>1, <1>11, <2>0, <2>3
    <3> QED BY <1>4, <2>0, <2>3, <3>1 DEF EndedPlanIsOver, ExistingSteps
  <2>4. CASE w.op \in {"add", "status", "revise", "next"} /\ plan \notin PlanEnded
    <3>1. plan' = PlanStatus(plan, ready)
      BY <1>1, <1>3, <1>11, <2>4
    <3> QED BY <1>4, <1>8, <1>11, <2>4, <3>1, PlanStatusIsOver
  <2> QED BY <1>3, <2>1, <2>2, <2>3, <2>4
<1>12. TodoTypeOK'
  <2>1. attempts' \in [Steps -> Nat]
    BY <1>1, <1>3, <1>4
  <2>2. late' \subseteq Steps
    BY <1>1, <1>4 DEF ExistingSteps
  <2>3. misread' \in BOOLEAN
    BY <1>1, <1>4
  <2> QED BY <1>1, <1>6, <1>8, <1>10, <2>1, <2>2, <2>3 DEF TodoTypeOK, StepRows
<1>13. ReadyMeansUnblocked' /\ EndedPlanIsOver'
  BY <1>1, <1>9, <1>11 DEF ReadyMeansUnblocked, EndedPlanIsOver, ExistingSteps
<1>14. ExistingSteps(step)' = ExistingSteps(ready) /\ plan' # Absent
  BY <1>1, <1>10, PlansAssumption DEF ExistingSteps
<1>15. NeedsExist' /\ StepsHavePlan'
  BY <1>1, <1>5, <1>6, <1>8, <1>14 DEF NeedsExist, StepsHavePlan
<1>16. PlanCallsOK'
  <2>1. DOMAIN planCall = Callers
    BY DEF PlansInv, PlanCallsOK
  <2>2. DOMAIN planCall' = Callers /\ \A d \in Callers : planCall'[d] \in {Idle, planCall[d]}
    BY <1>1, <2>1
  <2>3. ExistingSteps(step) \subseteq ExistingSteps(step)'
    BY <1>5, <1>8, <1>14
  <2> QED BY <1>14, <2>2, <2>3, CallsKeepDependencies
<1> QED BY <1>12, <1>13, <1>15, <1>16 DEF PlansInv, PlansOK

\* A call that cannot have the write lock writes nothing.
LEMMA PlanCallFailsInv == ASSUME PlansInv, NEW c \in Callers, PlanCallFails(c) PROVE PlansInv'
<1>1. PlansOK' /\ NeedsExist' /\ StepsHavePlan'
  BY DEF PlanCallFails, PlansInv, PlansOK, TodoTypeOK, ReadyMeansUnblocked, EndedPlanIsOver,
         NeedsExist, StepsHavePlan, ExistingSteps
<1>2. PlanCallsOK'
  BY DEF PlanCallFails, PlansInv, PlanCallsOK, PlanCallOK, ExistingSteps
<1> QED BY <1>1, <1>2 DEF PlansInv

LEMMA TodoStepInv == PlansInv /\ [TodoNext]_planVars => PlansInv'
<1> SUFFICES ASSUME PlansInv, [TodoNext]_planVars PROVE PlansInv'
  OBVIOUS
<1>1. CASE CreatePlan
  BY <1>1, CreatePlanInv
<1>3. ASSUME NEW c \in Callers,
             \/ BeginAddStep(c) \/ BeginUpdateStep(c) \/ BeginRevise(c)
             \/ BeginSetStatus(c) \/ BeginComplete(c) \/ BeginNextReady(c)
      PROVE  PlansInv'
  BY <1>3, BeginAddStepInv, BeginUpdateStepInv, BeginReviseInv, BeginSetStatusInv, BeginCompleteInv,
     BeginNextReadyInv
<1>4. ASSUME NEW c \in Callers, CommitPlanCall(c) \/ PlanCallFails(c) PROVE PlansInv'
  BY <1>4, CommitPlanCallInv, PlanCallFailsInv
<1>5. CASE UNCHANGED planVars
  BY <1>5 DEF planVars, PlansInv, PlansOK, TodoTypeOK, ReadyMeansUnblocked, EndedPlanIsOver,
              NeedsExist, StepsHavePlan, PlanCallsOK, PlanCallOK, ExistingSteps
<1> QED BY <1>1, <1>3, <1>4, <1>5 DEF TodoNext

\* What a call is about to write stays writable, whatever the others commit meanwhile: steps
\* are never removed (tool.py has no DELETE of a step), so every dependency it read or was
\* given is still on a step that is there, or, stored unchecked, on none at all.
THEOREM PlansInductive == TodoSpec => []PlansInv
BY TodoInitInv, TodoStepInv, PTL DEF TodoSpec

\* A plan holds together, however the calls on it overlap and fail: a step is offered as
\* ready only when every step of the plan it depends on is done, unless next_ready_steps()
\* wrote on rows that had changed and nothing has been recomputed since; and a plan that is
\* over leaves no step open, but for what two crossing calls wrote.
THEOREM PlansAlwaysOK == TodoSpec => []PlansOK
<1>1. PlansInv => PlansOK
  BY DEF PlansInv
<1> QED BY <1>1, PlansInductive, PTL

-----------------------------------------------------------------------------
(* Programs.                                                               *)

ProgramFields == {"tool", "at", "child", "other", "code", "dir"}

ProgramsShaped ==
    /\ programs = [c \in Callers |-> programs[c]]
    /\ \A c \in Callers : programs[c] = [f \in ProgramFields |-> programs[c][f]]
    /\ programAnswer = [c \in Callers |-> programAnswer[c]]
    /\ programCalls \in Nat

\* Only a call that waits has a child that runs, and an exit code in the answer is that of
\* a child that ended by itself, after the processes it began.
AnswerOf(c) ==
    /\ programs[c].at \in {"idle", "wait", "drain", "clean"}
    /\ programs[c].at = "wait" =>
           programs[c].child \in {"runs", "exited"} /\ programAnswer[c] = Absent
    /\ programs[c].at # "wait" => programs[c].child # "runs"
    /\ programs[c].at \in {"drain", "clean", "idle"} =>
           \/ programAnswer[c] = Absent \/ programAnswer[c].code = Absent
           \/ programs[c].child # "killed" /\ programs[c].other # "runs"

Calling == {c \in Callers : programs[c].at # "idle"}

\* A directory is that of one call that goes on, or stays for good.
DirsOwned ==
    /\ spilled \subseteq workspaces
    /\ \A d \in workspaces : d # Absent /\ d \in Nat /\ d < programCalls
    /\ \A c \in Calling : programs[c].dir # Absent => programs[c].dir \in workspaces \ spilled
    /\ \A c, d \in Calling : programs[c].dir = programs[d].dir /\ programs[c].dir # Absent => c = d
    /\ \A w \in workspaces \ spilled : \E c \in Calling : programs[c].dir = w

ProcessInv == ProgramsShaped /\ (\A c \in Callers : AnswerOf(c)) /\ DirsOwned

\* One program moves on in some of its fields.
LEMMA GoesTo ==
    ASSUME ProgramsShaped, NEW c \in Callers, NEW fields, Goes(c, fields)
    PROVE  /\ programs' = [d \in Callers |-> programs'[d]]
           /\ \A d \in Callers : programs'[d] = [f \in ProgramFields |-> programs'[d][f]]
           /\ \A d \in Callers : d # c => programs'[d] = programs[d]
           /\ \A f \in ProgramFields :
                  programs'[c][f] = IF f \in DOMAIN fields THEN fields[f] ELSE programs[c][f]
<1> DEFINE moved == [f \in ProgramFields |-> IF f \in DOMAIN fields THEN fields[f] ELSE programs[c][f]]
<1>1. DOMAIN programs[c] = ProgramFields
  BY DEF ProgramsShaped
<1>2. programs' = [programs EXCEPT ![c] = moved]
  BY <1>1 DEF Goes
<1>3. moved = [f \in ProgramFields |-> moved[f]]
      /\ \A f \in ProgramFields : moved[f] = IF f \in DOMAIN fields THEN fields[f] ELSE programs[c][f]
  OBVIOUS
<1> HIDE DEF moved
<1>4. programs'[c] = moved /\ \A d \in Callers : d # c => programs'[d] = programs[d]
  BY <1>2 DEF ProgramsShaped
<1>5. programs' = [d \in Callers |-> programs'[d]]
  BY <1>2 DEF ProgramsShaped
<1> QED BY <1>3, <1>4, <1>5 DEF ProgramsShaped

\* The directories are as they were when no call begins or ends.
LEMMA DirsStay ==
    ASSUME DirsOwned, UNCHANGED <<workspaces, spilled, programCalls>>,
           \A c \in Callers : programs'[c].dir = programs[c].dir
                              /\ (programs'[c].at = "idle" <=> programs[c].at = "idle")
    PROVE  DirsOwned'
<1>1. Calling' = Calling
  BY DEF Calling
<1> QED BY <1>1 DEF DirsOwned, Calling

LEMMA StartProgramInv ==
    ASSUME ProcessInv, NEW c \in Callers, NEW tool, StartProgram(c, tool)
    PROVE  ProcessInv'
<1> DEFINE dir == IF tool = "python_execute" THEN programCalls ELSE Absent
<1> DEFINE begun == [tool |-> tool, at |-> "wait", child |-> "runs", other |-> "none", code |-> Absent,
                     dir |-> dir]
<1>0. ProgramsShaped /\ (\A d \in Callers : AnswerOf(d)) /\ DirsOwned
  BY DEF ProcessInv
<1>1. /\ programs' = [programs EXCEPT ![c] = begun]
      /\ workspaces' = workspaces \cup ({dir} \ {Absent})
      /\ programAnswer' = [programAnswer EXCEPT ![c] = Absent]
      /\ programCalls' = programCalls + 1 /\ UNCHANGED spilled /\ programs[c].at = "idle"
  BY DEF StartProgram, At
<1>2. /\ begun = [f \in ProgramFields |-> begun[f]] /\ begun.at = "wait" /\ begun.child = "runs"
      /\ begun.dir = dir
  BY DEF ProgramFields
<1>3. dir = Absent \/ (dir \in Nat /\ dir = programCalls)
  BY <1>0 DEF ProgramsShaped
<1> HIDE DEF begun, dir
<1>4. programs'[c] = begun /\ programAnswer'[c] = Absent
      /\ \A d \in Callers : d # c => programs'[d] = programs[d] /\ programAnswer'[d] = programAnswer[d]
  BY <1>0, <1>1 DEF ProgramsShaped
<1>5. ProgramsShaped'
  <2>1. programs' = [d \in Callers |-> programs'[d]] /\ programAnswer' = [d \in Callers |-> programAnswer'[d]]
    BY <1>0, <1>1 DEF ProgramsShaped
  <2>2. \A d \in Callers : programs'[d] = [f \in ProgramFields |-> programs'[d][f]]
    BY <1>0, <1>2, <1>4 DEF ProgramsShaped
  <2> QED BY <1>0, <1>1, <2>1, <2>2 DEF ProgramsShaped
<1>6. \A d \in Callers : AnswerOf(d)'
  BY <1>0, <1>2, <1>4 DEF AnswerOf
<1>7. DirsOwned'
  <2>1. Calling' = Calling \cup {c} /\ c \notin Calling
    BY <1>1, <1>2, <1>4 DEF Calling
  <2>2. dir \notin workspaces
    BY <1>0, <1>3 DEF DirsOwned
  <2>3. \A d \in Calling : programs'[d] = programs[d]
    BY <1>4, <2>1 DEF Calling
  <2>4. spilled' \subseteq workspaces' /\ \A d \in workspaces' : d # Absent /\ d \in Nat /\ d < programCalls'
    BY <1>0, <1>1, <1>3 DEF DirsOwned, ProgramsShaped
  <2>5. \A d \in Calling' : programs'[d].dir # Absent => programs'[d].dir \in workspaces' \ spilled'
    BY <1>0, <1>1, <1>2, <1>4, <2>1, <2>2, <2>3 DEF DirsOwned
  <2>6. \A d, e \in Calling' : programs'[d].dir = programs'[e].dir /\ programs'[d].dir # Absent => d = e
    BY <1>0, <1>2, <1>4, <2>1, <2>2, <2>3 DEF DirsOwned
  <2>7. \A w \in workspaces' \ spilled' : \E d \in Calling' : programs'[d].dir = w
    <3> SUFFICES ASSUME NEW w \in workspaces' \ spilled' PROVE \E d \in Calling' : programs'[d].dir = w
      OBVIOUS
    <3>1. CASE w = dir
      BY <1>2, <1>4, <2>1, <3>1
    <3>2. CASE w # dir
      <4>1. w \in workspaces \ spilled
        BY <1>1, <3>2
      <4>2. PICK d \in Calling : programs[d].dir = w
        BY <1>0, <4>1 DEF DirsOwned
      <4> QED BY <2>1, <2>3, <4>2
    <3> QED BY <3>1, <3>2
  <2> QED BY <2>4, <2>5, <2>6, <2>7 DEF DirsOwned
<1> QED BY <1>5, <1>6, <1>7 DEF ProcessInv

LEMMA ProcessMovesInv == ASSUME ProcessInv, NEW c \in Callers, ProcessMoves(c) PROVE ProcessInv'
<1>0. ProgramsShaped /\ (\A d \in Callers : AnswerOf(d)) /\ DirsOwned
  BY DEF ProcessInv
<1>1. UNCHANGED <<workspaces, spilled, programAnswer, programCalls>>
  BY DEF ProcessMoves
<1>2. ASSUME NEW fields, Goes(c, fields), DOMAIN fields \subseteq {"child", "other", "code"},
             programs[c].other = "runs" \/ programs'[c].other # "runs" \/ programs[c].child = "runs",
             programs'[c].child = programs[c].child \/ (programs[c].child = "runs" /\ programs'[c].child = "exited")
      PROVE  ProcessInv'
  <2>1. ProgramsShaped'
    BY <1>0, <1>1, <1>2, GoesTo DEF ProgramsShaped
  <2>2. programs'[c].at = programs[c].at /\ programs'[c].dir = programs[c].dir
        /\ \A d \in Callers : d # c => programs'[d] = programs[d]
    BY <1>0, <1>2, GoesTo DEF ProgramFields
  <2>3. \A d \in Callers : AnswerOf(d)'
    BY <1>0, <1>1, <1>2, <2>2 DEF AnswerOf
  <2>4. DirsOwned'
    BY <1>0, <1>1, <2>2, DirsStay
  <2> QED BY <2>1, <2>3, <2>4 DEF ProcessInv
<1>3. CASE programs[c].child = "runs" /\ Goes(c, [other |-> "runs"])
  <2>1. programs'[c].child = programs[c].child
    BY <1>0, <1>3, GoesTo DEF ProgramFields
  <2> QED BY <1>2, <1>3, <2>1
<1>4. ASSUME programs[c].child = "runs", NEW code, Goes(c, [child |-> "exited", code |-> code])
      PROVE  ProcessInv'
  <2>1. programs'[c].child = "exited"
    BY <1>0, <1>4, GoesTo DEF ProgramFields
  <2> QED BY <1>2, <1>4, <2>1
<1>5. CASE Goes(c, [other |-> "exited"])
  <2>1. programs'[c].child = programs[c].child /\ programs'[c].other = "exited"
    BY <1>0, <1>5, GoesTo DEF ProgramFields
  <2> QED BY <1>2, <1>5, <2>1
<1> QED BY <1>3, <1>4, <1>5 DEF ProcessMoves

\* A call answers, drains its pipes or is killed.
LEMMA ProgramWaitedInv ==
    ASSUME ProcessInv, NEW c \in Callers, Completes(c) \/ TimesOut(c) \/ Drains(c)
    PROVE  ProcessInv'
<1>0. ProgramsShaped /\ (\A d \in Callers : AnswerOf(d)) /\ DirsOwned
  BY DEF ProcessInv
<1>1. UNCHANGED <<workspaces, spilled, programCalls>> /\ programs[c].at # "idle"
  BY DEF Completes, TimesOut, Drains, At
<1>2. ASSUME NEW fields, Goes(c, fields), "dir" \notin DOMAIN fields,
             programs'[c].at \in {"drain", "clean"}, AnswerOf(c)', \A d \in Callers : d # c => programAnswer'[d] = programAnswer[d],
             programAnswer' = [d \in Callers |-> programAnswer'[d]]
      PROVE  ProcessInv'
  <2>1. ProgramsShaped'
    BY <1>0, <1>1, <1>2, GoesTo DEF ProgramsShaped
  <2>2. programs'[c].dir = programs[c].dir /\ \A d \in Callers : d # c => programs'[d] = programs[d]
    BY <1>0, <1>2, GoesTo DEF ProgramFields
  <2>3. \A d \in Callers : AnswerOf(d)'
    BY <1>0, <1>2, <2>2 DEF AnswerOf
  <2>4. DirsOwned'
    BY <1>0, <1>1, <1>2, <2>2, DirsStay
  <2> QED BY <2>1, <2>3, <2>4 DEF ProcessInv
<1>3. CASE Completes(c)
  <2>0. Goes(c, [at |-> "clean"]) /\ Finished(c) /\ programs[c].at = "wait"
    BY <1>3 DEF Completes, At
  <2>1. programs'[c].at = "clean" /\ programs'[c].child = programs[c].child /\ programs'[c].other = programs[c].other
    BY <1>0, <2>0, GoesTo DEF ProgramFields
  <2>2. \A d \in Callers : d # c => programAnswer'[d] = programAnswer[d]
    BY <1>0, <1>3 DEF Completes, ProgramsShaped
  <2>3. programAnswer' = [d \in Callers |-> programAnswer'[d]]
    BY <1>0, <1>3 DEF Completes, ProgramsShaped
  <2>4. AnswerOf(c)'
    BY <1>0, <2>0, <2>1 DEF AnswerOf, Finished
  <2> QED BY <1>2, <2>0, <2>1, <2>2, <2>3, <2>4
<1>4. CASE TimesOut(c)
  <2> DEFINE next == IF windows THEN "drain" ELSE "clean"
  <2>0. Goes(c, [child |-> "killed", code |-> Absent, at |-> next]) /\ next \in {"drain", "clean"}
    BY <1>4 DEF TimesOut
  <2> HIDE DEF next
  <2>1. programs'[c].at = next /\ programs'[c].child = "killed"
    BY <1>0, <2>0, GoesTo DEF ProgramFields
  <2>2. programAnswer' = [programAnswer EXCEPT ![c] = [code |-> Absent, ok |-> FALSE]]
    BY <1>4 DEF TimesOut
  <2>3. /\ \A d \in Callers : d # c => programAnswer'[d] = programAnswer[d]
        /\ programAnswer' = [d \in Callers |-> programAnswer'[d]]
        /\ programAnswer'[c].code = Absent
    BY <1>0, <2>2 DEF ProgramsShaped
  <2>4. AnswerOf(c)'
    BY <2>0, <2>1, <2>3 DEF AnswerOf
  <2> QED BY <1>2, <2>0, <2>1, <2>3, <2>4
<1>5. CASE Drains(c)
  <2>0. Goes(c, [at |-> "clean"]) /\ programs[c].at = "drain" /\ programAnswer' = programAnswer
    BY <1>5 DEF Drains, At
  <2>1. programs'[c].at = "clean" /\ programs'[c].child = programs[c].child /\ programs'[c].other = programs[c].other
    BY <1>0, <2>0, GoesTo DEF ProgramFields
  <2>2. AnswerOf(c)'
    BY <1>0, <2>0, <2>1 DEF AnswerOf
  <2> QED BY <1>0, <1>2, <2>0, <2>1, <2>2 DEF ProgramsShaped
<1> QED BY <1>3, <1>4, <1>5

\* A call ends: its directory is gone, or stays for good.
LEMMA ProgramEndsInv ==
    ASSUME ProcessInv, NEW c \in Callers, CleansUp(c) \/ CallDies(c)
    PROVE  ProcessInv'
<1>0. ProgramsShaped /\ (\A d \in Callers : AnswerOf(d)) /\ DirsOwned /\ programs[c].at # "idle"
      /\ UNCHANGED <<programAnswer, programCalls>>
  BY DEF ProcessInv, CleansUp, CallDies, At
<1>1. /\ programs'[c].at = "idle"
      /\ \A d \in Callers : d # c => programs'[d] = programs[d]
      /\ ProgramsShaped' /\ AnswerOf(c)'
  <2>1. CASE CleansUp(c)
    <3>1. Goes(c, [at |-> "idle"]) /\ programs[c].at = "clean"
      BY <2>1 DEF CleansUp, At
    <3>2. programs'[c].at = "idle" /\ programs'[c].child = programs[c].child
          /\ programs'[c].other = programs[c].other
      BY <1>0, <3>1, GoesTo DEF ProgramFields
    <3>3. AnswerOf(c)'
      BY <1>0, <3>1, <3>2 DEF AnswerOf
    <3> QED BY <1>0, <3>1, <3>2, <3>3, GoesTo DEF ProgramsShaped
  <2>2. CASE CallDies(c)
    <3>1. Goes(c, [at |-> "idle", child |-> "none", other |-> "none"])
      BY <2>2 DEF CallDies
    <3>2. programs'[c].at = "idle" /\ programs'[c].child = "none" /\ programs'[c].other = "none"
      BY <1>0, <3>1, GoesTo DEF ProgramFields
    <3>3. AnswerOf(c)'
      BY <3>2 DEF AnswerOf
    <3> QED BY <1>0, <3>1, <3>2, <3>3, GoesTo DEF ProgramsShaped
  <2> QED BY <2>1, <2>2
<1>2. \A d \in Callers : AnswerOf(d)'
  BY <1>0, <1>1 DEF AnswerOf
<1>3. DirsOwned'
  <2>1. Calling' = Calling \ {c} /\ c \in Calling /\ \A d \in Calling' : programs'[d] = programs[d]
    BY <1>0, <1>1 DEF Calling
  <2> DEFINE dir == programs[c].dir
  <2>2. \/ workspaces' = workspaces \ {dir} /\ spilled' = spilled
        \/ dir # Absent /\ workspaces' = workspaces /\ spilled' = spilled \cup {dir}
        \/ workspaces' = workspaces /\ spilled' = spilled \cup ({dir} \ {Absent})
    BY DEF CleansUp, CallDies
  <2>3. /\ dir # Absent => dir \in workspaces \ spilled
        /\ \A d \in Calling' : dir # Absent => programs[d].dir # dir
    BY <1>0, <2>1 DEF DirsOwned
  <2> HIDE DEF dir
  <2>4. workspaces' \ spilled' = (workspaces \ spilled) \ {dir} /\ spilled' \subseteq workspaces'
        /\ workspaces' \subseteq workspaces
    BY <1>0, <2>2, <2>3 DEF DirsOwned
  <2>5. \A d \in workspaces' : d # Absent /\ d \in Nat /\ d < programCalls'
    BY <1>0, <2>4 DEF DirsOwned
  <2>6. \A d \in Calling' : programs'[d].dir # Absent => programs'[d].dir \in workspaces' \ spilled'
    BY <1>0, <2>1, <2>3, <2>4 DEF DirsOwned
  <2>7. \A d, e \in Calling' : programs'[d].dir = programs'[e].dir /\ programs'[d].dir # Absent => d = e
    BY <1>0, <2>1 DEF DirsOwned
  <2>8. \A w \in workspaces' \ spilled' : \E d \in Calling' : programs'[d].dir = w
    BY <1>0, <2>1, <2>4 DEF DirsOwned, dir
  <2> QED BY <2>4, <2>5, <2>6, <2>7, <2>8 DEF DirsOwned
<1> QED BY <1>1, <1>2, <1>3 DEF ProcessInv

LEMMA ProcessInitInv == ProcessInit => ProcessInv
<1> SUFFICES ASSUME ProcessInit PROVE ProcessInv
  OBVIOUS
<1>1. ProgramsShaped
  BY DEF ProcessInit, ProgramsShaped, ProgramFields, NoProgram
<1>2. \A c \in Callers : AnswerOf(c) /\ programs[c].at = "idle"
  BY DEF ProcessInit, NoProgram, AnswerOf
<1>3. Calling = {}
  BY <1>2 DEF Calling
<1> QED BY <1>1, <1>2, <1>3 DEF ProcessInit, ProcessInv, DirsOwned

LEMMA ProcessStepInv == ProcessInv /\ [ProcessNext]_processVars => ProcessInv'
<1> SUFFICES ASSUME ProcessInv, [ProcessNext]_processVars PROVE ProcessInv'
  OBVIOUS
<1>1. ASSUME NEW c \in Callers,
             \/ RunCommand(c) \/ RunCode(c) \/ RunTests(c) \/ RunLinter(c) \/ RunFormatter(c)
             \/ InspectBuild(c)
      PROVE  ProcessInv'
  BY <1>1, StartProgramInv DEF RunCommand, RunCode, RunTests, RunLinter, RunFormatter, InspectBuild
<1>2. ASSUME NEW c \in Callers, ProcessMoves(c) \/ TimesOut(c) \/ CallStep(c) \/ CallDies(c) PROVE ProcessInv'
  BY <1>2, ProcessMovesInv, ProgramWaitedInv, ProgramEndsInv DEF CallStep
<1>3. CASE UNCHANGED processVars
  BY <1>3 DEF processVars, ProcessInv, ProgramsShaped, AnswerOf, DirsOwned, Calling
<1> QED BY <1>1, <1>2, <1>3 DEF ProcessNext

\* When a call of shell_execute, python_execute or dev-tools has returned, its program is
\* over: an exit code is that of a child that ended by itself with all its output read, a
\* time-out leaves no child alive, and a directory stays only with a process that kept it,
\* however many calls overlap, time out and die.
THEOREM ProcessesAlwaysOK == ProcessSpec => []ProcessesOK
<1>1. ProcessInv => ProcessesOK
  <2> SUFFICES ASSUME ProcessInv PROVE ProcessesOK
    OBVIOUS
  <2>1. ProcessTypeOK
    BY DEF ProcessInv, AnswerOf, DirsOwned, ProcessTypeOK
  <2>2. \A c \in Callers : At(c, "idle") =>
           /\ programs[c].child # "runs"
           /\ /\ programAnswer[c] # Absent /\ programAnswer[c].code # Absent
              /\ programs[c].tool # Absent
              => programs[c].child # "killed" /\ programs[c].other # "runs"
    BY DEF ProcessInv, AnswerOf, At
  <2>3. Calling = {d \in Callers : ~At(d, "idle")}
    BY DEF Calling, At
  <2>4. workspaces \ spilled = {programs[c].dir : c \in Calling} \ {Absent}
    BY DEF ProcessInv, DirsOwned
  <2> QED BY <2>1, <2>2, <2>3, <2>4 DEF ProcessesOK, ReturnedMeansOver
<1> QED BY <1>1, ProcessInitInv, ProcessStepInv, PTL DEF ProcessSpec-----------------------------------------------------------------------------
(* Goals.                                                                  *)

\* Every criterion has an evaluation that it passed, which is never taken back.
ProvedInFull == \A i \in Criteria : \E r \in results : r.index = i /\ r.passed

GoalOps == {"evaluate", "progress", "recover", "block", "complete"}

GoalCallOK(c) ==
    goalCall[c] # Idle =>
        /\ goalCall[c].op \in GoalOps
        /\ goalCall[c].op = "evaluate" =>
               goalCall[c].at \in 0 .. clock /\ (1 \in Criteria => goalCall[c].first \in BOOLEAN)
        /\ goalCall[c].op = "progress" => goalCall[c].to \in [ProgressLists -> 0 .. MaxGoalCalls]
        /\ goalCall[c].op = "block" => goalCall[c].rows \in Nat
        /\ goalCall[c].op = "complete" /\ goalCall[c].source = "stored" => ProvedInFull

\* The callers between the count of the attempts and the insert.
Recovering == {c \in Callers : goalCall[c] # Idle /\ goalCall[c].op = "recover"}

GoalInv ==
    /\ GoalTypeOK
    /\ goalCall = [c \in Callers |-> goalCall[c]]
    /\ clock \in 0 .. MaxGoalCalls
    /\ \A r \in results : r.at \in Nat
    /\ \A c \in Callers : GoalCallOK(c)
    /\ CompletedWasProved
    /\ recoveries \in Nat /\ manual \in Nat
    /\ recoveries + Cardinality(Recovering) < MaxRecoveries + Cardinality(Callers)

LEMMA RecoveringFinite == IsFiniteSet(Recovering) /\ Cardinality(Recovering) \in Nat
                          /\ IsFiniteSet(Callers) /\ Cardinality(Callers) \in Nat
                          /\ Cardinality(Recovering) <= Cardinality(Callers)
<1>1. Recovering \subseteq Callers /\ IsFiniteSet(Callers)
  BY GoalAssumption DEF Recovering
<1> QED BY <1>1, FS_Subset, FS_CardinalityType

\* A caller begins: it is well-formed, and at most the callers recover at once.
LEMMA BeginGoalInv ==
    ASSUME GoalInv, NEW c \in Callers, NEW call, BeginGoal(c, call),
           call.op \in GoalOps,
           call.op = "evaluate" => call.at = clock + 1 /\ (1 \in Criteria => call.first \in BOOLEAN),
           call.op = "progress" => call.to \in [ProgressLists -> 0 .. MaxGoalCalls],
           call.op = "block" => call.rows \in Nat,
           call.op = "complete" /\ call.source = "stored" => ProvedInFull,
           call.op = "recover" => recoveries < MaxRecoveries
    PROVE  GoalInv'
<1>0. GoalInv /\ GoalTypeOK /\ clock \in 0 .. MaxGoalCalls /\ MaxGoalCalls \in Nat /\ MaxRecoveries \in Nat
  BY GoalAssumption DEF GoalInv
<1>1. /\ clock' = clock + 1 /\ clock < MaxGoalCalls /\ goalCall[c] = Idle
      /\ goalCall' = [goalCall EXCEPT ![c] = call]
      /\ UNCHANGED <<contract, results, recoveries, manual, progress, world, proof>>
  BY DEF BeginGoal
<1>2. goalCall'[c] = call /\ \A d \in Callers : d # c => goalCall'[d] = goalCall[d]
  BY <1>1 DEF GoalInv
<1>3. GoalTypeOK' /\ clock' \in 0 .. MaxGoalCalls /\ CompletedWasProved' /\ recoveries' \in Nat /\ manual' \in Nat
      /\ \A r \in results' : r.at \in Nat
  BY <1>0, <1>1 DEF GoalInv, GoalTypeOK, CompletedWasProved
<1>4. \A d \in Callers : GoalCallOK(d)'
  <2>1. ProvedInFull' <=> ProvedInFull
    BY <1>1 DEF ProvedInFull
  <2>2. ASSUME NEW d \in Callers, d # c PROVE GoalCallOK(d)'
    <3>1. GoalCallOK(d)
      BY DEF GoalInv
    <3> QED BY <1>0, <1>1, <1>2, <2>1, <2>2, <3>1 DEF GoalCallOK
  <2>3. GoalCallOK(c)'
    BY <1>0, <1>1, <1>2, <2>1 DEF GoalCallOK
  <2> QED BY <2>2, <2>3
<1>5. recoveries' + Cardinality(Recovering') < MaxRecoveries + Cardinality(Callers)
  <2>0. Recovering' \subseteq Callers /\ IsFiniteSet(Callers) /\ Cardinality(Callers) \in Nat
    BY GoalAssumption, FS_CardinalityType DEF Recovering
  <2>1. Cardinality(Recovering') \in Nat /\ Cardinality(Recovering') <= Cardinality(Callers)
    BY <2>0, FS_Subset, FS_CardinalityType
  <2>2. CASE call.op = "recover"
    BY <1>0, <1>1, <2>0, <2>1, <2>2 DEF GoalInv
  <2>3. CASE call.op # "recover"
    <3>1. Recovering' = Recovering
      BY <1>1, <1>2, <2>3 DEF Recovering
    <3> QED BY <1>1, <3>1 DEF GoalInv
  <2> QED BY <2>2, <2>3
<1>6. goalCall' = [d \in Callers |-> goalCall'[d]]
  BY <1>1 DEF GoalInv
<1> QED BY <1>3, <1>4, <1>5, <1>6 DEF GoalInv

LEMMA VerdictBoolean ==
    ASSUME GoalInv, NEW i \in Criteria, NEW evidence PROVE Verdict(i, evidence) \in BOOLEAN
BY DEF GoalInv, GoalTypeOK, Verdict

LEMMA BeginsInv ==
    ASSUME GoalInv, NEW c \in Callers,
           BeginEvaluate(c) \/ BeginProgress(c) \/ BeginRecovery(c) \/ BeginBlock(c) \/ BeginCompleteGoal(c)
    PROVE  GoalInv'
<1>0. clock \in 0 .. MaxGoalCalls /\ MaxGoalCalls \in Nat /\ MaxRecoveries \in Nat /\ recoveries \in Nat /\ manual \in Nat
  BY GoalAssumption DEF GoalInv
<1>1. CASE BeginEvaluate(c)
  <2>1. PICK evidence \in [ByEvidence -> {Absent, TRUE, FALSE}] :
            BeginGoal(c, [op |-> "evaluate", at |-> clock + 1, evidence |-> evidence,
                          first |-> Verdict(1, evidence)])
    BY <1>1 DEF BeginEvaluate
  <2> DEFINE call == [op |-> "evaluate", at |-> clock + 1, evidence |-> evidence, first |-> Verdict(1, evidence)]
  <2>2. call.op = "evaluate" /\ call.at = clock + 1 /\ (1 \in Criteria => call.first \in BOOLEAN)
    BY VerdictBoolean
  <2>3. BeginGoal(c, call)
    BY <2>1
  <2> HIDE DEF call
  <2> QED BY <2>2, <2>3, BeginGoalInv DEF GoalOps
<1>2. CASE BeginProgress(c)
  <2>1. PICK lists \in SUBSET ProgressLists \ {{}} :
            BeginGoal(c, [op |-> "progress",
                          to |-> [l \in ProgressLists |-> IF l \in lists THEN clock + 1 ELSE progress[l]]])
    BY <1>2 DEF BeginProgress
  <2> DEFINE to == [l \in ProgressLists |-> IF l \in lists THEN clock + 1 ELSE progress[l]]
  <2> DEFINE call == [op |-> "progress", to |-> to]
  <2>2. clock < MaxGoalCalls
    BY <2>1 DEF BeginGoal
  <2>3. to \in [ProgressLists -> 0 .. MaxGoalCalls]
    BY <1>0, <2>2 DEF GoalInv, GoalTypeOK
  <2>4. call.op = "progress" /\ call.to \in [ProgressLists -> 0 .. MaxGoalCalls] /\ BeginGoal(c, call)
    BY <2>1, <2>3
  <2> HIDE DEF call
  <2> QED BY <2>4, BeginGoalInv DEF GoalOps
<1>3. CASE BeginRecovery(c)
  <2> DEFINE call == [op |-> "recover"]
  <2>1. BeginGoal(c, call) /\ call.op = "recover" /\ recoveries < MaxRecoveries
    BY <1>0, <1>3 DEF BeginRecovery
  <2> HIDE DEF call
  <2> QED BY <2>1, BeginGoalInv DEF GoalOps
<1>4. CASE BeginBlock(c)
  <2>1. PICK n \in 0 .. 1 : BeginGoal(c, [op |-> "block", rows |-> n])
    BY <1>4 DEF BeginBlock
  <2> DEFINE call == [op |-> "block", rows |-> n]
  <2>2. BeginGoal(c, call) /\ call.op = "block" /\ call.rows \in Nat
    BY <2>1
  <2> HIDE DEF call
  <2> QED BY <2>2, BeginGoalInv DEF GoalOps
<1>5. ASSUME NEW kept \in {"supplied", "stored"},
             BeginGoal(c, [op |-> "complete", source |-> kept]),
             kept = "stored" => \A i \in Criteria : StoredVerdicts[i] = {TRUE}
      PROVE  GoalInv'
  <2> DEFINE call == [op |-> "complete", source |-> kept]
  <2>1. BeginGoal(c, call) /\ call.op = "complete" /\ call.source = kept
    BY <1>5
  <2>2. ASSUME kept = "stored" PROVE ProvedInFull
    <3>1. ASSUME NEW i \in Criteria PROVE \E r \in results : r.index = i /\ r.passed
      <4>1. TRUE \in {r.passed : r \in LatestResult(i)}
        BY <1>5, <2>2, <3>1 DEF StoredVerdicts
      <4>2. PICK r \in LatestResult(i) : r.passed = TRUE
        BY <4>1
      <4> QED BY <4>2 DEF LatestResult
    <3> QED BY <3>1 DEF ProvedInFull
  <2> HIDE DEF call
  <2> QED BY <2>1, <2>2, BeginGoalInv DEF GoalOps
<1> QED BY <1>1, <1>2, <1>3, <1>4, <1>5 DEF BeginCompleteGoal

\* The caller that commits or fails leaves; the others keep what they read.
LEMMA OthersStayOK ==
    ASSUME GoalInv, NEW c \in Callers, goalCall' = [goalCall EXCEPT ![c] = Idle],
           clock' = clock, results \subseteq results'
    PROVE  /\ \A d \in Callers : GoalCallOK(d)'
           /\ goalCall' = [d \in Callers |-> goalCall'[d]]
           /\ Recovering' = Recovering \ {c}
<1>1. goalCall'[c] = Idle /\ \A d \in Callers : d # c => goalCall'[d] = goalCall[d]
  BY DEF GoalInv
<1>2. ProvedInFull => ProvedInFull'
  BY DEF ProvedInFull
<1>3. ASSUME NEW d \in Callers PROVE GoalCallOK(d)'
  <2>1. GoalCallOK(d)
    BY DEF GoalInv
  <2> QED BY <1>1, <1>2, <2>1 DEF GoalCallOK
<1>4. goalCall' = [d \in Callers |-> goalCall'[d]]
  BY DEF GoalInv
<1> QED BY <1>1, <1>3, <1>4 DEF Recovering

LEMMA CommitGoalInv == ASSUME GoalInv, NEW c \in Callers, CommitGoalCall(c) PROVE GoalInv'
<1>0. /\ GoalTypeOK /\ clock \in 0 .. MaxGoalCalls /\ CompletedWasProved /\ recoveries \in Nat /\ manual \in Nat
      /\ GoalCallOK(c) /\ goalCall[c] # Idle /\ UNCHANGED <<world, clock>>
      /\ goalCall' = [goalCall EXCEPT ![c] = Idle]
  BY DEF GoalInv, CommitGoalCall
<1>1. goalCall[c].op \in GoalOps
  BY <1>0 DEF GoalCallOK
<1>2. /\ IsFiniteSet(Recovering) /\ Cardinality(Recovering) \in Nat
      /\ Cardinality(Recovering \ {c}) = IF c \in Recovering THEN Cardinality(Recovering) - 1 ELSE Cardinality(Recovering)
      /\ Cardinality(Callers) \in Nat /\ MaxRecoveries \in Nat
  BY RecoveringFinite, FS_RemoveElement, GoalAssumption
<1>3. ASSUME results \subseteq results', GoalTypeOK', CompletedWasProved', recoveries' \in Nat, manual' \in Nat,
             \A r \in results' : r.at \in Nat,
             recoveries' = recoveries \/ (c \in Recovering /\ recoveries' = recoveries + 1)
      PROVE  GoalInv'
  <2>1. Recovering' = Recovering \ {c}
    BY <1>0, <1>3, OthersStayOK
  <2>2. /\ \A d \in Callers : GoalCallOK(d)'
        /\ goalCall' = [e \in Callers |-> goalCall'[e]]
    BY <1>0, <1>3, OthersStayOK
  <2>3. recoveries' + Cardinality(Recovering') < MaxRecoveries + Cardinality(Callers)
    BY <1>0, <1>2, <1>3, <2>1 DEF GoalInv
  <2> QED BY <1>0, <1>3, <2>2, <2>3 DEF GoalInv
<1>4. CASE goalCall[c].op = "evaluate"
  <2> DEFINE e == goalCall[c]
  <2> DEFINE new == {[index |-> i, at |-> e.at,
                      passed |-> IF i = 1 THEN e.first ELSE Verdict(i, e.evidence)] : i \in Criteria}
  <2>1. results' = results \cup new /\ UNCHANGED <<contract, recoveries, manual, progress, proof>>
    BY <1>4 DEF CommitGoalCall, CommitEvaluate
  <2>2. ASSUME NEW r \in new PROVE r.index \in Criteria /\ r.at \in 0 .. clock /\ r.passed \in BOOLEAN
    <3>1. PICK i \in Criteria : r = [index |-> i, at |-> e.at,
                                     passed |-> IF i = 1 THEN e.first ELSE Verdict(i, e.evidence)]
      OBVIOUS
    <3>2. (i = 1 => e.first \in BOOLEAN) /\ Verdict(i, e.evidence) \in BOOLEAN /\ e.at \in 0 .. clock
      BY <1>0, <1>4, VerdictBoolean DEF GoalCallOK
    <3> QED BY <3>1, <3>2
  <2> HIDE DEF new, e
  <2>3. \A r \in results' : r.index \in Criteria /\ r.at \in Nat /\ r.at <= clock' /\ r.passed \in BOOLEAN
    BY <1>0, <2>1, <2>2 DEF GoalTypeOK, GoalInv
  <2>4. GoalTypeOK' /\ CompletedWasProved'
    BY <1>0, <2>1, <2>3 DEF GoalTypeOK, CompletedWasProved
  <2> QED BY <1>0, <1>3, <2>1, <2>3, <2>4
<1>5. CASE goalCall[c].op = "progress"
  <2>1. progress' = goalCall[c].to /\ UNCHANGED <<contract, results, recoveries, manual, proof>>
    BY <1>5 DEF CommitGoalCall, CommitProgress
  <2>2. goalCall[c].to \in [ProgressLists -> 0 .. MaxGoalCalls]
    BY <1>0, <1>5 DEF GoalCallOK
  <2>3. GoalTypeOK' /\ CompletedWasProved'
    BY <1>0, <2>1, <2>2 DEF GoalTypeOK, CompletedWasProved
  <2> QED BY <1>0, <1>3, <2>1, <2>3 DEF GoalInv
<1>6. CASE goalCall[c].op = "recover"
  <2>1. recoveries' = recoveries + 1 /\ UNCHANGED <<contract, results, manual, progress, proof>>
    BY <1>6 DEF CommitGoalCall, CommitRecovery
  <2>2. c \in Recovering
    BY <1>0, <1>6 DEF Recovering
  <2>3. GoalTypeOK' /\ CompletedWasProved'
    BY <1>0, <2>1 DEF GoalTypeOK, CompletedWasProved
  <2> QED BY <1>0, <1>3, <2>1, <2>2, <2>3 DEF GoalInv
<1>7. CASE goalCall[c].op = "complete"
  <2>1. contract' = "completed" /\ proof' = goalCall[c].source
        /\ UNCHANGED <<results, recoveries, manual, progress>>
    BY <1>7 DEF CommitGoalCall, CommitComplete
  <2>2. proof' = "stored" => ProvedInFull
    BY <1>0, <1>7, <2>1 DEF GoalCallOK
  <2>3. GoalTypeOK' /\ CompletedWasProved'
    BY <1>0, <2>1, <2>2 DEF GoalTypeOK, CompletedWasProved, ProvedInFull
  <2> QED BY <1>0, <1>3, <2>1, <2>3 DEF GoalInv
<1>8. CASE goalCall[c].op = "block"
  <2>1. contract' = "blocked" /\ manual' = manual + goalCall[c].rows
        /\ UNCHANGED <<results, recoveries, progress, proof>>
    BY <1>8 DEF CommitGoalCall, CommitBlock
  <2>2. manual' \in Nat
    BY <1>0, <1>8, <2>1 DEF GoalCallOK
  <2>3. GoalTypeOK' /\ CompletedWasProved'
    BY <1>0, <2>1 DEF GoalTypeOK, CompletedWasProved
  <2> QED BY <1>0, <1>3, <2>1, <2>2, <2>3 DEF GoalInv
<1> QED BY <1>1, <1>4, <1>5, <1>6, <1>7, <1>8 DEF GoalOps

LEMMA GoalStaysInv ==
    ASSUME GoalInv, CreateContract \/ WorldChanges \/ (UNCHANGED goalVars) PROVE GoalInv'
<1>1. /\ UNCHANGED <<results, recoveries, manual, progress, goalCall, clock, proof>>
      /\ contract' \in {contract, "active"}
      /\ world' \in [Criteria -> BOOLEAN]
  BY DEF CreateContract, WorldChanges, goalVars, GoalInv, GoalTypeOK
<1>2. Recovering' = Recovering /\ \A c \in Callers : GoalCallOK(c)'
  BY <1>1 DEF GoalInv, Recovering, GoalCallOK, ProvedInFull
<1>3. GoalTypeOK' /\ CompletedWasProved'
  BY <1>1 DEF GoalInv, GoalTypeOK, CompletedWasProved
<1> QED BY <1>1, <1>2, <1>3 DEF GoalInv

LEMMA GoalFailsInv == ASSUME GoalInv, NEW c \in Callers, GoalCallFails(c) PROVE GoalInv'
<1>0. /\ UNCHANGED <<contract, results, recoveries, manual, progress, world, clock, proof>>
      /\ goalCall' = [goalCall EXCEPT ![c] = Idle]
  BY DEF GoalCallFails
<1>1. /\ \A d \in Callers : GoalCallOK(d)'
      /\ goalCall' = [e \in Callers |-> goalCall'[e]]
  BY <1>0, OthersStayOK
<1>2. Recovering' = Recovering \ {c}
  BY <1>0, OthersStayOK
<1>3. /\ Cardinality(Recovering) \in Nat /\ Cardinality(Callers) \in Nat /\ MaxRecoveries \in Nat
      /\ Cardinality(Recovering \ {c}) = IF c \in Recovering THEN Cardinality(Recovering) - 1 ELSE Cardinality(Recovering)
  BY RecoveringFinite, FS_RemoveElement, GoalAssumption
<1>4. recoveries' + Cardinality(Recovering') < MaxRecoveries + Cardinality(Callers)
  BY <1>0, <1>2, <1>3 DEF GoalInv
<1>5. GoalTypeOK' /\ CompletedWasProved'
  BY <1>0 DEF GoalInv, GoalTypeOK, CompletedWasProved
<1> QED BY <1>0, <1>1, <1>4, <1>5 DEF GoalInv

LEMMA GoalInitInv == GoalInit => GoalInv
<1> SUFFICES ASSUME GoalInit PROVE GoalInv
  OBVIOUS
<1>0. MaxGoalCalls \in Nat /\ MaxRecoveries \in Nat /\ Absent # "stored"
  BY GoalAssumption
<1>1. GoalTypeOK /\ CompletedWasProved
  BY <1>0 DEF GoalInit, GoalTypeOK, CompletedWasProved
<1>2. Recovering = {} /\ \A c \in Callers : GoalCallOK(c)
  BY DEF GoalInit, Recovering, GoalCallOK
<1>3. Cardinality(Recovering) = 0 /\ Cardinality(Callers) \in Nat /\ Cardinality(Callers) # 0
  BY <1>2, FS_EmptySet, FS_CardinalityType, GoalAssumption
<1> QED BY <1>0, <1>1, <1>2, <1>3 DEF GoalInit, GoalInv

LEMMA GoalStepInv == GoalInv /\ [GoalNext]_goalVars => GoalInv'
<1> SUFFICES ASSUME GoalInv, [GoalNext]_goalVars PROVE GoalInv'
  OBVIOUS
<1> QED BY BeginsInv, CommitGoalInv, GoalFailsInv, GoalStaysInv DEF GoalNext

\* mark_complete() and request_recovery() of the goal-supervisor tool: a contract that is
\* completed on stored results has for each criterion an evaluation that it passed, and the
\* recoveries stay under the budget plus the callers that count at the same time, however
\* evaluations, recoveries, completions and failures interleave.
THEOREM GoalsAlwaysOK == GoalSpec => []GoalsOK
<1>1. GoalInv => GoalsOK
  <2> SUFFICES ASSUME GoalInv PROVE GoalsOK
    OBVIOUS
  <2>1. recoveries < MaxRecoveries + Cardinality(Callers)
    <3>1. recoveries \in Nat /\ recoveries + Cardinality(Recovering) < MaxRecoveries + Cardinality(Callers)
      BY DEF GoalInv
    <3> QED BY <3>1, RecoveringFinite, GoalAssumption
  <2> QED BY <2>1 DEF GoalInv, GoalsOK, RecoveriesBounded
<1> QED BY <1>1, GoalInitInv, GoalStepInv, PTL DEF GoalSpec
-----------------------------------------------------------------------------
(* Skills.                                                                 *)

NoRows(s) == s \notin registry /\ DOMAIN setting[s] = {}

\* A skill that nobody works on is there as a whole, or has left nothing behind.
Steady(s) == \/ folder[s] = "whole" /\ s \in readable
             \/ folder[s] = "none" /\ s \notin readable /\ NoRows(s)

\* What a call that is alone at work on a skill has made of it.
SkillCallTells(w, s) ==
    \/ w.op = "install" /\ w.step = "checked" /\ folder[s] = "none" /\ s \notin readable /\ NoRows(s)
    \/ w.op = "install" /\ w.step = "copying" /\ folder[s] = "partial" /\ NoRows(s)
    \/ w.op = "install" /\ w.step = "copied" /\ folder[s] = "whole" /\ s \in readable /\ NoRows(s)
    \/ w.op = "uninstall" /\ w.step = "checked" /\ folder[s] = "whole" /\ s \in readable
    \/ w.op = "uninstall" /\ w.step = "removing" /\ folder[s] = "partial"
    \/ w.op = "uninstall" /\ w.step = "removed" /\ folder[s] = "none" /\ s \notin readable
    \/ w.op \in {"set", "list"} /\ w.step = "found" /\ folder[s] = "whole" /\ s \in readable

SkillCallOK(w) ==
    /\ w.on \subseteq Skills
    /\ w.op \in {"install", "uninstall"} => w \in FolderCalls /\ \E s \in Skills : w.on = {s}
    /\ w.op = "set" => w.scope \in SkillScopes

\* Where no calls have overlapped and none has stopped midway, one call is at work at most.
OneAtWork(s) ==
    s \notin troubled =>
        /\ BusyWith(s) = {} => Steady(s)
        /\ \A c \in BusyWith(s) : BusyWith(s) = {c} /\ SkillCallTells(skillCall[c], s)

SkillsInv ==
    /\ SkillsTypeOK
    /\ folder = [s \in Skills |-> folder[s]]
    /\ setting = [s \in Skills |-> setting[s]]
    /\ skillCall = [c \in Callers |-> skillCall[c]]
    /\ \A c \in Callers : skillCall[c] # Idle => SkillCallOK(skillCall[c])
    /\ \A s \in Skills : OneAtWork(s)

LEMMA SkillsInitInv == SkillsInit => SkillsInv
<1> SUFFICES ASSUME SkillsInit PROVE SkillsInv
  OBVIOUS
<1>1. \A s \in Skills : BusyWith(s) = {} /\ Steady(s)
  BY DEF SkillsInit, BusyWith, Steady, NoRows, NoSettings
<1>2. SkillsTypeOK
  BY SkillAssumption DEF SkillsInit, SkillsTypeOK, NoSettings
<1> QED BY <1>1, <1>2 DEF SkillsInit, SkillsInv, OneAtWork

\* A call begins with what it sees of the skills it is about.
LEMMA BeginSkillInv ==
    ASSUME SkillsInv, NEW c \in Callers, NEW call, BeginSkillCall(c, call), SkillCallOK(call),
           \A s \in call.on : Steady(s) => SkillCallTells(call, s)
    PROVE  SkillsInv'
<1>1. /\ skillCall[c] = Idle /\ UNCHANGED <<folder, readable, registry, setting>>
      /\ skillCall' = [skillCall EXCEPT ![c] = call]
      /\ skillCall = [d \in Callers |-> skillCall[d]]
      /\ troubled' = troubled \cup {s \in call.on : BusyWith(s) # {}}
  BY DEF BeginSkillCall, SkillsInv
<1>2. /\ skillCall' = [d \in Callers |-> skillCall'[d]]
      /\ skillCall'[c] = call
      /\ \A d \in Callers \ {c} : skillCall'[d] = skillCall[d]
  BY <1>1
<1>3. ASSUME NEW s \in Skills, s \notin troubled' PROVE OneAtWork(s)'
  <2>1. s \notin troubled /\ OneAtWork(s) /\ (s \in call.on => BusyWith(s) = {})
    BY <1>1, <1>3 DEF SkillsInv
  <2>2. Steady(s)' <=> Steady(s)
    BY <1>1 DEF Steady, NoRows
  <2>3. CASE s \in call.on
    <3>1. Steady(s) /\ BusyWith(s)' \subseteq {c} /\ SkillCallTells(call, s)
      BY <1>1, <1>2, <2>1, <2>3 DEF OneAtWork, BusyWith
    <3>2. SkillCallTells(skillCall[c], s)'
      BY <1>1, <1>2, <3>1 DEF SkillCallTells, NoRows
    <3> QED BY <2>2, <3>1, <3>2 DEF OneAtWork
  <2>4. CASE s \notin call.on
    <3>1. BusyWith(s)' = BusyWith(s) /\ c \notin BusyWith(s)
      BY <1>1, <1>2, <2>4 DEF BusyWith
    <3>2. ASSUME NEW d \in BusyWith(s) PROVE BusyWith(s) = {d} /\ SkillCallTells(skillCall[d], s)'
      <4>1. BusyWith(s) = {d} /\ SkillCallTells(skillCall[d], s) /\ d \in Callers \ {c}
        BY <2>1, <3>1, <3>2 DEF OneAtWork, BusyWith
      <4> QED BY <1>1, <1>2, <4>1 DEF SkillCallTells, NoRows
    <3> QED BY <2>1, <2>2, <3>1, <3>2 DEF OneAtWork
  <2> QED BY <2>3, <2>4
<1>4. \A d \in Callers : skillCall'[d] # Idle => SkillCallOK(skillCall'[d])
  BY <1>1, <1>2 DEF SkillsInv
<1>5. \A s \in Skills : OneAtWork(s)'
  BY <1>3 DEF OneAtWork
<1> QED BY <1>1, <1>2, <1>4, <1>5 DEF SkillsInv, SkillsTypeOK, SkillCallOK

LEMMA BeginsSkillInv ==
    ASSUME SkillsInv, NEW c \in Callers,
           BeginInstall(c) \/ BeginUninstall(c) \/ BeginSetEnabled(c) \/ BeginList(c)
    PROVE  SkillsInv'
<1>1. CASE BeginInstall(c)
  <2>1. PICK s \in Skills \ BuiltIn :
            /\ folder[s] = "none"
            /\ BeginSkillCall(c, [op |-> "install", on |-> {s}, step |-> "checked"])
    BY <1>1 DEF BeginInstall
  <2> DEFINE call == [op |-> "install", on |-> {s}, step |-> "checked"]
  <2>2. /\ call.op = "install" /\ call.on = {s} /\ call.step = "checked"
        /\ call \in FolderCalls
        /\ BeginSkillCall(c, call)
    BY <2>1 DEF FolderCalls, FolderSteps
  <2> HIDE DEF call
  <2>3. SkillCallOK(call)
    BY <2>2 DEF SkillCallOK
  <2>4. Steady(s) => SkillCallTells(call, s)
    BY <2>1, <2>2 DEF Steady, SkillCallTells
  <2> QED BY <2>2, <2>3, <2>4, BeginSkillInv
<1>2. CASE BeginUninstall(c)
  <2>1. PICK s \in Skills \ BuiltIn :
            /\ Found(s)
            /\ BeginSkillCall(c, [op |-> "uninstall", on |-> {s}, step |-> "checked"])
    BY <1>2 DEF BeginUninstall
  <2> DEFINE call == [op |-> "uninstall", on |-> {s}, step |-> "checked"]
  <2>2. /\ call.op = "uninstall" /\ call.on = {s} /\ call.step = "checked"
        /\ call \in FolderCalls
        /\ BeginSkillCall(c, call)
    BY <2>1 DEF FolderCalls, FolderSteps
  <2> HIDE DEF call
  <2>3. SkillCallOK(call)
    BY <2>2 DEF SkillCallOK
  <2>4. Steady(s) => SkillCallTells(call, s)
    BY <2>1, <2>2 DEF Steady, SkillCallTells, Found
  <2> QED BY <2>2, <2>3, <2>4, BeginSkillInv
<1>3. CASE BeginSetEnabled(c)
  <2>1. PICK s \in Skills, g \in SkillScopes, on \in BOOLEAN :
            /\ Found(s)
            /\ BeginSkillCall(c, [op |-> "set", on |-> {s}, step |-> "found",
                                  scope |-> g, enabled |-> on])
    BY <1>3 DEF BeginSetEnabled
  <2> DEFINE call == [op |-> "set", on |-> {s}, step |-> "found", scope |-> g, enabled |-> on]
  <2>2. /\ call.op = "set" /\ call.on = {s} /\ call.step = "found" /\ call.scope = g
        /\ BeginSkillCall(c, call)
    BY <2>1
  <2> HIDE DEF call
  <2>3. SkillCallOK(call)
    BY <2>2 DEF SkillCallOK
  <2>4. Steady(s) => SkillCallTells(call, s)
    BY <2>1, <2>2 DEF Steady, SkillCallTells, Found
  <2> QED BY <2>2, <2>3, <2>4, BeginSkillInv
<1>4. CASE BeginList(c)
  <2> DEFINE call == [op |-> "list", on |-> {s \in Skills : Found(s)}, step |-> "found"]
  <2>2. /\ call.op = "list" /\ call.on = {s \in Skills : Found(s)} /\ call.step = "found"
        /\ BeginSkillCall(c, call)
    BY <1>4 DEF BeginList
  <2> HIDE DEF call
  <2>3. SkillCallOK(call)
    BY <2>2 DEF SkillCallOK
  <2>4. \A s \in call.on : Steady(s) => SkillCallTells(call, s)
    BY <2>2 DEF Steady, SkillCallTells, Found
  <2> QED BY <2>2, <2>3, <2>4, BeginSkillInv
<1> QED BY <1>1, <1>2, <1>3, <1>4

\* A step of copytree() or rmtree() is about one skill.
LEMMA FolderStepInv ==
    ASSUME SkillsInv, NEW c \in Callers, skillCall[c] # Idle,
           skillCall[c].op \in {"install", "uninstall"}, NEW s \in skillCall[c].on,
           NEW n \in FolderSteps, NEW f \in {"none", "partial", "whole"},
           skillCall' = [skillCall EXCEPT ![c].step = n],
           folder' = [folder EXCEPT ![s] = f],
           readable' \in {readable, readable \cup {s}, readable \ {s}},
           UNCHANGED <<registry, setting, troubled>>,
           SkillCallTells(skillCall[c], s) => SkillCallTells(skillCall[c], s)'
    PROVE  SkillsInv'
<1>1. /\ skillCall[c] \in FolderCalls /\ s \in Skills /\ skillCall[c].on = {s}
      /\ skillCall = [d \in Callers |-> skillCall[d]] /\ folder = [t \in Skills |-> folder[t]]
  BY DEF SkillsInv, SkillCallOK
<1>2. /\ skillCall' = [d \in Callers |-> skillCall'[d]]
      /\ skillCall'[c] = [op |-> skillCall[c].op, on |-> skillCall[c].on, step |-> n]
      /\ \A d \in Callers \ {c} : skillCall'[d] = skillCall[d]
  BY <1>1 DEF FolderCalls
<1>3. skillCall'[c] \in FolderCalls /\ skillCall'[c].on = {s} /\ skillCall'[c].op = skillCall[c].op
  BY <1>1, <1>2 DEF FolderCalls
<1>4. skillCall'[c] # Idle /\ SkillCallOK(skillCall'[c])
  BY <1>1, <1>3, SkillAssumption DEF SkillCallOK
<1>5. \A t \in Skills : BusyWith(t)' = BusyWith(t)
  BY <1>1, <1>2, <1>3, <1>4 DEF BusyWith
<1>6. /\ folder' = [t \in Skills |-> folder'[t]] /\ folder'[s] = f
      /\ \A t \in Skills \ {s} : folder'[t] = folder[t] /\ (t \in readable' <=> t \in readable)
  BY <1>1
<1>7. ASSUME NEW t \in Skills, t \notin troubled PROVE OneAtWork(t)'
  <2>1. OneAtWork(t)
    BY DEF SkillsInv
  <2>2. CASE t = s
    <3>1. BusyWith(s) = {c} /\ SkillCallTells(skillCall[c], s)
      BY <1>1, <1>7, <2>1, <2>2 DEF OneAtWork, BusyWith
    <3> QED BY <1>5, <2>2, <3>1 DEF OneAtWork
  <2>3. CASE t # s
    <3>1. Steady(t)' <=> Steady(t)
      BY <1>6, <2>3 DEF Steady, NoRows
    <3>2. ASSUME NEW d \in BusyWith(t) PROVE BusyWith(t) = {d} /\ SkillCallTells(skillCall[d], t)'
      <4>1. BusyWith(t) = {d} /\ SkillCallTells(skillCall[d], t) /\ d \in Callers \ {c}
        BY <1>1, <1>7, <2>1, <2>3, <3>2 DEF OneAtWork, BusyWith
      <4> QED BY <1>2, <1>6, <2>3, <4>1 DEF SkillCallTells, NoRows
    <3> QED BY <1>5, <1>7, <2>1, <3>1, <3>2 DEF OneAtWork
  <2> QED BY <2>2, <2>3
<1>8. \A t \in Skills : OneAtWork(t)'
  BY <1>7 DEF OneAtWork
<1>9. \A d \in Callers : skillCall'[d] # Idle => SkillCallOK(skillCall'[d])
  BY <1>2, <1>4 DEF SkillsInv
<1>10. SkillsTypeOK'
  BY <1>1, <1>6 DEF SkillsInv, SkillsTypeOK
<1> QED BY <1>2, <1>6, <1>8, <1>9, <1>10 DEF SkillsInv, SkillCallOK

LEMMA FolderStepsInv ==
    ASSUME SkillsInv, NEW c \in Callers, skillCall[c] # Idle,
           \/ skillCall[c].op = "install" /\ (MakeFolder(c) \/ CopyRest(c))
           \/ skillCall[c].op = "uninstall" /\ (RemoveSome(c) \/ RemoveRest(c))
    PROVE  SkillsInv'
<1> DEFINE w == skillCall[c]
<1>0. /\ w.op \in {"install", "uninstall"} /\ w \in FolderCalls
      /\ \A s \in w.on : s \in Skills
      /\ folder = [t \in Skills |-> folder[t]]
      /\ skillCall = [d \in Callers |-> skillCall[d]]
  BY DEF SkillsInv, SkillCallOK
<1>1. ASSUME NEW s \in w.on, NEW n \in FolderSteps, NEW f \in {"none", "partial", "whole"},
             skillCall' = [skillCall EXCEPT ![c].step = n], folder' = [folder EXCEPT ![s] = f],
             UNCHANGED <<registry, setting>>
      PROVE  /\ skillCall'[c].op = w.op /\ skillCall'[c].step = n /\ folder'[s] = f
             /\ NoRows(s) => NoRows(s)'
  BY <1>0, <1>1 DEF FolderCalls, NoRows
<1>2. CASE w.op = "install" /\ MakeFolder(c)
  <2>1. PICK s \in w.on :
            /\ w.step = "checked" /\ folder[s] = "none" /\ folder' = [folder EXCEPT ![s] = "partial"]
            /\ readable' \in {readable, readable \cup {s}}
            /\ skillCall' = [skillCall EXCEPT ![c].step = "copying"]
            /\ UNCHANGED <<registry, setting, skillCalls, troubled>>
    BY <1>2 DEF MakeFolder
  <2>2. SkillCallTells(w, s) => SkillCallTells(w, s)'
    BY <1>1, <1>2, <2>1 DEF SkillCallTells, FolderSteps
  <2> QED BY <1>0, <2>1, <2>2, FolderStepInv DEF FolderSteps
<1>3. CASE w.op = "install" /\ CopyRest(c)
  <2>1. PICK s \in w.on :
            /\ w.step = "copying" /\ folder[s] = "partial" /\ folder' = [folder EXCEPT ![s] = "whole"]
            /\ readable' = readable \cup {s}
            /\ skillCall' = [skillCall EXCEPT ![c].step = "copied"]
            /\ UNCHANGED <<registry, setting, skillCalls, troubled>>
    BY <1>3 DEF CopyRest
  <2>2. SkillCallTells(w, s) => SkillCallTells(w, s)'
    BY <1>1, <1>3, <2>1 DEF SkillCallTells, FolderSteps
  <2> QED BY <1>0, <2>1, <2>2, FolderStepInv DEF FolderSteps
<1>4. CASE w.op = "uninstall" /\ RemoveSome(c)
  <2>1. PICK s \in w.on :
            /\ w.step = "checked" /\ folder' = [folder EXCEPT ![s] = "partial"]
            /\ readable' \in {readable, readable \ {s}}
            /\ skillCall' = [skillCall EXCEPT ![c].step = "removing"]
            /\ UNCHANGED <<registry, setting, skillCalls, troubled>>
    BY <1>4 DEF RemoveSome
  <2>2. SkillCallTells(w, s) => SkillCallTells(w, s)'
    BY <1>1, <1>4, <2>1 DEF SkillCallTells, FolderSteps
  <2> QED BY <1>0, <2>1, <2>2, FolderStepInv DEF FolderSteps
<1>5. CASE w.op = "uninstall" /\ RemoveRest(c)
  <2>1. PICK s \in w.on :
            /\ w.step = "removing" /\ folder' = [folder EXCEPT ![s] = "none"]
            /\ readable' = readable \ {s}
            /\ skillCall' = [skillCall EXCEPT ![c].step = "removed"]
            /\ UNCHANGED <<registry, setting, skillCalls, troubled>>
    BY <1>5 DEF RemoveRest
  <2>2. SkillCallTells(w, s) => SkillCallTells(w, s)'
    BY <1>1, <1>5, <2>1 DEF SkillCallTells, FolderSteps
  <2> QED BY <1>0, <2>1, <2>2, FolderStepInv DEF FolderSteps
<1> QED BY <1>2, <1>3, <1>4, <1>5

\* A call is over: what was at work on its skills alone leaves them steady.
LEMMA SkillCallOverInv ==
    ASSUME SkillsInv, NEW c \in Callers, skillCall[c] # Idle,
           skillCall' = [skillCall EXCEPT ![c] = Idle],
           UNCHANGED <<folder, readable>>, troubled \subseteq troubled',
           setting' = [s \in Skills |-> setting'[s]],
           \A s \in Skills : DOMAIN setting'[s] \subseteq SkillScopes,
           \A s \in Skills \ skillCall[c].on : setting'[s] = setting[s] /\ (s \in registry' <=> s \in registry),
           \A s \in skillCall[c].on : s \notin troubled' /\ SkillCallTells(skillCall[c], s) => Steady(s)'
    PROVE  SkillsInv'
<1>1. /\ skillCall' = [d \in Callers |-> skillCall'[d]] /\ skillCall'[c] = Idle
      /\ \A d \in Callers \ {c} : skillCall'[d] = skillCall[d]
  BY DEF SkillsInv
<1>2. \A s \in Skills : BusyWith(s)' = BusyWith(s) \ {c}
  BY <1>1 DEF BusyWith
<1>3. ASSUME NEW s \in Skills, s \notin troubled' PROVE OneAtWork(s)'
  <2>1. OneAtWork(s) /\ s \notin troubled
    BY <1>3 DEF SkillsInv
  <2>2. CASE s \in skillCall[c].on
    <3>1. BusyWith(s) = {c} /\ SkillCallTells(skillCall[c], s)
      BY <2>1, <2>2 DEF OneAtWork, BusyWith
    <3> QED BY <1>2, <1>3, <2>2, <3>1 DEF OneAtWork
  <2>3. CASE s \notin skillCall[c].on
    <3>1. BusyWith(s)' = BusyWith(s) /\ c \notin BusyWith(s) /\ (Steady(s)' <=> Steady(s))
      BY <1>2, <2>3 DEF BusyWith, Steady, NoRows
    <3>2. ASSUME NEW d \in BusyWith(s) PROVE BusyWith(s) = {d} /\ SkillCallTells(skillCall[d], s)'
      <4>1. BusyWith(s) = {d} /\ SkillCallTells(skillCall[d], s) /\ d \in Callers \ {c}
        BY <2>1, <3>1, <3>2 DEF OneAtWork, BusyWith
      <4> QED BY <1>1, <2>3, <4>1 DEF SkillCallTells, NoRows
    <3> QED BY <2>1, <3>1, <3>2 DEF OneAtWork
  <2> QED BY <2>2, <2>3
<1>4. \A s \in Skills : OneAtWork(s)'
  BY <1>3 DEF OneAtWork
<1>5. SkillsTypeOK' /\ folder' = [s \in Skills |-> folder'[s]]
  BY DEF SkillsInv, SkillsTypeOK
<1> QED BY <1>1, <1>4, <1>5 DEF SkillsInv, SkillCallOK

LEMMA CommitSkillInv == ASSUME SkillsInv, NEW c \in Callers, CommitSkillCall(c) PROVE SkillsInv'
<1> DEFINE w == skillCall[c]
<1>0. /\ w # Idle /\ SkillCallOK(w) /\ skillCall' = [skillCall EXCEPT ![c] = Idle]
      /\ UNCHANGED <<folder, readable, troubled>>
      /\ setting = [s \in Skills |-> setting[s]]
      /\ \A s \in Skills : DOMAIN setting[s] \subseteq SkillScopes
  BY DEF SkillsInv, SkillsTypeOK, CommitSkillCall
<1>1. CASE SyncRegistry(c) /\ (w.step = "copied" \/ w.op = "list")
  <2>1. registry' = registry \cup w.on /\ setting' = setting
    BY <1>1 DEF SyncRegistry
  <2>2. \A s \in w.on : SkillCallTells(w, s) => Steady(s)'
    BY <1>0, <1>1 DEF SkillCallTells, Steady
  <2> QED BY <1>0, <2>1, <2>2, SkillCallOverInv
<1>2. CASE DeleteRows(c) /\ w.step = "removed"
  <2>1. /\ registry' = registry \ w.on
        /\ setting' = [s \in Skills |-> IF s \in w.on THEN NoSettings ELSE setting[s]]
    BY <1>2 DEF DeleteRows
  <2>2. \A s \in w.on : s \in Skills /\ NoRows(s)'
    BY <1>0, <2>1 DEF SkillCallOK, NoRows, NoSettings
  <2>3. \A s \in w.on : SkillCallTells(w, s) => Steady(s)'
    BY <1>0, <1>2, <2>2 DEF SkillCallTells, Steady
  <2>4. \A s \in Skills : DOMAIN setting'[s] \subseteq SkillScopes
    BY <1>0, <2>1 DEF NoSettings
  <2> QED BY <1>0, <2>1, <2>3, <2>4, SkillCallOverInv
<1>3. CASE UpsertSetting(c) /\ w.op = "set"
  <2>1. /\ registry' = registry
        /\ setting' = [s \in Skills |->
               IF s \notin w.on THEN setting[s]
               ELSE [g \in DOMAIN setting[s] \cup {w.scope} |-> IF g = w.scope THEN w.enabled ELSE setting[s][g]]]
    BY <1>3 DEF UpsertSetting
  <2>2. \A s \in w.on : SkillCallTells(w, s) => Steady(s)'
    BY <1>0, <1>3 DEF SkillCallTells, Steady
  <2>3. ASSUME NEW s \in Skills PROVE DOMAIN setting'[s] \subseteq SkillScopes
    <3>1. w.scope \in SkillScopes /\ DOMAIN setting[s] \subseteq SkillScopes
      BY <1>0, <1>3 DEF SkillCallOK
    <3> QED BY <2>1, <3>1
  <2> QED BY <1>0, <2>1, <2>2, <2>3, SkillCallOverInv
<1> QED BY <1>1, <1>2, <1>3 DEF CommitSkillCall

LEMMA SkillEndsInv == ASSUME SkillsInv, NEW c \in Callers, SkillCallEnds(c) PROVE SkillsInv'
<1> DEFINE w == skillCall[c]
<1>0. /\ w # Idle /\ skillCall' = [skillCall EXCEPT ![c] = Idle]
      /\ UNCHANGED <<folder, readable, registry, setting>>
      /\ troubled' = IF w.step \in {"checked", "found"} THEN troubled ELSE troubled \cup w.on
      /\ setting = [s \in Skills |-> setting[s]]
      /\ \A s \in Skills : DOMAIN setting[s] \subseteq SkillScopes
  BY DEF SkillsInv, SkillsTypeOK, SkillCallEnds
<1>1. ASSUME NEW s \in w.on, s \notin troubled', SkillCallTells(w, s) PROVE Steady(s)'
  <2>1. w.step \in {"checked", "found"}
    BY <1>0, <1>1
  <2> QED BY <1>0, <1>1, <2>1 DEF SkillCallTells, Steady, NoRows
<1> QED BY <1>0, <1>1, SkillCallOverInv

LEMMA SkillsStepInv == SkillsInv /\ [SkillsNext]_skillVars => SkillsInv'
<1> SUFFICES ASSUME SkillsInv, [SkillsNext]_skillVars PROVE SkillsInv'
  OBVIOUS
<1>1. CASE UNCHANGED skillVars
  <2>1. SkillsTypeOK' /\ folder' = folder /\ setting' = setting /\ skillCall' = skillCall
    BY <1>1 DEF skillVars, SkillsInv, SkillsTypeOK
  <2>2. \A s \in Skills : OneAtWork(s)'
    BY <1>1, SMTT(30) DEF skillVars, SkillsInv, OneAtWork, BusyWith, Steady, NoRows, SkillCallTells
  <2> QED BY <2>1, <2>2 DEF SkillsInv, SkillCallOK
<1> QED BY <1>1, BeginsSkillInv, FolderStepsInv, CommitSkillInv, SkillEndsInv DEF SkillsNext

\* install(), uninstall(), set_enabled() and list_skills() of the skills tool: where no two
\* calls on a skill overlapped and none stopped midway, its folder is whole or gone as soon
\* as nobody works on it, and one that is gone has left no row and no setting behind.
THEOREM SkillsAlwaysOK == SkillsSpec => []SkillsOK
<1>1. SkillsInv => SkillsOK
  <2> SUFFICES ASSUME SkillsInv, NEW s \in Skills \ troubled, BusyWith(s) = {}
               PROVE  /\ ~Stuck(s) /\ folder[s] # "partial"
                      /\ folder[s] = "none" => s \notin registry /\ Enabled(s) = (s \in DefaultEnabled)
    BY DEF SkillsInv, SkillsOK, RowsFollowFolder
  <2>1. Steady(s)
    BY DEF SkillsInv, OneAtWork
  <2>2. DOMAIN setting[s] = {} => Enabled(s) = (s \in DefaultEnabled)
    BY DEF Enabled
  <2> QED BY <2>1, <2>2 DEF Steady, NoRows, Stuck, Found
<1> QED BY <1>1, SkillsInitInv, SkillsStepInv, PTL DEF SkillsSpec
-----------------------------------------------------------------------------
(* The stream of a run.                                                    *)

Endings == {"completed", "failed", "cancelled"}
Sayings == {"activity", "text", "call", "result", "ask", "decided"}
WireEvents == [kind : (Sayings \cup Endings) \X (Calls \cup {Absent}),
               at : Nat \cup {Absent}, try : Nat]

Concerns(e, k) == e.kind[1] \in {"call", "result"} /\ e.kind[2] = k

\* The numbers on the wire have no gap, and all that cannot be taken back is of try t.
InOrder(w) == \A i \in DOMAIN w : w[i].at \in {i - 1, Absent}
OfTry(w, t) == \A i \in DOMAIN w : w[i].kind # Activity => w[i].try = t
OnlyActivity(w) == \A i \in DOMAIN w : w[i].kind = Activity
GoesOn(w) == \A i \in DOMAIN w : w[i].kind[1] \notin Endings
EndsOnce(w) == \A i \in DOMAIN w : w[i].kind[1] \in Endings => i = Len(w)

\* A call that was announced once and has no result, and a result with the one call before it.
Announced(w, k) ==
    \E a \in DOMAIN w : /\ w[a].kind = <<"call", k>>
                        /\ \A j \in DOMAIN w : Concerns(w[j], k) => j = a
IsAnswer(w, i) ==
    \E a \in 1 .. i - 1 : /\ Concerns(w[a], w[i].kind[2])
                          /\ \A j \in 1 .. i : Concerns(w[j], w[i].kind[2]) => j \in {a, i}
                          /\ w[a].kind[1] = "call"
ResultsAnswer(w) == \A i \in DOMAIN w : w[i].kind[1] = "result" => IsAnswer(w, i)

\* The ladder comes down to a last attempt without parameters.
LadderOK(l) == \E n \in Nat \ {0} : DOMAIN l = 1 .. n /\ l[n] = Plain

RunOK(r) ==
    /\ wire[r] \in Seq(WireEvents)
    /\ LadderOK(ladder[r]) /\ attempt[r] \in DOMAIN ladder[r]
    /\ runAt[r] = "new" => attempt[r] = 1
    /\ sequence[r] \in 0 .. MaxWire
    /\ prompts[r] \subseteq openCalls[r] /\ openCalls[r] \subseteq Calls
    /\ openCalls[r] # {} => emittedAny[r]
    /\ runAt[r] \in {"new", "build"} => ~emittedAny[r]
    /\ InOrder(wire[r]) /\ OfTry(wire[r], attempt[r]) /\ EndsOnce(wire[r]) /\ ResultsAnswer(wire[r])
    /\ runAt[r] # "over" => /\ sequence[r] = Len(wire[r])
                            /\ GoesOn(wire[r])
                            /\ ~emittedAny[r] => OnlyActivity(wire[r])
    /\ \A k \in openCalls[r] : Announced(wire[r], k)
    /\ r \in learned => runAt[r] # "new"

StreamMaps ==
    /\ mode \in [StreamRuns -> Modes]
    /\ runAt \in [StreamRuns -> {"new", "build", "stream", "done", "raised", "over"}]
    /\ emittedAny \in [StreamRuns -> BOOLEAN]
    /\ wire = [r \in StreamRuns |-> wire[r]] /\ ladder = [r \in StreamRuns |-> ladder[r]]
    /\ attempt = [r \in StreamRuns |-> attempt[r]] /\ sequence = [r \in StreamRuns |-> sequence[r]]
    /\ openCalls = [r \in StreamRuns |-> openCalls[r]]
    /\ prompts = [r \in StreamRuns |-> prompts[r]]

StreamInv ==
    /\ StreamMaps
    /\ learned \subseteq StreamRuns /\ LearnedOnce
    /\ rejected \in BOOLEAN /\ onDisk \in BOOLEAN /\ fell \in BOOLEAN /\ (fell => rejected)
    /\ \A r \in StreamRuns : RunOK(r)

\* v is the wire w with events of the given kinds added in attempt t.
Adds(w, v, kinds, t) ==
    /\ w \in Seq(WireEvents) /\ v \in Seq(WireEvents) /\ Len(kinds) \in Nat
    /\ Len(v) = Len(w) + Len(kinds)
    /\ \A i \in 1 .. Len(w) : v[i] = w[i]
    /\ \A i \in Len(w) + 1 .. Len(v) :
           v[i].kind = kinds[i - Len(w)] /\ v[i].at \in {i - 1, Absent} /\ v[i].try = t

\* Nothing is lost of what a wire says, and what is added has its number and its attempt.
LEMMA AddsKeeps ==
    ASSUME NEW w, NEW v, NEW kinds, NEW t, Adds(w, v, kinds, t)
    PROVE  /\ DOMAIN w = 1 .. Len(w) /\ DOMAIN v = 1 .. Len(v) /\ Len(w) \in Nat /\ Len(v) \in Nat
           /\ DOMAIN w \subseteq DOMAIN v /\ \A i \in DOMAIN w : v[i] = w[i]
           /\ \A i \in DOMAIN v \ DOMAIN w : /\ i > Len(w) /\ v[i].kind = kinds[i - Len(w)]
                                             /\ v[i].at \in {i - 1, Absent} /\ v[i].try = t
           /\ InOrder(w) => InOrder(v)
           /\ OfTry(w, t) => OfTry(v, t)
<1>1. /\ DOMAIN w = 1 .. Len(w) /\ DOMAIN v = 1 .. Len(v) /\ Len(w) \in Nat /\ Len(v) \in Nat
      /\ Len(w) <= Len(v)
  BY LenProperties DEF Adds
<1>2. /\ DOMAIN w \subseteq DOMAIN v /\ \A i \in DOMAIN w : v[i] = w[i]
      /\ \A i \in DOMAIN v \ DOMAIN w : /\ i > Len(w) /\ v[i].kind = kinds[i - Len(w)]
                                        /\ v[i].at \in {i - 1, Absent} /\ v[i].try = t
  BY <1>1 DEF Adds
<1>3. InOrder(w) => InOrder(v)
  BY <1>2 DEF InOrder
<1>4. OfTry(w, t) => OfTry(v, t)
  BY <1>2 DEF OfTry
<1> QED BY <1>1, <1>2, <1>3, <1>4

LEMMA SameBefore ==
    ASSUME NEW w, NEW v, NEW i \in Nat, i > 0, \A j \in 1 .. i : v[j] = w[j], IsAnswer(w, i)
    PROVE  IsAnswer(v, i)
<1>1. PICK a \in 1 .. i - 1 : /\ Concerns(w[a], w[i].kind[2])
                             /\ \A j \in 1 .. i : Concerns(w[j], w[i].kind[2]) => j \in {a, i}
                             /\ w[a].kind[1] = "call"
  BY DEF IsAnswer
<1>2. v[a] = w[a] /\ v[i] = w[i]
  OBVIOUS
<1>3. /\ Concerns(v[a], v[i].kind[2]) /\ v[a].kind[1] = "call"
      /\ \A j \in 1 .. i : Concerns(v[j], v[i].kind[2]) => j \in {a, i}
  BY <1>1, <1>2
<1> QED BY <1>3 DEF IsAnswer

\* Events that are neither calls nor results change nothing about those.
LEMMA AddsNoCall ==
    ASSUME NEW w, NEW v, NEW kinds, NEW t, Adds(w, v, kinds, t),
           \A i \in 1 .. Len(kinds) : kinds[i][1] \notin {"call", "result"}
    PROVE  /\ ResultsAnswer(w) => ResultsAnswer(v)
           /\ \A k : Announced(w, k) => Announced(v, k)
<1>1. /\ DOMAIN w = 1 .. Len(w) /\ DOMAIN v = 1 .. Len(v) /\ Len(w) \in Nat /\ Len(v) \in Nat
      /\ DOMAIN w \subseteq DOMAIN v /\ \A i \in DOMAIN w : v[i] = w[i]
      /\ \A i \in DOMAIN v \ DOMAIN w : i > Len(w) /\ v[i].kind = kinds[i - Len(w)]
  BY AddsKeeps
<1>10. Len(v) = Len(w) + Len(kinds) /\ Len(kinds) \in Nat
  BY DEF Adds
<1>2. \A i \in DOMAIN v \ DOMAIN w : v[i].kind[1] \notin {"call", "result"}
  <2> SUFFICES ASSUME NEW i \in DOMAIN v \ DOMAIN w PROVE v[i].kind[1] \notin {"call", "result"}
    OBVIOUS
  <2>1. v[i].kind = kinds[i - Len(w)] /\ i - Len(w) \in 1 .. Len(kinds)
    BY <1>1, <1>10
  <2> QED BY <2>1
<1>3. ASSUME NEW i \in DOMAIN v, v[i].kind[1] = "result", ResultsAnswer(w) PROVE IsAnswer(v, i)
  <2>1. i \in DOMAIN w /\ IsAnswer(w, i) /\ v[i] = w[i]
    BY <1>1, <1>2, <1>3 DEF ResultsAnswer
  <2>2. \A j \in 1 .. i : v[j] = w[j]
    BY <1>1, <2>1
  <2> QED BY <1>1, <2>1, <2>2, SameBefore
<1>4. ASSUME NEW k, Announced(w, k) PROVE Announced(v, k)
  BY <1>1, <1>2, <1>4 DEF Announced, Concerns
<1> QED BY <1>3, <1>4 DEF ResultsAnswer

\* A call that the wire has not announced is announced.
LEMMA AddsCall ==
    ASSUME NEW w, NEW v, NEW t, NEW k \in Calls, Adds(w, v, <<<<"call", k>>, Activity>>, t),
           ResultsAnswer(w), \A i \in DOMAIN w : w[i].kind # <<"call", k>>
    PROVE  ResultsAnswer(v) /\ Announced(v, k)
           /\ \A l : l # k /\ Announced(w, l) => Announced(v, l)
<1> DEFINE a == Len(w) + 1
<1>9. /\ DOMAIN w = 1 .. Len(w) /\ DOMAIN v = 1 .. Len(v) /\ Len(w) \in Nat
      /\ DOMAIN w \subseteq DOMAIN v /\ \A i \in DOMAIN w : v[i] = w[i]
  BY AddsKeeps
<1>10. /\ w \in Seq(WireEvents) /\ Len(v) = Len(w) + 2
       /\ \A i \in Len(w) + 1 .. Len(v) : v[i].kind = <<<<"call", k>>, Activity>>[i - Len(w)]
  BY DEF Adds
<1>11. v[a].kind = <<"call", k>> /\ v[a + 1].kind = Activity
  <2>1. v[a].kind = <<<<"call", k>>, Activity>>[1] /\ v[a + 1].kind = <<<<"call", k>>, Activity>>[2]
    <3>1. /\ a \in Len(w) + 1 .. Len(v) /\ a - Len(w) = 1
          /\ a + 1 \in Len(w) + 1 .. Len(v) /\ (a + 1) - Len(w) = 2
      BY <1>9, <1>10
    <3> QED BY <1>10, <3>1
  <2> QED BY <2>1
<1>1. /\ DOMAIN w = 1 .. Len(w) /\ DOMAIN v = 1 .. Len(v) /\ Len(w) \in Nat /\ Len(v) = Len(w) + 2
      /\ DOMAIN w \subseteq DOMAIN v /\ \A i \in DOMAIN w : v[i] = w[i] /\ w[i] \in WireEvents
      /\ v[a].kind = <<"call", k>> /\ v[a + 1].kind = Activity
  BY <1>9, <1>10, <1>11, ElementOfSeq
<1>2. \A i \in DOMAIN v : i \in DOMAIN w \/ i = a \/ i = a + 1
  BY <1>1
<1>3. \A i \in DOMAIN w : ~Concerns(w[i], k)
  <2> SUFFICES ASSUME NEW i \in DOMAIN w, Concerns(w[i], k) PROVE FALSE
    OBVIOUS
  <2>1. w[i].kind \in (Sayings \cup Endings) \X (Calls \cup {Absent}) /\ w[i].kind # <<"call", k>>
    BY <1>1 DEF WireEvents
  <2>2. w[i].kind[1] = "result" /\ w[i].kind[2] = k
    BY <2>1 DEF Concerns
  <2>3. PICK b \in 1 .. i - 1 : Concerns(w[b], k) /\ w[b].kind[1] = "call"
    BY <2>2 DEF ResultsAnswer, IsAnswer
  <2>4. b \in DOMAIN w /\ w[b].kind[2] = k
    BY <1>1, <2>3 DEF Concerns
  <2>5. w[b].kind \in (Sayings \cup Endings) \X (Calls \cup {Absent})
    BY <1>1, <2>4 DEF WireEvents
  <2> QED BY <2>3, <2>4, <2>5
<1>4. v[a].kind[1] = "call" /\ v[a].kind[2] = k /\ v[a + 1].kind[1] = "activity"
  BY <1>1 DEF Activity
<1>5. Announced(v, k)
  BY <1>1, <1>2, <1>3, <1>4 DEF Announced, Concerns
<1>6. ASSUME NEW i \in DOMAIN v, v[i].kind[1] = "result" PROVE IsAnswer(v, i)
  <2>1. i \in DOMAIN w /\ IsAnswer(w, i) /\ v[i] = w[i]
    BY <1>1, <1>2, <1>4, <1>6 DEF ResultsAnswer
  <2>2. \A j \in 1 .. i : v[j] = w[j]
    BY <1>1, <2>1
  <2> QED BY <1>1, <2>1, <2>2, SameBefore
<1>7. ASSUME NEW l, l # k, Announced(w, l) PROVE Announced(v, l)
  BY <1>1, <1>2, <1>4, <1>7, SMTT(30) DEF Announced, Concerns
<1> QED BY <1>5, <1>6, <1>7 DEF ResultsAnswer

\* The results of calls that are open answer them, each once.
LEMMA AddsResults ==
    ASSUME NEW w, NEW v, NEW kinds, NEW t, Adds(w, v, kinds, t), NEW open,
           ResultsAnswer(w), \A k \in open : Announced(w, k),
           \A i \in 1 .. Len(kinds) : kinds[i][1] = "result" /\ kinds[i][2] \in open,
           \A i, j \in 1 .. Len(kinds) : kinds[i][2] = kinds[j][2] => i = j
    PROVE  ResultsAnswer(v)
<1>1. /\ DOMAIN w = 1 .. Len(w) /\ DOMAIN v = 1 .. Len(v) /\ Len(w) \in Nat
      /\ DOMAIN w \subseteq DOMAIN v /\ \A i \in DOMAIN w : v[i] = w[i]
      /\ \A i \in DOMAIN v \ DOMAIN w : i > Len(w) /\ v[i].kind = kinds[i - Len(w)]
  BY AddsKeeps
<1>10. Len(v) = Len(w) + Len(kinds) /\ Len(kinds) \in Nat
  BY DEF Adds
<1>2. \A i \in DOMAIN v \ DOMAIN w :
         i - Len(w) \in 1 .. Len(kinds) /\ v[i].kind[1] = "result" /\ v[i].kind[2] = kinds[i - Len(w)][2]
  BY <1>1, <1>10
<1>3. ASSUME NEW i \in DOMAIN w, v[i].kind[1] = "result" PROVE IsAnswer(v, i)
  <2>1. IsAnswer(w, i) /\ v[i] = w[i]
    BY <1>1, <1>3 DEF ResultsAnswer
  <2>2. \A j \in 1 .. i : v[j] = w[j]
    BY <1>1, <1>3
  <2> QED BY <1>1, <2>1, <2>2, SameBefore
<1>4. ASSUME NEW i \in DOMAIN v \ DOMAIN w PROVE IsAnswer(v, i)
  <2> DEFINE k == v[i].kind[2]
  <2>1. i - Len(w) \in 1 .. Len(kinds) /\ k = kinds[i - Len(w)][2] /\ k \in open
    BY <1>2
  <2>2. PICK a \in DOMAIN w : w[a].kind = <<"call", k>> /\ \A j \in DOMAIN w : Concerns(w[j], k) => j = a
    BY <2>1 DEF Announced
  <2>3. a \in 1 .. i - 1 /\ v[a] = w[a] /\ v[a].kind[1] = "call" /\ v[a].kind[2] = k /\ Concerns(v[a], k)
    BY <1>1, <2>2 DEF Concerns
  <2>4. ASSUME NEW j \in 1 .. i, Concerns(v[j], k) PROVE j \in {a, i}
    <3>1. CASE j \in DOMAIN w
      BY <1>1, <2>2, <2>4, <3>1
    <3>2. CASE j \notin DOMAIN w
      <4>1. j \in DOMAIN v \ DOMAIN w
        BY <1>1, <2>4, <3>2
      <4>2. j - Len(w) \in 1 .. Len(kinds) /\ kinds[j - Len(w)][2] = kinds[i - Len(w)][2]
        BY <1>2, <2>1, <2>4, <4>1 DEF Concerns
      <4>3. j - Len(w) = i - Len(w) /\ i \in Int /\ j \in Int
        BY <1>1, <2>1, <4>1, <4>2, SMTT(30)
      <4> QED BY <1>1, <4>3
    <3> QED BY <3>1, <3>2
  <2> HIDE DEF k
  <2>5. k = v[i].kind[2]
    BY DEF k
  <2> QED BY <2>3, <2>4, <2>5 DEF IsAnswer
<1> QED BY <1>3, <1>4 DEF ResultsAnswer

WireKinds == (Sayings \cup Endings) \X (Calls \cup {Absent})

LEMMA NumberedAdds ==
    ASSUME NEW r \in StreamRuns, RunOK(r), runAt[r] # "over", NEW kinds \in Seq(WireKinds)
    PROVE  Adds(wire[r], wire[r] \o Numbered(r, kinds, sequence[r]), kinds, attempt[r])
<1> DEFINE more == Numbered(r, kinds, sequence[r])
<1>1. /\ wire[r] \in Seq(WireEvents) /\ sequence[r] = Len(wire[r]) /\ sequence[r] \in Nat
      /\ attempt[r] \in Nat /\ Len(wire[r]) \in Nat
  BY DEF RunOK, LadderOK
<1>2. /\ Len(kinds) \in Nat /\ DOMAIN kinds = 1 .. Len(kinds)
      /\ \A i \in DOMAIN kinds : kinds[i] \in WireKinds
  BY LenProperties, ElementOfSeq
<1>3. more = [i \in 1 .. Len(kinds) |-> [kind |-> kinds[i], at |-> sequence[r] + i - 1, try |-> attempt[r]]]
  BY <1>2 DEF Numbered
<1>4. more \in [1 .. Len(kinds) -> WireEvents]
  BY <1>1, <1>2, <1>3 DEF WireEvents, WireKinds
<1>5. more \in Seq(WireEvents) /\ Len(more) = Len(kinds)
  BY <1>2, <1>4
<1> HIDE DEF more
<1> DEFINE v == wire[r] \o more
<1>6. /\ v \in Seq(WireEvents) /\ Len(v) = Len(wire[r]) + Len(kinds)
      /\ \A i \in 1 .. Len(wire[r]) + Len(kinds) :
             v[i] = IF i <= Len(wire[r]) THEN wire[r][i] ELSE more[i - Len(wire[r])]
  <2>1. \A w, u \in Seq(WireEvents) :
            /\ w \o u \in Seq(WireEvents) /\ Len(w \o u) = Len(w) + Len(u)
            /\ \A i \in 1 .. Len(w) + Len(u) : (w \o u)[i] = IF i <= Len(w) THEN w[i] ELSE u[i - Len(w)]
    BY ConcatProperties
  <2>2. \A u \in Seq(WireEvents) :
            /\ wire[r] \o u \in Seq(WireEvents) /\ Len(wire[r] \o u) = Len(wire[r]) + Len(u)
            /\ \A i \in 1 .. Len(wire[r]) + Len(u) :
                   (wire[r] \o u)[i] = IF i <= Len(wire[r]) THEN wire[r][i] ELSE u[i - Len(wire[r])]
    BY <1>1, <2>1, Zenon
  <2>3. /\ v \in Seq(WireEvents) /\ Len(v) = Len(wire[r]) + Len(more)
        /\ \A i \in 1 .. Len(wire[r]) + Len(more) :
               v[i] = IF i <= Len(wire[r]) THEN wire[r][i] ELSE more[i - Len(wire[r])]
    BY <1>5, <2>2, Zenon
  <2>4. Len(more) = Len(kinds)
    BY <1>5
  <2> HIDE DEF v
  <2> QED BY <2>3, <2>4
<1> HIDE DEF v
<1>7. \A i \in Len(wire[r]) + 1 .. Len(v) :
         /\ v[i].kind = kinds[i - Len(wire[r])]
         /\ v[i].at \in {i - 1, Absent} /\ v[i].try = attempt[r]
  <2> SUFFICES ASSUME NEW i \in Len(wire[r]) + 1 .. Len(v)
               PROVE  /\ v[i].kind = kinds[i - Len(wire[r])]
                      /\ v[i].at \in {i - 1, Absent} /\ v[i].try = attempt[r]
    OBVIOUS
  <2> DEFINE l == Len(wire[r])
             m == Len(kinds)
  <2>0. l \in Nat /\ m \in Nat /\ i \in l + 1 .. l + m
    BY <1>1, <1>2, <1>6
  <2>1. v[i] = IF i <= l THEN wire[r][i] ELSE more[i - l]
    BY <1>6, <2>0
  <2> HIDE DEF l, m
  <2>2. v[i] = more[i - l] /\ i - l \in 1 .. m
    BY <2>0, <2>1
  <2> QED BY <1>1, <1>3, <2>2 DEF l, m
<1>8. Adds(wire[r], v, kinds, attempt[r])
  BY <1>1, <1>2, <1>6, <1>7 DEF Adds
<1> QED BY <1>8 DEF v, more

\* What Emit() does to the wire of its run, and to those of the others.
LEMMA EmitAdds ==
    ASSUME StreamMaps, NEW r \in StreamRuns, RunOK(r), runAt[r] # "over", NEW kinds \in Seq(WireKinds),
           Emit(r, kinds)
    PROVE  /\ Adds(wire[r], wire'[r], kinds, attempt[r])
           /\ sequence'[r] = Len(wire'[r]) /\ sequence'[r] \in 0 .. MaxWire
           /\ wire' = [q \in StreamRuns |-> wire'[q]] /\ sequence' = [q \in StreamRuns |-> sequence'[q]]
           /\ \A q \in StreamRuns \ {r} : wire'[q] = wire[q] /\ sequence'[q] = sequence[q]
<1> DEFINE v == wire[r] \o Numbered(r, kinds, sequence[r])
<1>1. Adds(wire[r], v, kinds, attempt[r])
  BY NumberedAdds
<1>2. /\ wire' = [wire EXCEPT ![r] = v]
      /\ sequence' = [sequence EXCEPT ![r] = sequence[r] + Len(kinds)]
      /\ Len(wire[r]) + Len(kinds) <= MaxWire
  BY DEF Emit
<1> HIDE DEF v
<1>3. /\ wire' = [q \in StreamRuns |-> wire'[q]] /\ sequence' = [q \in StreamRuns |-> sequence'[q]]
      /\ wire'[r] = v /\ sequence'[r] = sequence[r] + Len(kinds)
      /\ \A q \in StreamRuns \ {r} : wire'[q] = wire[q] /\ sequence'[q] = sequence[q]
  BY <1>2 DEF StreamMaps
<1>4. Len(v) = Len(wire[r]) + Len(kinds) /\ Len(kinds) \in Nat /\ Len(wire[r]) \in Nat
  BY <1>1, AddsKeeps DEF Adds
<1>5. sequence[r] = Len(wire[r])
  BY DEF RunOK
<1>6. sequence'[r] \in 0 .. MaxWire /\ sequence'[r] = Len(v)
  <2>1. sequence'[r] = Len(wire[r]) + Len(kinds) /\ Len(wire[r]) + Len(kinds) <= MaxWire
    BY <1>2, <1>3, <1>5
  <2> QED BY <1>4, <2>1, StreamAssumption
<1> QED BY <1>1, <1>3, <1>6

OthersStay(r) ==
    \A q \in StreamRuns \ {r} :
        /\ wire'[q] = wire[q] /\ sequence'[q] = sequence[q] /\ ladder'[q] = ladder[q]
        /\ attempt'[q] = attempt[q] /\ runAt'[q] = runAt[q] /\ emittedAny'[q] = emittedAny[q]
        /\ openCalls'[q] = openCalls[q] /\ prompts'[q] = prompts[q]
        /\ q \in learned' => q \in learned

LEMMA OneRunMoves ==
    ASSUME StreamInv, NEW r \in StreamRuns, StreamMaps', RunOK(r)', OthersStay(r),
           learned' \subseteq StreamRuns, LearnedOnce', rejected' \in BOOLEAN, onDisk' \in BOOLEAN,
           fell' \in BOOLEAN, fell' => rejected'
    PROVE  StreamInv'
<1>1. ASSUME NEW q \in StreamRuns \ {r} PROVE RunOK(q)'
  <2>1. RunOK(q)
    BY DEF StreamInv
  <2>2. /\ wire'[q] = wire[q] /\ sequence'[q] = sequence[q] /\ ladder'[q] = ladder[q]
        /\ attempt'[q] = attempt[q] /\ runAt'[q] = runAt[q] /\ emittedAny'[q] = emittedAny[q]
        /\ openCalls'[q] = openCalls[q] /\ prompts'[q] = prompts[q]
        /\ q \in learned' => q \in learned
    BY DEF OthersStay
  <2> QED BY <2>1, <2>2 DEF RunOK
<1>2. \A q \in StreamRuns : RunOK(q)'
  BY <1>1 DEF RunOK
<1> QED BY <1>2 DEF StreamInv

\* The agent, or a prompt of its tools, puts events on the wire that cannot be taken back.
LEMMA SaysInv ==
    ASSUME StreamInv, NEW r \in StreamRuns, runAt[r] = "stream",
           NEW kinds \in Seq(Sayings \X (Calls \cup {Absent})), Emit(r, kinds),
           UNCHANGED <<mode, runAt, ladder, attempt, rejected, onDisk, fell, learned>>,
           emittedAny' = [emittedAny EXCEPT ![r] = TRUE],
           NEW open \in SUBSET Calls, openCalls' = [openCalls EXCEPT ![r] = open],
           NEW asked \in SUBSET open, prompts' = [prompts EXCEPT ![r] = asked],
           Adds(wire[r], wire'[r], kinds, attempt[r]) =>
               /\ ResultsAnswer(wire'[r])
               /\ \A k \in open : Announced(wire'[r], k)
    PROVE  StreamInv'
<1>0. StreamMaps /\ RunOK(r) /\ LearnedOnce /\ kinds \in Seq(WireKinds)
  <2>1. Sayings \X (Calls \cup {Absent}) \subseteq WireKinds
    BY DEF WireKinds
  <2> QED BY <2>1, SeqMonotonic DEF StreamInv
<1>9. Adds(wire[r], wire'[r], kinds, attempt[r])
  BY <1>0, EmitAdds
<1>1. /\ sequence'[r] = Len(wire'[r]) /\ sequence'[r] \in 0 .. MaxWire
      /\ wire' = [q \in StreamRuns |-> wire'[q]] /\ sequence' = [q \in StreamRuns |-> sequence'[q]]
      /\ \A q \in StreamRuns \ {r} : wire'[q] = wire[q] /\ sequence'[q] = sequence[q]
  BY <1>0, EmitAdds
<1>2. StreamMaps' /\ OthersStay(r) /\ LearnedOnce'
      /\ openCalls'[r] = open /\ prompts'[r] = asked /\ emittedAny'[r] = TRUE
  BY <1>0, <1>1 DEF StreamMaps, OthersStay, LearnedOnce
<1>3. /\ DOMAIN wire'[r] = 1 .. Len(wire'[r])
      /\ DOMAIN wire[r] \subseteq DOMAIN wire'[r] /\ \A i \in DOMAIN wire[r] : wire'[r][i] = wire[r][i]
      /\ \A i \in DOMAIN wire'[r] \ DOMAIN wire[r] : i > Len(wire[r]) /\ wire'[r][i].kind = kinds[i - Len(wire[r])]
      /\ InOrder(wire[r]) => InOrder(wire'[r])
      /\ OfTry(wire[r], attempt[r]) => OfTry(wire'[r], attempt[r])
  <2> DEFINE w == wire[r]
             v == wire'[r]
             t == attempt[r]
  <2>1. Adds(w, v, kinds, t)
    BY <1>9
  <2> HIDE DEF w, v, t
  <2>2. /\ DOMAIN v = 1 .. Len(v)
        /\ DOMAIN w \subseteq DOMAIN v /\ \A i \in DOMAIN w : v[i] = w[i]
        /\ \A i \in DOMAIN v \ DOMAIN w : i > Len(w) /\ v[i].kind = kinds[i - Len(w)]
        /\ InOrder(w) => InOrder(v)
        /\ OfTry(w, t) => OfTry(v, t)
    BY <2>1, AddsKeeps
  <2> QED BY <2>2 DEF w, v, t
<1>4. wire'[r] \in Seq(WireEvents) /\ Len(wire'[r]) = Len(wire[r]) + Len(kinds) /\ Len(wire[r]) \in Nat
      /\ Len(kinds) \in Nat /\ DOMAIN kinds = 1 .. Len(kinds)
  BY <1>9, LenProperties DEF Adds
<1>5. \A i \in 1 .. Len(kinds) : kinds[i][1] \notin Endings
  <2> SUFFICES ASSUME NEW i \in 1 .. Len(kinds) PROVE kinds[i][1] \notin Endings
    OBVIOUS
  <2>1. kinds[i] \in Sayings \X (Calls \cup {Absent})
    BY ElementOfSeq
  <2> QED BY <2>1 DEF Sayings, Endings
<1>6. ASSUME NEW i \in DOMAIN wire'[r] PROVE wire'[r][i].kind[1] \notin Endings
  <2>1. CASE i \in DOMAIN wire[r]
    BY <1>0, <1>3, <2>1 DEF RunOK, GoesOn
  <2>2. CASE i \notin DOMAIN wire[r]
    <3>1. i > Len(wire[r]) /\ wire'[r][i].kind = kinds[i - Len(wire[r])] /\ i - Len(wire[r]) \in 1 .. Len(kinds)
      BY <1>3, <1>4, <2>2
    <3> QED BY <1>5, <3>1
  <2> QED BY <2>1, <2>2
<1>7. GoesOn(wire'[r]) /\ EndsOnce(wire'[r])
  BY <1>6 DEF GoesOn, EndsOnce
<1>8. RunOK(r)'
  BY <1>0, <1>1, <1>9, <1>2, <1>3, <1>4, <1>7 DEF RunOK
<1> QED BY <1>2, <1>8, OneRunMoves DEF StreamInv

LEMMA TextEventInv == ASSUME StreamInv, NEW r \in StreamRuns, TextEvent(r) PROVE StreamInv'
<1>1. /\ runAt[r] = "stream" /\ Emit(r, <<Text>>) /\ emittedAny' = [emittedAny EXCEPT ![r] = TRUE]
      /\ UNCHANGED <<mode, runAt, ladder, attempt, rejected, onDisk, fell, learned>>
      /\ UNCHANGED <<openCalls, prompts>>
      /\ StreamMaps /\ RunOK(r)
  BY DEF TextEvent, Event, StreamInv
<1> DEFINE kinds == <<Text>>
<1>2. /\ kinds \in Seq(Sayings \X (Calls \cup {Absent}))
      /\ \A i \in 1 .. Len(kinds) : kinds[i][1] \notin {"call", "result"}
  BY DEF Text, Sayings
<1>3. Emit(r, kinds)
  BY <1>1
<1> HIDE DEF kinds
<1>4. Adds(wire[r], wire'[r], kinds, attempt[r]) =>
          ResultsAnswer(wire'[r]) /\ \A k \in openCalls[r] : Announced(wire'[r], k)
  BY <1>1, <1>2, AddsNoCall DEF RunOK
<1> DEFINE open == openCalls[r]
           asked == prompts[r]
<1>5. /\ openCalls' = [openCalls EXCEPT ![r] = open] /\ open \in SUBSET Calls
      /\ prompts' = [prompts EXCEPT ![r] = asked] /\ asked \in SUBSET open
  BY <1>1 DEF StreamMaps, RunOK
<1>6. Adds(wire[r], wire'[r], kinds, attempt[r]) =>
          ResultsAnswer(wire'[r]) /\ \A k \in open : Announced(wire'[r], k)
  BY <1>4
<1>7. /\ runAt[r] = "stream" /\ emittedAny' = [emittedAny EXCEPT ![r] = TRUE]
      /\ UNCHANGED <<mode, runAt, ladder, attempt, rejected, onDisk, fell, learned>>
  BY <1>1
<1> HIDE DEF open, asked
<1> QED BY <1>2, <1>3, <1>5, <1>6, <1>7, SaysInv

LEMMA ToolUseInv == ASSUME StreamInv, NEW r \in StreamRuns, ToolUseEvent(r) PROVE StreamInv'
<1>1. PICK k \in Calls :
        /\ Said(r, <<"call", k>>) => k \in openCalls[r]
        /\ Event(r, IF Said(r, <<"call", k>>) THEN <<Activity>> ELSE <<<<"call", k>>, Activity>>)
        /\ openCalls' = [openCalls EXCEPT ![r] = @ \cup {k}]
        /\ UNCHANGED prompts
  BY DEF ToolUseEvent
<1> DEFINE open == openCalls[r] \cup {k}
<1>2. /\ StreamMaps /\ RunOK(r) /\ runAt[r] = "stream"
      /\ UNCHANGED <<mode, runAt, ladder, attempt, rejected, onDisk, fell, learned>>
      /\ emittedAny' = [emittedAny EXCEPT ![r] = TRUE]
      /\ openCalls' = [openCalls EXCEPT ![r] = open] /\ open \in SUBSET Calls
      /\ prompts' = [prompts EXCEPT ![r] = prompts[r]] /\ prompts[r] \in SUBSET open
  BY <1>1 DEF Event, StreamInv, StreamMaps, RunOK
<1>3. CASE Said(r, <<"call", k>>)
  <2> DEFINE kinds == <<Activity>>
  <2>1. /\ kinds \in Seq(Sayings \X (Calls \cup {Absent}))
        /\ \A i \in 1 .. Len(kinds) : kinds[i][1] \notin {"call", "result"}
    BY DEF Activity, Sayings
  <2>2. Emit(r, kinds) /\ open = openCalls[r]
    BY <1>1, <1>3 DEF Event
  <2> HIDE DEF kinds, open
  <2>3. Adds(wire[r], wire'[r], kinds, attempt[r]) =>
            ResultsAnswer(wire'[r]) /\ \A l \in open : Announced(wire'[r], l)
    BY <1>2, <2>1, <2>2, AddsNoCall DEF RunOK
  <2> QED BY <1>2, <2>1, <2>2, <2>3, SaysInv
<1>4. CASE ~Said(r, <<"call", k>>)
  <2> DEFINE kinds == <<<<"call", k>>, Activity>>
  <2>1. kinds \in Seq(Sayings \X (Calls \cup {Absent}))
    BY DEF Activity, Sayings
  <2>2. Emit(r, kinds)
    BY <1>1, <1>4 DEF Event
  <2>3. Adds(wire[r], wire'[r], kinds, attempt[r]) =>
            ResultsAnswer(wire'[r]) /\ \A l \in open : Announced(wire'[r], l)
    <3> DEFINE w == wire[r]
               v == wire'[r]
               t == attempt[r]
    <3>1. ResultsAnswer(w) /\ \A l \in openCalls[r] : Announced(w, l)
      BY <1>2 DEF RunOK
    <3>2. \A i \in DOMAIN w : w[i].kind # <<"call", k>>
      BY <1>4 DEF Said
    <3> HIDE DEF w, v, t
    <3>3. ASSUME Adds(w, v, <<<<"call", k>>, Activity>>, t)
          PROVE  ResultsAnswer(v) /\ Announced(v, k) /\ \A l : l # k /\ Announced(w, l) => Announced(v, l)
      BY <3>1, <3>2, <3>3, AddsCall
    <3> QED BY <3>1, <3>3 DEF w, v, t
  <2> HIDE DEF kinds, open
  <2> QED BY <1>2, <2>1, <2>2, <2>3, SaysInv
<1> QED BY <1>3, <1>4

LEMMA ToolResultInv == ASSUME StreamInv, NEW r \in StreamRuns, ToolResultEvent(r) PROVE StreamInv'
<1> DEFINE open == openCalls[r]
           n == Cardinality(open)
<1>1. PICK order \in [1 .. n -> open] :
        /\ \A k \in open : \E i \in DOMAIN order : order[i] = k
        /\ Event(r, [i \in DOMAIN order |-> <<"result", order[i]>>])
  BY DEF ToolResultEvent
<1>2. /\ StreamMaps /\ RunOK(r) /\ runAt[r] = "stream"
      /\ openCalls' = [openCalls EXCEPT ![r] = {}]
      /\ prompts[r] = {} /\ UNCHANGED prompts
  BY DEF ToolResultEvent, Event, StreamInv
<1>3. /\ UNCHANGED <<mode, runAt, ladder, attempt, rejected, onDisk, fell, learned>>
      /\ emittedAny' = [emittedAny EXCEPT ![r] = TRUE]
  BY <1>1 DEF Event
<1>4. prompts' = [prompts EXCEPT ![r] = {}]
  BY <1>2 DEF StreamMaps
<1>5. open \subseteq Calls /\ IsFiniteSet(open) /\ n \in Nat
  BY <1>2, FS_Subset, FS_CardinalityType, StreamAssumption DEF RunOK
<1>6. \A i, j \in 1 .. n : order[i] = order[j] => i = j
  <2>1. IsFiniteSet(1 .. n) /\ Cardinality(1 .. n) = n
    BY <1>5, FS_Interval
  <2>2. order \in Surjection(1 .. n, open)
    BY <1>1 DEF Surjection
  <2>3. order \in Injection(1 .. n, open)
    BY <2>1, <2>2, FS_SurjSameCardinalityImpliesInj
  <2> QED BY <2>3 DEF Injection, IsInjective
<1> DEFINE kinds == [i \in DOMAIN order |-> <<"result", order[i]>>]
<1>7. /\ kinds \in Seq(Sayings \X (Calls \cup {Absent})) /\ Len(kinds) = n
      /\ \A i \in 1 .. n : kinds[i][1] = "result" /\ kinds[i][2] = order[i]
  <2>1. kinds = [i \in 1 .. n |-> <<"result", order[i]>>]
    BY <1>1
  <2>2. kinds \in [1 .. n -> Sayings \X (Calls \cup {Absent})]
    BY <1>1, <1>5, <2>1 DEF Sayings
  <2> HIDE DEF n, kinds
  <2>3. kinds \in Seq(Sayings \X (Calls \cup {Absent})) /\ DOMAIN kinds = 1 .. n
    BY <1>5, <2>2, SeqDef
  <2>4. Len(kinds) = n
    BY <1>5, <2>3, LenProperties
  <2>5. \A i \in 1 .. n : kinds[i] = <<"result", order[i]>>
    BY <2>1
  <2> QED BY <2>3, <2>4, <2>5
<1>8. Emit(r, kinds)
  BY <1>1 DEF Event
<1> HIDE DEF kinds, n
<1>9. Adds(wire[r], wire'[r], kinds, attempt[r]) => ResultsAnswer(wire'[r])
  <2> SUFFICES ASSUME Adds(wire[r], wire'[r], kinds, attempt[r]) PROVE ResultsAnswer(wire'[r])
    OBVIOUS
  <2>1. ResultsAnswer(wire[r]) /\ \A k \in open : Announced(wire[r], k)
    BY <1>2 DEF RunOK
  <2>2. \A i \in 1 .. Len(kinds) : kinds[i][1] = "result" /\ kinds[i][2] \in open
    BY <1>1, <1>7
  <2>3. \A i, j \in 1 .. Len(kinds) : kinds[i][2] = kinds[j][2] => i = j
    BY <1>6, <1>7
  <2> HIDE DEF open
  <2> QED BY <2>1, <2>2, <2>3, AddsResults
<1>10. /\ {} \in SUBSET Calls /\ {} \in SUBSET {}
       /\ Adds(wire[r], wire'[r], kinds, attempt[r]) =>
              ResultsAnswer(wire'[r]) /\ \A k \in {} : Announced(wire'[r], k)
  BY <1>9
<1>11. kinds \in Seq(Sayings \X (Calls \cup {Absent}))
  BY <1>7
<1>12. runAt[r] = "stream" /\ openCalls' = [openCalls EXCEPT ![r] = {}]
  BY <1>2
<1> QED BY <1>3, <1>4, <1>8, <1>10, <1>11, <1>12, SaysInv

LEMMA PromptInv == ASSUME StreamInv, NEW r \in StreamRuns, AskUi(r) \/ Decided(r) PROVE StreamInv'
<1>0. StreamMaps /\ RunOK(r)
  BY DEF StreamInv
<1>1. ASSUME NEW k \in openCalls[r], NEW kind \in {"ask", "decided"}, Emit(r, <<<<kind, k>>>>),
             runAt[r] = "stream", NEW asked \in SUBSET openCalls[r],
             prompts' = [prompts EXCEPT ![r] = asked],
             UNCHANGED <<mode, runAt, ladder, attempt, emittedAny, openCalls, rejected, onDisk, fell, learned>>
      PROVE  StreamInv'
  <2> DEFINE kinds == <<<<kind, k>>>>
  <2>1. k \in Calls /\ openCalls[r] \in SUBSET Calls /\ emittedAny[r]
    BY <1>0, <1>1 DEF RunOK
  <2>2. /\ kinds \in Seq(Sayings \X (Calls \cup {Absent}))
        /\ \A i \in 1 .. Len(kinds) : kinds[i][1] \notin {"call", "result"}
    BY <2>1 DEF Sayings
  <2>3. Emit(r, kinds)
    BY <1>1
  <2> HIDE DEF kinds
  <2>4. Adds(wire[r], wire'[r], kinds, attempt[r]) =>
            ResultsAnswer(wire'[r]) /\ \A l \in openCalls[r] : Announced(wire'[r], l)
    BY <1>0, <2>2, AddsNoCall DEF RunOK
  <2>5. /\ openCalls' = [openCalls EXCEPT ![r] = openCalls[r]]
        /\ emittedAny' = [emittedAny EXCEPT ![r] = TRUE]
    BY <1>0, <1>1, <2>1 DEF StreamMaps
  <2> QED BY <1>1, <2>1, <2>2, <2>3, <2>4, <2>5, SaysInv
<1>2. CASE AskUi(r)
  <2>1. PICK k \in openCalls[r] : /\ Emit(r, <<<<"ask", k>>>>)
                                  /\ prompts' = [prompts EXCEPT ![r] = @ \cup {k}]
    BY <1>2 DEF AskUi
  <2>2. prompts' = [prompts EXCEPT ![r] = prompts[r] \cup {k}] /\ prompts[r] \cup {k} \in SUBSET openCalls[r]
    BY <1>0, <2>1 DEF RunOK
  <2>3. runAt[r] = "stream"
        /\ UNCHANGED <<mode, runAt, ladder, attempt, emittedAny, openCalls, rejected, onDisk, fell, learned>>
    BY <1>2 DEF AskUi
  <2> QED BY <1>1, <2>1, <2>2, <2>3
<1>3. CASE Decided(r)
  <2>1. PICK k \in prompts[r] : /\ Emit(r, <<<<"decided", k>>>>)
                                /\ prompts' = [prompts EXCEPT ![r] = @ \ {k}]
    BY <1>3 DEF Decided
  <2>2. /\ prompts' = [prompts EXCEPT ![r] = prompts[r] \ {k}] /\ prompts[r] \ {k} \in SUBSET openCalls[r]
        /\ k \in openCalls[r]
    BY <1>0, <2>1 DEF RunOK
  <2>3. runAt[r] = "stream"
        /\ UNCHANGED <<mode, runAt, ladder, attempt, emittedAny, openCalls, rejected, onDisk, fell, learned>>
    BY <1>3 DEF Decided
  <2> QED BY <1>1, <2>1, <2>2, <2>3
<1> QED BY <1>2, <1>3

\* An activity is put on the wire: the run stays free to try again.
LEMMA ActivityAdds ==
    ASSUME StreamMaps, NEW r \in StreamRuns, RunOK(r), runAt[r] # "over", ~emittedAny[r],
           Emit(r, <<Activity>>)
    PROVE  /\ wire'[r] \in Seq(WireEvents)
           /\ InOrder(wire'[r]) /\ EndsOnce(wire'[r]) /\ GoesOn(wire'[r])
           /\ OnlyActivity(wire'[r]) /\ ResultsAnswer(wire'[r])
           /\ sequence'[r] = Len(wire'[r]) /\ sequence'[r] \in 0 .. MaxWire
           /\ wire' = [q \in StreamRuns |-> wire'[q]] /\ sequence' = [q \in StreamRuns |-> sequence'[q]]
           /\ \A q \in StreamRuns \ {r} : wire'[q] = wire[q] /\ sequence'[q] = sequence[q]
<1> DEFINE kinds == <<Activity>>
<1>1. kinds \in Seq(WireKinds) /\ Len(kinds) = 1 /\ kinds[1] = Activity
  BY DEF WireKinds, Sayings, Activity
<1>2. Emit(r, kinds)
  OBVIOUS
<1> HIDE DEF kinds
<1>3. Adds(wire[r], wire'[r], kinds, attempt[r])
  BY <1>1, <1>2, EmitAdds
<1>4. /\ sequence'[r] = Len(wire'[r]) /\ sequence'[r] \in 0 .. MaxWire
      /\ wire' = [q \in StreamRuns |-> wire'[q]] /\ sequence' = [q \in StreamRuns |-> sequence'[q]]
      /\ \A q \in StreamRuns \ {r} : wire'[q] = wire[q] /\ sequence'[q] = sequence[q]
  BY <1>1, <1>2, EmitAdds
<1> DEFINE w == wire[r]
           v == wire'[r]
           t == attempt[r]
<1>5. Adds(w, v, kinds, t) /\ InOrder(w) /\ ResultsAnswer(w) /\ OnlyActivity(w)
  BY <1>3 DEF RunOK
<1> HIDE DEF w, v, t
<1>6. /\ DOMAIN w = 1 .. Len(w) /\ DOMAIN v = 1 .. Len(v) /\ Len(w) \in Nat /\ Len(v) \in Nat
      /\ \A i \in DOMAIN w : v[i] = w[i]
      /\ \A i \in DOMAIN v \ DOMAIN w : i > Len(w) /\ v[i].kind = kinds[i - Len(w)]
      /\ InOrder(w) => InOrder(v)
  BY <1>5, AddsKeeps
<1>7. Len(v) = Len(w) + 1 /\ v \in Seq(WireEvents)
  BY <1>1, <1>5 DEF Adds
<1>8. OnlyActivity(v)
  <2> SUFFICES ASSUME NEW i \in DOMAIN v PROVE v[i].kind = Activity
    BY DEF OnlyActivity
  <2>1. CASE i \in DOMAIN w
    BY <1>5, <1>6, <2>1 DEF OnlyActivity
  <2>2. CASE i \notin DOMAIN w
    <3>1. i - Len(w) = 1 /\ v[i].kind = kinds[i - Len(w)]
      BY <1>6, <1>7, <2>2
    <3> QED BY <1>1, <3>1
  <2> QED BY <2>1, <2>2
<1>9. GoesOn(v) /\ EndsOnce(v)
  BY <1>8 DEF OnlyActivity, Activity, GoesOn, EndsOnce, Endings
<1>10. ResultsAnswer(v)
  BY <1>8 DEF OnlyActivity, Activity, ResultsAnswer
<1> QED BY <1>4, <1>5, <1>6, <1>7, <1>8, <1>9, <1>10 DEF v

LEMMA LadderEnds ==
    ASSUME NEW r \in StreamRuns
    PROVE  LadderOK(Ladder(r)) /\ 1 \in DOMAIN Ladder(r)
<1> DEFINE p == ThinkingParams(r)
<1>1. CASE p = Plain
  BY <1>1 DEF Ladder, LadderOK
<1>2. CASE p # Plain /\ mode[r].thinking = "off" /\ p # Minimum
  <2>1. Ladder(r) = <<p, Minimum, Plain>>
    BY <1>2 DEF Ladder
  <2> HIDE DEF p
  <2>2. DOMAIN Ladder(r) = 1 .. 3 /\ Ladder(r)[3] = Plain
    BY <2>1
  <2> QED BY <2>2 DEF LadderOK
<1>3. CASE p # Plain /\ ~(mode[r].thinking = "off" /\ p # Minimum)
  <2>1. Ladder(r) = <<p, Plain>>
    BY <1>3 DEF Ladder
  <2> HIDE DEF p
  <2>2. DOMAIN Ladder(r) = 1 .. 2 /\ Ladder(r)[2] = Plain
    BY <2>1
  <2> QED BY <2>2 DEF LadderOK
<1> QED BY <1>1, <1>2, <1>3

LEMMA StartStreamInv == ASSUME StreamInv, NEW r \in StreamRuns, StartStream(r) PROVE StreamInv'
<1>0. /\ StreamMaps /\ RunOK(r) /\ runAt[r] = "new" /\ Emit(r, <<Activity>>)
      /\ ladder' = [ladder EXCEPT ![r] = Ladder(r)]
      /\ learned' = IF fell THEN learned \cup {r} ELSE learned
      /\ runAt' = [runAt EXCEPT ![r] = "build"]
      /\ UNCHANGED <<mode, attempt, emittedAny, openCalls, prompts, rejected, onDisk, fell>>
  BY DEF StartStream, StreamInv
<1>1. ~emittedAny[r] /\ attempt[r] = 1 /\ openCalls[r] = {} /\ prompts[r] = {} /\ r \notin learned
  BY <1>0 DEF RunOK
<1>2. /\ wire'[r] \in Seq(WireEvents)
      /\ InOrder(wire'[r]) /\ EndsOnce(wire'[r]) /\ GoesOn(wire'[r])
      /\ OnlyActivity(wire'[r]) /\ ResultsAnswer(wire'[r])
      /\ sequence'[r] = Len(wire'[r]) /\ sequence'[r] \in 0 .. MaxWire
      /\ wire' = [q \in StreamRuns |-> wire'[q]] /\ sequence' = [q \in StreamRuns |-> sequence'[q]]
      /\ \A q \in StreamRuns \ {r} : wire'[q] = wire[q] /\ sequence'[q] = sequence[q]
  BY <1>0, <1>1, ActivityAdds
<1>3. /\ ladder' = [q \in StreamRuns |-> ladder'[q]] /\ ladder'[r] = Ladder(r)
      /\ \A q \in StreamRuns \ {r} : ladder'[q] = ladder[q] /\ runAt'[q] = runAt[q]
      /\ runAt'[r] = "build"
      /\ runAt' \in [StreamRuns -> {"new", "build", "stream", "done", "raised", "over"}]
  BY <1>0 DEF StreamMaps
<1>4. StreamMaps' /\ OthersStay(r)
  BY <1>0, <1>2, <1>3 DEF StreamMaps, OthersStay
<1>5. OfTry(wire'[r], 1)
  BY <1>2 DEF OnlyActivity, OfTry
<1>6. RunOK(r)'
  BY <1>0, <1>1, <1>2, <1>3, <1>5, LadderEnds DEF RunOK
<1>7. ASSUME NEW q \in learned', mode[q].override = Absent PROVE ladder'[q] = <<Plain>>
  <2>1. CASE q = r
    <3>1. rejected
      BY <1>0, <1>1, <1>7, <2>1 DEF StreamInv
    <3>2. ThinkingParams(r) = Plain
      BY <1>7, <2>1, <3>1 DEF ThinkingParams
    <3> QED BY <1>3, <2>1, <3>2 DEF Ladder
  <2>2. CASE q # r
    <3>1. q \in learned /\ q \in StreamRuns
      BY <1>0, <1>7, <2>2 DEF StreamInv
    <3> QED BY <1>3, <1>7, <2>2, <3>1 DEF StreamInv, LearnedOnce
  <2> QED BY <2>1, <2>2
<1>8. LearnedOnce' /\ learned' \subseteq StreamRuns
  BY <1>0, <1>7 DEF LearnedOnce, StreamInv
<1> QED BY <1>0, <1>4, <1>6, <1>8, OneRunMoves DEF StreamInv

\* A step after which the wire is the same, and the run is elsewhere.
LEMMA QuietStepInv ==
    ASSUME StreamInv, NEW r \in StreamRuns, runAt[r] # "over",
           NEW to \in {"stream", "done", "raised"}, runAt' = [runAt EXCEPT ![r] = to],
           \/ UNCHANGED emittedAny
           \/ runAt[r] = "build" /\ emittedAny' = [emittedAny EXCEPT ![r] = FALSE],
           UNCHANGED <<mode, ladder, attempt, sequence, wire, openCalls, prompts, fell, learned>>,
           rejected' \in BOOLEAN, onDisk' \in BOOLEAN, fell => rejected'
    PROVE  StreamInv'
<1>1. StreamMaps /\ RunOK(r) /\ LearnedOnce /\ learned \subseteq StreamRuns /\ fell \in BOOLEAN
  BY DEF StreamInv
<1>2. /\ runAt'[r] = to /\ \A q \in StreamRuns \ {r} : runAt'[q] = runAt[q] /\ emittedAny'[q] = emittedAny[q]
      /\ runAt' \in [StreamRuns -> {"new", "build", "stream", "done", "raised", "over"}]
      /\ emittedAny' \in [StreamRuns -> BOOLEAN]
  BY <1>1 DEF StreamMaps
<1>3. emittedAny'[r] = emittedAny[r]
  <2>1. CASE UNCHANGED emittedAny
    BY <2>1
  <2>2. CASE runAt[r] = "build" /\ emittedAny' = [emittedAny EXCEPT ![r] = FALSE]
    <3>1. emittedAny[r] \in BOOLEAN /\ ~emittedAny[r]
      BY <1>1, <2>2 DEF StreamMaps, RunOK
    <3>2. emittedAny'[r] = FALSE
      BY <1>1, <2>2 DEF StreamMaps
    <3> QED BY <3>1, <3>2
  <2> QED BY <2>1, <2>2
<1>4. StreamMaps' /\ OthersStay(r) /\ LearnedOnce'
  BY <1>1, <1>2 DEF StreamMaps, OthersStay, LearnedOnce
<1>5. RunOK(r)'
  BY <1>1, <1>2, <1>3 DEF RunOK
<1> QED BY <1>1, <1>4, <1>5, OneRunMoves

LEMMA LadderStepsInv ==
    ASSUME StreamInv, NEW r \in StreamRuns,
           BuildAgent(r) \/ ParametersRejected(r) \/ StreamRaises(r) \/ StreamStops(r)
    PROVE  StreamInv'
<1>0. /\ rejected \in BOOLEAN /\ onDisk \in BOOLEAN /\ fell \in BOOLEAN /\ (fell => rejected)
      /\ StreamMaps /\ RunOK(r) /\ LearnedOnce /\ learned \subseteq StreamRuns
  BY DEF StreamInv
<1>1. CASE BuildAgent(r)
  BY <1>0, <1>1, QuietStepInv DEF BuildAgent
<1>2. CASE StreamRaises(r)
  BY <1>0, <1>2, QuietStepInv DEF StreamRaises
<1>3. CASE StreamStops(r)
  BY <1>0, <1>3, QuietStepInv DEF StreamStops
<1>4. CASE ParametersRejected(r)
  <2> DEFINE next == attempt[r] + 1
  <2>1. /\ runAt[r] = "stream" /\ ladder[r][attempt[r]] # Plain
        /\ IF ladder[r][next] = Plain THEN MarkUnsupported ELSE UNCHANGED <<rejected, onDisk>>
        /\ UNCHANGED <<mode, ladder, emittedAny, openCalls, prompts, learned>>
    BY <1>4 DEF ParametersRejected
  <2>2. /\ rejected' \in BOOLEAN /\ onDisk' \in BOOLEAN /\ (rejected => rejected')
        /\ ladder[r][next] = Plain => rejected'
    BY <1>0, <2>1 DEF MarkUnsupported
  <2>3. CASE emittedAny[r]
    <3>1. /\ runAt' = [runAt EXCEPT ![r] = "raised"]
          /\ UNCHANGED <<attempt, sequence, wire, fell>>
      BY <1>4, <2>3 DEF ParametersRejected
    <3> QED BY <1>0, <2>1, <2>2, <3>1, QuietStepInv
  <2>4. CASE ~emittedAny[r]
    <3>1. /\ attempt' = [attempt EXCEPT ![r] = next]
          /\ fell' = (fell \/ ladder[r][next] = Plain)
          /\ Emit(r, <<Activity>>)
          /\ runAt' = [runAt EXCEPT ![r] = "build"]
      BY <1>4, <2>4 DEF ParametersRejected
    <3>2. /\ wire'[r] \in Seq(WireEvents)
          /\ InOrder(wire'[r]) /\ EndsOnce(wire'[r]) /\ GoesOn(wire'[r])
          /\ OnlyActivity(wire'[r]) /\ ResultsAnswer(wire'[r])
          /\ sequence'[r] = Len(wire'[r]) /\ sequence'[r] \in 0 .. MaxWire
          /\ wire' = [q \in StreamRuns |-> wire'[q]] /\ sequence' = [q \in StreamRuns |-> sequence'[q]]
          /\ \A q \in StreamRuns \ {r} : wire'[q] = wire[q] /\ sequence'[q] = sequence[q]
      BY <1>0, <2>1, <2>4, <3>1, ActivityAdds
    <3>3. LadderOK(ladder[r]) /\ next \in DOMAIN ladder[r] /\ openCalls[r] = {} /\ prompts[r] = {}
      BY <1>0, <2>1, <2>4 DEF RunOK, LadderOK
    <3> HIDE DEF next
    <3>4. /\ attempt' = [q \in StreamRuns |-> attempt'[q]] /\ attempt'[r] = next
          /\ \A q \in StreamRuns \ {r} : attempt'[q] = attempt[q] /\ runAt'[q] = runAt[q]
          /\ runAt'[r] = "build"
          /\ runAt' \in [StreamRuns -> {"new", "build", "stream", "done", "raised", "over"}]
      BY <1>0, <3>1 DEF StreamMaps
    <3>5. StreamMaps' /\ OthersStay(r) /\ LearnedOnce'
      BY <1>0, <2>1, <3>2, <3>4 DEF StreamMaps, OthersStay, LearnedOnce
    <3>6. OfTry(wire'[r], next)
      BY <3>2 DEF OnlyActivity, OfTry
    <3>7. RunOK(r)'
      BY <1>0, <2>1, <2>4, <3>2, <3>3, <3>4, <3>6 DEF RunOK
    <3>8. fell' \in BOOLEAN /\ (fell' => rejected')
      BY <1>0, <2>2, <3>1
    <3> QED BY <1>0, <2>1, <2>2, <3>5, <3>7, <3>8, OneRunMoves
  <2> QED BY <2>3, <2>4
<1> QED BY <1>1, <1>2, <1>3, <1>4

\* The last event of a run.
LEMMA LastEventInv ==
    ASSUME StreamInv, NEW r \in StreamRuns, EndStream(r) \/ FailStream(r) PROVE StreamInv'
<1>0. /\ StreamMaps /\ RunOK(r) /\ LearnedOnce /\ learned \subseteq StreamRuns /\ runAt[r] # "over"
      /\ runAt' = [runAt EXCEPT ![r] = "over"]
      /\ UNCHANGED <<mode, ladder, attempt, emittedAny, sequence, openCalls, prompts>>
      /\ UNCHANGED <<rejected, onDisk, fell, learned>>
  BY DEF StreamInv, EndStream, FailStream
<1>1. \E v, e : /\ Adds(wire[r], v, <<<<e, Absent>>>>, attempt[r]) /\ e \in Endings
                /\ wire' = [wire EXCEPT ![r] = v]
  <2>1. CASE EndStream(r)
    <3> DEFINE e == IF stop[r] THEN "cancelled" ELSE "completed"
               kinds == <<<<e, Absent>>>>
    <3>1. e \in Endings
      BY DEF Endings
    <3>2. kinds \in Seq(WireKinds)
      BY <3>1 DEF WireKinds
    <3>3. wire' = [wire EXCEPT ![r] = wire[r] \o Numbered(r, kinds, sequence[r])]
      BY <2>1 DEF EndStream
    <3> HIDE DEF kinds
    <3>4. Adds(wire[r], wire[r] \o Numbered(r, kinds, sequence[r]), kinds, attempt[r])
      BY <1>0, <3>2, NumberedAdds
    <3> HIDE DEF e
    <3> QED BY <3>1, <3>3, <3>4 DEF kinds
  <2>2. CASE FailStream(r)
    <3> DEFINE e == IF stop[r] THEN "cancelled" ELSE "failed"
               w == wire[r]
               event == [kind |-> <<e, Absent>>, at |-> Absent, try |-> attempt[r]]
               v == Append(w, event)
    <3>1. e \in Endings
      BY DEF Endings
    <3>2. wire' = [wire EXCEPT ![r] = v]
      BY <2>2 DEF FailStream
    <3>3. w \in Seq(WireEvents) /\ attempt[r] \in Nat
      BY <1>0 DEF RunOK, LadderOK
    <3>4. event \in WireEvents /\ event.kind = <<e, Absent>> /\ event.at = Absent /\ event.try = attempt[r]
      BY <3>1, <3>3 DEF WireEvents
    <3> HIDE DEF w, e, event
    <3>5. /\ v \in Seq(WireEvents) /\ Len(v) = Len(w) + 1 /\ Len(w) \in Nat
          /\ \A i \in 1 .. Len(w) : v[i] = w[i]
          /\ v[Len(w) + 1] = event
      BY <3>3, <3>4
    <3> HIDE DEF v
    <3>6. \A i \in Len(w) + 1 .. Len(v) : i = Len(w) + 1 /\ i - Len(w) = 1
      BY <3>5
    <3>7. Len(<<<<e, Absent>>>>) = 1 /\ <<<<e, Absent>>>>[1] = <<e, Absent>>
      OBVIOUS
    <3>8. Adds(w, v, <<<<e, Absent>>>>, attempt[r])
      BY <3>3, <3>4, <3>5, <3>6, <3>7 DEF Adds
    <3> QED BY <3>1, <3>2, <3>8 DEF w
  <2> QED BY <2>1, <2>2
<1>2. PICK v, e : /\ Adds(wire[r], v, <<<<e, Absent>>>>, attempt[r]) /\ e \in Endings
                  /\ wire' = [wire EXCEPT ![r] = v]
  BY <1>1
<1>3. /\ wire' = [q \in StreamRuns |-> wire'[q]] /\ wire'[r] = v
      /\ \A q \in StreamRuns \ {r} : wire'[q] = wire[q] /\ runAt'[q] = runAt[q]
      /\ runAt'[r] = "over"
      /\ runAt' \in [StreamRuns -> {"new", "build", "stream", "done", "raised", "over"}]
  BY <1>0, <1>2 DEF StreamMaps
<1> DEFINE w == wire[r]
           t == attempt[r]
           kinds == <<<<e, Absent>>>>
<1>4. Adds(w, v, kinds, t) /\ InOrder(w) /\ OfTry(w, t) /\ GoesOn(w) /\ ResultsAnswer(w)
      /\ \A k \in openCalls[r] : Announced(w, k)
  BY <1>0, <1>2 DEF RunOK
<1>5. Len(kinds) = 1 /\ \A i \in 1 .. Len(kinds) : kinds[i][1] \notin {"call", "result"}
  BY <1>2 DEF Endings
<1> HIDE DEF w, t, kinds
<1>6. /\ DOMAIN w = 1 .. Len(w) /\ DOMAIN v = 1 .. Len(v) /\ Len(w) \in Nat
      /\ \A i \in DOMAIN w : v[i] = w[i]
      /\ InOrder(v) /\ OfTry(v, t)
  BY <1>4, AddsKeeps
<1>7. ResultsAnswer(v) /\ \A k \in openCalls[r] : Announced(v, k)
  BY <1>4, <1>5, AddsNoCall
<1>8. v \in Seq(WireEvents) /\ Len(v) = Len(w) + 1
  BY <1>4, <1>5 DEF Adds
<1>9. EndsOnce(v)
  <2> SUFFICES ASSUME NEW i \in DOMAIN v, v[i].kind[1] \in Endings PROVE i = Len(v)
    BY DEF EndsOnce
  <2>1. i \notin DOMAIN w
    BY <1>4, <1>6 DEF GoesOn
  <2> QED BY <1>6, <1>8, <2>1
<1>10. StreamMaps' /\ OthersStay(r) /\ LearnedOnce'
  BY <1>0, <1>3 DEF StreamMaps, OthersStay, LearnedOnce
<1>11. RunOK(r)'
  BY <1>0, <1>3, <1>6, <1>7, <1>8, <1>9 DEF RunOK, t
<1> QED BY <1>0, <1>10, <1>11, OneRunMoves DEF StreamInv

LEMMA CacheReloadsInv == ASSUME StreamInv, CacheReloads PROVE StreamInv'
<1>1. ASSUME NEW r \in StreamRuns PROVE RunOK(r)'
  <2>1. RunOK(r) /\ UNCHANGED <<ladder, attempt, emittedAny, sequence, wire, openCalls, prompts, learned>>
        /\ runAt'[r] = IF runAt[r] = "new" THEN "new" ELSE "over"
    BY DEF StreamInv, CacheReloads
  <2> QED BY <2>1 DEF RunOK
<1>2. StreamMaps' /\ LearnedOnce'
  BY DEF StreamInv, CacheReloads, StreamMaps, LearnedOnce
<1> QED BY <1>1, <1>2 DEF StreamInv, CacheReloads

LEMMA CancelStreamInv == ASSUME StreamInv, NEW r \in StreamRuns, CancelStream(r) PROVE StreamInv'
BY DEF CancelStream, runVars, StreamInv, StreamMaps, LearnedOnce, RunOK

LEMMA StreamInitInv == StreamInit => StreamInv
<1> SUFFICES ASSUME StreamInit PROVE StreamInv
  OBVIOUS
<1>1. StreamMaps /\ LearnedOnce
  BY DEF StreamInit, StreamMaps, LearnedOnce
<1>2. ASSUME NEW r \in StreamRuns PROVE RunOK(r)
  <2>1. /\ wire[r] = <<>> /\ ladder[r] = <<Plain>> /\ attempt[r] = 1 /\ runAt[r] = "new"
        /\ ~emittedAny[r] /\ sequence[r] = 0 /\ openCalls[r] = {} /\ prompts[r] = {} /\ learned = {}
    BY DEF StreamInit
  <2>2. wire[r] \in Seq(WireEvents) /\ Len(wire[r]) = 0 /\ DOMAIN wire[r] = {}
    BY <2>1
  <2>3. LadderOK(ladder[r]) /\ 1 \in DOMAIN ladder[r]
    BY <2>1 DEF LadderOK
  <2>4. InOrder(wire[r]) /\ OfTry(wire[r], 1) /\ EndsOnce(wire[r]) /\ ResultsAnswer(wire[r])
        /\ GoesOn(wire[r]) /\ OnlyActivity(wire[r])
    BY <2>2 DEF InOrder, OfTry, EndsOnce, ResultsAnswer, GoesOn, OnlyActivity
  <2> QED BY <2>1, <2>2, <2>3, <2>4, StreamAssumption DEF RunOK
<1> QED BY <1>1, <1>2 DEF StreamInit, StreamInv

LEMMA StreamStepInv == StreamInv /\ [StreamNext]_streamVars => StreamInv'
<1> SUFFICES ASSUME StreamInv, [StreamNext]_streamVars PROVE StreamInv'
  OBVIOUS
<1>1. CASE UNCHANGED streamVars
  BY <1>1 DEF streamVars, StreamInv, StreamMaps, LearnedOnce, RunOK
<1> QED BY <1>1, StartStreamInv, LadderStepsInv, TextEventInv, ToolUseInv, ToolResultInv, PromptInv,
           LastEventInv, CancelStreamInv, CacheReloadsInv DEF StreamNext

\* A result stands behind its call and nothing else of this call is between or before them.
LEMMA ResultIsSecond ==
    ASSUME NEW w, NEW i \in Nat, w[i].kind[1] = "result", IsAnswer(w, i)
    PROVE  Cardinality({j \in 1 .. i : /\ w[j].kind[2] = w[i].kind[2]
                                       /\ w[j].kind[1] \in {"call", "result"}}) = 2
<1> DEFINE both == {j \in 1 .. i : /\ w[j].kind[2] = w[i].kind[2]
                                   /\ w[j].kind[1] \in {"call", "result"}}
<1>1. PICK a \in 1 .. i - 1 : /\ Concerns(w[a], w[i].kind[2])
                             /\ \A j \in 1 .. i : Concerns(w[j], w[i].kind[2]) => j \in {a, i}
  BY DEF IsAnswer
<1>2. both = {a} \cup {i} /\ i \notin {a}
  BY <1>1 DEF Concerns
<1>3. IsFiniteSet({a}) /\ Cardinality({a}) = 1
  BY FS_Singleton
<1>4. Cardinality({a} \cup {i}) = Cardinality({a}) + 1
  BY <1>2, <1>3, FS_AddElement
<1> HIDE DEF both
<1>5. Cardinality(both) = 2
  BY <1>2, <1>3, <1>4
<1> QED BY <1>5 DEF both

\* _stream() of the sidecar's chat runs, with the ladder of thinking parameters: what a
\* reader sees of a run was said by one attempt, in the order of one counter, each result
\* once and behind its call, and a run that begins after another was refused the
\* parameters sends none, for all runs, modes, calls and lengths of the wire.
THEOREM StreamAlwaysOK == StreamSpec => []StreamOK
<1>1. StreamInv => StreamOK
  <2> SUFFICES ASSUME StreamInv PROVE StreamOK
    OBVIOUS
  <2>1. ASSUME NEW r \in StreamRuns
        PROVE  /\ ladder[r] # <<>> /\ attempt[r] \in DOMAIN ladder[r] /\ sequence[r] \in 0 .. MaxWire
               /\ prompts[r] \subseteq openCalls[r] /\ openCalls[r] \subseteq Calls
               /\ \A i, j \in DOMAIN wire[r] :
                     wire[r][i].kind # Activity /\ wire[r][j].kind # Activity
                         => wire[r][i].try = wire[r][j].try
    BY DEF StreamInv, RunOK, OfTry, LadderOK
  <2>2. ASSUME NEW r \in StreamRuns, NEW i \in DOMAIN wire[r]
        PROVE  /\ wire[r][i].at \in {i - 1, Absent}
               /\ wire[r][i].kind[1] \in {"completed", "failed", "cancelled"} => i = Len(wire[r])
               /\ wire[r][i].kind[1] = "result" =>
                      Cardinality({j \in 1 .. i : /\ wire[r][j].kind[2] = wire[r][i].kind[2]
                                                  /\ wire[r][j].kind[1] \in {"call", "result"}}) = 2
    <3>1. InOrder(wire[r]) /\ EndsOnce(wire[r]) /\ ResultsAnswer(wire[r]) /\ i \in Nat
      BY DEF StreamInv, RunOK
    <3> QED BY <3>1, ResultIsSecond DEF InOrder, EndsOnce, Endings, ResultsAnswer
  <2>3. StreamTypeOK
    <3>1. sequence \in [StreamRuns -> 0 .. MaxWire]
      BY <2>1 DEF StreamInv, StreamMaps
    <3> QED BY <2>1, <3>1 DEF StreamTypeOK, StreamInv, StreamMaps
  <2>4. AnswerIsOneAttempt
    BY <2>1 DEF AnswerIsOneAttempt
  <2>5. WireIsOrdered
    BY <2>2 DEF WireIsOrdered
  <2> QED BY <2>3, <2>4, <2>5 DEF StreamOK, StreamInv
<1> QED BY <1>1, StreamInitInv, StreamStepInv, PTL DEF StreamSpec
-----------------------------------------------------------------------------
(* Listings.                                                               *)

\* A finite set of numbers has a least and a greatest element.
LEMMA HasLeast ==
    ASSUME NEW S \in SUBSET Nat, S # {}
    PROVE  \E m \in S : \A k \in S : m <= k
<1> DEFINE upTo(m) == {k \in S : k <= m}
           family == {upTo(m) : m \in S}
<1>1. \A m \in S : IsFiniteSet(upTo(m))
  BY FS_BoundedSetOfNaturals
<1>2. family \subseteq FiniteSubsetsOf(S) /\ family # {}
  BY <1>1 DEF FiniteSubsetsOf
<1>3. IsWellFoundedOn(StrictSubsetOrdering(S), FiniteSubsetsOf(S))
  BY FS_StrictSubsetOrderingWellFounded
<1> HIDE DEF family
<1>4. \E T \in family : \A U \in family : ~(<<U, T>> \in StrictSubsetOrdering(S))
  BY <1>2, <1>3, WFMin
<1> USE DEF family
<1>5. PICK m \in S : \A U \in family : ~(<<U, upTo(m)>> \in StrictSubsetOrdering(S))
  BY <1>4
<1>6. ASSUME NEW k \in S, ~(m <= k) PROVE FALSE
  <2>1. upTo(k) \in family /\ upTo(k) \subseteq upTo(m) /\ m \in upTo(m) /\ m \notin upTo(k)
    <3>1. k \in Nat /\ m \in Nat /\ k < m
      BY <1>6
    <3>2. \A j \in S : j \in Nat /\ (j <= k => j <= m)
      BY <3>1
    <3>3. upTo(k) \in family
      OBVIOUS
    <3>4. upTo(k) \subseteq upTo(m)
      BY <3>2
    <3>5. m \in upTo(m)
      BY <3>1
    <3>6. m \notin upTo(k)
      BY <1>6
    <3> HIDE DEF family, upTo
    <3> QED BY <3>3, <3>4, <3>5, <3>6
  <2>2. <<upTo(k), upTo(m)>> \in (SUBSET S) \X (SUBSET S) /\ upTo(k) # upTo(m)
    BY <2>1
  <2> HIDE DEF upTo
  <2> QED BY <1>5, <2>1, <2>2 DEF StrictSubsetOrdering
<1> QED BY <1>5, <1>6

LEMMA HasGreatest ==
    ASSUME NEW S \in SUBSET Nat, S # {}, NEW n \in Nat, \A k \in S : k <= n
    PROVE  \E m \in S : \A k \in S : k <= m
<1> DEFINE T == {n - k : k \in S}
<1>1. T \in SUBSET Nat /\ T # {}
  <2>1. \A k \in S : n - k \in Nat
    OBVIOUS
  <2> QED BY <2>1
<1>2. PICK t \in T : \A u \in T : t <= u
  <2> HIDE DEF T
  <2> QED BY <1>1, HasLeast
<1>3. PICK m \in S : t = n - m
  OBVIOUS
<1>4. ASSUME NEW k \in S PROVE k <= m
  <2>1. n - m <= n - k /\ m \in Nat /\ k \in Nat
    BY <1>2, <1>3
  <2> QED BY <2>1
<1> QED BY <1>4

LEMMA ListedFinite ==
    ASSUME NEW S \in SUBSET ListKeys
    PROVE  IsFiniteSet(S) /\ Cardinality(S) \in Nat /\ S \subseteq Nat
           /\ \A k \in S : k <= Cardinality(ListKeys)
<1>1. IsFiniteSet(S) /\ Cardinality(S) \in Nat /\ Cardinality(ListKeys) \in Nat
  BY FS_Subset, FS_CardinalityType, ListingsAssumption
<1>2. \A k \in ListKeys : k \in Nat /\ k <= Cardinality(ListKeys)
  BY <1>1, ListingsAssumption
<1> QED BY <1>1, <1>2

\* The number of newer rows in a set grows with the set, and towards older rows.
LEMMA NewerGrows ==
    ASSUME NEW S \in SUBSET ListKeys, NEW T \in SUBSET S, NEW k \in ListKeys
    PROVE  /\ Cardinality(Newer(k, T)) \in Nat /\ Cardinality(Newer(k, S)) \in Nat
           /\ Cardinality(Newer(k, T)) <= Cardinality(Newer(k, S))
<1>1. Newer(k, S) \in SUBSET ListKeys /\ Newer(k, T) \in SUBSET Newer(k, S)
  BY DEF Newer
<1>2. IsFiniteSet(Newer(k, S)) /\ Cardinality(Newer(k, S)) \in Nat
  BY <1>1, ListedFinite
<1>3. IsFiniteSet(Newer(k, T)) /\ Cardinality(Newer(k, T)) <= Cardinality(Newer(k, S))
  BY <1>1, <1>2, FS_Subset
<1> QED BY <1>2, <1>3, FS_CardinalityType

LEMMA NewerOfOlder ==
    ASSUME NEW S \in SUBSET ListKeys, NEW k \in S, NEW l \in S, k < l
    PROVE  Cardinality(Newer(l, S)) < Cardinality(Newer(k, S))
<1>1. Newer(k, S) \in SUBSET ListKeys /\ Newer(l, S) \in SUBSET (Newer(k, S) \ {l}) /\ l \in Newer(k, S)
  BY ListedFinite DEF Newer
<1>2. IsFiniteSet(Newer(k, S)) /\ Cardinality(Newer(k, S)) \in Nat
  BY <1>1, ListedFinite
<1>3. IsFiniteSet(Newer(k, S) \ {l}) /\ Cardinality(Newer(k, S) \ {l}) = Cardinality(Newer(k, S)) - 1
  BY <1>1, <1>2, FS_RemoveElement
<1>4. IsFiniteSet(Newer(l, S)) /\ Cardinality(Newer(l, S)) <= Cardinality(Newer(k, S) \ {l})
  BY <1>1, <1>3, FS_Subset
<1> QED BY <1>2, <1>3, <1>4, FS_CardinalityType

\* The rank of a row is under the number of rows.
LEMMA RankBelow ==
    ASSUME NEW S \in SUBSET ListKeys, NEW k \in S
    PROVE  Cardinality(Newer(k, S)) < Cardinality(S)
<1>1. Newer(k, S) \in SUBSET (S \ {k})
  BY ListedFinite DEF Newer
<1>2. IsFiniteSet(S) /\ Cardinality(S) \in Nat
  BY ListedFinite
<1>3. IsFiniteSet(S \ {k}) /\ Cardinality(S \ {k}) = Cardinality(S) - 1
  BY <1>2, FS_RemoveElement
<1>4. IsFiniteSet(Newer(k, S)) /\ Cardinality(Newer(k, S)) <= Cardinality(S \ {k})
  BY <1>1, <1>3, FS_Subset
<1> QED BY <1>2, <1>3, <1>4, FS_CardinalityType

\* A page holds the newest rows: with one it holds all newer ones, and when it is not
\* full it holds them all.
FirstRows(S) == {k \in S : Cardinality(Newer(k, S)) < PageSize}

LEMMA PageIsUpper ==
    ASSUME NEW S \in SUBSET ListKeys, NEW k \in S, NEW l \in FirstRows(S), l <= k
    PROVE  k \in FirstRows(S)
<1>1. l \in S /\ Cardinality(Newer(l, S)) < PageSize /\ k \in Nat /\ l \in Nat
  BY ListedFinite DEF FirstRows
<1>2. CASE k = l
  BY <1>2
<1>3. CASE l < k
  <2>1. Cardinality(Newer(k, S)) < Cardinality(Newer(l, S))
    BY <1>1, <1>3, NewerOfOlder
  <2>2. Cardinality(Newer(k, S)) \in Nat /\ Cardinality(Newer(l, S)) \in Nat /\ PageSize \in Nat
    BY <1>1, NewerGrows, ListingsAssumption
  <2> QED BY <1>1, <2>1, <2>2 DEF FirstRows
<1> QED BY <1>1, <1>2, <1>3

LEMMA ShortPageIsAll ==
    ASSUME NEW S \in SUBSET ListKeys, Cardinality(FirstRows(S)) # PageSize
    PROVE  FirstRows(S) = S
<1> SUFFICES ASSUME S \ FirstRows(S) # {} PROVE FALSE
  BY DEF FirstRows
<1> DEFINE page == FirstRows(S)
           rest == S \ page
<1>0. page \in SUBSET S /\ page \in SUBSET ListKeys /\ rest \in SUBSET ListKeys
      /\ PageSize \in Nat /\ PageSize > 0
  BY ListingsAssumption DEF FirstRows
<1>1. IsFiniteSet(page) /\ Cardinality(page) \in Nat /\ rest \in SUBSET Nat /\ rest # {}
      /\ \A k \in rest : k <= Cardinality(ListKeys)
  BY <1>0, ListedFinite
<1>2. Cardinality(ListKeys) \in Nat
  BY FS_CardinalityType, ListingsAssumption
<1>3. PICK m \in rest : \A k \in rest : k <= m
  <2> HIDE DEF rest
  <2> QED BY <1>1, <1>2, HasGreatest
<1>4. Newer(m, S) = page
  <2>1. ASSUME NEW k \in S, k > m PROVE k \in page
    BY <1>3, <2>1, ListedFinite
  <2>2. ASSUME NEW k \in page PROVE k > m
    <3>1. k \in Nat /\ m \in Nat /\ (k <= m => m \in FirstRows(S))
      BY <1>0, PageIsUpper, ListedFinite
    <3> QED BY <3>1
  <2> QED BY <1>0, <2>1, <2>2 DEF Newer
<1>5. ~(Cardinality(page) < PageSize)
  BY <1>4 DEF FirstRows
<1>6. page # {} /\ page \in SUBSET Nat
  BY <1>0, <1>1, <1>5, FS_EmptySet, ListedFinite
<1>7. PICK p \in page : \A k \in page : p <= k
  <2> HIDE DEF page
  <2> QED BY <1>6, HasLeast
<1>8. page \ {p} = Newer(p, S)
  <2>1. ASSUME NEW k \in page \ {p} PROVE k > p
    BY <1>6, <1>7
  <2>2. ASSUME NEW k \in S, k > p PROVE k \in page \ {p}
    <3>1. k \in Nat /\ p \in Nat /\ k # p /\ p <= k
      BY <1>6, <2>2, ListedFinite
    <3> QED BY <3>1, PageIsUpper
  <2> QED BY <1>0, <2>1, <2>2 DEF Newer
<1>9. Cardinality(Newer(p, S)) = Cardinality(page) - 1
  BY <1>1, <1>8, FS_RemoveElement
<1>10. Cardinality(Newer(p, S)) < PageSize
  BY <1>7 DEF FirstRows
<1> HIDE DEF page
<1> QED BY <1>0, <1>1, <1>5, <1>9, <1>10 DEF page

\* A listing by key has shown, once each, the rows down to its cursor that matched all along.
KeysShown ==
    /\ \A k \in ListKeys : listing.shown[k] <= 1 /\ (listing.shown[k] = 1 => listing.done \/ listing.at <= k)
    /\ \A k \in listing.steady : listing.done \/ listing.at <= k => listing.shown[k] >= 1

\* The listing of the trash has shown the records in front of its offset.
RecordsShown ==
    /\ ~listing.came =>
           \A k \in ListKeys :
               /\ listing.shown[k] <= 1
               /\ k \in Listed(rows) /\ listing.shown[k] >= 1
                      => Cardinality(Newer(k, Listed(rows))) < listing.at
    /\ ~listing.left =>
           \A k \in listing.steady :
               listing.done \/ Cardinality(Newer(k, Listed(rows))) < listing.at
                   => listing.shown[k] >= 1

ListingOK ==
    /\ listing.at \in Nat /\ listing.shown \in [ListKeys -> Nat]
    /\ listing.came \in BOOLEAN /\ listing.left \in BOOLEAN /\ listing.done \in BOOLEAN
    /\ listing.steady \subseteq Listed(rows)
    /\ IF table = "trash" THEN RecordsShown ELSE KeysShown

ListingInv ==
    /\ table \in Tables /\ rows = [k \in ListKeys |-> rows[k]]
    /\ listing # Absent => ListingOK

LEMMA ChangeInv ==
    ASSUME ListingInv, NEW k \in ListKeys, NEW row, Change(k, row),
           table = "trash" => \/ rows[k] = Absent
                              \/ row = Absent
    PROVE  ListingInv'
<1>1. /\ rows = [l \in ListKeys |-> rows[l]] /\ rows' = [rows EXCEPT ![k] = row] /\ table' = table
      /\ table \in Tables
  BY DEF ListingInv, Change
<1>2. rows' = [l \in ListKeys |-> rows'[l]] /\ rows'[k] = row /\ \A l \in ListKeys \ {k} : rows'[l] = rows[l]
  BY <1>1
<1>3. ASSUME listing # Absent PROVE ListingOK'
  <2>1. /\ listing'.at = listing.at /\ listing'.shown = listing.shown /\ listing'.done = listing.done
        /\ listing'.steady = listing.steady \cap Listed(rows')
        /\ listing'.came = (listing.came \/ rows[k] = Absent)
        /\ listing'.left = (listing.left \/ row = Absent)
    BY <1>3 DEF Change
  <2>2. ListingOK
    BY <1>3 DEF ListingInv
  <2>3. CASE table # "trash"
    <3>1. KeysShown /\ listing'.steady \subseteq listing.steady
      BY <2>1, <2>2, <2>3 DEF ListingOK
    <3>2. KeysShown'
      BY <2>1, <3>1 DEF KeysShown
    <3>3. listing'.steady \subseteq Listed(rows)'
      BY <1>1, <2>1, <2>3 DEF Listed, Matches, ListNotifications, ListAttachments, ListArtifacts,
                             ListPlans, ListMemories, ListSources
    <3> QED BY <1>1, <2>1, <2>2, <2>3, <3>2, <3>3 DEF ListingOK
  <2>4. CASE table = "trash"
    <3> DEFINE now == Listed(rows)
               then == Listed(rows)'
    <3>1. /\ now = {l \in ListKeys : rows[l] # Absent} /\ then = {l \in ListKeys : rows'[l] # Absent}
          /\ Listed(rows') = then
      BY <1>1, <2>4 DEF Listed, Matches
    <3>2. RecordsShown /\ listing.steady \subseteq now
      BY <2>2, <2>4 DEF ListingOK
    <3>3. rows[k] = Absent => now \in SUBSET then
      BY <1>2, <3>1
    <3>4. row = Absent => then \in SUBSET now
      BY <1>2, <3>1
    <3>5. now \in SUBSET ListKeys /\ then \in SUBSET ListKeys
      BY <3>1
    <3> HIDE DEF now, then
    <3>6. ASSUME ~listing'.came, NEW l \in ListKeys
          PROVE  /\ listing'.shown[l] <= 1
                 /\ l \in then /\ listing'.shown[l] >= 1
                        => Cardinality(Newer(l, then)) < listing'.at
      <4>1. ~listing.came /\ then \in SUBSET now
        BY <2>1, <2>2, <2>4, <3>4, <3>6 DEF ListingOK
      <4>2. /\ listing.shown[l] <= 1
            /\ l \in now /\ listing.shown[l] >= 1 => Cardinality(Newer(l, now)) < listing.at
        BY <3>2, <4>1 DEF RecordsShown, now
      <4>3. /\ Cardinality(Newer(l, then)) \in Nat /\ Cardinality(Newer(l, now)) \in Nat
            /\ Cardinality(Newer(l, then)) <= Cardinality(Newer(l, now))
        BY <3>5, <4>1, NewerGrows
      <4>4. listing.at \in Nat
        BY <2>2 DEF ListingOK
      <4> QED BY <2>1, <4>1, <4>2, <4>3, <4>4
    <3>7. ASSUME ~listing'.left, NEW l \in listing'.steady,
                 listing'.done \/ Cardinality(Newer(l, then)) < listing'.at
          PROVE  listing'.shown[l] >= 1
      <4>1. ~listing.left /\ now \in SUBSET then
        BY <2>1, <2>2, <2>4, <3>3, <3>7 DEF ListingOK
      <4>2. l \in listing.steady /\ l \in ListKeys
        BY <2>1, <3>2, <3>5, <3>7
      <4>3. /\ Cardinality(Newer(l, then)) \in Nat /\ Cardinality(Newer(l, now)) \in Nat
            /\ Cardinality(Newer(l, now)) <= Cardinality(Newer(l, then))
        BY <3>5, <4>1, <4>2, NewerGrows
      <4>4. listing.at \in Nat
        BY <2>2 DEF ListingOK
      <4>5. listing.done \/ Cardinality(Newer(l, now)) < listing.at
        BY <2>1, <3>7, <4>3, <4>4
      <4> QED BY <2>1, <3>2, <4>1, <4>2, <4>5 DEF RecordsShown, now
    <3>8. RecordsShown'
      BY <3>6, <3>7 DEF RecordsShown, then
    <3>9. listing'.steady \subseteq Listed(rows)'
      BY <2>1, <3>1 DEF then
    <3> QED BY <1>1, <2>1, <2>2, <2>4, <3>8, <3>9 DEF ListingOK
  <2> QED BY <2>3, <2>4
<1>4. listing = Absent => listing' = Absent
  BY DEF Change
<1> QED BY <1>1, <1>2, <1>3, <1>4 DEF ListingInv

LEMMA StartListingInv == ASSUME ListingInv, StartListing PROVE ListingInv'
<1>1. /\ listing'.at = IF table = "trash" THEN 0 ELSE Cardinality(ListKeys) + 1
      /\ listing'.steady = Listed(rows) /\ listing'.shown = [k \in ListKeys |-> 0]
      /\ listing'.came = FALSE /\ listing'.left = FALSE /\ listing'.done = FALSE
      /\ UNCHANGED <<table, rows>>
  BY DEF StartListing
<1>2. Cardinality(ListKeys) \in Nat /\ \A k \in ListKeys : k \in Nat /\ k <= Cardinality(ListKeys)
  BY ListedFinite, FS_CardinalityType, ListingsAssumption
<1>3. Listed(rows)' = Listed(rows) /\ Listed(rows) \in SUBSET ListKeys
  BY <1>1 DEF Listed, Matches, ListNotifications, ListAttachments, ListArtifacts,
              ListPlans, ListMemories, ListSources
<1>4. CASE table = "trash"
  <2>1. \A k \in ListKeys : Cardinality(Newer(k, Listed(rows))) \in Nat
    BY <1>3, NewerGrows
  <2>2. RecordsShown'
    BY <1>1, <1>3, <1>4, <2>1 DEF RecordsShown
  <2>3. listing'.at = 0 /\ listing'.shown \in [ListKeys -> Nat]
    BY <1>1, <1>4
  <2>4. ListingOK'
    <3>1. table' = "trash" /\ listing'.steady \subseteq Listed(rows)'
      BY <1>1, <1>3, <1>4
    <3>2. listing'.came \in BOOLEAN /\ listing'.left \in BOOLEAN /\ listing'.done \in BOOLEAN
      BY <1>1
    <3> QED BY <2>2, <2>3, <3>1, <3>2 DEF ListingOK
  <2> QED BY <1>1, <2>4 DEF ListingInv
<1>5. CASE table # "trash"
  <2>1. \A k \in ListKeys : ~(Cardinality(ListKeys) + 1 <= k)
    BY <1>2
  <2>2. KeysShown'
    BY <1>1, <1>3, <1>5, <2>1 DEF KeysShown
  <2>3. listing'.at \in Nat /\ listing'.shown \in [ListKeys -> Nat]
    BY <1>1, <1>2, <1>5
  <2>4. ListingOK'
    <3>1. table' # "trash" /\ listing'.steady \subseteq Listed(rows)'
      BY <1>1, <1>3, <1>5
    <3>2. listing'.came \in BOOLEAN /\ listing'.left \in BOOLEAN /\ listing'.done \in BOOLEAN
      BY <1>1
    <3> QED BY <2>2, <2>3, <3>1, <3>2 DEF ListingOK
  <2> QED BY <1>1, <2>4 DEF ListingInv
<1> QED BY <1>4, <1>5

\* What Show() makes of the listing.
LEMMA Shows ==
    ASSUME ListingInv, listing # Absent, NEW page \in SUBSET Listed(rows), NEW at \in Nat,
           NEW done \in BOOLEAN, Show(page, at, done)
    PROVE  /\ listing'.at = at /\ listing'.done = done
           /\ listing'.steady = listing.steady /\ listing'.came = listing.came
           /\ listing'.left = listing.left /\ listing'.shown \in [ListKeys -> Nat]
           /\ \A k \in page : listing'.shown[k] = listing.shown[k] + 1
           /\ \A k \in ListKeys \ page : listing'.shown[k] = listing.shown[k]
           /\ Listed(rows)' = Listed(rows) /\ Listed(rows) \in SUBSET ListKeys
           /\ UNCHANGED <<table, rows>>
<1>1. UNCHANGED <<table, rows>> /\ listing.shown \in [ListKeys -> Nat]
  BY DEF Show, ListingInv, ListingOK
<1>2. Listed(rows)' = Listed(rows) /\ Listed(rows) \in SUBSET ListKeys
  BY <1>1 DEF Listed, Matches, ListNotifications, ListAttachments, ListArtifacts,
              ListPlans, ListMemories, ListSources
<1>3. /\ listing'.at = at /\ listing'.done = done
      /\ listing'.steady = listing.steady /\ listing'.came = listing.came
      /\ listing'.left = listing.left
      /\ listing'.shown = [k \in ListKeys |-> IF k \in page THEN listing.shown[k] + 1
                                             ELSE listing.shown[k]]
  BY DEF Show
<1> QED BY <1>1, <1>2, <1>3

LEMMA NextPageInv == ASSUME ListingInv, NextPage PROVE ListingInv'
<1> DEFINE left == {k \in Listed(rows) : k < listing.at}
           page == PageBelow(listing.at)
           full == Cardinality(page) = PageSize
           next == IF full THEN CHOOSE k \in page : \A l \in page : k <= l ELSE listing.at
<1>1. /\ table # "trash" /\ listing # Absent /\ ~listing.done /\ Show(page, next, ~full)
      /\ table \in Tables /\ ListingOK /\ KeysShown
  BY DEF NextPage, ListingInv, ListingOK
<1>2. listing.at \in Nat /\ listing.steady \subseteq Listed(rows) /\ listing.shown \in [ListKeys -> Nat]
  BY <1>1 DEF ListingOK
<1>3. left \in SUBSET ListKeys /\ page = FirstRows(left) /\ page \in SUBSET left
  BY DEF PageBelow, FirstRows, Listed
<1>4. full => page # {}
  BY FS_EmptySet, ListingsAssumption
<1>5. ~full => page = left
  BY <1>3, ShortPageIsAll
<1>6. left \subseteq Nat
  BY <1>3, ListedFinite
<1>7. full => next \in page /\ \A l \in page : next <= l
  <2> SUFFICES ASSUME full PROVE next \in page /\ \A l \in page : next <= l
    OBVIOUS
  <2>1. page \in SUBSET Nat
    BY <1>3, <1>6
  <2> HIDE DEF page
  <2>2. \E k \in page : \A l \in page : k <= l
    BY <1>4, <2>1, HasLeast
  <2> QED BY <2>2
<1>8. next \in Nat
  BY <1>2, <1>3, <1>6, <1>7
<1>9. \A k \in left : full /\ next <= k => k \in page
  BY <1>3, <1>7, PageIsUpper
<1>10. \A k \in page : k < listing.at /\ k \in Listed(rows)
  BY <1>3
<1>11. \A k \in Listed(rows) : k < listing.at => k \in left
  OBVIOUS
<1> HIDE DEF page, full, next, left
<1>12. page \in SUBSET Listed(rows) /\ (~full) \in BOOLEAN
  BY <1>10 DEF full
<1>13. /\ listing'.at = next /\ listing'.done = ~full
       /\ listing'.steady = listing.steady /\ listing'.came = listing.came
       /\ listing'.left = listing.left /\ listing'.shown \in [ListKeys -> Nat]
       /\ \A k \in page : listing'.shown[k] = listing.shown[k] + 1
       /\ \A k \in ListKeys \ page : listing'.shown[k] = listing.shown[k]
       /\ Listed(rows)' = Listed(rows) /\ Listed(rows) \in SUBSET ListKeys
       /\ UNCHANGED <<table, rows>>
  BY <1>1, <1>8, <1>12, Shows
<1>14. next <= listing.at
  BY <1>2, <1>7, <1>8, <1>10 DEF next
<1>15. ASSUME NEW k \in ListKeys
       PROVE  listing'.shown[k] <= 1 /\ (listing'.shown[k] = 1 => ~full \/ next <= k)
  <2>1. /\ k \in Nat /\ listing.shown[k] \in Nat /\ listing.shown[k] <= 1
        /\ listing.shown[k] = 1 => listing.at <= k
    BY <1>1, <1>2, ListedFinite DEF KeysShown
  <2>2. CASE k \in page
    <3>1. k < listing.at /\ listing'.shown[k] = listing.shown[k] + 1
      BY <1>10, <1>13, <2>2
    <3>2. listing.shown[k] = 0
      BY <1>2, <2>1, <3>1
    <3>3. full => next <= k
      BY <1>7, <2>2
    <3> QED BY <3>1, <3>2, <3>3
  <2>3. CASE k \notin page
    BY <1>2, <1>8, <1>13, <1>14, <2>1, <2>3
  <2> QED BY <2>2, <2>3
<1>16. ASSUME NEW k \in listing.steady, ~full \/ next <= k PROVE listing'.shown[k] >= 1
  <2>1. k \in Listed(rows) /\ k \in ListKeys /\ k \in Nat /\ listing.shown[k] \in Nat
    BY <1>2, <1>13, ListedFinite
  <2>2. CASE listing.at <= k
    <3>1. listing.shown[k] >= 1
      BY <1>1, <2>2 DEF KeysShown
    <3> QED BY <1>13, <2>1, <3>1
  <2>3. CASE k < listing.at
    <3>1. k \in page
      BY <1>5, <1>9, <1>11, <1>16, <2>1, <2>3
    <3> QED BY <1>13, <2>1, <3>1
  <2> QED BY <1>2, <2>1, <2>2, <2>3
<1>17. KeysShown'
  BY <1>13, <1>15, <1>16 DEF KeysShown
<1> QED BY <1>1, <1>2, <1>8, <1>12, <1>13, <1>17 DEF ListingInv, ListingOK

LEMMA NextTrashPageInv == ASSUME ListingInv, NextTrashPage PROVE ListingInv'
<1> DEFINE records == Listed(rows)
           rank(k) == Cardinality(Newer(k, records))
           page == {k \in records : rank(k) \in listing.at .. listing.at + PageSize - 1}
           next == listing.at + PageSize
           done == next >= Cardinality(records)
<1>1. /\ table = "trash" /\ listing # Absent /\ ~listing.done /\ Show(page, next, done)
      /\ ListingOK /\ RecordsShown
  BY DEF NextTrashPage, ListingInv, ListingOK
<1>2. /\ listing.at \in Nat /\ listing.steady \subseteq records /\ listing.shown \in [ListKeys -> Nat]
      /\ listing.came \in BOOLEAN /\ listing.left \in BOOLEAN
      /\ PageSize \in Nat /\ records \in SUBSET ListKeys
  BY <1>1, ListingsAssumption DEF ListingOK, Listed
<1>3. \A k \in ListKeys : rank(k) \in Nat
  BY <1>2, NewerGrows
<1>4. \A k \in records : rank(k) < Cardinality(records)
  BY <1>2, RankBelow
<1>5. Cardinality(records) \in Nat
  BY <1>2, ListedFinite
<1> HIDE DEF rank, records
<1>6. page \in SUBSET records /\ next \in Nat /\ done \in BOOLEAN
  BY <1>2
<1>7. \A k \in records : k \in page <=> listing.at <= rank(k) /\ rank(k) < next
  BY <1>2, <1>3
<1> HIDE DEF page, done
<1>8. /\ listing'.at = next /\ listing'.done = done
      /\ listing'.steady = listing.steady /\ listing'.came = listing.came
      /\ listing'.left = listing.left /\ listing'.shown \in [ListKeys -> Nat]
      /\ \A k \in page : listing'.shown[k] = listing.shown[k] + 1
      /\ \A k \in ListKeys \ page : listing'.shown[k] = listing.shown[k]
      /\ Listed(rows)' = records
      /\ UNCHANGED <<table, rows>>
  <2> HIDE DEF next
  <2> QED BY <1>1, <1>6, Shows DEF records
<1>9. ASSUME ~listing.came, NEW k \in ListKeys
      PROVE  /\ listing'.shown[k] <= 1
             /\ k \in records /\ listing'.shown[k] >= 1 => rank(k) < next
  <2>1. /\ listing.shown[k] <= 1 /\ listing.shown[k] \in Nat
        /\ k \in records /\ listing.shown[k] >= 1 => rank(k) < listing.at
    BY <1>1, <1>2, <1>9 DEF RecordsShown, records, rank
  <2>2. CASE k \in page
    BY <1>2, <1>3, <1>6, <1>7, <1>8, <2>1, <2>2
  <2>3. CASE k \notin page
    BY <1>2, <1>3, <1>8, <2>1, <2>3
  <2> QED BY <2>2, <2>3
<1>10. ASSUME ~listing.left, NEW k \in listing.steady, done \/ rank(k) < next
       PROVE  listing'.shown[k] >= 1
  <2>1. k \in records /\ k \in ListKeys /\ listing.shown[k] \in Nat /\ rank(k) \in Nat
        /\ (rank(k) < listing.at => listing.shown[k] >= 1)
    BY <1>1, <1>2, <1>3, <1>10 DEF RecordsShown, records, rank
  <2>2. rank(k) < next
    BY <1>2, <1>4, <1>5, <1>10, <2>1 DEF done
  <2>3. CASE k \in page
    BY <1>8, <2>1, <2>3
  <2>4. CASE k \notin page
    BY <1>2, <1>7, <1>8, <2>1, <2>2, <2>4
  <2> QED BY <2>3, <2>4
<1>11. RecordsShown'
  BY <1>8, <1>9, <1>10 DEF RecordsShown, rank
<1>12. listing'.steady \subseteq Listed(rows)'
  BY <1>2, <1>8
<1> QED BY <1>1, <1>2, <1>6, <1>8, <1>11, <1>12 DEF ListingInv, ListingOK

LEMMA ListingStepInv == ListingInv /\ [ListingsNext]_listingVars => ListingInv'
<1> SUFFICES ASSUME ListingInv, [ListingsNext]_listingVars PROVE ListingInv'
  OBVIOUS
<1>1. ASSUME NEW k \in ListKeys, Send(k) \/ MarkRead(k) \/ Unmark(k) \/ Dismiss(k) \/ RecordGoes(k)
      PROVE  ListingInv'
  <2>1. \E row : Change(k, row) /\ (table = "trash" => rows[k] = Absent \/ row = Absent)
    BY <1>1 DEF Send, MarkRead, Unmark, Dismiss, RecordGoes
  <2> QED BY <2>1, ChangeInv
<1>2. CASE UNCHANGED listingVars
  BY <1>2 DEF listingVars, ListingInv, ListingOK, KeysShown, RecordsShown, Listed, Matches,
              ListNotifications, ListAttachments, ListArtifacts, ListPlans, ListMemories, ListSources
<1> QED BY <1>1, <1>2, StartListingInv, NextPageInv, NextTrashPageInv DEF ListingsNext

\* The list functions of the tools, with pages of any size of a table of any length:
\* what matched from the first page to the last is shown once, whatever comes, goes and
\* changes between the pages; in the trash, as long as nothing is trashed nor taken out.
THEOREM ListingAlwaysComplete == ListingsSpec => []ListingIsComplete
<1>1. ListingsInit => ListingInv
  BY DEF ListingsInit, ListingInv
<1>2. ListingInv => ListingIsComplete
  BY DEF ListingInv, ListingOK, KeysShown, RecordsShown, ListingIsComplete
<1> QED BY <1>1, <1>2, ListingStepInv, PTL DEF ListingsSpec
-----------------------------------------------------------------------------
(* Memories.                                                               *)

MemoryRecords ==
    [place : Places, key : Keys \cup {Absent}, text : Texts, approved : BOOLEAN,
     deleted : BOOLEAN, next : 0 .. MaxRows]
MemoryCallRecords ==
    [op : {"insert", "update", "promote", "delete"}, at : Nat, old : SUBSET Nat,
     row : MemoryRecords, proposed : BOOLEAN, crossed : BOOLEAN]
MemoryProposals ==
    [status : {"pending", "approved"}, place : Places, key : Keys \cup {Absent}, text : Texts]

\* Rows are numbered in the order of their insertion, and none is ever removed.
RowsNumbered ==
    /\ IsFiniteSet(MemoryRows)
    /\ MemoryRows = 1 .. Cardinality(MemoryRows)
    /\ memory \in [MemoryRows -> MemoryRecords]

\* A row that is there has not been replaced.
ActiveIsLast == \A m \in ActiveRows : memory[m].next = 0

\* What a call will write is of rows that are there.
MemoryCallTyped(w) ==
    /\ w \in MemoryCallRecords
    /\ w.op = "insert" => /\ w.old \subseteq MemoryRows
                          /\ ~w.row.deleted /\ w.row.next = 0
    /\ w.op # "insert" => w.at \in MemoryRows
    /\ w.proposed => proposal \in MemoryProposals

\* As long as nothing was committed since it read, a call that inserts a row replaces
\* every row with its key that has not strayed.
KeyIsFree(w) ==
    (w.op = "insert" /\ ~w.crossed /\ w.old \cap strayed = {} /\ w.row.key # Absent) =>
        \A m \in ActiveRows \ (strayed \cup w.old) :
            ~(memory[m].place = w.row.place /\ memory[m].key = w.row.key)

MemoryCallsOK ==
    \A c \in Callers : memoryCall[c] # Idle =>
        MemoryCallTyped(memoryCall[c]) /\ KeyIsFree(memoryCall[c])

MemoriesInv ==
    /\ RowsNumbered
    /\ ActiveIsLast
    /\ proposal # Absent => proposal \in MemoryProposals
    /\ memoryCall = [c \in Callers |-> memoryCall[c]]
    /\ MemoryCallsOK
    /\ HistoryLeadsOn
    /\ KeyHasOneValue

LEMMA MemoryInitInv == MemoryInit => MemoriesInv
<1> SUFFICES ASSUME MemoryInit PROVE MemoriesInv
  OBVIOUS
<1>1. MemoryRows = {} /\ ActiveRows = {}
  BY DEF MemoryInit, MemoryRows, ActiveRows
<1>2. RowsNumbered
  <2>1. IsFiniteSet({}) /\ Cardinality({}) = 0
    BY FS_EmptySet
  <2>2. 1 .. 0 = {}
    OBVIOUS
  <2>3. memory \in [{} -> MemoryRecords]
    BY DEF MemoryInit
  <2> QED BY <1>1, <2>1, <2>2, <2>3 DEF RowsNumbered
<1> QED BY <1>1, <1>2
       DEF MemoryInit, MemoriesInv, ActiveIsLast, MemoryCallsOK, HistoryLeadsOn, KeyHasOneValue

\* The newest row with a key is found if there is one.
LEMMA KeyedIsFound ==
    ASSUME MemoriesInv, NEW place, NEW key, KeyedRow(place, key) = {}
    PROVE  \A m \in ActiveRows : ~(memory[m].place = place /\ memory[m].key = key)
<1> DEFINE S == {m \in ActiveRows : memory[m].place = place /\ memory[m].key = key}
           n == Cardinality(MemoryRows)
<1>1. n \in Nat /\ MemoryRows = 1 .. n
  BY FS_CardinalityType DEF MemoriesInv, RowsNumbered
<1>2. S \in SUBSET Nat /\ \A k \in S : k <= n
  <2>1. S \subseteq MemoryRows
    BY DEF ActiveRows
  <2> HIDE DEF S, n
  <2> QED BY <1>1, <2>1
<1>3. ASSUME S # {} PROVE FALSE
  <2>1. PICK m \in S : \A k \in S : k <= m
    <3> HIDE DEF S, n
    <3> QED BY <1>1, <1>2, <1>3, HasGreatest
  <2>2. m \in NewestRow(S)
    BY <2>1 DEF NewestRow
  <2> QED BY <2>2 DEF KeyedRow
<1> QED BY <1>3

LEMMA BeginMemoryInv ==
    ASSUME MemoriesInv, NEW c \in Callers, NEW call, BeginMemory(c, call),
           MemoryCallTyped(call), KeyIsFree(call)
    PROVE  MemoriesInv'
<1>1. /\ UNCHANGED <<memory, proposal, erased, strayed>>
      /\ memoryCall' = [memoryCall EXCEPT ![c] = call]
  BY DEF BeginMemory
<1>2. memoryCall = [d \in Callers |-> memoryCall[d]]
  BY DEF MemoriesInv
<1>3. /\ memoryCall' = [d \in Callers |-> memoryCall'[d]]
      /\ \A d \in Callers : memoryCall'[d] = IF d = c THEN call ELSE memoryCall[d]
  BY <1>1, <1>2
<1>4. MemoryRows' = MemoryRows /\ ActiveRows' = ActiveRows
  BY <1>1 DEF MemoryRows, ActiveRows
<1>5. ASSUME NEW d \in Callers, memoryCall'[d] # Idle
      PROVE  MemoryCallTyped(memoryCall[d])' /\ KeyIsFree(memoryCall[d])'
  <2>1. MemoryCallTyped(memoryCall'[d]) /\ KeyIsFree(memoryCall'[d])
    <3>1. CASE d = c
      BY <1>3, <3>1
    <3>2. CASE d # c
      BY <1>3, <1>5, <3>2 DEF MemoriesInv, MemoryCallsOK
    <3> QED BY <3>1, <3>2
  <2>2. MemoryCallTyped(memoryCall[d])'
    BY <1>1, <1>4, <2>1 DEF MemoryCallTyped
  <2>3. KeyIsFree(memoryCall[d])'
    BY <1>1, <1>4, <2>1 DEF KeyIsFree
  <2> QED BY <2>2, <2>3
<1>6. MemoryCallsOK'
  BY <1>5 DEF MemoryCallsOK
<1>7. RowsNumbered' /\ ActiveIsLast' /\ HistoryLeadsOn' /\ KeyHasOneValue'
  BY <1>1, <1>4 DEF MemoriesInv, RowsNumbered, ActiveIsLast, HistoryLeadsOn, KeyHasOneValue
<1> QED BY <1>1, <1>3, <1>6, <1>7 DEF MemoriesInv

LEMMA RowsAreTyped ==
    ASSUME MemoriesInv
    PROVE  /\ MemoryRows \subseteq Nat /\ ActiveRows \subseteq MemoryRows
           /\ \A m \in MemoryRows : memory[m] \in MemoryRecords
           /\ 0 \in 0 .. MaxRows
<1>1. MemoryRows = 1 .. Cardinality(MemoryRows) /\ Cardinality(MemoryRows) \in Nat
  BY FS_CardinalityType DEF MemoriesInv, RowsNumbered
<1>2. MemoryRows \subseteq Nat
  BY <1>1
<1> QED BY <1>2, MemoryAssumption DEF MemoriesInv, RowsNumbered, ActiveRows

\* A call that inserts a row is typed if what it replaces is there.
LEMMA InsertionTyped ==
    ASSUME MemoriesInv, NEW old \in SUBSET ActiveRows, NEW proposed \in BOOLEAN,
           NEW place \in Places, NEW key \in Keys \cup {Absent}, NEW text \in Texts,
           NEW approved \in BOOLEAN,
           proposed => proposal \in MemoryProposals
    PROVE  MemoryCallTyped(Insertion(old, MemoryRow(place, key, text, approved), proposed))
<1> DEFINE r == MemoryRow(place, key, text, approved)
           w == Insertion(old, r, proposed)
<1>1. r \in MemoryRecords /\ ~r.deleted /\ r.next = 0
  BY RowsAreTyped DEF MemoryRow, MemoryRecords
<1> HIDE DEF r
<1>2. /\ w.op = "insert" /\ w.row = r /\ w.old = old /\ w.proposed = proposed
      /\ old \subseteq MemoryRows /\ old \subseteq Nat
  BY RowsAreTyped DEF Insertion
<1>3. w \in MemoryCallRecords
  BY <1>1, <1>2 DEF Insertion, MemoryCallRecords
<1> HIDE DEF w
<1> QED BY <1>1, <1>2, <1>3 DEF MemoryCallTyped, w, r

LEMMA OfRowTyped ==
    ASSUME MemoriesInv, NEW op \in {"update", "promote", "delete"}, NEW m \in ActiveRows,
           NEW r \in MemoryRecords
    PROVE  MemoryCallTyped(OfRow(op, m, r)) /\ KeyIsFree(OfRow(op, m, r))
<1> DEFINE w == OfRow(op, m, r)
<1>1. w.op = op /\ w.op # "insert" /\ w.at = m /\ m \in MemoryRows /\ m \in Nat /\ w.proposed = FALSE
  BY RowsAreTyped DEF OfRow
<1>2. w \in MemoryCallRecords
  BY <1>1 DEF OfRow, MemoryCallRecords
<1> HIDE DEF w
<1> QED BY <1>1, <1>2 DEF MemoryCallTyped, KeyIsFree, w

\* A new text with its key, written directly or by an approval, replaces the row that has
\* the key.
LEMMA ReplacingWriteInv ==
    ASSUME MemoriesInv, NEW c \in Callers, NEW place \in Places, NEW key \in Keys \cup {Absent},
           NEW text \in Texts, NEW approved \in BOOLEAN, NEW proposed \in BOOLEAN,
           proposed => proposal \in MemoryProposals,
           NEW old \in IF RowReplaced(place, key, text) = {} THEN {{}}
                       ELSE {{m} : m \in RowReplaced(place, key, text)},
           BeginMemory(c, Insertion(old, MemoryRow(place, key, text, approved), proposed))
    PROVE  MemoriesInv'
<1> DEFINE found == RowReplaced(place, key, text)
           r == MemoryRow(place, key, text, approved)
           w == Insertion(old, r, proposed)
<1>3. found \subseteq ActiveRows
  BY DEF RowReplaced, KeyedRow, DuplicateRows, NewestRow
<1>4. /\ old \in SUBSET ActiveRows
      /\ \/ found = {} /\ old = {}
         \/ \E m \in found : old = {m}
  <2>1. old \in IF found = {} THEN {{}} ELSE {{m} : m \in found}
    OBVIOUS
  <2> HIDE DEF found
  <2> QED BY <1>3, <2>1
<1>5. MemoryCallTyped(w)
  BY <1>4, InsertionTyped
<1>6. KeyIsFree(w)
  <2>1. w.op = "insert" /\ w.old = old /\ w.row.key = key /\ w.row.place = place
    BY DEF Insertion, MemoryRow
  <2>2. ASSUME key # Absent, old \cap strayed = {}, NEW m \in ActiveRows \ (strayed \cup old),
               memory[m].place = place, memory[m].key = key
        PROVE  FALSE
    <3>1. KeyedRow(place, key) # {}
      BY <2>2, KeyedIsFound
    <3>2. found = KeyedRow(place, key)
      BY <2>2, <3>1 DEF RowReplaced
    <3>3. PICK k \in found : old = {k}
      BY <1>4, <3>1, <3>2
    <3>4. k \in ActiveRows /\ memory[k].place = place /\ memory[k].key = key
      BY <3>2 DEF KeyedRow, NewestRow
    <3>5. k \notin strayed /\ m # k
      BY <2>2, <3>3
    <3> QED BY <2>2, <3>4, <3>5 DEF MemoriesInv, KeyHasOneValue
  <2> HIDE DEF w, found
  <2> QED BY <2>1, <2>2 DEF KeyIsFree
<1>7. BeginMemory(c, w)
  OBVIOUS
<1> HIDE DEF w
<1> QED BY <1>5, <1>6, <1>7, BeginMemoryInv

LEMMA BeginRowWriteInv == ASSUME MemoriesInv, NEW c \in Callers, BeginWrite(c) PROVE MemoriesInv'
<1>1. PICK place \in Places, key \in Keys \cup {Absent}, text \in Texts :
        \E old \in IF RowReplaced(place, key, text) = {} THEN {{}}
                   ELSE {{m} : m \in RowReplaced(place, key, text)} :
            BeginMemory(c, Insertion(old,
                RowWritten(place, key, text, place \notin Global, old), FALSE))
  BY DEF BeginWrite
<1>2. PICK old \in IF RowReplaced(place, key, text) = {} THEN {{}}
                   ELSE {{m} : m \in RowReplaced(place, key, text)} :
            BeginMemory(c, Insertion(old,
                RowWritten(place, key, text, place \notin Global, old), FALSE))
  BY <1>1
<1> DEFINE approved == place \notin Global \/ \E m \in old : memory[m].approved
<1>3. BeginMemory(c, Insertion(old, MemoryRow(place, key, text, approved), FALSE)) /\ approved \in BOOLEAN
  BY <1>2 DEF RowWritten
<1> HIDE DEF approved
<1> QED BY <1>3, ReplacingWriteInv

LEMMA BeginApproveInv == ASSUME MemoriesInv, NEW c \in Callers, BeginApprove(c) PROVE MemoriesInv'
<1> DEFINE place == proposal.place
           key == proposal.key
           text == proposal.text
<1>1. PICK old \in IF RowReplaced(place, key, text) = {} THEN {{}}
                   ELSE {{m} : m \in RowReplaced(place, key, text)} :
            BeginMemory(c, Insertion(old, RowWritten(place, key, text, TRUE, old), TRUE))
  BY DEF BeginApprove
<1> DEFINE approved == TRUE \/ \E m \in old : memory[m].approved
<1>2. BeginMemory(c, Insertion(old, MemoryRow(place, key, text, approved), TRUE)) /\ approved \in BOOLEAN
  BY <1>1 DEF RowWritten
<1>3. /\ proposal \in MemoryProposals
      /\ place \in Places /\ key \in Keys \cup {Absent} /\ text \in Texts
  BY DEF BeginApprove, MemoriesInv, MemoryProposals
<1> HIDE DEF approved, place, key, text
<1> QED BY <1>2, <1>3, ReplacingWriteInv

LEMMA BeginMergeInv == ASSUME MemoriesInv, NEW c \in Callers, BeginMerge(c) PROVE MemoriesInv'
<1>1. PICK ms \in SUBSET ActiveRows, place \in Places, text \in Texts :
        BeginMemory(c, Insertion(ms,
            MemoryRow(place, Absent, text,
                      place \notin Global \/ \A m \in ms : memory[m].approved), FALSE))
  BY DEF BeginMerge
<1> DEFINE approved == place \notin Global \/ \A m \in ms : memory[m].approved
           w == Insertion(ms, MemoryRow(place, Absent, text, approved), FALSE)
<1>2. MemoryCallTyped(w)
  <2>1. approved \in BOOLEAN
    OBVIOUS
  <2> HIDE DEF approved
  <2> QED BY <1>1, <2>1, InsertionTyped
<1>3. KeyIsFree(w)
  <2>1. w.row.key = Absent
    BY DEF Insertion, MemoryRow
  <2> HIDE DEF w
  <2> QED BY <2>1 DEF KeyIsFree
<1>4. BeginMemory(c, w)
  BY <1>1
<1> HIDE DEF w
<1> QED BY <1>2, <1>3, <1>4, BeginMemoryInv

LEMMA BeginOfRowInv ==
    ASSUME MemoriesInv, NEW c \in Callers, BeginUpdate(c) \/ BeginPromote(c) \/ BeginDelete(c)
    PROVE  MemoriesInv'
<1>1. CASE BeginUpdate(c)
  <2>1. PICK m \in ActiveRows, place \in Places, text \in Texts : \E key \in Keys \cup {memory[m].key} :
          BeginMemory(c, OfRow("update", m, MemoryRow(place, key, text, memory[m].approved)))
    BY <1>1 DEF BeginUpdate
  <2>2. PICK key \in Keys \cup {memory[m].key} :
          BeginMemory(c, OfRow("update", m, MemoryRow(place, key, text, memory[m].approved)))
    BY <2>1
  <2>3. memory[m] \in MemoryRecords /\ 0 \in 0 .. MaxRows
    BY RowsAreTyped
  <2>4. MemoryRow(place, key, text, memory[m].approved) \in MemoryRecords
    BY <2>3 DEF MemoryRecords, MemoryRow
  <2> QED BY <2>2, <2>4, OfRowTyped, BeginMemoryInv
<1>2. CASE BeginPromote(c)
  <2>1. PICK m \in ActiveRows, place \in Places :
          BeginMemory(c, OfRow("promote", m, [memory[m] EXCEPT !.place = place]))
    BY <1>2 DEF BeginPromote
  <2>2. memory[m] \in MemoryRecords
    BY RowsAreTyped
  <2>3. [memory[m] EXCEPT !.place = place] \in MemoryRecords
    BY <2>2 DEF MemoryRecords
  <2> QED BY <2>1, <2>3, OfRowTyped, BeginMemoryInv
<1>3. CASE BeginDelete(c)
  <2>1. PICK m \in ActiveRows : BeginMemory(c, OfRow("delete", m, memory[m]))
    BY <1>3 DEF BeginDelete
  <2>2. memory[m] \in MemoryRecords
    BY RowsAreTyped
  <2> QED BY <2>1, <2>2, OfRowTyped, BeginMemoryInv
<1> QED BY <1>1, <1>2, <1>3

\* A commit crosses every other call, which may then rely on nothing but the numbering.
LEMMA CommitCrosses ==
    ASSUME MemoriesInv, NEW c \in Callers, CommitMemoryCall(c), MemoryRows \subseteq MemoryRows',
           proposal \in MemoryProposals => proposal' \in MemoryProposals
    PROVE  memoryCall' = [d \in Callers |-> memoryCall'[d]] /\ MemoryCallsOK'
<1>1. memoryCall' = [d \in Callers |->
           IF d = c \/ memoryCall[d] = Idle THEN Idle
           ELSE [memoryCall[d] EXCEPT !.crossed = TRUE]]
  BY DEF CommitMemoryCall
<1>2. ASSUME NEW d \in Callers, memoryCall'[d] # Idle
      PROVE  MemoryCallTyped(memoryCall[d])' /\ KeyIsFree(memoryCall[d])'
  <2> DEFINE w == memoryCall[d]
             u == memoryCall'[d]
  <2>1. memoryCall[d] # Idle /\ u = [w EXCEPT !.crossed = TRUE]
    BY <1>1, <1>2
  <2>2. MemoryCallTyped(w)
    BY <2>1 DEF MemoriesInv, MemoryCallsOK
  <2>3. /\ u \in MemoryCallRecords /\ u.crossed = TRUE
        /\ u.op = w.op /\ u.old = w.old /\ u.at = w.at /\ u.row = w.row /\ u.proposed = w.proposed
    <3>1. w \in MemoryCallRecords
      BY <2>2 DEF MemoryCallTyped
    <3> QED BY <2>1, <3>1 DEF MemoryCallRecords
  <2> HIDE DEF w, u
  <2>4. /\ u.op = "insert" => /\ u.old \subseteq MemoryRows'
                              /\ ~u.row.deleted /\ u.row.next = 0
        /\ u.op # "insert" => u.at \in MemoryRows'
        /\ u.proposed => proposal' \in MemoryProposals
    BY <2>2, <2>3 DEF MemoryCallTyped
  <2>5. MemoryCallTyped(memoryCall[d])'
    BY <2>3, <2>4 DEF MemoryCallTyped, u
  <2>6. KeyIsFree(memoryCall[d])'
    BY <2>3 DEF KeyIsFree, u
  <2> QED BY <2>5, <2>6
<1> QED BY <1>1, <1>2 DEF MemoryCallsOK

LEMMA CommitInsertInv ==
    ASSUME MemoriesInv, NEW c \in Callers, CommitMemoryCall(c), memoryCall[c].op = "insert"
    PROVE  MemoriesInv'
<1> DEFINE w == memoryCall[c]
           n == Cardinality(MemoryRows) + 1
<1>1. CommitInsert(c) /\ w # Idle
  BY DEF CommitMemoryCall
<1>2. MemoryCallTyped(w) /\ KeyIsFree(w)
  BY <1>1 DEF MemoriesInv, MemoryCallsOK
<1>3. /\ w.old \subseteq MemoryRows /\ w.row \in MemoryRecords
      /\ ~w.row.deleted /\ w.row.next = 0
  BY <1>2 DEF MemoryCallTyped, MemoryCallRecords
<1>4. /\ MemoryRows = 1 .. n - 1 /\ n \in Nat /\ n - 1 \in Nat /\ n # 0 /\ n <= MaxRows
      /\ n \notin MemoryRows /\ \A m \in MemoryRows : n > m
  <2>1. n <= MaxRows
    BY <1>1 DEF CommitInsert
  <2>2. MemoryRows = 1 .. Cardinality(MemoryRows) /\ Cardinality(MemoryRows) \in Nat
    BY FS_CardinalityType DEF MemoriesInv, RowsNumbered
  <2> QED BY <2>1, <2>2
<1>5. /\ memory' = [m \in MemoryRows \cup {n} |->
               IF m = n THEN w.row
               ELSE IF m \in w.old THEN Superseded(memory[m], n)
               ELSE memory[m]]
      /\ proposal' = IF w.proposed THEN [proposal EXCEPT !.status = "approved"] ELSE proposal
      /\ strayed' = IF w.crossed \/ w.old \cap strayed # {} THEN strayed \cup {n} ELSE strayed
      /\ UNCHANGED erased
  BY <1>1 DEF CommitInsert
<1> HIDE DEF n
<1>6. MemoryRows' = MemoryRows \cup {n} /\ MemoryRows' = 1 .. n
  BY <1>4, <1>5 DEF MemoryRows
<1>7. \A m \in MemoryRows : memory[m] \in MemoryRecords
  BY RowsAreTyped
<1>8. /\ memory'[n] = w.row
      /\ \A m \in MemoryRows :
            IF m \in w.old THEN memory'[m].deleted /\ memory'[m].next = n
            ELSE memory'[m] = memory[m]
  BY <1>4, <1>5 DEF Superseded
<1>9. RowsNumbered'
  <2>1. IsFiniteSet(1 .. n) /\ Cardinality(1 .. n) = n
    BY <1>4, FS_Interval
  <2>2. \A m \in MemoryRows : Superseded(memory[m], n) \in MemoryRecords
    <3>1. n \in 0 .. MaxRows
      BY <1>4, MemoryAssumption
    <3> QED BY <1>7, <3>1 DEF Superseded, MemoryRecords
  <2>3. memory' \in [MemoryRows \cup {n} -> MemoryRecords]
    BY <1>3, <1>5, <1>7, <2>2
  <2> QED BY <1>6, <2>1, <2>3 DEF RowsNumbered
<1>10. /\ ActiveRows' = (ActiveRows \ w.old) \cup {n}
       /\ \A m \in ActiveRows \ w.old : m \in MemoryRows /\ memory'[m] = memory[m]
  BY <1>3, <1>4, <1>6, <1>8 DEF ActiveRows
<1>11. ActiveIsLast'
  BY <1>3, <1>8, <1>10 DEF MemoriesInv, ActiveIsLast
<1>12. HistoryLeadsOn'
  <2> SUFFICES ASSUME NEW m \in MemoryRows' \ ActiveRows'
               PROVE  \/ memory'[m].next \in MemoryRows' /\ memory'[m].next > m
                      \/ memory'[m].next = 0 /\ m \in erased'
    BY DEF HistoryLeadsOn
  <2>1. m \in MemoryRows /\ (m \in w.old \/ m \in MemoryRows \ ActiveRows)
    BY <1>6, <1>10
  <2>2. CASE m \in w.old
    BY <1>4, <1>6, <1>8, <2>1, <2>2
  <2>3. CASE m \notin w.old
    <3>1. \/ memory[m].next \in MemoryRows /\ memory[m].next > m
          \/ memory[m].next = 0 /\ m \in erased
      BY <2>1, <2>3 DEF MemoriesInv, HistoryLeadsOn
    <3> QED BY <1>5, <1>6, <1>8, <2>1, <2>3, <3>1
  <2> QED BY <2>2, <2>3
<1>13. KeyHasOneValue'
  <2>1. ASSUME n \notin strayed', NEW m \in ActiveRows \ (strayed \cup w.old),
               w.row.key # Absent, memory[m].key = w.row.key, memory[m].place = w.row.place
        PROVE  FALSE
    <3>1. ~w.crossed /\ w.old \cap strayed = {}
      BY <1>5, <2>1
    <3> HIDE DEF w
    <3> QED BY <1>2, <2>1, <3>1 DEF KeyIsFree, w
  <2>2. strayed \subseteq strayed'
    BY <1>5
  <2> SUFFICES ASSUME NEW m \in ActiveRows' \ strayed', NEW k \in ActiveRows' \ strayed', m # k,
                      memory'[m].key # Absent, memory'[m].key = memory'[k].key,
                      memory'[m].place = memory'[k].place
               PROVE  FALSE
    BY DEF KeyHasOneValue
  <2>3. CASE m = n
    BY <1>8, <1>10, <2>1, <2>2, <2>3
  <2>4. CASE k = n
    BY <1>8, <1>10, <2>1, <2>2, <2>4
  <2>5. CASE m # n /\ k # n
    <3>1. m \in ActiveRows \ strayed /\ k \in ActiveRows \ strayed
          /\ memory'[m] = memory[m] /\ memory'[k] = memory[k]
      BY <1>10, <2>2, <2>5
    <3> QED BY <3>1 DEF MemoriesInv, KeyHasOneValue
  <2> QED BY <2>3, <2>4, <2>5
<1>14. /\ proposal \in MemoryProposals => proposal' \in MemoryProposals
       /\ proposal' # Absent => proposal' \in MemoryProposals
  <2>1. w.proposed => proposal \in MemoryProposals
    BY <1>2 DEF MemoryCallTyped
  <2>2. proposal \in MemoryProposals => [proposal EXCEPT !.status = "approved"] \in MemoryProposals
    BY DEF MemoryProposals
  <2> QED BY <1>5, <2>1, <2>2 DEF MemoriesInv
<1>15. memoryCall' = [d \in Callers |-> memoryCall'[d]] /\ MemoryCallsOK'
  BY <1>6, <1>14, CommitCrosses
<1> QED BY <1>9, <1>11, <1>12, <1>13, <1>14, <1>15 DEF MemoriesInv

\* A row is written over: it keeps what it was replaced by, is erased if it is deleted,
\* and has strayed if its key or place changes.
LEMMA RowWrittenOver ==
    ASSUME MemoriesInv, NEW c \in Callers, CommitMemoryCall(c), NEW m \in MemoryRows,
           NEW r \in MemoryRecords, memory' = [memory EXCEPT ![m] = r],
           r.next = memory[m].next,
           erased \subseteq erased', strayed \subseteq strayed', UNCHANGED proposal,
           r.deleted => memory[m].deleted \/ m \in erased',
           memory[m].deleted => r.deleted,
           \/ m \in strayed' \/ r.deleted
           \/ r.place = memory[m].place /\ r.key = memory[m].key
    PROVE  MemoriesInv'
<1>1. /\ MemoryRows' = MemoryRows
      /\ \A k \in MemoryRows : memory'[k] = IF k = m THEN r ELSE memory[k]
      /\ memory' \in [MemoryRows -> MemoryRecords]
  BY DEF MemoriesInv, RowsNumbered, MemoryRows
<1>2. ActiveRows' \subseteq ActiveRows /\ (ActiveRows \ {m}) \subseteq ActiveRows'
      /\ (r.deleted <=> m \notin ActiveRows')
  BY <1>1 DEF ActiveRows
<1>3. RowsNumbered'
  BY <1>1 DEF MemoriesInv, RowsNumbered
<1>4. ActiveIsLast'
  BY <1>1, <1>2 DEF MemoriesInv, ActiveIsLast, ActiveRows
<1>5. HistoryLeadsOn'
  <2> SUFFICES ASSUME NEW k \in MemoryRows' \ ActiveRows'
               PROVE  \/ memory'[k].next \in MemoryRows' /\ memory'[k].next > k
                      \/ memory'[k].next = 0 /\ k \in erased'
    BY DEF HistoryLeadsOn
  <2>1. k \in MemoryRows /\ memory'[k].next = memory[k].next
    BY <1>1
  <2>2. CASE k \notin ActiveRows
    BY <1>1, <2>1, <2>2 DEF MemoriesInv, HistoryLeadsOn
  <2>3. CASE k \in ActiveRows
    <3>1. k = m /\ r.deleted /\ ~memory[m].deleted
      BY <1>2, <2>3 DEF ActiveRows
    <3>2. memory[k].next = 0
      BY <2>3 DEF MemoriesInv, ActiveIsLast
    <3> QED BY <2>1, <3>1, <3>2
  <2> QED BY <2>2, <2>3
<1>6. KeyHasOneValue'
  <2> SUFFICES ASSUME NEW i \in ActiveRows' \ strayed', NEW k \in ActiveRows' \ strayed', i # k,
                      memory'[i].key # Absent, memory'[i].key = memory'[k].key,
                      memory'[i].place = memory'[k].place
               PROVE  FALSE
    BY DEF KeyHasOneValue
  <2>1. \A j \in ActiveRows' \ strayed' :
            /\ j \in ActiveRows \ strayed
            /\ memory'[j].place = memory[j].place /\ memory'[j].key = memory[j].key
    BY <1>1, <1>2 DEF ActiveRows
  <2> QED BY <2>1 DEF MemoriesInv, KeyHasOneValue
<1>7. memoryCall' = [d \in Callers |-> memoryCall'[d]] /\ MemoryCallsOK'
  BY <1>1, CommitCrosses
<1> QED BY <1>3, <1>4, <1>5, <1>6, <1>7 DEF MemoriesInv

LEMMA CommitOfRowInv ==
    ASSUME MemoriesInv, NEW c \in Callers, CommitMemoryCall(c), memoryCall[c].op # "insert"
    PROVE  MemoriesInv'
<1> DEFINE w == memoryCall[c]
           m == w.at
           r == memory[m]
<1>1. /\ w.op \in {"update", "promote", "delete"} /\ m \in MemoryRows
      /\ w.row \in MemoryRecords /\ r \in MemoryRecords
  <2>1. MemoryCallTyped(w)
    BY DEF CommitMemoryCall, MemoriesInv, MemoryCallsOK
  <2>2. w.op \in {"update", "promote", "delete"} /\ m \in MemoryRows /\ w.row \in MemoryRecords
    BY <2>1 DEF MemoryCallTyped, MemoryCallRecords
  <2> QED BY <2>2, RowsAreTyped
<1>2. CASE w.op = "update"
  <2>1. CommitUpdate(c)
    BY <1>2 DEF CommitMemoryCall
  <2>2. /\ memory' = [memory EXCEPT ![m] = Updated(r, w.row)]
        /\ strayed' = IF w.row.place # r.place \/ w.row.key # r.key
                      THEN strayed \cup {m} ELSE strayed
        /\ UNCHANGED <<proposal, erased>>
    BY <2>1 DEF CommitUpdate
  <2>3. /\ Updated(r, w.row) \in MemoryRecords
        /\ Updated(r, w.row).next = r.next /\ Updated(r, w.row).deleted = r.deleted
        /\ Updated(r, w.row).place = w.row.place /\ Updated(r, w.row).key = w.row.key
    BY <1>1 DEF Updated, MemoryRecords
  <2> HIDE DEF w, m, r
  <2>4. PICK new \in MemoryRecords : new = Updated(r, w.row)
    BY <2>3
  <2> QED BY <1>1, <2>2, <2>3, <2>4, RowWrittenOver DEF r
<1>3. CASE w.op = "promote"
  <2>1. CommitPromote(c)
    BY <1>3 DEF CommitMemoryCall
  <2> DEFINE new == [r EXCEPT !.place = w.row.place]
  <2>2. /\ memory' = [memory EXCEPT ![m] = new] /\ strayed' = strayed \cup {m}
        /\ UNCHANGED <<proposal, erased>>
    BY <2>1 DEF CommitPromote
  <2>3. new \in MemoryRecords /\ new.next = r.next /\ new.deleted = r.deleted
    BY <1>1 DEF MemoryRecords
  <2> HIDE DEF w, m, r, new
  <2> QED BY <1>1, <2>2, <2>3, RowWrittenOver DEF r
<1>4. CASE w.op = "delete"
  <2>1. CommitDelete(c)
    BY <1>4 DEF CommitMemoryCall
  <2> DEFINE new == [r EXCEPT !.deleted = TRUE]
  <2>2. /\ memory' = [memory EXCEPT ![m] = new] /\ erased' = erased \cup {m}
        /\ UNCHANGED <<proposal, strayed>>
    BY <2>1 DEF CommitDelete
  <2>3. new \in MemoryRecords /\ new.next = r.next /\ new.deleted = TRUE
    BY <1>1 DEF MemoryRecords
  <2> HIDE DEF w, m, r, new
  <2> QED BY <1>1, <2>2, <2>3, RowWrittenOver DEF r
<1> QED BY <1>1, <1>2, <1>3, <1>4

LEMMA MemoryStepInv == MemoriesInv /\ [MemoryNext]_memoryVars => MemoriesInv'
<1> SUFFICES ASSUME MemoriesInv, [MemoryNext]_memoryVars PROVE MemoriesInv'
  OBVIOUS
<1>1. ASSUME UNCHANGED <<memory, memoryCall, erased, strayed>>,
             proposal' = proposal \/ proposal' \in MemoryProposals
      PROVE  MemoriesInv'
  <2>1. MemoryRows' = MemoryRows /\ ActiveRows' = ActiveRows
    BY <1>1 DEF MemoryRows, ActiveRows
  <2>2. RowsNumbered' /\ ActiveIsLast' /\ HistoryLeadsOn' /\ KeyHasOneValue'
    BY <1>1, <2>1 DEF MemoriesInv, RowsNumbered, ActiveIsLast, HistoryLeadsOn, KeyHasOneValue
  <2>3. MemoryCallsOK'
    BY <1>1, <2>1 DEF MemoriesInv, MemoryCallsOK, MemoryCallTyped, KeyIsFree
  <2> QED BY <1>1, <2>2, <2>3 DEF MemoriesInv
<1>2. CASE Propose
  <2>1. proposal' \in MemoryProposals
    BY <1>2 DEF Propose, MemoryProposals
  <2> QED BY <1>1, <1>2, <2>1 DEF Propose
<1>3. CASE UNCHANGED memoryVars
  BY <1>1, <1>3 DEF memoryVars
<1>4. ASSUME NEW c \in Callers, CommitMemoryCall(c) PROVE MemoriesInv'
  BY <1>4, CommitInsertInv, CommitOfRowInv
<1>5. ASSUME NEW c \in Callers, MemoryCallFails(c) PROVE MemoriesInv'
  <2>1. /\ UNCHANGED <<memory, proposal, erased, strayed>>
        /\ memoryCall' = [memoryCall EXCEPT ![c] = Idle]
    BY <1>5 DEF MemoryCallFails
  <2>2. /\ memoryCall' = [d \in Callers |-> memoryCall'[d]]
        /\ \A d \in Callers : memoryCall'[d] # Idle => memoryCall'[d] = memoryCall[d]
    BY <2>1 DEF MemoriesInv
  <2>3. MemoryRows' = MemoryRows /\ ActiveRows' = ActiveRows
    BY <2>1 DEF MemoryRows, ActiveRows
  <2>4. RowsNumbered' /\ ActiveIsLast' /\ HistoryLeadsOn' /\ KeyHasOneValue'
    BY <2>1, <2>3 DEF MemoriesInv, RowsNumbered, ActiveIsLast, HistoryLeadsOn, KeyHasOneValue
  <2>5. MemoryCallsOK'
    BY <2>1, <2>2, <2>3 DEF MemoriesInv, MemoryCallsOK, MemoryCallTyped, KeyIsFree
  <2> QED BY <2>1, <2>2, <2>4, <2>5 DEF MemoriesInv
<1> QED BY <1>2, <1>3, <1>4, <1>5, BeginRowWriteInv, BeginApproveInv, BeginMergeInv, BeginOfRowInv
        DEF MemoryNext

\* What was remembered is there, once for a key, or leads to what took its place, for any
\* places, keys and callers, however writes, approvals of proposals with their keys, moves,
\* merges and deletions overlap; rows that were moved or written by overlapping calls are
\* exempt from the second part.
THEOREM MemoriesAlwaysOK == MemorySpec => []MemoriesOK
<1>1. MemoriesInv => MemoriesOK
  <2> SUFFICES ASSUME MemoriesInv PROVE MemoryTypeOK
    BY DEF MemoriesInv, MemoriesOK
  <2>1. \A m \in MemoryRows : memory[m] \in MemoryRecords
    BY RowsAreTyped
  <2> QED BY <2>1 DEF MemoriesInv, RowsNumbered, MemoryTypeOK, MemoryRecords
<1> QED BY <1>1, MemoryInitInv, MemoryStepInv, PTL DEF MemorySpec
-----------------------------------------------------------------------------
(* Knowledge.                                                              *)

KnowledgeProposals ==
    [status : {"pending", "approved"}, scope : Scopes, content : Contents]
Ingestions == {"ingest", "save", "merge"}
KnowledgeCallRecords ==
    [op : Ingestions \cup {"update", "rewrite", "promote", "reindex", "delete", "search"},
     at : Nat, crossed : BOOLEAN, merged : SUBSET Nat, row : SourceRows \cup {Absent}]

\* What _ingest() and reindex_knowledge() write belongs together.
Ingested(r) ==
    /\ r.version = "python" /\ r.chunks.by = "python"
    /\ r.chunks.of = r.content /\ r.sha = r.content

KnowledgeCallTyped(w) ==
    /\ w \in KnowledgeCallRecords
    /\ w.op \in Ingestions => (w.row # Absent => Ingested(w.row))
    /\ w.op \notin Ingestions => w.at \in DOMAIN source /\ w.row \in SourceRows
    /\ w.op \in {"rewrite", "reindex"} => Ingested(w.row)
    /\ w.op = "save" => knowledgeProposal \in KnowledgeProposals

\* Chunks once embedded in Python stay so, and what a call has read is still there as long
\* as nobody crossed it.
ReadIsThere(w) ==
    w.op \in {"update", "reindex"} /\ source[w.at] # Absent =>
        /\ ~w.crossed => w.row.content = source[w.at].content
        /\ w.op = "update" =>
               /\ w.row.version = "python" => source[w.at].chunks.by = "python"
               /\ ~w.crossed => w.row.sha = source[w.at].sha

KnowledgeCallsOK ==
    \A c \in Callers : knowledgeCall[c] # Idle =>
        KnowledgeCallTyped(knowledgeCall[c]) /\ ReadIsThere(knowledgeCall[c])

SourcesTyped ==
    /\ source \in Seq(SourceRows \cup {Absent})
    /\ cited \subseteq Sources
    /\ knowledgeProposal # Absent => knowledgeProposal \in KnowledgeProposals
    /\ knowledgeCall = [c \in Callers |-> knowledgeCall[c]]

KnowledgeInv == SourcesTyped /\ KnowledgeCallsOK /\ VectorsCompare /\ ChunksAreOfContent

\* A source is found by what it has.
FoundByContent(r) == r.chunks.of = r.content /\ r.sha \in {Absent, r.content}

LEMMA FoundIsHashed ==
    ASSUME NEW s PROVE (SourceHash(s) = source[s].content) <=> source[s].sha \in {Absent, source[s].content}
BY DEF SourceHash

LEMMA NewSourceTyped ==
    ASSUME NEW scope \in Scopes, NEW text \in Contents, NEW by \in Versions
    PROVE  /\ NewSource(scope, text, by) \in SourceRows
           /\ FoundByContent(NewSource(scope, text, by))
           /\ NewSource(scope, text, by).version = by /\ NewSource(scope, text, by).chunks.by = by
           /\ by = "python" => Ingested(NewSource(scope, text, by))
           /\ NewSource(scope, text, by).content = text
BY DEF NewSource, SourceRow, SourceRows, FoundByContent, Ingested, Versions

LEMMA KnowledgeInitInv == KnowledgeInit => KnowledgeInv
<1> SUFFICES ASSUME KnowledgeInit PROVE KnowledgeInv
  OBVIOUS
<1>1. source = <<>> /\ DOMAIN source = {} /\ Sources = {}
  BY DEF KnowledgeInit, Sources
<1>2. SourcesTyped
  BY <1>1 DEF SourcesTyped, KnowledgeInit
<1>3. KnowledgeCallsOK
  BY DEF KnowledgeInit, KnowledgeCallsOK
<1> QED BY <1>1, <1>2, <1>3 DEF KnowledgeInv, VectorsCompare, ChunksAreOfContent

LEMMA SourcesAreTyped ==
    ASSUME KnowledgeInv
    PROVE  /\ DOMAIN source = 1 .. Len(source) /\ Len(source) \in Nat
           /\ DOMAIN source \subseteq Nat
           /\ \A s \in DOMAIN source : source[s] \in SourceRows \cup {Absent}
           /\ \A s \in Sources : s \in DOMAIN source /\ source[s] \in SourceRows
           /\ ActiveSources \subseteq Sources
<1>1. source \in Seq(SourceRows \cup {Absent})
  BY DEF KnowledgeInv, SourcesTyped
<1>2. /\ DOMAIN source = 1 .. Len(source) /\ Len(source) \in Nat
      /\ \A s \in 1 .. Len(source) : source[s] \in SourceRows \cup {Absent}
  BY <1>1, LenProperties, ElementOfSeq
<1> QED BY <1>2 DEF Sources, ActiveSources

LEMMA BeginKnowledgeInv ==
    ASSUME KnowledgeInv, NEW c \in Callers, NEW call, BeginKnowledge(c, call),
           KnowledgeCallTyped(call), ReadIsThere(call)
    PROVE  KnowledgeInv'
<1>1. /\ UNCHANGED <<source, knowledgeProposal, cited, torn>>
      /\ knowledgeCall' = [knowledgeCall EXCEPT ![c] = call]
  BY DEF BeginKnowledge
<1>2. /\ knowledgeCall' = [d \in Callers |-> knowledgeCall'[d]]
      /\ \A d \in Callers : knowledgeCall'[d] = IF d = c THEN call ELSE knowledgeCall[d]
  BY <1>1 DEF KnowledgeInv, SourcesTyped
<1>3. Sources' = Sources
  BY <1>1 DEF Sources
<1>4. KnowledgeCallsOK'
  <2> SUFFICES ASSUME NEW d \in Callers, knowledgeCall'[d] # Idle
               PROVE  KnowledgeCallTyped(knowledgeCall[d])' /\ ReadIsThere(knowledgeCall[d])'
    BY DEF KnowledgeCallsOK
  <2>1. KnowledgeCallTyped(knowledgeCall'[d]) /\ ReadIsThere(knowledgeCall'[d])
    <3>1. CASE d = c
      BY <1>2, <3>1
    <3>2. CASE d # c
      BY <1>2, <3>2 DEF KnowledgeInv, KnowledgeCallsOK
    <3> QED BY <3>1, <3>2
  <2> QED BY <1>1, <2>1 DEF KnowledgeCallTyped, ReadIsThere
<1> QED BY <1>1, <1>2, <1>3, <1>4
        DEF KnowledgeInv, SourcesTyped, VectorsCompare, ChunksAreOfContent, SourceHash

LEMMA IngestionTyped ==
    ASSUME KnowledgeInv, NEW op \in Ingestions, NEW scope \in Scopes, NEW text \in Contents,
           NEW merged \in SUBSET Nat, op = "save" => knowledgeProposal \in KnowledgeProposals
    PROVE  /\ KnowledgeCallTyped(Ingestion(op, scope, text, merged))
           /\ ReadIsThere(Ingestion(op, scope, text, merged))
<1> DEFINE w == Ingestion(op, scope, text, merged)
           r == NewSource(scope, text, "python")
<1>1. r \in SourceRows /\ Ingested(r)
  BY NewSourceTyped DEF Versions
<1> HIDE DEF r
<1>2. /\ w.op = op /\ w.at = 0 /\ w.crossed = FALSE /\ w.merged = merged
      /\ w.row \in {r, Absent}
  BY DEF Ingestion, r
<1>3. w \in KnowledgeCallRecords
  BY <1>1 DEF Ingestion, KnowledgeCallRecords, r
<1> HIDE DEF w
<1>4. w.row # Absent => Ingested(w.row)
  BY <1>1, <1>2
<1>5. w.op \notin {"update", "reindex", "rewrite"}
  BY <1>2 DEF Ingestions
<1>6. KnowledgeCallTyped(w) /\ ReadIsThere(w)
  BY <1>2, <1>3, <1>4, <1>5 DEF KnowledgeCallTyped, ReadIsThere
<1> QED BY <1>6 DEF w

LEMMA OfSourceTyped ==
    ASSUME KnowledgeInv, NEW op \in {"update", "rewrite", "promote", "reindex", "delete", "search"},
           NEW s \in ActiveSources, NEW r \in SourceRows,
           op \in {"rewrite", "reindex"} => Ingested(r),
           op \in {"update", "reindex"} => r.content = source[s].content,
           op = "update" => /\ r.version = "python" => source[s].chunks.by = "python"
                            /\ r.sha = source[s].sha
    PROVE  KnowledgeCallTyped(OfSource(op, s, r)) /\ ReadIsThere(OfSource(op, s, r))
<1> DEFINE w == OfSource(op, s, r)
<1>1. /\ w.op = op /\ w.at = s /\ w.crossed = FALSE /\ w.row = r /\ w.merged = {}
      /\ op \notin Ingestions
  BY DEF OfSource, Ingestions
<1>2. s \in DOMAIN source /\ s \in Nat
  BY SourcesAreTyped
<1>3. w \in KnowledgeCallRecords
  BY <1>2 DEF OfSource, KnowledgeCallRecords
<1> HIDE DEF w
<1>4. KnowledgeCallTyped(w)
  BY <1>1, <1>2, <1>3 DEF KnowledgeCallTyped, Ingestions
<1>5. ReadIsThere(w)
  BY <1>1 DEF ReadIsThere
<1> QED BY <1>4, <1>5 DEF w

LEMMA BeginIngestionInv ==
    ASSUME KnowledgeInv, NEW c \in Callers, BeginIngest(c) \/ BeginSave(c) \/ BeginMergeSources(c)
    PROVE  KnowledgeInv'
<1>1. CASE BeginIngest(c)
  <2>1. PICK scope \in Scopes, text \in Contents :
          BeginKnowledge(c, Ingestion("ingest", scope, text, {}))
    BY <1>1 DEF BeginIngest
  <2>2. "ingest" \in Ingestions /\ {} \in SUBSET Nat
    BY DEF Ingestions
  <2> QED BY <2>1, <2>2, IngestionTyped, BeginKnowledgeInv
<1>2. CASE BeginSave(c)
  <2> DEFINE p == knowledgeProposal
  <2>1. p \in KnowledgeProposals /\ BeginKnowledge(c, Ingestion("save", p.scope, p.content, {}))
    BY <1>2 DEF BeginSave, KnowledgeInv, SourcesTyped
  <2>2. "save" \in Ingestions /\ {} \in SUBSET Nat /\ p.scope \in Scopes /\ p.content \in Contents
    BY <2>1 DEF Ingestions, KnowledgeProposals
  <2> QED BY <2>1, <2>2, IngestionTyped, BeginKnowledgeInv
<1>3. CASE BeginMergeSources(c)
  <2>1. PICK ss \in SUBSET ActiveSources, scope \in Scopes :
          \E text \in Contents \ {source[s].content : s \in ss} :
            BeginKnowledge(c, Ingestion("merge", scope, text, ss))
    BY <1>3 DEF BeginMergeSources
  <2>2. PICK text \in Contents : BeginKnowledge(c, Ingestion("merge", scope, text, ss))
    BY <2>1
  <2>3. "merge" \in Ingestions /\ ss \in SUBSET Nat
    BY SourcesAreTyped DEF Ingestions
  <2> QED BY <2>2, <2>3, IngestionTyped, BeginKnowledgeInv
<1> QED BY <1>1, <1>2, <1>3

LEMMA BeginOfSourceInv ==
    ASSUME KnowledgeInv, NEW c \in Callers,
           BeginUpdateSource(c) \/ BeginPromoteSource(c) \/ BeginReindex(c)
               \/ BeginDeleteSource(c) \/ BeginSearch(c)
    PROVE  KnowledgeInv'
<1>1. CASE BeginUpdateSource(c)
  <2>1. PICK s \in ActiveSources, scope \in Scopes, text \in Contents :
          BeginKnowledge(c,
              IF text = source[s].content
              THEN OfSource("update", s, [source[s] EXCEPT !.scope = scope])
              ELSE OfSource("rewrite", s, NewSource(scope, text, "python")))
    BY <1>1 DEF BeginUpdateSource
  <2>2. s \in Sources /\ source[s] \in SourceRows
    BY SourcesAreTyped
  <2>3. CASE text = source[s].content
    <3> DEFINE r == [source[s] EXCEPT !.scope = scope]
    <3>1. /\ r \in SourceRows /\ r.content = source[s].content /\ r.sha = source[s].sha
          /\ r.version = source[s].version
      BY <2>2 DEF SourceRows
    <3>2. BeginKnowledge(c, OfSource("update", s, r))
      BY <2>1, <2>3
    <3>3. r.version = "python" => source[s].chunks.by = "python"
      BY <2>2, <3>1 DEF KnowledgeInv, VectorsCompare
    <3> HIDE DEF r
    <3> QED BY <3>1, <3>2, <3>3, OfSourceTyped, BeginKnowledgeInv
  <2>4. CASE text # source[s].content
    <3>1. NewSource(scope, text, "python") \in SourceRows /\ Ingested(NewSource(scope, text, "python"))
      BY NewSourceTyped DEF Versions
    <3> QED BY <2>1, <2>4, <3>1, OfSourceTyped, BeginKnowledgeInv
  <2> QED BY <2>3, <2>4
<1>2. CASE BeginPromoteSource(c)
  <2>1. PICK s \in ActiveSources, scope \in Scopes :
          BeginKnowledge(c, OfSource("promote", s, [source[s] EXCEPT !.scope = scope]))
    BY <1>2 DEF BeginPromoteSource
  <2>2. [source[s] EXCEPT !.scope = scope] \in SourceRows
    BY SourcesAreTyped DEF SourceRows
  <2> QED BY <2>1, <2>2, OfSourceTyped, BeginKnowledgeInv
<1>3. CASE BeginReindex(c)
  <2>1. PICK s \in ActiveSources : BeginKnowledge(c, OfSource("reindex", s,
            NewSource(source[s].scope, source[s].content, "python")))
    BY <1>3 DEF BeginReindex
  <2>2. source[s].scope \in Scopes /\ source[s].content \in Contents
    BY SourcesAreTyped DEF SourceRows
  <2> DEFINE r == NewSource(source[s].scope, source[s].content, "python")
  <2>3. r \in SourceRows /\ Ingested(r) /\ r.content = source[s].content
    BY <2>2, NewSourceTyped DEF Versions
  <2> HIDE DEF r
  <2> QED BY <2>1, <2>3, OfSourceTyped, BeginKnowledgeInv DEF r
<1>4. CASE BeginDeleteSource(c) \/ BeginSearch(c)
  <2>1. PICK s \in ActiveSources, op \in {"delete", "search"} :
          BeginKnowledge(c, OfSource(op, s, source[s]))
    <3>1. CASE BeginDeleteSource(c)
      BY <3>1 DEF BeginDeleteSource
    <3>2. CASE BeginSearch(c)
      BY <3>2 DEF BeginSearch, Visible
    <3> QED BY <1>4, <3>1, <3>2
  <2>2. source[s] \in SourceRows
    BY SourcesAreTyped
  <2> QED BY <2>1, <2>2, OfSourceTyped, BeginKnowledgeInv
<1> QED BY <1>1, <1>2, <1>3, <1>4

\* A row of knowledge_sources is in order: by its embedder, and by its text unless it is torn.
RowInOrder(r, isTorn) ==
    /\ r.version = "python" => r.chunks.by = "python"
    /\ isTorn \/ FoundByContent(r)

LEMMA SourcesInOrder ==
    VectorsCompare /\ ChunksAreOfContent <=> \A s \in Sources : RowInOrder(source[s], s \in torn)
<1>1. \A s \in Sources : (SourceHash(s) = source[s].content)
                             <=> source[s].sha \in {Absent, source[s].content}
  BY FoundIsHashed
<1> QED BY <1>1 DEF VectorsCompare, ChunksAreOfContent, RowInOrder, FoundByContent

LEMMA SourcesInOrderNext ==
    (\A s \in Sources' : RowInOrder(source'[s], s \in torn')) => VectorsCompare' /\ ChunksAreOfContent'
BY DEF VectorsCompare, ChunksAreOfContent, RowInOrder, FoundByContent, SourceHash

\* What the other calls rely on outlasts a step that crosses the calls of what it writes.
LEMMA CallsOutlast ==
    ASSUME KnowledgeInv, NEW ss, DOMAIN source \subseteq DOMAIN source',
           \A s \in DOMAIN source : source'[s] # Absent =>
               /\ source[s] # Absent
               /\ source[s].chunks.by = "python" => source'[s].chunks.by = "python"
               /\ s \notin ss => /\ source'[s].content = source[s].content
                                 /\ source'[s].sha = source[s].sha,
           knowledgeProposal \in KnowledgeProposals => knowledgeProposal' \in KnowledgeProposals,
           \A d \in Callers : knowledgeCall'[d] # Idle =>
               knowledgeCall[d] # Idle /\ knowledgeCall'[d] = Cross(knowledgeCall, ss)[d]
    PROVE  KnowledgeCallsOK'
<1> SUFFICES ASSUME NEW d \in Callers, knowledgeCall'[d] # Idle
             PROVE  KnowledgeCallTyped(knowledgeCall[d])' /\ ReadIsThere(knowledgeCall[d])'
  BY DEF KnowledgeCallsOK
<1> DEFINE w == knowledgeCall[d]
           u == knowledgeCall'[d]
<1>1. w # Idle /\ KnowledgeCallTyped(w) /\ ReadIsThere(w) /\ w \in KnowledgeCallRecords
  BY DEF KnowledgeInv, KnowledgeCallsOK, KnowledgeCallTyped
<1>2. u = IF w.at \in ss THEN [w EXCEPT !.crossed = TRUE] ELSE w
  BY <1>1 DEF Cross
<1> HIDE DEF w, u
<1>3. /\ u \in KnowledgeCallRecords
      /\ u.op = w.op /\ u.at = w.at /\ u.merged = w.merged /\ u.row = w.row
      /\ u.crossed \/ (~w.crossed /\ w.at \notin ss)
  BY <1>1, <1>2 DEF KnowledgeCallRecords
<1>4. KnowledgeCallTyped(knowledgeCall[d])'
  BY <1>1, <1>3 DEF KnowledgeCallTyped, u
<1>5. ASSUME u.op \in {"update", "reindex"}, source'[u.at] # Absent
      PROVE  /\ ~u.crossed => u.row.content = source'[u.at].content
             /\ u.op = "update" =>
                   /\ u.row.version = "python" => source'[u.at].chunks.by = "python"
                   /\ ~u.crossed => u.row.sha = source'[u.at].sha
  <2>1. w.at \in DOMAIN source
    BY <1>1, <1>3, <1>5 DEF KnowledgeCallTyped, Ingestions
  <2> QED BY <1>1, <1>3, <1>5, <2>1 DEF ReadIsThere
<1>6. ReadIsThere(knowledgeCall[d])'
  BY <1>5 DEF ReadIsThere, u
<1> QED BY <1>4, <1>6

LEMMA AppendedSource ==
    ASSUME KnowledgeInv, NEW rest \in Seq(SourceRows \cup {Absent}), Len(rest) = Len(source),
           NEW r \in SourceRows
    PROVE  /\ Append(rest, r) \in Seq(SourceRows \cup {Absent})
           /\ DOMAIN Append(rest, r) = DOMAIN source \cup {Len(source) + 1}
           /\ Len(source) + 1 \notin DOMAIN source
           /\ Append(rest, r)[Len(source) + 1] = r
           /\ \A s \in DOMAIN source : Append(rest, r)[s] = rest[s]
<1>1. DOMAIN source = 1 .. Len(source) /\ Len(source) \in Nat
  BY SourcesAreTyped
<1>2. r \in SourceRows \cup {Absent}
  OBVIOUS
<1>3. /\ Append(rest, r) \in Seq(SourceRows \cup {Absent})
      /\ Len(Append(rest, r)) = Len(rest) + 1
      /\ \A i \in 1 .. Len(rest) : Append(rest, r)[i] = rest[i]
      /\ Append(rest, r)[Len(rest) + 1] = r
  BY <1>2, AppendProperties
<1>4. DOMAIN Append(rest, r) = 1 .. Len(source) + 1
  BY <1>3, LenProperties
<1>5. 1 .. Len(source) + 1 = (1 .. Len(source)) \cup {Len(source) + 1}
      /\ Len(source) + 1 \notin 1 .. Len(source)
  BY <1>1
<1> QED BY <1>1, <1>3, <1>4, <1>5

LEMMA HostIngestsInv == ASSUME KnowledgeInv, HostIngests PROVE KnowledgeInv'
<1>1. PICK scope \in Scopes \ {"conversation"}, text \in Contents :
        source' = Append(source, NewSource(scope, text, "rust"))
  BY DEF HostIngests
<1> DEFINE r == NewSource(scope, text, "rust")
           n == Len(source) + 1
<1>2. r \in SourceRows /\ FoundByContent(r) /\ r.version # "python" /\ r # Absent
  BY NewSourceTyped, AbsentIsNoSource DEF Versions
<1>3. UNCHANGED <<knowledgeProposal, knowledgeCall, cited, torn>> /\ source' = Append(source, r)
  BY <1>1 DEF HostIngests
<1> HIDE DEF r, n
<1>4. source \in Seq(SourceRows \cup {Absent}) /\ knowledgeCall = [c \in Callers |-> knowledgeCall[c]]
  BY DEF KnowledgeInv, SourcesTyped
<1>5. /\ source' \in Seq(SourceRows \cup {Absent})
      /\ DOMAIN source' = DOMAIN source \cup {n} /\ source'[n] = r /\ n \notin DOMAIN source
      /\ \A s \in DOMAIN source : source'[s] = source[s]
  BY <1>2, <1>3, <1>4, AppendedSource DEF n
<1>6. Sources' = Sources \cup {n} /\ Sources \subseteq DOMAIN source
  BY <1>2, <1>5 DEF Sources
<1>7. SourcesTyped'
  BY <1>3, <1>5, <1>6 DEF KnowledgeInv, SourcesTyped
<1>8. KnowledgeCallsOK'
  <2>1. \A d \in Callers : knowledgeCall'[d] = Cross(knowledgeCall, {})[d]
    BY <1>3 DEF Cross
  <2> QED BY <1>3, <1>5, <2>1, CallsOutlast
<1>9. \A s \in Sources' : RowInOrder(source'[s], s \in torn')
  <2>1. \A s \in Sources : RowInOrder(source[s], s \in torn)
    BY SourcesInOrder DEF KnowledgeInv
  <2>2. RowInOrder(r, n \in torn)
    BY <1>2 DEF RowInOrder
  <2> QED BY <1>3, <1>5, <1>6, <2>1, <2>2
<1> QED BY <1>7, <1>8, <1>9, SourcesInOrderNext DEF KnowledgeInv

LEMMA HostDeletesInv == ASSUME KnowledgeInv, HostDeletes PROVE KnowledgeInv'
<1>1. PICK s \in Sources :
        /\ source' = [source EXCEPT ![s] = Absent]
        /\ cited' = cited \ {s}
        /\ torn' = torn \ {s}
        /\ knowledgeCall' = Cross(knowledgeCall, {s})
        /\ UNCHANGED knowledgeProposal
  BY DEF HostDeletes
<1>2. /\ source \in Seq(SourceRows \cup {Absent}) /\ s \in DOMAIN source
      /\ DOMAIN source = 1 .. Len(source)
  BY SourcesAreTyped DEF KnowledgeInv, SourcesTyped
<1>3. /\ DOMAIN source' = DOMAIN source
      /\ \A k \in DOMAIN source : source'[k] = IF k = s THEN Absent ELSE source[k]
  BY <1>1, <1>2
<1>4. source' \in Seq(SourceRows \cup {Absent})
  BY <1>1, <1>2, ExceptSeq
<1>5. Sources' = Sources \ {s} /\ Sources \subseteq DOMAIN source
  BY <1>3 DEF Sources
<1>6. SourcesTyped'
  <2>1. knowledgeCall' = [c \in Callers |-> knowledgeCall'[c]]
    BY <1>1 DEF Cross
  <2> QED BY <1>1, <1>4, <1>5, <2>1 DEF KnowledgeInv, SourcesTyped
<1>7. KnowledgeCallsOK'
  <2>1. \A d \in Callers : knowledgeCall'[d] # Idle =>
            knowledgeCall[d] # Idle /\ knowledgeCall'[d] = Cross(knowledgeCall, {s})[d]
    BY <1>1 DEF Cross
  <2> QED BY <1>1, <1>3, <2>1, CallsOutlast
<1>8. \A k \in Sources' : RowInOrder(source'[k], k \in torn')
  <2>1. \A k \in Sources : RowInOrder(source[k], k \in torn)
    BY SourcesInOrder DEF KnowledgeInv
  <2> QED BY <1>1, <1>3, <1>5, <2>1
<1> QED BY <1>6, <1>7, <1>8, SourcesInOrderNext DEF KnowledgeInv

LEMMA CommitIngestionInv ==
    ASSUME KnowledgeInv, NEW c \in Callers, knowledgeCall[c] # Idle, CommitIngestion(c)
    PROVE  KnowledgeInv'
<1> DEFINE w == knowledgeCall[c]
           n == Len(source) + 1
           rest == [s \in DOMAIN source |->
                       IF s \in w.merged \cap Sources
                       THEN [source[s] EXCEPT !.deleted = TRUE] ELSE source[s]]
<1>1. /\ w.op \in Ingestions
      /\ source' = IF w.row = Absent THEN rest ELSE Append(rest, w.row)
      /\ knowledgeProposal' = IF w.op = "save"
                              THEN [knowledgeProposal EXCEPT !.status = "approved"]
                              ELSE knowledgeProposal
      /\ knowledgeCall' = [Cross(knowledgeCall, w.merged) EXCEPT ![c] = Idle]
      /\ UNCHANGED <<cited, torn>>
  BY DEF CommitIngestion, Ingestions
<1>2. KnowledgeCallTyped(w)
  BY DEF KnowledgeInv, KnowledgeCallsOK
<1>3. /\ w.row # Absent => w.row \in SourceRows /\ Ingested(w.row)
      /\ w.op = "save" => knowledgeProposal \in KnowledgeProposals
  BY <1>1, <1>2 DEF KnowledgeCallTyped, KnowledgeCallRecords
<1>4. /\ DOMAIN source = 1 .. Len(source) /\ Len(source) \in Nat
      /\ \A s \in DOMAIN source : source[s] \in SourceRows \cup {Absent}
      /\ \A s \in Sources : s \in DOMAIN source /\ source[s] \in SourceRows
  BY SourcesAreTyped
<1>5. \A s \in DOMAIN source :
        /\ rest[s] \in SourceRows \cup {Absent} /\ (rest[s] # Absent <=> source[s] # Absent)
        /\ rest[s].content = source[s].content /\ rest[s].sha = source[s].sha
        /\ rest[s].version = source[s].version /\ rest[s].chunks = source[s].chunks
  <2> SUFFICES ASSUME NEW s \in DOMAIN source
               PROVE  /\ rest[s] \in SourceRows \cup {Absent} /\ (rest[s] # Absent <=> source[s] # Absent)
                      /\ rest[s].content = source[s].content /\ rest[s].sha = source[s].sha
                      /\ rest[s].version = source[s].version /\ rest[s].chunks = source[s].chunks
    OBVIOUS
  <2>1. CASE s \in w.merged \cap Sources
    <3>1. rest[s] = [source[s] EXCEPT !.deleted = TRUE] /\ source[s] \in SourceRows
      BY <1>4, <2>1
    <3>2. /\ rest[s] \in SourceRows
          /\ rest[s].content = source[s].content /\ rest[s].sha = source[s].sha
          /\ rest[s].version = source[s].version /\ rest[s].chunks = source[s].chunks
      <4> HIDE DEF rest
      <4> QED BY <3>1 DEF SourceRows
    <3> HIDE DEF rest
    <3> QED BY <3>1, <3>2, AbsentIsNoSource
  <2>2. CASE s \notin w.merged \cap Sources
    <3>1. rest[s] = source[s]
      BY <2>2
    <3> HIDE DEF rest
    <3> QED BY <1>4, <3>1
  <2> QED BY <2>1, <2>2
<1>6. rest \in Seq(SourceRows \cup {Absent}) /\ Len(rest) = Len(source) /\ DOMAIN rest = DOMAIN source
  <2>1. DOMAIN rest = 1 .. Len(source)
    BY <1>4
  <2>2. rest = [s \in 1 .. Len(source) |-> rest[s]]
    BY <1>4
  <2> HIDE DEF rest
  <2>3. rest \in [1 .. Len(source) -> SourceRows \cup {Absent}]
    BY <1>4, <1>5, <2>2
  <2>4. rest \in Seq(SourceRows \cup {Absent})
    BY <1>4, <2>3, SeqDef
  <2> QED BY <1>4, <2>1, <2>4, LenProperties
<1> HIDE DEF rest, n
<1>7. /\ source' \in Seq(SourceRows \cup {Absent})
      /\ \A s \in DOMAIN source : source'[s] = rest[s]
      /\ \/ DOMAIN source' = DOMAIN source
         \/ w.row # Absent /\ DOMAIN source' = DOMAIN source \cup {n} /\ source'[n] = w.row
            /\ n \notin DOMAIN source
  <2>1. CASE w.row = Absent
    <3>1. source' = rest
      BY <1>1, <2>1
    <3> HIDE DEF w
    <3> QED BY <1>6, <3>1
  <2>2. CASE w.row # Absent
    <3>1. source' = Append(rest, w.row)
      BY <1>1, <2>2
    <3> HIDE DEF w
    <3>2. w.row \in SourceRows
      BY <1>3, <2>2
    <3>3. /\ source' \in Seq(SourceRows \cup {Absent})
          /\ DOMAIN source' = DOMAIN source \cup {n} /\ n \notin DOMAIN source
          /\ source'[n] = w.row /\ \A s \in DOMAIN source : source'[s] = rest[s]
      <4>1. rest \in Seq(SourceRows \cup {Absent}) /\ Len(rest) = Len(source)
        BY <1>6
      <4> QED BY <3>1, <3>2, <4>1, AppendedSource DEF n
    <3> QED BY <2>2, <3>3
  <2> QED BY <2>1, <2>2
<1>8. DOMAIN source \subseteq DOMAIN source' /\ Sources \subseteq DOMAIN source
  BY <1>4, <1>7
<1>9. Sources \subseteq Sources'
  BY <1>5, <1>7, <1>8 DEF Sources
<1>10. /\ knowledgeProposal \in KnowledgeProposals => knowledgeProposal' \in KnowledgeProposals
       /\ knowledgeProposal' # Absent => knowledgeProposal' \in KnowledgeProposals
  <2>1. knowledgeProposal \in KnowledgeProposals =>
            [knowledgeProposal EXCEPT !.status = "approved"] \in KnowledgeProposals
    BY DEF KnowledgeProposals
  <2> QED BY <1>1, <1>3, <2>1 DEF KnowledgeInv, SourcesTyped
<1>11. /\ knowledgeCall' = [d \in Callers |-> knowledgeCall'[d]]
       /\ \A d \in Callers : knowledgeCall'[d] # Idle =>
              knowledgeCall[d] # Idle /\ knowledgeCall'[d] = Cross(knowledgeCall, w.merged)[d]
  <2>1. Cross(knowledgeCall, w.merged) = [d \in Callers |-> Cross(knowledgeCall, w.merged)[d]]
    BY DEF Cross
  <2>2. \A d \in Callers : knowledgeCall'[d] =
            IF d = c THEN Idle ELSE Cross(knowledgeCall, w.merged)[d]
    BY <1>1, <2>1
  <2>3. \A d \in Callers : knowledgeCall[d] = Idle => Cross(knowledgeCall, w.merged)[d] = Idle
    BY DEF Cross
  <2>4. knowledgeCall' = [d \in Callers |-> knowledgeCall'[d]]
    BY <1>1, <2>1
  <2> HIDE DEF w
  <2> QED BY <2>2, <2>3, <2>4
<1>12. SourcesTyped'
  BY <1>1, <1>7, <1>9, <1>10, <1>11 DEF KnowledgeInv, SourcesTyped
<1>13. KnowledgeCallsOK'
  BY <1>5, <1>7, <1>8, <1>10, <1>11, CallsOutlast, SMTT(30)
<1>14. \A s \in Sources' : RowInOrder(source'[s], s \in torn')
  <2> SUFFICES ASSUME NEW s \in Sources' PROVE RowInOrder(source'[s], s \in torn')
    OBVIOUS
  <2>1. CASE s \in DOMAIN source
    <3>1. source'[s] = rest[s] /\ s \in Sources
      BY <1>5, <1>7, <2>1 DEF Sources
    <3>2. RowInOrder(source[s], s \in torn)
      BY <3>1, SourcesInOrder DEF KnowledgeInv
    <3> QED BY <1>1, <1>5, <2>1, <3>1, <3>2 DEF RowInOrder, FoundByContent
  <2>2. CASE s \notin DOMAIN source
    <3>1. source'[s] = w.row /\ Ingested(w.row)
      BY <1>3, <1>7, <2>2 DEF Sources
    <3> QED BY <3>1 DEF RowInOrder, FoundByContent, Ingested
  <2> QED BY <2>1, <2>2
<1> QED BY <1>12, <1>13, <1>14, SourcesInOrderNext DEF KnowledgeInv

\* What each call makes of the row it finds.
LEMMA WrittenInOrder ==
    ASSUME KnowledgeInv, NEW c \in Callers, knowledgeCall[c] # Idle, CommitOfSource(c)
    PROVE  LET w == knowledgeCall[c]
               r == source[w.at]
               new == SourceWritten(w, r)
           IN  /\ w.at \in Sources /\ r \in SourceRows /\ new \in SourceRows
               /\ r.chunks.by = "python" => new.chunks.by = "python"
               /\ w.op = "search" => new = r
               /\ RowInOrder(new, w.at \in torn')
<1> DEFINE w == knowledgeCall[c]
           r == source[w.at]
           new == SourceWritten(w, r)
<1>1. KnowledgeCallTyped(w) /\ ReadIsThere(w)
  BY DEF KnowledgeInv, KnowledgeCallsOK
<1>2. w.op \notin Ingestions /\ r # Absent
  BY DEF CommitOfSource, Ingestions
<1>3. /\ w \in KnowledgeCallRecords /\ w.at \in DOMAIN source /\ w.row \in SourceRows
      /\ w.op \in {"update", "rewrite", "promote", "reindex", "delete", "search"}
      /\ w.op \in {"rewrite", "reindex"} => Ingested(w.row)
  BY <1>1, <1>2 DEF KnowledgeCallTyped, KnowledgeCallRecords, Ingestions
<1>4. w.at \in Sources /\ r \in SourceRows
  BY <1>2, <1>3, SourcesAreTyped DEF Sources
<1>5. RowInOrder(r, w.at \in torn)
  BY <1>4, SourcesInOrder DEF KnowledgeInv
<1>6. torn' = IF w.op \notin {"update", "rewrite", "reindex"} THEN torn
              ELSE IF w.crossed THEN torn \cup {w.at}
              ELSE IF w.op = "update" THEN torn ELSE torn \ {w.at}
  BY DEF CommitOfSource
<1>7. w.op \in {"update", "reindex"} =>
        /\ ~w.crossed => w.row.content = r.content
        /\ w.op = "update" =>
               /\ w.row.version = "python" => r.chunks.by = "python"
               /\ ~w.crossed => w.row.sha = r.sha
  BY <1>1, <1>2 DEF ReadIsThere
<1>8. new = CASE w.op = "update"  -> Rewritten(w, r, r.chunks)
              [] w.op = "rewrite" -> Rewritten(w, r, w.row.chunks)
              [] w.op = "promote" -> [r EXCEPT !.scope = w.row.scope]
              [] w.op = "reindex" -> Reindexed(w, r)
              [] w.op = "delete"  -> [r EXCEPT !.deleted = TRUE]
              [] OTHER            -> r
  BY DEF SourceWritten
<1> HIDE DEF w, r, new
<1>9. CASE w.op = "update"
  <2>1. new = Rewritten(w, r, r.chunks)
    BY <1>8, <1>9
  <2>2. /\ new \in SourceRows /\ new.content = w.row.content /\ new.sha = w.row.sha
        /\ new.version = w.row.version /\ new.chunks = r.chunks
    BY <1>3, <1>4, <2>1 DEF Rewritten, SourceRow, SourceRows
  <2>3. RowInOrder(new, w.at \in torn')
    BY <1>5, <1>6, <1>7, <1>9, <2>2 DEF RowInOrder, FoundByContent
  <2> QED BY <1>4, <1>9, <2>2, <2>3 DEF w, r, new
<1>10. CASE w.op = "rewrite"
  <2>1. new = Rewritten(w, r, w.row.chunks)
    BY <1>8, <1>10
  <2>2. /\ new \in SourceRows /\ new.content = w.row.content /\ new.sha = w.row.sha
        /\ new.version = w.row.version /\ new.chunks = w.row.chunks
    BY <1>3, <1>4, <2>1 DEF Rewritten, SourceRow, SourceRows
  <2>3. new.chunks.by = "python" /\ RowInOrder(new, w.at \in torn')
    BY <1>3, <1>10, <2>2 DEF RowInOrder, FoundByContent, Ingested
  <2> QED BY <1>4, <1>10, <2>2, <2>3 DEF w, r, new
<1>11. CASE w.op = "reindex"
  <2>1. new = Reindexed(w, r)
    BY <1>8, <1>11
  <2>2. /\ new \in SourceRows /\ new.content = r.content /\ new.sha = w.row.sha
        /\ new.version = w.row.version /\ new.chunks = w.row.chunks
    BY <1>3, <1>4, <2>1 DEF Reindexed, SourceRow, SourceRows
  <2>3. new.chunks.by = "python" /\ RowInOrder(new, w.at \in torn')
    BY <1>3, <1>6, <1>7, <1>11, <2>2 DEF RowInOrder, FoundByContent, Ingested
  <2> QED BY <1>4, <1>11, <2>2, <2>3 DEF w, r, new
<1>12. CASE w.op \in {"promote", "delete", "search"}
  <2>1. new \in {[r EXCEPT !.scope = w.row.scope], [r EXCEPT !.deleted = TRUE], r}
        /\ (w.op = "search" => new = r)
    BY <1>8, <1>12
  <2>2. /\ new \in SourceRows /\ new.content = r.content /\ new.sha = r.sha
        /\ new.version = r.version /\ new.chunks = r.chunks
    <3>1. CASE new = [r EXCEPT !.scope = w.row.scope]
      BY <1>3, <1>4, <3>1 DEF SourceRows
    <3>2. CASE new = [r EXCEPT !.deleted = TRUE]
      BY <1>4, <3>2 DEF SourceRows
    <3> QED BY <1>4, <2>1, <3>1, <3>2
  <2>3. RowInOrder(new, w.at \in torn')
    BY <1>5, <1>6, <1>12, <2>2 DEF RowInOrder, FoundByContent
  <2> QED BY <1>4, <2>1, <2>2, <2>3 DEF w, r, new
<1> QED BY <1>3, <1>9, <1>10, <1>11, <1>12

LEMMA CommitOfSourceInv ==
    ASSUME KnowledgeInv, NEW c \in Callers, knowledgeCall[c] # Idle, CommitOfSource(c)
    PROVE  KnowledgeInv'
<1> DEFINE w == knowledgeCall[c]
           s == w.at
           new == SourceWritten(w, source[s])
           ss == IF w.op = "search" THEN {} ELSE {s}
<1>1. /\ s \in Sources /\ source[s] \in SourceRows /\ new \in SourceRows
      /\ source[s].chunks.by = "python" => new.chunks.by = "python"
      /\ w.op = "search" => new = source[s]
      /\ RowInOrder(new, s \in torn')
  BY WrittenInOrder
<1>2. /\ source' = [source EXCEPT ![s] = new]
      /\ cited' = IF w.op = "search" THEN cited \cup {s} ELSE cited
      /\ \A k : k # s => (k \in torn' <=> k \in torn)
      /\ knowledgeCall' = [Cross(knowledgeCall, ss) EXCEPT ![c] = Idle]
      /\ UNCHANGED knowledgeProposal
  BY DEF CommitOfSource
<1> HIDE DEF w, s, new, ss
<1>3. /\ source \in Seq(SourceRows \cup {Absent}) /\ s \in DOMAIN source
      /\ DOMAIN source = 1 .. Len(source)
  BY <1>1, SourcesAreTyped DEF KnowledgeInv, SourcesTyped
<1>4. /\ DOMAIN source' = DOMAIN source
      /\ \A k \in DOMAIN source : source'[k] = IF k = s THEN new ELSE source[k]
  BY <1>2, <1>3
<1>5. source' \in Seq(SourceRows \cup {Absent})
  BY <1>1, <1>2, <1>3, ExceptSeq
<1>6. new # Absent /\ source[s] # Absent
  BY <1>1, AbsentIsNoSource
<1>7. Sources' = Sources /\ Sources \subseteq DOMAIN source
  BY <1>4, <1>6 DEF Sources
<1>8. /\ knowledgeCall' = [d \in Callers |-> knowledgeCall'[d]]
      /\ \A d \in Callers : knowledgeCall'[d] # Idle =>
             knowledgeCall[d] # Idle /\ knowledgeCall'[d] = Cross(knowledgeCall, ss)[d]
  <2>1. Cross(knowledgeCall, ss) = [d \in Callers |-> Cross(knowledgeCall, ss)[d]]
    BY DEF Cross
  <2>2. \A d \in Callers : knowledgeCall'[d] =
            IF d = c THEN Idle ELSE Cross(knowledgeCall, ss)[d]
    BY <1>2, <2>1
  <2>3. \A d \in Callers : knowledgeCall[d] = Idle => Cross(knowledgeCall, ss)[d] = Idle
    BY DEF Cross
  <2> QED BY <1>2, <2>1, <2>2, <2>3
<1>9. SourcesTyped'
  BY <1>1, <1>2, <1>5, <1>7, <1>8 DEF KnowledgeInv, SourcesTyped
<1>10. KnowledgeCallsOK'
  <2>1. \A k \in DOMAIN source : source'[k] # Absent =>
            /\ source[k] # Absent
            /\ source[k].chunks.by = "python" => source'[k].chunks.by = "python"
            /\ k \notin ss => /\ source'[k].content = source[k].content
                              /\ source'[k].sha = source[k].sha
    BY <1>1, <1>4, <1>6 DEF ss
  <2> QED BY <1>2, <1>4, <1>8, <2>1, CallsOutlast
<1>11. \A k \in Sources' : RowInOrder(source'[k], k \in torn')
  <2>1. \A k \in Sources : RowInOrder(source[k], k \in torn)
    BY SourcesInOrder DEF KnowledgeInv
  <2>2. ASSUME NEW k \in Sources, k # s PROVE RowInOrder(source'[k], k \in torn')
    BY <1>2, <1>4, <1>7, <2>1, <2>2 DEF RowInOrder
  <2> QED BY <1>1, <1>3, <1>4, <1>7, <2>2
<1> QED BY <1>9, <1>10, <1>11, SourcesInOrderNext DEF KnowledgeInv

LEMMA KnowledgeStepInv == KnowledgeInv /\ [KnowledgeNext]_knowledgeVars => KnowledgeInv'
<1> SUFFICES ASSUME KnowledgeInv, [KnowledgeNext]_knowledgeVars PROVE KnowledgeInv'
  OBVIOUS
<1>1. ASSUME UNCHANGED <<source, cited, torn>>,
             knowledgeProposal' = knowledgeProposal \/ knowledgeProposal' \in KnowledgeProposals,
             knowledgeCall' = [d \in Callers |-> knowledgeCall'[d]],
             \A d \in Callers : knowledgeCall'[d] # Idle => knowledgeCall'[d] = knowledgeCall[d]
      PROVE  KnowledgeInv'
  <2>1. Sources' = Sources
    BY <1>1 DEF Sources
  <2>2. SourcesTyped'
    BY <1>1, <2>1 DEF KnowledgeInv, SourcesTyped
  <2>3. KnowledgeCallsOK'
    BY <1>1 DEF KnowledgeInv, KnowledgeCallsOK, KnowledgeCallTyped, ReadIsThere
  <2> QED BY <1>1, <2>1, <2>2, <2>3 DEF KnowledgeInv, VectorsCompare, ChunksAreOfContent, SourceHash
<1>2. CASE ProposeKnowledge
  <2>1. knowledgeProposal' \in KnowledgeProposals
    BY <1>2 DEF ProposeKnowledge, KnowledgeProposals
  <2>2. UNCHANGED <<source, cited, torn, knowledgeCall>>
    BY <1>2 DEF ProposeKnowledge
  <2>3. knowledgeCall' = [d \in Callers |-> knowledgeCall'[d]]
    BY <2>2 DEF KnowledgeInv, SourcesTyped
  <2> QED BY <1>1, <2>1, <2>2, <2>3
<1>3. CASE UNCHANGED knowledgeVars
  <2>1. knowledgeCall' = [d \in Callers |-> knowledgeCall'[d]]
    BY <1>3 DEF knowledgeVars, KnowledgeInv, SourcesTyped
  <2> QED BY <1>1, <1>3, <2>1 DEF knowledgeVars
<1>4. ASSUME NEW c \in Callers, CommitKnowledgeCall(c) PROVE KnowledgeInv'
  BY <1>4, CommitIngestionInv, CommitOfSourceInv DEF CommitKnowledgeCall
<1>5. ASSUME NEW c \in Callers, KnowledgeCallFails(c) PROVE KnowledgeInv'
  <2>1. /\ UNCHANGED <<source, knowledgeProposal, cited, torn>>
        /\ knowledgeCall' = [knowledgeCall EXCEPT ![c] = Idle]
    BY <1>5 DEF KnowledgeCallFails
  <2>2. /\ knowledgeCall' = [d \in Callers |-> knowledgeCall'[d]]
        /\ \A d \in Callers : knowledgeCall'[d] # Idle => knowledgeCall'[d] = knowledgeCall[d]
    BY <2>1 DEF KnowledgeInv, SourcesTyped
  <2> QED BY <1>1, <2>1, <2>2
<1> QED BY <1>2, <1>3, <1>4, <1>5, HostIngestsInv, HostDeletesInv, BeginIngestionInv, BeginOfSourceInv
        DEF KnowledgeNext

\* A source, its chunks and its hash belong together, and vectors are of the embedder the
\* row names, for any scopes, texts and callers, and however the host writes beside them.
THEOREM KnowledgeAlwaysOK == KnowledgeSpec => []KnowledgeOK
<1>1. KnowledgeInv => KnowledgeOK
  <2> SUFFICES ASSUME KnowledgeInv PROVE KnowledgeTypeOK
    BY DEF KnowledgeInv, KnowledgeOK
  <2>1. \A s \in Sources : source[s] \in SourceRows
    BY SourcesAreTyped
  <2> QED BY <2>1 DEF KnowledgeInv, SourcesTyped, KnowledgeTypeOK, SourceRows
<1> QED BY <1>1, KnowledgeInitInv, KnowledgeStepInv, PTL DEF KnowledgeSpec
-----------------------------------------------------------------------------
(* The git tools.                                                          *)

GitDoings ==
    {"add", "restore", "restore-staged", "checkout-side", "commit", "commit-amend",
     "branch", "checkout", "checkout-b", "merge", "rebase", "merge-abort", "rebase-abort",
     "diff", "rev-parse", "log-1", "fetch", "push"}
GitCommands ==
    {cmd \in [do : GitDoings, arg : (SUBSET Paths) \cup Branches] :
        /\ cmd.do \in {"branch", "checkout", "checkout-b"} => cmd.arg \in Branches
        /\ cmd.do \in {"add", "restore-staged"} => cmd.arg \subseteq Paths}
GitNames ==
    {"stage", "unstage", "restore", "commit", "create_branch", "checkout", "merge", "rebase",
     "pull", "fetch", "push", "abort", "resolve"}
GitCallRecords ==
    [tool : GitNames, paths : SUBSET Paths, todo : Seq(GitCommands)]

\* The commands a call has still to run.  Only a commit ends with a look at the log, only
\* its first command may add its paths, and a merge, rebase or pull runs one at a time.
GitCallOK(w) ==
    /\ w \in GitCallRecords /\ w.todo # <<>>
    /\ w.tool = "commit" =>
           /\ Len(w.todo) \in 1 .. 3
           /\ w.todo[Len(w.todo)].do = "log-1"
           /\ Len(w.todo) > 1 => w.todo[Len(w.todo) - 1].do \in {"commit", "commit-amend"}
           /\ Len(w.todo) = 3 => w.todo[1] = Cmd("add", w.paths)
    /\ w.tool \in {"merge", "rebase", "pull"} =>
           /\ Len(w.todo) = 1
           /\ w.todo[1].do \in {"merge", "rebase", "diff", "rev-parse"}

RepositoryOK ==
    /\ branch \in Branches
    /\ commits \in [Branches -> Seq(GitCommits) \cup {Absent}] /\ commits[branch] # Absent
    /\ index \subseteq Paths /\ unmerged \subseteq Paths
    /\ operation \in {"none", "merge", "rebase"}
    /\ gitLock \in BOOLEAN /\ gitCalls \in Nat

GitBusy == {c \in Callers : gitCall[c] # Idle}

\* Two calls at a time know of each other.
MixedKnow == \A c, d \in GitBusy : c # d => c \in mixed

\* A commit that runs alone has its paths in the index, then in the last commit.
CommitOnItsWay ==
    \A c \in GitBusy \ mixed : gitCall[c].tool = "commit" =>
        LET paths == gitCall[c].paths
            last  == commits[branch][Len(commits[branch])]
        IN  /\ Len(gitCall[c].todo) = 2 => paths \subseteq index
            /\ Len(gitCall[c].todo) = 1 =>
                   commits[branch] # <<>> /\ last.by = c /\ paths \subseteq last.paths

GitInv ==
    /\ RepositoryOK
    /\ gitCall = [c \in Callers |-> gitCall[c]] /\ gitAnswer = [c \in Callers |-> gitAnswer[c]]
    /\ \A c \in GitBusy : GitCallOK(gitCall[c]) /\ gitAnswer[c] = Absent
    /\ MixedKnow
    /\ CommitOnItsWay
    /\ GitAnswersAreTrue

LEMMA OneIn == ASSUME NEW S, NEW x \in S
               PROVE  <<x>> \in Seq(S) /\ <<x>> # <<>> /\ Len(<<x>>) = 1 /\ <<x>>[1] = x
  OBVIOUS

LEMMA TwoIn ==
    ASSUME NEW S, NEW x \in S, NEW y \in S
    PROVE  /\ <<x, y>> \in Seq(S) /\ <<x, y>> # <<>>
           /\ Len(<<x, y>>) = 2 /\ <<x, y>>[1] = x /\ <<x, y>>[2] = y
  OBVIOUS


LEMMA GitInitInv == GitInit => GitInv
<1> SUFFICES ASSUME GitInit PROVE GitInv
  OBVIOUS
<1>1. RepositoryOK
  <2>0. <<>> \in Seq(GitCommits)
    BY EmptySeq
  <2>1. <<>> \in Seq(GitCommits) /\ Main \in Branches /\ <<>> # Absent
    BY <2>0, GitAssumption
  <2>2. commits \in [Branches -> Seq(GitCommits) \cup {Absent}] /\ commits[branch] = <<>>
    BY <2>1 DEF GitInit
  <2> QED BY <2>1, <2>2 DEF GitInit, RepositoryOK
<1>2. GitBusy = {}
  BY DEF GitInit, GitBusy
<1> QED BY <1>1, <1>2 DEF GitInit, GitInv, MixedKnow, CommitOnItsWay, GitAnswersAreTrue

\* The command a call runs, and those it has left.
LEMMA CurrentAndRest ==
    ASSUME GitInv, NEW c \in GitBusy
    PROVE  LET w == gitCall[c] IN
           /\ c \in Callers /\ GitCallOK(w) /\ w \in GitCallRecords /\ gitAnswer[c] = Absent
           /\ w.todo \in Seq(GitCommands) /\ Len(w.todo) \in Nat \ {0}
           /\ Current(c) = w.todo[1] /\ Current(c) \in GitCommands
           /\ Rest(c) \in Seq(GitCommands) /\ Len(Rest(c)) = Len(w.todo) - 1
           /\ \A i \in 1 .. Len(Rest(c)) : Rest(c)[i] = w.todo[i + 1]
           /\ Rest(c) # <<>> => Len(w.todo) > 1
<1> DEFINE w == gitCall[c]
           s == w.todo
<1>1. c \in Callers /\ GitCallOK(w) /\ gitAnswer[c] = Absent
  BY DEF GitInv, GitBusy
<1>2. w \in GitCallRecords /\ s \in Seq(GitCommands) /\ s # <<>>
  BY <1>1 DEF GitCallOK, GitCallRecords
<1>3. Len(s) \in Nat \ {0}
  BY <1>2, EmptySeq
<1>4. /\ Tail(s) \in Seq(GitCommands) /\ Len(Tail(s)) = Len(s) - 1
      /\ \A i \in 1 .. Len(Tail(s)) : Tail(s)[i] = s[i + 1]
  BY <1>2, HeadTailProperties
<1>5. Head(s) = s[1]
  BY <1>2
<1>6. s[1] \in GitCommands
  BY <1>2, <1>3, ElementOfSeq
<1>7. Tail(s) # <<>> => Len(s) > 1
  BY <1>3, <1>4, EmptySeq
<1> QED BY <1>1, <1>2, <1>3, <1>4, <1>5, <1>6, <1>7 DEF Current, Rest

LEMMA BeginGitInv ==
    ASSUME GitInv, NEW c \in Callers, NEW tool, NEW paths, NEW todo, Begin(c, tool, paths, todo),
           GitCallOK([tool |-> tool, paths |-> paths, todo |-> todo]),
           tool = "commit" => Len(todo) # 1 /\ (Len(todo) = 2 => paths = {})
    PROVE  GitInv'
<1> DEFINE w == [tool |-> tool, paths |-> paths, todo |-> todo]
<1>1. /\ gitCall[c] = Idle /\ gitCalls' = gitCalls + 1
      /\ gitCall' = [gitCall EXCEPT ![c] = w]
      /\ mixed' = IF GitBusy = {} THEN mixed \ {c} ELSE mixed \cup GitBusy \cup {c}
      /\ gitAnswer' = [gitAnswer EXCEPT ![c] = Absent]
      /\ UNCHANGED <<repoVars, gitLock>>
  BY DEF Begin, GitBusy
<1>2. /\ w.tool = tool /\ w.paths = paths /\ w.todo = todo /\ GitCallOK(w)
  OBVIOUS
<1> HIDE DEF w
<1>3. /\ gitCall' = [d \in Callers |-> gitCall'[d]] /\ gitAnswer' = [d \in Callers |-> gitAnswer'[d]]
      /\ gitCall'[c] = w /\ gitAnswer'[c] = Absent
      /\ \A d \in Callers \ {c} : gitCall'[d] = gitCall[d] /\ gitAnswer'[d] = gitAnswer[d]
  BY <1>1 DEF GitInv
<1>4. c \notin GitBusy /\ \A d \in GitBusy' : d = c \/ (d \in GitBusy /\ d # c)
  BY <1>1, <1>3 DEF GitBusy
<1>5. RepositoryOK'
  BY <1>1 DEF GitInv, RepositoryOK, repoVars
<1>6. \A d \in GitBusy' : GitCallOK(gitCall'[d]) /\ gitAnswer'[d] = Absent
  BY <1>2, <1>3, <1>4 DEF GitInv, GitBusy
<1>7. MixedKnow'
  <2> SUFFICES ASSUME NEW x \in GitBusy', NEW y \in GitBusy', x # y PROVE x \in mixed'
    BY DEF MixedKnow
  <2>1. GitBusy # {}
    BY <1>4
  <2> QED BY <1>1, <1>4, <2>1
<1>8. CommitOnItsWay'
  <2> SUFFICES ASSUME NEW d \in GitBusy' \ mixed', gitCall'[d].tool = "commit"
               PROVE  /\ Len(gitCall'[d].todo) = 2 => gitCall'[d].paths \subseteq index'
                      /\ Len(gitCall'[d].todo) # 1
    BY DEF CommitOnItsWay
  <2>1. d = c
    BY <1>1, <1>4
  <2> QED BY <1>2, <1>3, <2>1
<1>9. GitAnswersAreTrue'
  <2> SUFFICES ASSUME NEW d \in Callers, gitAnswer'[d] # Absent, gitAnswer'[d].code = "ok"
               PROVE  /\ gitAnswer'[d].tool = "commit" /\ d \notin mixed' =>
                             /\ gitAnswer'[d].sha.by = d
                             /\ gitAnswer'[d].paths \subseteq gitAnswer'[d].sha.paths
                      /\ gitAnswer'[d].tool \in {"merge", "rebase", "pull"} =>
                             ~(operation' # "none" /\ startedBy' = d)
    BY DEF GitAnswersAreTrue
  <2>1. d # c /\ gitAnswer'[d] = gitAnswer[d] /\ (d \notin mixed' => d \notin mixed)
    BY <1>1, <1>3
  <2>2. operation' = operation /\ startedBy' = startedBy
    BY <1>1 DEF repoVars
  <2> QED BY <2>1, <2>2 DEF GitInv, GitAnswersAreTrue
<1>10. \A d \in GitBusy' : GitCallOK(gitCall[d])' /\ gitAnswer'[d] = Absent
  BY <1>6 DEF GitCallOK
<1> QED BY <1>3, <1>5, <1>7, <1>8, <1>9, <1>10 DEF GitInv

LEMMA OneCommand ==
    ASSUME NEW tool \in GitNames, NEW paths \in SUBSET Paths, NEW cmd \in GitCommands,
           tool # "commit",
           tool \in {"merge", "rebase", "pull"} =>
               cmd.do \in {"merge", "rebase", "diff", "rev-parse"}
    PROVE  GitCallOK([tool |-> tool, paths |-> paths, todo |-> <<cmd>>])
<1> DEFINE s == <<cmd>>
           w == [tool |-> tool, paths |-> paths, todo |-> s]
<1>1. s \in Seq(GitCommands) /\ s # <<>> /\ Len(s) = 1 /\ s[1] = cmd
  BY OneIn
<1> HIDE DEF s
<1>2. w \in GitCallRecords /\ w.tool = tool /\ w.todo = s
  BY <1>1 DEF GitCallRecords
<1> HIDE DEF w
<1>3. GitCallOK(w)
  BY <1>1, <1>2 DEF GitCallOK
<1> QED BY <1>3 DEF w, s

LEMMA CommandTyped ==
    ASSUME NEW name \in GitDoings, NEW arg \in (SUBSET Paths) \cup Branches,
           name \in {"branch", "checkout", "checkout-b"} => arg \in Branches,
           name \in {"add", "restore-staged"} => arg \subseteq Paths
    PROVE  Cmd(name, arg) \in GitCommands /\ Cmd(name, arg).do = name /\ Cmd(name, arg).arg = arg
<1> DEFINE cmd == Cmd(name, arg)
<1>1. cmd.do = name /\ cmd.arg = arg /\ cmd \in [do : GitDoings, arg : (SUBSET Paths) \cup Branches]
  BY DEF Cmd
<1> HIDE DEF cmd
<1>2. cmd \in GitCommands
  BY <1>1 DEF GitCommands
<1> QED BY <1>1, <1>2 DEF cmd

\* A call that begins with one command.
LEMMA BeginOne ==
    ASSUME GitInv, NEW c \in Callers, NEW tool \in GitNames, tool # "commit",
           NEW paths \in SUBSET Paths, NEW cmd \in GitCommands,
           tool \in {"merge", "rebase", "pull"} =>
               cmd.do \in {"merge", "rebase", "diff", "rev-parse"},
           Begin(c, tool, paths, <<cmd>>)
    PROVE  GitInv'
<1> DEFINE s == <<cmd>>
<1>1. GitCallOK([tool |-> tool, paths |-> paths, todo |-> s])
  BY OneCommand
<1>2. Begin(c, tool, paths, s)
  OBVIOUS
<1> HIDE DEF s
<1> QED BY <1>1, <1>2, BeginGitInv

LEMMA BeginOneInv ==
    ASSUME GitInv, NEW c \in Callers,
           \/ GitStage(c) \/ GitUnstage(c) \/ GitRestore(c) \/ GitCreateBranch(c) \/ GitCheckout(c)
           \/ GitMerge(c) \/ GitRebase(c) \/ GitPull(c) \/ GitFetch(c) \/ GitPush(c) \/ GitAbort(c)
    PROVE  GitInv'
<1>1. CASE GitStage(c)
  <2>1. PICK p \in Paths :
            Begin(c, "stage", {p}, <<Cmd("add", {p})>>)
    BY <1>1 DEF GitStage
  <2> DEFINE name == "add"
  <2>2. name \in GitDoings /\ "stage" \in GitNames /\ {p} \in SUBSET Paths
    BY DEF GitDoings, GitNames
  <2>3. name \notin {"branch", "checkout", "checkout-b"}
    OBVIOUS
  <2> DEFINE cmd == Cmd(name, {p})
  <2>4. Begin(c, "stage", {p}, <<cmd>>)
    BY <2>1
  <2> HIDE DEF name
  <2>5. cmd \in GitCommands /\ cmd.do = name
    BY <2>2, <2>3, CommandTyped
  <2> HIDE DEF cmd
  <2> QED BY <2>2, <2>4, <2>5, BeginOne
<1>2. CASE GitUnstage(c)
  <2>1. PICK p \in Paths :
            Begin(c, "unstage", {p}, <<Cmd("restore-staged", {p})>>)
    BY <1>2 DEF GitUnstage
  <2> DEFINE name == "restore-staged"
  <2>2. name \in GitDoings /\ "unstage" \in GitNames /\ {p} \in SUBSET Paths
    BY DEF GitDoings, GitNames
  <2>3. name \notin {"branch", "checkout", "checkout-b"}
    OBVIOUS
  <2> DEFINE cmd == Cmd(name, {p})
  <2>4. Begin(c, "unstage", {p}, <<cmd>>)
    BY <2>1
  <2> HIDE DEF name
  <2>5. cmd \in GitCommands /\ cmd.do = name
    BY <2>2, <2>3, CommandTyped
  <2> HIDE DEF cmd
  <2> QED BY <2>2, <2>4, <2>5, BeginOne
<1>3. CASE GitRestore(c)
  <2>1. PICK p \in Paths, staged \in BOOLEAN :
            Begin(c, "restore", {p}, <<Cmd(IF staged THEN "restore-staged" ELSE "restore", {p})>>)
    BY <1>3 DEF GitRestore
  <2> DEFINE name == IF staged THEN "restore-staged" ELSE "restore"
  <2>2. name \in GitDoings /\ "restore" \in GitNames /\ {p} \in SUBSET Paths
    BY DEF GitDoings, GitNames
  <2>3. name \notin {"branch", "checkout", "checkout-b"}
    OBVIOUS
  <2> DEFINE cmd == Cmd(name, {p})
  <2>4. Begin(c, "restore", {p}, <<cmd>>)
    BY <2>1
  <2> HIDE DEF name
  <2>5. cmd \in GitCommands /\ cmd.do = name
    BY <2>2, <2>3, CommandTyped
  <2> HIDE DEF cmd
  <2> QED BY <2>2, <2>4, <2>5, BeginOne
<1>4. CASE GitCreateBranch(c)
  <2>1. PICK b \in Branches, switch \in BOOLEAN :
            Begin(c, "create_branch", {}, <<Cmd(IF switch THEN "checkout-b" ELSE "branch", b)>>)
    BY <1>4 DEF GitCreateBranch
  <2> DEFINE name == IF switch THEN "checkout-b" ELSE "branch"
  <2>2. name \in GitDoings /\ "create_branch" \in GitNames /\ {} \in SUBSET Paths
    BY DEF GitDoings, GitNames
  <2>3. name \notin {"add", "restore-staged"}
    OBVIOUS
  <2> DEFINE cmd == Cmd(name, b)
  <2>4. Begin(c, "create_branch", {}, <<cmd>>)
    BY <2>1
  <2> HIDE DEF name
  <2>5. cmd \in GitCommands /\ cmd.do = name
    BY <2>2, <2>3, CommandTyped
  <2> HIDE DEF cmd
  <2> QED BY <2>2, <2>4, <2>5, BeginOne
<1>5. CASE GitCheckout(c)
  <2>1. PICK b \in Branches, create \in BOOLEAN :
            Begin(c, "checkout", {}, <<Cmd(IF create THEN "checkout-b" ELSE "checkout", b)>>)
    BY <1>5 DEF GitCheckout
  <2> DEFINE name == IF create THEN "checkout-b" ELSE "checkout"
  <2>2. name \in GitDoings /\ "checkout" \in GitNames /\ {} \in SUBSET Paths
    BY DEF GitDoings, GitNames
  <2>3. name \notin {"add", "restore-staged"}
    OBVIOUS
  <2> DEFINE cmd == Cmd(name, b)
  <2>4. Begin(c, "checkout", {}, <<cmd>>)
    BY <2>1
  <2> HIDE DEF name
  <2>5. cmd \in GitCommands /\ cmd.do = name
    BY <2>2, <2>3, CommandTyped
  <2> HIDE DEF cmd
  <2> QED BY <2>2, <2>4, <2>5, BeginOne
<1>6. CASE GitMerge(c)
  <2> DEFINE name == "merge"
  <2>1. Begin(c, "merge", {}, <<Cmd("merge", {})>>)
    BY <1>6 DEF GitMerge
  <2>2. name \in GitDoings /\ "merge" \in GitNames /\ {} \in SUBSET Paths /\ name \in {"merge", "rebase", "diff", "rev-parse"}
    BY DEF GitDoings, GitNames
  <2>3. name \notin {"branch", "checkout", "checkout-b"}
    OBVIOUS
  <2> DEFINE cmd == Cmd(name, {})
  <2>4. Begin(c, "merge", {}, <<cmd>>)
    BY <2>1
  <2> HIDE DEF name
  <2>5. cmd \in GitCommands /\ cmd.do = name
    BY <2>2, <2>3, CommandTyped
  <2> HIDE DEF cmd
  <2> QED BY <2>2, <2>4, <2>5, BeginOne
<1>7. CASE GitRebase(c)
  <2> DEFINE name == "rebase"
  <2>1. Begin(c, "rebase", {}, <<Cmd("rebase", {})>>)
    BY <1>7 DEF GitRebase
  <2>2. name \in GitDoings /\ "rebase" \in GitNames /\ {} \in SUBSET Paths /\ name \in {"merge", "rebase", "diff", "rev-parse"}
    BY DEF GitDoings, GitNames
  <2>3. name \notin {"branch", "checkout", "checkout-b"}
    OBVIOUS
  <2> DEFINE cmd == Cmd(name, {})
  <2>4. Begin(c, "rebase", {}, <<cmd>>)
    BY <2>1
  <2> HIDE DEF name
  <2>5. cmd \in GitCommands /\ cmd.do = name
    BY <2>2, <2>3, CommandTyped
  <2> HIDE DEF cmd
  <2> QED BY <2>2, <2>4, <2>5, BeginOne
<1>8. CASE GitPull(c)
  <2>1. PICK rebase \in BOOLEAN :
            Begin(c, "pull", {}, <<Cmd(IF rebase THEN "rebase" ELSE "merge", {})>>)
    BY <1>8 DEF GitPull
  <2> DEFINE name == IF rebase THEN "rebase" ELSE "merge"
  <2>2. name \in GitDoings /\ "pull" \in GitNames /\ {} \in SUBSET Paths /\ name \in {"merge", "rebase", "diff", "rev-parse"}
    BY DEF GitDoings, GitNames
  <2>3. name \notin {"branch", "checkout", "checkout-b"}
    OBVIOUS
  <2> DEFINE cmd == Cmd(name, {})
  <2>4. Begin(c, "pull", {}, <<cmd>>)
    BY <2>1
  <2> HIDE DEF name
  <2>5. cmd \in GitCommands /\ cmd.do = name
    BY <2>2, <2>3, CommandTyped
  <2> HIDE DEF cmd
  <2> QED BY <2>2, <2>4, <2>5, BeginOne
<1>9. CASE GitFetch(c)
  <2> DEFINE name == "fetch"
  <2>1. Begin(c, "fetch", {}, <<Cmd("fetch", {})>>)
    BY <1>9 DEF GitFetch
  <2>2. name \in GitDoings /\ "fetch" \in GitNames /\ {} \in SUBSET Paths
    BY DEF GitDoings, GitNames
  <2>3. name \notin {"branch", "checkout", "checkout-b"}
    OBVIOUS
  <2> DEFINE cmd == Cmd(name, {})
  <2>4. Begin(c, "fetch", {}, <<cmd>>)
    BY <2>1
  <2> HIDE DEF name
  <2>5. cmd \in GitCommands /\ cmd.do = name
    BY <2>2, <2>3, CommandTyped
  <2> HIDE DEF cmd
  <2> QED BY <2>2, <2>4, <2>5, BeginOne
<1>10. CASE GitPush(c)
  <2> DEFINE name == "push"
  <2>1. Begin(c, "push", {}, <<Cmd("push", {})>>)
    BY <1>10 DEF GitPush
  <2>2. name \in GitDoings /\ "push" \in GitNames /\ {} \in SUBSET Paths
    BY DEF GitDoings, GitNames
  <2>3. name \notin {"branch", "checkout", "checkout-b"}
    OBVIOUS
  <2> DEFINE cmd == Cmd(name, {})
  <2>4. Begin(c, "push", {}, <<cmd>>)
    BY <2>1
  <2> HIDE DEF name
  <2>5. cmd \in GitCommands /\ cmd.do = name
    BY <2>2, <2>3, CommandTyped
  <2> HIDE DEF cmd
  <2> QED BY <2>2, <2>4, <2>5, BeginOne
<1>11. CASE GitAbort(c)
  <2> DEFINE name == "rev-parse"
  <2>1. Begin(c, "abort", {}, <<Cmd("rev-parse", {})>>)
    BY <1>11 DEF GitAbort
  <2>2. name \in GitDoings /\ "abort" \in GitNames /\ {} \in SUBSET Paths
    BY DEF GitDoings, GitNames
  <2>3. name \notin {"branch", "checkout", "checkout-b"}
    OBVIOUS
  <2> DEFINE cmd == Cmd(name, {})
  <2>4. Begin(c, "abort", {}, <<cmd>>)
    BY <2>1
  <2> HIDE DEF name
  <2>5. cmd \in GitCommands /\ cmd.do = name
    BY <2>2, <2>3, CommandTyped
  <2> HIDE DEF cmd
  <2> QED BY <2>2, <2>4, <2>5, BeginOne
<1> QED BY <1>1, <1>2, <1>3, <1>4, <1>5, <1>6, <1>7, <1>8, <1>9, <1>10, <1>11

LEMMA BeginResolveInv == ASSUME GitInv, NEW c \in Callers, GitResolve(c) PROVE GitInv'
<1>1. PICK p \in Paths :
        Begin(c, "resolve", {p}, <<Cmd("checkout-side", {p}), Cmd("add", {p})>>)
  BY DEF GitResolve
<1> DEFINE x == Cmd("checkout-side", {p})
           y == Cmd("add", {p})
<1>2. /\ "checkout-side" \in GitDoings /\ "add" \in GitDoings /\ {p} \in SUBSET Paths
      /\ "resolve" \in GitNames
  BY DEF GitDoings, GitNames
<1>3. x \in GitCommands /\ y \in GitCommands
  BY <1>2, CommandTyped
<1> DEFINE s == <<x, y>>
<1>4. Begin(c, "resolve", {p}, s)
  BY <1>1
<1> HIDE DEF x, y
<1>5. s \in Seq(GitCommands) /\ s # <<>>
  BY <1>3, TwoIn
<1> HIDE DEF s
<1> DEFINE w == [tool |-> "resolve", paths |-> {p}, todo |-> s]
<1>6. w \in GitCallRecords /\ w.tool = "resolve" /\ w.todo = s
  BY <1>2, <1>5 DEF GitCallRecords
<1> HIDE DEF w
<1>7. GitCallOK(w)
  BY <1>5, <1>6 DEF GitCallOK
<1> QED BY <1>4, <1>7, BeginGitInv DEF w

LEMMA BeginCommitInv == ASSUME GitInv, NEW c \in Callers, GitCommit(c) PROVE GitInv'
<1>1. PICK paths \in SUBSET Paths, amend \in BOOLEAN :
        Begin(c, "commit", paths,
              (IF paths = {} THEN <<>> ELSE <<Cmd("add", paths)>>)
                  \o <<Cmd(IF amend THEN "commit-amend" ELSE "commit", {}), Cmd("log-1", {})>>)
  BY DEF GitCommit
<1> DEFINE name == IF amend THEN "commit-amend" ELSE "commit"
           x == Cmd("add", paths)
           y == Cmd(name, {})
           z == Cmd("log-1", {})
           first == IF paths = {} THEN <<>> ELSE <<x>>
           second == <<y, z>>
           todo == first \o second
<1>2. Begin(c, "commit", paths, todo)
  BY <1>1
<1>3. /\ "add" \in GitDoings /\ name \in GitDoings /\ "log-1" \in GitDoings
      /\ name \in {"commit", "commit-amend"} /\ {} \in SUBSET Paths
  BY DEF GitDoings
<1> HIDE DEF name
<1>4. /\ x \in GitCommands
      /\ y \in GitCommands /\ y.do = name
      /\ z \in GitCommands /\ z.do = "log-1"
  <2>1. x \in GitCommands
    BY <1>3, CommandTyped
  <2>2. y \in GitCommands /\ y.do = name
    BY <1>3, CommandTyped
  <2>3. z \in GitCommands /\ z.do = "log-1"
    BY <1>3, CommandTyped
  <2> QED BY <2>1, <2>2, <2>3
<1> HIDE DEF x, y, z
<1>5. /\ second \in Seq(GitCommands) /\ Len(second) = 2 /\ second[1] = y /\ second[2] = z
  BY <1>4, TwoIn
<1> HIDE DEF second
<1>6. /\ first \in Seq(GitCommands) /\ Len(first) = IF paths = {} THEN 0 ELSE 1
      /\ paths # {} => first[1] = x
  <2>1. CASE paths = {}
    <3>1. first = <<>>
      BY <2>1
    <3> QED BY <2>1, <3>1, EmptySeq
  <2>2. CASE paths # {}
    <3>1. first = <<x>>
      BY <2>2
    <3> HIDE DEF first
    <3> QED BY <1>4, <2>2, <3>1, OneIn
  <2> QED BY <2>1, <2>2
<1> HIDE DEF first
<1>7. /\ todo \in Seq(GitCommands) /\ Len(todo) = Len(first) + 2
      /\ \A i \in 1 .. Len(first) + 2 : todo[i] = IF i <= Len(first) THEN first[i]
                                                  ELSE second[i - Len(first)]
  <2>1. first \in Seq(GitCommands) /\ second \in Seq(GitCommands)
    BY <1>5, <1>6
  <2>2. /\ todo \in Seq(GitCommands) /\ Len(todo) = Len(first) + Len(second)
        /\ \A i \in 1 .. Len(first) + Len(second) : todo[i] = IF i <= Len(first) THEN first[i]
                                                              ELSE second[i - Len(first)]
    BY <2>1, ConcatProperties
  <2> QED BY <1>5, <2>2
<1> HIDE DEF todo
<1>8. /\ Len(todo) = (IF paths = {} THEN 2 ELSE 3) /\ Len(todo) \in 1 .. 3
      /\ todo[Len(todo)] = z /\ todo[Len(todo) - 1] = y
      /\ Len(todo) = 3 => todo[1] = x
  <2>1. CASE paths = {}
    <3>1. Len(first) = 0 /\ Len(todo) = 2
      BY <1>6, <1>7, <2>1
    <3>2. todo[1] = y /\ todo[2] = z
      BY <1>5, <1>7, <3>1
    <3> QED BY <2>1, <3>1, <3>2
  <2>2. CASE paths # {}
    <3>1. Len(first) = 1 /\ Len(todo) = 3
      BY <1>6, <1>7, <2>2
    <3>2. todo[1] = x /\ todo[2] = y /\ todo[3] = z
      BY <1>5, <1>6, <1>7, <2>2, <3>1
    <3> QED BY <2>2, <3>1, <3>2
  <2> QED BY <2>1, <2>2
<1>9. todo # <<>>
  BY <1>8, <1>7, EmptySeq
<1> DEFINE w == [tool |-> "commit", paths |-> paths, todo |-> todo]
<1>10. w \in GitCallRecords /\ w.todo = todo /\ w.paths = paths /\ w.tool = "commit"
  BY <1>7 DEF GitCallRecords, GitNames
<1> HIDE DEF w
<1>11. GitCallOK(w)
  BY <1>3, <1>4, <1>8, <1>9, <1>10 DEF GitCallOK, x
<1>12. Len(todo) # 1 /\ (Len(todo) = 2 => paths = {})
  BY <1>8
<1> QED BY <1>2, <1>11, <1>12, BeginGitInv DEF w

\* The last commit is of c and has these paths.
LastCommit(c, history, paths) ==
    history # <<>> /\ history[Len(history)].by = c /\ paths \subseteq history[Len(history)].paths

\* What a step of c does to what the answers of the others say.
OthersNotBlamed(c) ==
    \/ operation' \in {operation, "none"} /\ startedBy' = startedBy
    \/ startedBy' = c

LEMMA CommitKeeps ==
    ASSUME GitInv, NEW c \in Callers, NEW earlier \in Seq(GitCommits), NEW more \in SUBSET Paths,
           Commit(c, earlier, more)
    PROVE  /\ commits' \in [Branches -> Seq(GitCommits) \cup {Absent}]
           /\ commits'[branch] # Absent /\ LastCommit(c, commits'[branch], index)
           /\ index' = {}
<1> DEFINE new == [by |-> c, at |-> gitCalls, paths |-> index \cup more]
           all == Append(earlier, new)
<1>1. RepositoryOK
  BY DEF GitInv
<1>2. new \in GitCommits /\ new.by = c /\ index \subseteq new.paths
  BY <1>1 DEF RepositoryOK, GitCommits
<1>3. commits' = [commits EXCEPT ![branch] = all] /\ index' = {}
  BY DEF Commit
<1> HIDE DEF new
<1>4. all \in Seq(GitCommits) /\ Len(all) = Len(earlier) + 1 /\ all[Len(earlier) + 1] = new
  BY <1>2, AppendProperties
<1>5. Len(all) # 0 /\ all # <<>>
  <2>1. Len(earlier) \in Nat
    OBVIOUS
  <2> QED BY <1>4, <2>1, EmptySeq
<1>6. all # Absent
  BY <1>4, GitAssumption
<1> HIDE DEF all
<1>7. commits' \in [Branches -> Seq(GitCommits) \cup {Absent}] /\ commits'[branch] = all
  BY <1>1, <1>3, <1>4 DEF RepositoryOK
<1> QED BY <1>2, <1>3, <1>4, <1>5, <1>6, <1>7 DEF LastCommit

LEMMA EffectKeeps ==
    ASSUME GitInv, NEW c \in Callers, NEW cmd \in GitCommands, Effect(c, cmd),
           gitLock' \in BOOLEAN, gitCalls' = gitCalls
    PROVE  /\ RepositoryOK' /\ operation' \in {operation, "none"} /\ startedBy' = startedBy
           /\ cmd.do = "add" => cmd.arg \subseteq index'
           /\ cmd.do \in {"commit", "commit-amend"} => LastCommit(c, commits'[branch'], index)
           /\ cmd.do \in {"merge", "rebase"} => operation' = "none"
           /\ cmd.do = "log-1" => UNCHANGED repoVars
<1> DEFINE Kept == /\ RepositoryOK' /\ operation' \in {operation, "none"} /\ startedBy' = startedBy
<1>1. RepositoryOK
  BY DEF GitInv
<1>2. /\ cmd.do \in GitDoings
      /\ cmd.do \in {"branch", "checkout", "checkout-b"} => cmd.arg \in Branches
      /\ cmd.do \in {"add", "restore-staged"} => cmd.arg \subseteq Paths
  BY DEF GitCommands
<1>3. commits[branch] \in Seq(GitCommits)
  BY <1>1 DEF RepositoryOK
<1>4. CASE cmd.do = "add"
  <2>1. /\ index' = index \cup cmd.arg /\ unmerged' = unmerged \ cmd.arg
        /\ UNCHANGED <<branch, commits, operation, startedBy>>
    BY <1>4 DEF Effect
  <2>2. Kept
    BY <1>1, <1>2, <1>4, <2>1 DEF RepositoryOK
  <2> QED BY <1>4, <2>1, <2>2
<1>5. CASE cmd.do = "restore-staged"
  <2>1. /\ index' = index \ cmd.arg /\ unmerged' = unmerged \ cmd.arg
        /\ UNCHANGED <<branch, commits, operation, startedBy>>
    BY <1>5 DEF Effect
  <2>2. Kept
    BY <1>1, <1>2, <1>5, <2>1 DEF RepositoryOK
  <2> QED BY <1>5, <2>2
<1>6. CASE cmd.do \in {"restore", "checkout-side"}
  <2>1. UNCHANGED repoVars
    BY <1>6 DEF Effect
  <2>2. Kept
    BY <1>1, <2>1 DEF RepositoryOK, repoVars
  <2> QED BY <1>6, <2>2
<1>7. CASE cmd.do = "commit"
  <2>1. /\ Commit(c, commits[branch], {})
        /\ operation' = IF operation = "merge" THEN "none" ELSE operation
        /\ UNCHANGED <<branch, unmerged, startedBy>>
    BY <1>7 DEF Effect
  <2>2. /\ commits' \in [Branches -> Seq(GitCommits) \cup {Absent}]
        /\ commits'[branch] # Absent /\ LastCommit(c, commits'[branch], index) /\ index' = {}
    BY <1>3, <2>1, CommitKeeps
  <2>3. Kept
    BY <1>1, <2>1, <2>2 DEF RepositoryOK
  <2> QED BY <1>7, <2>1, <2>2, <2>3
<1>8. CASE cmd.do = "commit-amend"
  <2> DEFINE n == Len(commits[branch])
             earlier == SubSeq(commits[branch], 1, n - 1)
             more == commits[branch][n].paths
  <2>1. /\ commits[branch] # <<>> /\ Commit(c, earlier, more)
        /\ UNCHANGED <<branch, unmerged, operation, startedBy>>
    BY <1>8 DEF Effect
  <2>2. n \in Nat \ {0}
    BY <1>3, <2>1, EmptySeq
  <2>3. earlier \in Seq(GitCommits)
    <3>1. \A i \in 1 .. n - 1 : commits[branch][i] \in GitCommits
      BY <1>3, <2>2, ElementOfSeq
    <3> QED BY <2>2, <3>1, SubSeqProperties
  <2>4. more \in SUBSET Paths
    <3>1. commits[branch][n] \in GitCommits
      BY <1>3, <2>2, ElementOfSeq
    <3> QED BY <3>1 DEF GitCommits
  <2> HIDE DEF earlier, more
  <2>5. /\ commits' \in [Branches -> Seq(GitCommits) \cup {Absent}]
        /\ commits'[branch] # Absent /\ LastCommit(c, commits'[branch], index) /\ index' = {}
    BY <2>1, <2>3, <2>4, CommitKeeps
  <2>6. Kept
    BY <1>1, <2>1, <2>5 DEF RepositoryOK
  <2> QED BY <1>8, <2>1, <2>5, <2>6
<1>9. CASE cmd.do \in {"checkout-b", "branch"}
  <2>1. /\ commits[cmd.arg] = Absent /\ commits' = [commits EXCEPT ![cmd.arg] = commits[branch]]
        /\ branch' = IF cmd.do = "branch" THEN branch ELSE cmd.arg
        /\ UNCHANGED <<index, unmerged, operation, startedBy>>
    BY <1>9 DEF Effect
  <2>2. Kept
    BY <1>1, <1>2, <1>9, <2>1 DEF RepositoryOK
  <2> QED BY <1>9, <2>2
<1>10. CASE cmd.do = "checkout"
  <2>1. /\ commits[cmd.arg] # Absent /\ branch' = cmd.arg
        /\ UNCHANGED <<commits, index, unmerged, operation, startedBy>>
    BY <1>10 DEF Effect
  <2>2. Kept
    BY <1>1, <1>2, <1>10, <2>1 DEF RepositoryOK
  <2> QED BY <1>10, <2>2
<1>11. CASE cmd.do \in {"merge", "rebase"}
  <2> DEFINE new == [by |-> c, at |-> gitCalls, paths |-> {}]
             all == Append(commits[branch], new)
  <2>1. /\ operation = "none"
        /\ commits' = commits \/ commits' = [commits EXCEPT ![branch] = all]
        /\ UNCHANGED <<branch, index, unmerged, operation, startedBy>>
    BY <1>11 DEF Effect
  <2>2. new \in GitCommits
    BY <1>1 DEF RepositoryOK, GitCommits
  <2> HIDE DEF new
  <2>3. all \in Seq(GitCommits)
    BY <1>3, <2>2, AppendProperties
  <2>4. all # Absent
    BY <2>3, GitAssumption
  <2> HIDE DEF all
  <2>5. Kept
    BY <1>1, <2>1, <2>3, <2>4 DEF RepositoryOK
  <2> QED BY <1>11, <2>1, <2>5
<1>12. CASE cmd.do \in {"merge-abort", "rebase-abort"}
  <2>1. /\ operation' = "none" /\ unmerged' = {} /\ index' = {}
        /\ UNCHANGED <<branch, commits, startedBy>>
    BY <1>12 DEF Effect
  <2>2. Kept
    BY <1>1, <2>1 DEF RepositoryOK
  <2> QED BY <1>12, <2>2
<1>13. CASE cmd.do \in {"diff", "rev-parse", "log-1", "fetch", "push"}
  <2>1. UNCHANGED repoVars
    BY <1>13 DEF Effect
  <2>2. Kept
    BY <1>1, <2>1 DEF RepositoryOK, repoVars
  <2> QED BY <1>13, <2>1, <2>2
<1> QED BY <1>2, <1>4, <1>5, <1>6, <1>7, <1>8, <1>9, <1>10, <1>11, <1>12, <1>13 DEF GitDoings

\* A busy caller's step leaves the answers of the others as they are.
LEMMA OthersAnswers ==
    ASSUME GitInv, NEW c \in GitBusy, OthersNotBlamed(c), mixed' = mixed,
           NEW d \in Callers \ {c}, gitAnswer'[d] = gitAnswer[d],
           gitAnswer[d] # Absent, gitAnswer[d].code = "ok"
    PROVE  /\ gitAnswer'[d].tool = "commit" /\ d \notin mixed' =>
                  gitAnswer'[d].sha.by = d /\ gitAnswer'[d].paths \subseteq gitAnswer'[d].sha.paths
           /\ gitAnswer'[d].tool \in {"merge", "rebase", "pull"} =>
                  ~(operation' # "none" /\ startedBy' = d)
  BY DEF GitInv, GitAnswersAreTrue, OthersNotBlamed

LEMMA ContinueInv ==
    ASSUME GitInv, NEW c \in GitBusy, NEW todo, Continue(c, todo), RepositoryOK', OthersNotBlamed(c),
           GitCallOK([tool |-> gitCall[c].tool, paths |-> gitCall[c].paths, todo |-> todo]),
           gitCall[c].tool = "commit" /\ c \notin mixed =>
               /\ Len(todo) = 2 => gitCall[c].paths \subseteq index'
               /\ Len(todo) = 1 => LastCommit(c, commits'[branch'], gitCall[c].paths)
    PROVE  GitInv'
<1> DEFINE w == [tool |-> gitCall[c].tool, paths |-> gitCall[c].paths, todo |-> todo]
<1>1. /\ c \in Callers /\ gitCall[c] \in GitCallRecords /\ gitAnswer[c] = Absent
  BY CurrentAndRest
<1>2. [gitCall[c] EXCEPT !.todo = todo] = w
  BY <1>1 DEF GitCallRecords
<1>3. /\ gitCall' = [gitCall EXCEPT ![c] = [gitCall[c] EXCEPT !.todo = todo]]
      /\ UNCHANGED <<gitAnswer, mixed, gitCalls>>
  BY <1>1 DEF Continue, GitInv
<1>4. w.tool = gitCall[c].tool /\ w.paths = gitCall[c].paths /\ w.todo = todo /\ GitCallOK(w)
  OBVIOUS
<1> HIDE DEF w
<1>5. /\ gitCall' = [d \in Callers |-> gitCall'[d]] /\ gitCall'[c] = w
      /\ \A d \in Callers \ {c} : gitCall'[d] = gitCall[d]
  BY <1>1, <1>2, <1>3 DEF GitInv
<1>6. \A d \in GitBusy' : d \in GitBusy
  BY <1>5 DEF GitBusy
<1>7. \A d \in GitBusy' : GitCallOK(gitCall'[d]) /\ gitAnswer'[d] = Absent
  BY <1>1, <1>3, <1>4, <1>5, <1>6 DEF GitInv, GitBusy
<1>8. MixedKnow'
  BY <1>3, <1>6 DEF GitInv, MixedKnow
<1>9. CommitOnItsWay'
  <2> SUFFICES ASSUME NEW d \in GitBusy' \ mixed', gitCall'[d].tool = "commit"
               PROVE  /\ Len(gitCall'[d].todo) = 2 => gitCall'[d].paths \subseteq index'
                      /\ Len(gitCall'[d].todo) = 1 =>
                             LastCommit(d, commits'[branch'], gitCall'[d].paths)
    BY DEF CommitOnItsWay, LastCommit
  <2>1. d = c
    BY <1>3, <1>6 DEF GitInv, MixedKnow
  <2> QED BY <1>3, <1>4, <1>5, <2>1
<1>10. GitAnswersAreTrue'
  <2> SUFFICES ASSUME NEW d \in Callers, gitAnswer'[d] # Absent, gitAnswer'[d].code = "ok"
               PROVE  /\ gitAnswer'[d].tool = "commit" /\ d \notin mixed' =>
                             /\ gitAnswer'[d].sha.by = d
                             /\ gitAnswer'[d].paths \subseteq gitAnswer'[d].sha.paths
                      /\ gitAnswer'[d].tool \in {"merge", "rebase", "pull"} =>
                             ~(operation' # "none" /\ startedBy' = d)
    BY DEF GitAnswersAreTrue
  <2>1. d # c /\ gitAnswer'[d] = gitAnswer[d]
    BY <1>1, <1>3
  <2> QED BY <1>3, <2>1, OthersAnswers
<1>11. \A d \in GitBusy' : GitCallOK(gitCall[d])' /\ gitAnswer'[d] = Absent
  BY <1>7 DEF GitCallOK
<1> QED BY <1>3, <1>5, <1>8, <1>9, <1>10, <1>11 DEF GitInv

LEMMA AnswerInv ==
    ASSUME GitInv, NEW c \in GitBusy, NEW code, NEW sha, Answer(c, code, sha), RepositoryOK',
           OthersNotBlamed(c),
           code = "ok" =>
               /\ gitCall[c].tool = "commit" /\ c \notin mixed =>
                      sha.by = c /\ gitCall[c].paths \subseteq sha.paths
               /\ gitCall[c].tool \in {"merge", "rebase", "pull"} => operation' = "none"
    PROVE  GitInv'
<1> DEFINE a == [tool |-> gitCall[c].tool, paths |-> gitCall[c].paths, code |-> code, sha |-> sha]
<1>1. c \in Callers
  BY CurrentAndRest
<1>2. /\ gitAnswer' = [gitAnswer EXCEPT ![c] = a] /\ gitCall' = [gitCall EXCEPT ![c] = Idle]
      /\ UNCHANGED <<mixed, gitCalls>>
  BY DEF Answer
<1>3. a.tool = gitCall[c].tool /\ a.paths = gitCall[c].paths /\ a.code = code /\ a.sha = sha
  OBVIOUS
<1> HIDE DEF a
<1>4. /\ gitCall' = [d \in Callers |-> gitCall'[d]] /\ gitCall'[c] = Idle
      /\ gitAnswer' = [d \in Callers |-> gitAnswer'[d]] /\ gitAnswer'[c] = a
      /\ \A d \in Callers \ {c} : gitCall'[d] = gitCall[d] /\ gitAnswer'[d] = gitAnswer[d]
  BY <1>1, <1>2 DEF GitInv
<1>5. \A d \in GitBusy' : d \in GitBusy /\ d # c /\ d \in Callers
  BY <1>4 DEF GitBusy
<1>6. \A d \in GitBusy' : GitCallOK(gitCall'[d]) /\ gitAnswer'[d] = Absent
  BY <1>4, <1>5 DEF GitInv
<1>7. MixedKnow'
  BY <1>2, <1>5 DEF GitInv, MixedKnow
<1>8. CommitOnItsWay'
  <2>1. \A d \in GitBusy' : d \in mixed'
    BY <1>2, <1>5 DEF GitInv, MixedKnow
  <2> QED BY <2>1 DEF CommitOnItsWay
<1>9. GitAnswersAreTrue'
  <2> SUFFICES ASSUME NEW d \in Callers, gitAnswer'[d] # Absent, gitAnswer'[d].code = "ok"
               PROVE  /\ gitAnswer'[d].tool = "commit" /\ d \notin mixed' =>
                             /\ gitAnswer'[d].sha.by = d
                             /\ gitAnswer'[d].paths \subseteq gitAnswer'[d].sha.paths
                      /\ gitAnswer'[d].tool \in {"merge", "rebase", "pull"} =>
                             ~(operation' # "none" /\ startedBy' = d)
    BY DEF GitAnswersAreTrue
  <2>1. CASE d = c
    BY <1>2, <1>3, <1>4, <2>1
  <2>2. CASE d # c
    BY <1>2, <1>4, <2>2, OthersAnswers
  <2> QED BY <2>1, <2>2
<1>10. \A d \in GitBusy' : GitCallOK(gitCall[d])' /\ gitAnswer'[d] = Absent
  BY <1>6 DEF GitCallOK
<1> QED BY <1>2, <1>4, <1>7, <1>8, <1>9, <1>10 DEF GitInv

\* Where a commit stands, and what the calls that may stop half way run.
LEMMA CommitStands ==
    ASSUME GitInv, NEW c \in GitBusy
    PROVE  LET w == gitCall[c]
               n == Len(w.todo)
           IN  /\ w.tool = "commit" =>
                      /\ n \in 1 .. 3 /\ Len(Rest(c)) = n - 1
                      /\ n = 1 => Current(c).do = "log-1"
                      /\ n = 2 => Current(c).do \in {"commit", "commit-amend"}
                      /\ n = 3 => Current(c) = Cmd("add", w.paths)
               /\ w.tool \in {"merge", "rebase", "pull"} =>
                      /\ Rest(c) = <<>>
                      /\ Current(c).do \in {"merge", "rebase", "diff", "rev-parse"}
<1> DEFINE w == gitCall[c]
           s == w.todo
           n == Len(s)
           r == Rest(c)
           first == Current(c)
<1>1. /\ GitCallOK(w) /\ n \in Nat \ {0} /\ first = s[1]
      /\ Len(r) = n - 1 /\ (r # <<>> => n > 1)
  BY CurrentAndRest
<1>2. w.tool = "commit" =>
          /\ n \in 1 .. 3 /\ s[n].do = "log-1"
          /\ n > 1 => s[n - 1].do \in {"commit", "commit-amend"}
          /\ n = 3 => s[1] = Cmd("add", w.paths)
  BY <1>1 DEF GitCallOK
<1>3. w.tool \in {"merge", "rebase", "pull"} =>
          n = 1 /\ s[1].do \in {"merge", "rebase", "diff", "rev-parse"}
  BY <1>1 DEF GitCallOK
<1> DEFINE tool == w.tool
           paths == w.paths
<1> HIDE DEF w, s, n, r, first, tool, paths
<1>4. tool = "commit" =>
          /\ n \in 1 .. 3 /\ Len(r) = n - 1
          /\ n = 1 => first.do = "log-1"
          /\ n = 2 => first.do \in {"commit", "commit-amend"}
          /\ n = 3 => first = Cmd("add", paths)
  BY <1>1, <1>2 DEF tool, paths
<1>5. tool \in {"merge", "rebase", "pull"} =>
          r = <<>> /\ first.do \in {"merge", "rebase", "diff", "rev-parse"}
  BY <1>1, <1>3 DEF tool
<1> QED BY <1>4, <1>5 DEF tool, paths, w, s, n, r, first

\* One command that takes the place of the rest.
LEMMA ContinueOne ==
    ASSUME GitInv, NEW c \in GitBusy, NEW cmd \in GitCommands, Continue(c, <<cmd>>),
           RepositoryOK', OthersNotBlamed(c), gitCall[c].tool # "commit",
           cmd.do \in {"diff", "rev-parse"} \/ gitCall[c].tool \notin {"merge", "rebase", "pull"}
    PROVE  GitInv'
<1> DEFINE s == <<cmd>>
<1>1. /\ gitCall[c].tool \in GitNames /\ gitCall[c].paths \in SUBSET Paths
      /\ Continue(c, s)
  BY CurrentAndRest DEF GitCallRecords
<1>2. GitCallOK([tool |-> gitCall[c].tool, paths |-> gitCall[c].paths, todo |-> s])
  BY <1>1, OneCommand
<1> HIDE DEF s
<1> QED BY <1>1, <1>2, ContinueInv

\* The rest of the call.
LEMMA ContinueRest ==
    ASSUME GitInv, NEW c \in GitBusy, Rest(c) # <<>>, Continue(c, Rest(c)),
           RepositoryOK', OthersNotBlamed(c),
           Current(c).do = "add" => Current(c).arg \subseteq index',
           Current(c).do \in {"commit", "commit-amend"} => LastCommit(c, commits'[branch'], index)
    PROVE  GitInv'
<1> DEFINE old == gitCall[c]
           r == Rest(c)
           n == Len(old.todo)
           w == [tool |-> old.tool, paths |-> old.paths, todo |-> r]
<1>1. /\ GitCallOK(old) /\ old \in GitCallRecords /\ n \in Nat \ {0} /\ n > 1
      /\ r \in Seq(GitCommands) /\ Len(r) = n - 1
      /\ \A i \in 1 .. Len(r) : r[i] = old.todo[i + 1]
  BY CurrentAndRest
<1>2. w \in GitCallRecords /\ w.tool = old.tool /\ w.paths = old.paths /\ w.todo = r
  BY <1>1 DEF GitCallRecords
<1>3. /\ old.tool = "commit" =>
           /\ n \in 1 .. 3
           /\ n = 2 => Current(c).do \in {"commit", "commit-amend"}
           /\ n = 3 => Current(c) = Cmd("add", old.paths)
      /\ old.tool \notin {"merge", "rebase", "pull"}
  BY CommitStands
<1>4. old.tool = "commit" =>
           /\ n \in 1 .. 3 /\ old.todo[n].do = "log-1"
           /\ n > 1 => old.todo[n - 1].do \in {"commit", "commit-amend"}
  BY <1>1 DEF GitCallOK
<1>5. Continue(c, r) /\ r # <<>>
  OBVIOUS
<1> HIDE DEF w, r, n
<1>6. old.tool = "commit" =>
           /\ Len(r) \in 1 .. 3 /\ Len(r) # 3
           /\ r[Len(r)].do = "log-1"
           /\ Len(r) > 1 => r[Len(r) - 1].do \in {"commit", "commit-amend"}
  <2> SUFFICES ASSUME old.tool = "commit"
               PROVE  /\ Len(r) \in 1 .. 3 /\ Len(r) # 3 /\ r[Len(r)].do = "log-1"
                      /\ Len(r) > 1 => r[Len(r) - 1].do \in {"commit", "commit-amend"}
    OBVIOUS
  <2>1. n = 2 \/ n = 3
    BY <1>1, <1>3
  <2>2. CASE n = 2
    BY <1>1, <1>4, <2>2
  <2>3. CASE n = 3
    BY <1>1, <1>4, <2>3
  <2> QED BY <2>1, <2>2, <2>3
<1>7. GitCallOK(w)
  BY <1>2, <1>3, <1>5, <1>6 DEF GitCallOK
<1>8. ASSUME old.tool = "commit", c \notin mixed
      PROVE  /\ Len(r) = 2 => old.paths \subseteq index'
             /\ Len(r) = 1 => LastCommit(c, commits'[branch'], old.paths)
  <2>1. (Len(r) = 2 => n = 3) /\ (Len(r) = 1 => n = 2)
    BY <1>1
  <2>2. ASSUME Len(r) = 2 PROVE old.paths \subseteq index'
    <3>1. n = 3
      BY <2>2, <2>1
    <3>2. Current(c) = Cmd("add", old.paths)
      BY <1>3, <1>8, <3>1
    <3> QED BY <3>2 DEF Cmd
  <2>3. ASSUME Len(r) = 1 PROVE LastCommit(c, commits'[branch'], old.paths)
    <3>1. n = 2
      BY <2>3, <2>1
    <3>2. old.paths \subseteq index
      BY <1>8, <3>1 DEF GitInv, CommitOnItsWay, n
    <3>3. LastCommit(c, commits'[branch'], index)
      BY <1>3, <1>8, <3>1
    <3> QED BY <3>2, <3>3 DEF LastCommit
  <2> QED BY <2>2, <2>3
<1> QED BY <1>5, <1>7, <1>8, ContinueInv DEF w

LEMMA SucceedsInv == ASSUME GitInv, NEW c \in Callers, CommandSucceeds(c) PROVE GitInv'
<1> DEFINE cmd == Current(c)
           call == gitCall[c]
<1>1. c \in GitBusy
  BY DEF CommandSucceeds, GitBusy
<1>2. /\ Effect(c, cmd) /\ AfterSuccess(c) /\ gitLock' = gitLock
  BY DEF CommandSucceeds
<1>3. cmd \in GitCommands /\ gitCall[c] \in GitCallRecords /\ RepositoryOK
  BY <1>1, CurrentAndRest DEF GitInv
<1>4. gitCalls' = gitCalls /\ gitLock' \in BOOLEAN
  BY <1>2, <1>3 DEF AfterSuccess, Answer, Continue, RepositoryOK
<1>5. /\ RepositoryOK' /\ operation' \in {operation, "none"} /\ startedBy' = startedBy
      /\ cmd.do = "add" => cmd.arg \subseteq index'
      /\ cmd.do \in {"commit", "commit-amend"} => LastCommit(c, commits'[branch'], index)
      /\ cmd.do \in {"merge", "rebase"} => operation' = "none"
      /\ cmd.do = "log-1" => UNCHANGED repoVars
  BY <1>2, <1>3, <1>4, EffectKeeps
<1>6. OthersNotBlamed(c)
  BY <1>5 DEF OthersNotBlamed
<1>7. /\ call.tool = "commit" => cmd.do \in {"add", "commit", "commit-amend", "log-1"}
      /\ call.tool \in {"merge", "rebase", "pull"} =>
             cmd.do \in {"merge", "rebase", "diff", "rev-parse"}
  <2>1. call.tool = "commit" => cmd.do \in {"add", "commit", "commit-amend", "log-1"}
    <3>1. call.tool = "commit" =>
              \/ cmd.do = "log-1"
              \/ cmd.do \in {"commit", "commit-amend"}
              \/ cmd = Cmd("add", call.paths)
      BY <1>1, CommitStands
    <3> QED BY <3>1 DEF Cmd
  <2> QED BY <1>1, <2>1, CommitStands
<1>8. CASE cmd.do = "rev-parse" /\ call.tool = "abort"
  <2>1. CASE operation = "none"
    <3>1. Answer(c, "no_operation", Absent)
      BY <1>2, <1>8, <2>1 DEF AfterSuccess
    <3> QED BY <1>1, <1>5, <1>6, <3>1, AnswerInv
  <2>2. CASE operation # "none"
    <3> DEFINE name == IF operation = "merge" THEN "merge-abort" ELSE "rebase-abort"
               next == Cmd(name, {})
    <3>1. Continue(c, <<next>>)
      BY <1>2, <1>8, <2>2 DEF AfterSuccess
    <3>2. /\ name \in GitDoings /\ {} \in SUBSET Paths
          /\ name \notin {"branch", "checkout", "checkout-b"}
      BY DEF GitDoings
    <3> HIDE DEF name
    <3>3. next \in GitCommands
      BY <3>2, CommandTyped
    <3> HIDE DEF next
    <3> QED BY <1>1, <1>5, <1>6, <1>8, <3>1, <3>3, ContinueOne
  <2> QED BY <2>1, <2>2
<1>9. CASE cmd.do = "rev-parse" /\ call.tool # "abort"
  <2> DEFINE code == IF operation = "rebase" THEN "rebase_conflict" ELSE "git_error"
  <2>1. Answer(c, code, Absent)
    BY <1>2, <1>9 DEF AfterSuccess
  <2>2. code # "ok"
    OBVIOUS
  <2> HIDE DEF code
  <2> QED BY <1>1, <1>5, <1>6, <2>1, <2>2, AnswerInv
<1>10. CASE cmd.do = "diff"
  <2>1. CASE call.tool = "merge"
    <3>1. Answer(c, "merge_conflict", Absent)
      BY <1>2, <1>10, <2>1 DEF AfterSuccess
    <3> QED BY <1>1, <1>5, <1>6, <3>1, AnswerInv
  <2>2. CASE call.tool # "merge" /\ unmerged # {}
    <3>1. Answer(c, "rebase_conflict", Absent)
      BY <1>2, <1>10, <2>2 DEF AfterSuccess
    <3> QED BY <1>1, <1>5, <1>6, <3>1, AnswerInv
  <2>3. CASE call.tool # "merge" /\ unmerged = {}
    <3> DEFINE next == Cmd("rev-parse", {})
    <3>1. Continue(c, <<next>>)
      BY <1>2, <1>10, <2>3 DEF AfterSuccess
    <3>2. "rev-parse" \in GitDoings /\ {} \in SUBSET Paths
      BY DEF GitDoings
    <3>3. next \in GitCommands /\ next.do = "rev-parse"
      BY <3>2, CommandTyped
    <3> HIDE DEF next
    <3> QED BY <1>1, <1>5, <1>6, <1>7, <1>10, <3>1, <3>3, ContinueOne
  <2> QED BY <2>1, <2>2, <2>3
<1>11. CASE cmd.do = "log-1"
  <2> DEFINE history == commits[branch]
             sha == IF history = <<>> THEN Absent ELSE history[Len(history)]
  <2>1. Answer(c, "ok", sha)
    BY <1>2, <1>11 DEF AfterSuccess
  <2>2. ASSUME call.tool = "commit", c \notin mixed
        PROVE  sha.by = c /\ call.paths \subseteq sha.paths
    <3>1. Len(call.todo) = 1
      <4>1. Cmd("add", call.paths).do = "add"
        BY DEF Cmd
      <4>2. /\ Len(call.todo) \in 1 .. 3
            /\ Len(call.todo) = 2 => cmd.do \in {"commit", "commit-amend"}
            /\ Len(call.todo) = 3 => cmd = Cmd("add", call.paths)
        BY <1>1, <2>2, CommitStands
      <4> QED BY <1>11, <4>1, <4>2
    <3> QED BY <1>1, <2>2, <3>1 DEF GitInv, CommitOnItsWay
  <2>3. call.tool \notin {"merge", "rebase", "pull"}
    BY <1>7, <1>11
  <2> HIDE DEF sha
  <2> QED BY <1>1, <1>5, <1>6, <2>1, <2>2, <2>3, AnswerInv
<1>12. CASE cmd.do \notin {"rev-parse", "diff", "log-1"}
  <2>1. CASE Rest(c) = <<>>
    <3>1. Answer(c, "ok", Absent)
      BY <1>2, <1>12, <2>1 DEF AfterSuccess
    <3>2. call.tool # "commit"
      <4>1. Len(<<>>) = 0
        BY EmptySeq
      <4> QED BY <1>1, <1>12, <2>1, <4>1, CommitStands
    <3>3. call.tool \in {"merge", "rebase", "pull"} => operation' = "none"
      BY <1>5, <1>7, <1>12
    <3> QED BY <1>1, <1>5, <1>6, <3>1, <3>2, <3>3, AnswerInv
  <2>2. CASE Rest(c) # <<>>
    <3>1. Continue(c, Rest(c))
      BY <1>2, <1>12, <2>2 DEF AfterSuccess
    <3> QED BY <1>1, <1>5, <1>6, <2>2, <3>1, ContinueRest
  <2> QED BY <2>1, <2>2
<1> QED BY <1>8, <1>9, <1>10, <1>11, <1>12

\* A command that exits with an error leaves no answer that it was done.
LEMMA AfterFailureInv ==
    ASSUME GitInv, NEW c \in GitBusy, RepositoryOK', OthersNotBlamed(c), AfterFailure(c)
    PROVE  GitInv'
<1>1. CASE gitCall[c].tool \in {"merge", "rebase"} /\ Current(c).do \in {"merge", "rebase"}
  <2> DEFINE next == Cmd("diff", {})
  <2>1. Continue(c, <<next>>) /\ gitCall[c].tool # "commit"
    BY <1>1 DEF AfterFailure
  <2>2. "diff" \in GitDoings /\ {} \in SUBSET Paths
    BY DEF GitDoings
  <2>3. next \in GitCommands /\ next.do = "diff"
    BY <2>2, CommandTyped
  <2> HIDE DEF next
  <2> QED BY <2>1, <2>3, ContinueOne
<1>2. CASE ~(gitCall[c].tool \in {"merge", "rebase"} /\ Current(c).do \in {"merge", "rebase"})
  <2>1. Answer(c, "git_error", Absent)
    BY <1>2 DEF AfterFailure
  <2> QED BY <2>1, AnswerInv
<1> QED BY <1>1, <1>2

LEMMA StopsInv == ASSUME GitInv, NEW c \in Callers, CommandStops(c) PROVE GitInv'
<1>1. PICK paths \in SUBSET Paths \ {{}} : Stops(c, Current(c).do, paths)
  BY DEF CommandStops
<1>2. /\ c \in GitBusy /\ Current(c).do \in {"merge", "rebase"} /\ AfterFailure(c)
      /\ gitLock' = gitLock
  BY DEF CommandStops, GitBusy
<1>3. gitCalls' = gitCalls
  BY <1>2 DEF AfterFailure, Answer, Continue
<1>4. RepositoryOK' /\ OthersNotBlamed(c)
  BY <1>1, <1>2, <1>3 DEF Stops, GitInv, RepositoryOK, OthersNotBlamed
<1> QED BY <1>2, <1>4, AfterFailureInv

LEMMA FailsInv == ASSUME GitInv, NEW c \in Callers, CommandFails(c) PROVE GitInv'
<1>1. c \in GitBusy /\ UNCHANGED <<repoVars, gitLock>>
  BY DEF CommandFails, GitBusy
<1>2. Answer(c, "git_error", Absent) \/ AfterFailure(c)
  BY DEF CommandFails
<1>3. gitCalls' = gitCalls
  BY <1>2 DEF AfterFailure, Answer, Continue
<1>4. RepositoryOK' /\ OthersNotBlamed(c)
  BY <1>1, <1>3 DEF repoVars, GitInv, RepositoryOK, OthersNotBlamed
<1>5. CASE Answer(c, "git_error", Absent)
  BY <1>1, <1>4, <1>5, AnswerInv
<1>6. CASE AfterFailure(c)
  BY <1>1, <1>4, <1>6, AfterFailureInv
<1> QED BY <1>2, <1>5, <1>6

LEMMA KilledInv == ASSUME GitInv, NEW c \in Callers, CommandKilled(c) PROVE GitInv'
<1>1. c \in GitBusy /\ AfterTimeout(c)
  BY DEF CommandKilled, GitBusy
<1>2. gitCalls' = gitCalls
  BY <1>1 DEF AfterTimeout, Answer, Continue
<1>3. Current(c) \in GitCommands /\ RepositoryOK
  BY <1>1, CurrentAndRest DEF GitInv
<1>4. gitLock' \in BOOLEAN /\ (UNCHANGED repoVars \/ Effect(c, Current(c)))
  BY <1>3 DEF CommandKilled, RepositoryOK
<1>5. RepositoryOK' /\ OthersNotBlamed(c)
  <2>1. CASE UNCHANGED repoVars
    BY <1>2, <1>3, <1>4, <2>1 DEF repoVars, RepositoryOK, OthersNotBlamed
  <2>2. CASE Effect(c, Current(c))
    <3>1. RepositoryOK' /\ operation' \in {operation, "none"} /\ startedBy' = startedBy
      BY <1>2, <1>3, <1>4, <2>2, EffectKeeps
    <3> QED BY <3>1 DEF OthersNotBlamed
  <2> QED BY <1>4, <2>1, <2>2
<1>6. CASE Current(c).do = "diff" /\ gitCall[c].tool # "merge"
  <2> DEFINE next == Cmd("rev-parse", {})
  <2>1. Continue(c, <<next>>)
    BY <1>1, <1>6 DEF AfterTimeout
  <2>2. gitCall[c].tool # "commit"
    <3>1. Cmd("add", gitCall[c].paths).do = "add"
      BY DEF Cmd
    <3>2. gitCall[c].tool = "commit" =>
              \/ Current(c).do = "log-1"
              \/ Current(c).do \in {"commit", "commit-amend"}
              \/ Current(c) = Cmd("add", gitCall[c].paths)
      BY <1>1, CommitStands
    <3> QED BY <1>6, <3>1, <3>2
  <2>3. "rev-parse" \in GitDoings /\ {} \in SUBSET Paths
    BY DEF GitDoings
  <2>4. next \in GitCommands /\ next.do = "rev-parse"
    BY <2>3, CommandTyped
  <2> HIDE DEF next
  <2> QED BY <1>1, <1>5, <2>1, <2>2, <2>4, ContinueOne
<1>7. CASE ~(Current(c).do = "diff" /\ gitCall[c].tool # "merge")
  <2>1. \E code \in {"merge_conflict", "no_operation", "git_error", "timeout"} :
            Answer(c, code, Absent)
    BY <1>1, <1>7 DEF AfterTimeout
  <2>2. PICK code \in {"merge_conflict", "no_operation", "git_error", "timeout"} :
            Answer(c, code, Absent)
    BY <2>1
  <2>3. code # "ok"
    BY <2>2
  <2> QED BY <1>1, <1>5, <2>2, <2>3, AnswerInv
<1> QED BY <1>6, <1>7

LEMMA GitStepInv == GitInv /\ [GitNext]_gitVars => GitInv'
<1> SUFFICES ASSUME GitInv, [GitNext]_gitVars PROVE GitInv'
  OBVIOUS
<1>1. CASE UNCHANGED gitVars
  <2>1. /\ UNCHANGED <<branch, commits, index, unmerged, operation, gitLock, gitCall, gitAnswer>>
        /\ UNCHANGED <<mixed, startedBy, gitCalls>>
    BY <1>1 DEF gitVars
  <2>2. RepositoryOK' /\ GitBusy' = GitBusy
    BY <2>1 DEF GitInv, RepositoryOK, GitBusy
  <2>3. \A d \in GitBusy' : GitCallOK(gitCall[d])' /\ gitAnswer'[d] = Absent
    BY <2>1, <2>2 DEF GitInv, GitCallOK
  <2>4. MixedKnow' /\ CommitOnItsWay' /\ GitAnswersAreTrue'
    BY <2>1, <2>2 DEF GitInv, MixedKnow, CommitOnItsWay, GitAnswersAreTrue
  <2> QED BY <2>1, <2>2, <2>3, <2>4 DEF GitInv
<1>2. CASE GitNext
  <2>1. PICK c \in Callers :
          \/ \/ GitStage(c) \/ GitUnstage(c) \/ GitRestore(c) \/ GitCreateBranch(c)
             \/ GitCheckout(c) \/ GitMerge(c) \/ GitRebase(c) \/ GitPull(c) \/ GitFetch(c)
             \/ GitPush(c) \/ GitAbort(c)
          \/ GitCommit(c) \/ GitResolve(c)
          \/ CommandSucceeds(c) \/ CommandStops(c) \/ CommandFails(c) \/ CommandKilled(c)
    BY <1>2 DEF GitNext
  <2> QED BY <2>1, BeginOneInv, BeginCommitInv, BeginResolveInv, SucceedsInv, StopsInv, FailsInv,
             KilledInv
<1> QED BY <1>1, <1>2

\* The answers of the git tools are true, for any callers, paths, branches and any number of
\* calls: a commit nobody's call was mixed up with is reported as the one it made, with the
\* paths it was asked for, and a merge, rebase or pull that stopped half way is never
\* reported as done, whichever command failed or was killed (git_commit, git_merge,
\* git_rebase, git_pull, _finish).
THEOREM GitAlwaysOK == GitSpec => []GitOK
<1>1. GitInv => GitOK
  <2>1. ASSUME GitInv PROVE GitTypeOK
    <3>1. \A c \in Callers : gitCall[c] # Idle => gitCall[c].todo # <<>>
      BY <2>1 DEF GitInv, GitBusy, GitCallOK
    <3> QED BY <2>1, <3>1 DEF GitInv, RepositoryOK, GitTypeOK
  <2> QED BY <2>1 DEF GitInv, GitOK
<1> QED BY <1>1, GitInitInv, GitStepInv, PTL DEF GitSpec
-----------------------------------------------------------------------------
(* The files of the agent.                                                 *)

FileBusy == {c \in Callers : fileCall[c] # Idle}
OnTreeOps == {"patch", "copy", "move", "unpack"}
OnTrashOps == {"trash", "restore", "purge"}

\* A call never replaces the name it reads.
FileCallOK(w) ==
    /\ w \in FileCalls
    /\ w.op \in {"copy", "move"} => w.from \in FileNames /\ w.from \notin w.to
    /\ w.op \in {"patch", "unpack"} => w.text \in FileContents
    /\ w.op \in OnTrashOps => w.id \in TrashIds
    /\ w.op = "trash" => w.from \in FileNames

\* No blob is where a call is about to put one, or has taken one from.
BlobGone(w) ==
    \/ w.op = "trash" /\ w.step = "checked"
    \/ w.op \in {"restore", "purge"} /\ w.step = "loaded"
    => trashed[w.id] = Absent

\* The id of a file that is being trashed is known to that call only.
IdsOwned ==
    \A c \in FileBusy : fileCall[c].op = "trash" =>
        /\ fileCall[c].id \notin manifest
        /\ \A d \in FileBusy : /\ fileCall[c].id \notin fileCall[d].read
                               /\ c # d => fileCall[c].id # fileCall[d].id

\* What a call read is the manifest, until another one saves it.
ReadCurrent ==
    \A c \in FileBusy : HasRead(fileCall[c]) /\ ~fileCall[c].crossed => fileCall[c].read = manifest

FileCallsInv ==
    /\ fileCall = [c \in Callers |-> fileCall[c]]
    /\ \A c \in FileBusy : FileCallOK(fileCall[c]) /\ BlobGone(fileCall[c])
    /\ IdsOwned /\ ReadCurrent

FilesTyped ==
    /\ file \in [FileNames -> FileContents \cup {Absent}]
    /\ trashed \in [TrashIds -> FileContents \cup {Absent}]
    /\ manifest \subseteq TrashIds
    /\ due \subseteq FileContents

FilesInv == FilesTyped /\ FileCallsInv /\ NothingVanishes

\* A call that holds a trashed file whose record it has yet to write.
Holds(w, i) == w # Idle /\ w.op = "trash" /\ w.step \in {"moved", "loaded"} /\ w.id = i

LEMMA FilesInitInv == FilesInit => FilesInv
<1> SUFFICES ASSUME FilesInit PROVE FilesInv
  OBVIOUS
<1>1. FilesTyped
  BY DEF FilesInit, FilesTyped, Files
<1>2. FileBusy = {}
  BY DEF FilesInit, FileBusy
<1>3. FileCallsInv
  BY <1>2 DEF FilesInit, FileCallsInv, IdsOwned, ReadCurrent
<1>4. NothingVanishes
  BY DEF FilesInit, NothingVanishes, Files
<1> QED BY <1>1, <1>3, <1>4 DEF FilesInv

LEMMA RestorableMeans ==
    ASSUME NEW i
    PROVE  Restorable(i) <=> (i \in manifest \cup unlisted \/ \E c \in Callers : Holds(fileCall[c], i))
  BY DEF Restorable, Doing, Holds

LEMMA RestorableMeansNext ==
    ASSUME NEW i
    PROVE  Restorable(i)' <=>
               (i \in manifest' \cup unlisted' \/ \E c \in Callers : Holds(fileCall'[c], i))
  BY DEF Restorable, Doing, Holds

LEMMA BusyCall ==
    ASSUME FilesInv, NEW c \in FileBusy
    PROVE  c \in Callers /\ FileCallOK(fileCall[c]) /\ fileCall[c] \in FileCalls
           /\ BlobGone(fileCall[c])
  BY DEF FilesInv, FileCallsInv, FileBusy, FileCallOK

\* A call begins.
LEMMA BeginFileInv ==
    ASSUME FilesInv, NEW c \in Callers, NEW w, BeginFileCall(c, w), FileCallOK(w), BlobGone(w),
           w.read \subseteq manifest, HasRead(w) => w.read = manifest,
           w.op = "trash" => FreshId(w.id),
           w.op # "trash" => w.id \in manifest \cup {Absent}
    PROVE  FilesInv'
<1>1. /\ fileCall[c] = Idle /\ fileCall' = [fileCall EXCEPT ![c] = w]
      /\ UNCHANGED <<file, trashed, manifest, due, overwritten, unlisted>>
  BY DEF BeginFileCall
<1>2. w # Idle
  BY FilesAssumption DEF FileCallOK
<1>3. /\ fileCall' = [d \in Callers |-> fileCall'[d]] /\ fileCall'[c] = w
      /\ \A d \in Callers \ {c} : fileCall'[d] = fileCall[d]
  BY <1>1 DEF FilesInv, FileCallsInv
<1>4. c \notin FileBusy /\ \A d \in FileBusy' : d = c \/ (d # c /\ d \in FileBusy)
  BY <1>1, <1>3 DEF FileBusy
<1>5. FilesTyped'
  BY <1>1 DEF FilesInv, FilesTyped
<1>6. \A d \in FileBusy' : FileCallOK(fileCall[d])' /\ BlobGone(fileCall[d])'
  <2> SUFFICES ASSUME NEW d \in FileBusy'
               PROVE  FileCallOK(fileCall'[d])
                      /\ (\/ fileCall'[d].op = "trash" /\ fileCall'[d].step = "checked"
                          \/ fileCall'[d].op \in {"restore", "purge"} /\ fileCall'[d].step = "loaded"
                          => trashed'[fileCall'[d].id] = Absent)
    BY DEF BlobGone, FileCallOK
  <2>1. CASE d = c
    BY <1>1, <1>3, <2>1 DEF BlobGone
  <2>2. CASE d # c
    <3>1. d \in FileBusy /\ fileCall'[d] = fileCall[d]
      BY <1>3, <1>4, <2>2 DEF FileBusy
    <3>2. FileCallOK(fileCall[d]) /\ BlobGone(fileCall[d])
      BY <3>1, BusyCall
    <3> QED BY <1>1, <3>1, <3>2 DEF BlobGone
  <2> QED BY <2>1, <2>2
<1>7. IdsOwned'
  <2> SUFFICES ASSUME NEW d \in FileBusy', fileCall'[d].op = "trash", NEW e \in FileBusy'
               PROVE  /\ fileCall'[d].id \notin manifest' /\ fileCall'[d].id \notin fileCall'[e].read
                      /\ d # e => fileCall'[d].id # fileCall'[e].id
    BY DEF IdsOwned
  <2>1. CASE d = c
    <3>1. FreshId(w.id) /\ fileCall'[d] = w
      BY <1>3, <2>1
    <3>2. w.id \notin manifest /\ w.id \notin w.read
      BY <3>1 DEF FreshId
    <3>3. CASE e = c
      BY <1>1, <2>1, <3>1, <3>2, <3>3
    <3>4. CASE e # c
      <4>1. e \in FileBusy /\ e \in Callers /\ fileCall'[e] = fileCall[e] /\ fileCall[e] # Idle
        BY <1>3, <1>4, <3>4 DEF FileBusy
      <4>2. w.id # fileCall[e].id /\ w.id \notin fileCall[e].read
        BY <3>1, <4>1 DEF FreshId
      <4> QED BY <1>1, <3>1, <3>2, <4>1, <4>2
    <3> QED BY <3>3, <3>4
  <2>2. CASE d # c
    <3>1. /\ d \in FileBusy /\ d \in Callers /\ fileCall'[d] = fileCall[d]
          /\ fileCall[d] # Idle /\ fileCall[d].op = "trash"
      BY <1>3, <1>4, <2>2 DEF FileBusy
    <3>2. fileCall[d].id \notin manifest
      BY <3>1 DEF FilesInv, FileCallsInv, IdsOwned
    <3>3. CASE e = c
      <4>1. fileCall[d].id \notin w.read
        BY <3>2
      <4>2. fileCall[d].id \in TrashIds
        BY <3>1, BusyCall DEF FileCallOK, OnTrashOps
      <4>3. fileCall[d].id # w.id
        <5>1. CASE w.op = "trash"
          BY <3>1, <5>1 DEF FreshId
        <5>2. CASE w.op # "trash"
          BY <3>2, <4>2, <5>2, FilesAssumption
        <5> QED BY <5>1, <5>2
      <4> QED BY <1>1, <1>3, <3>1, <3>2, <3>3, <4>1, <4>3
    <3>4. CASE e # c
      <4>1. e \in FileBusy /\ fileCall'[e] = fileCall[e]
        BY <1>3, <1>4, <3>4 DEF FileBusy
      <4> QED BY <1>1, <3>1, <4>1 DEF FilesInv, FileCallsInv, IdsOwned
    <3> QED BY <3>3, <3>4
  <2> QED BY <2>1, <2>2
<1>8. ReadCurrent'
  <2> SUFFICES ASSUME NEW d \in FileBusy', HasRead(fileCall'[d]), ~fileCall'[d].crossed
               PROVE  fileCall'[d].read = manifest'
    BY DEF ReadCurrent, HasRead
  <2>1. CASE d = c
    BY <1>1, <1>3, <2>1
  <2>2. CASE d # c
    <3>1. d \in FileBusy /\ fileCall'[d] = fileCall[d]
      BY <1>3, <1>4, <2>2 DEF FileBusy
    <3> QED BY <1>1, <3>1 DEF FilesInv, FileCallsInv, ReadCurrent
  <2> QED BY <2>1, <2>2
<1>9. NothingVanishes'
  <2>1. \A i : Restorable(i) => Restorable(i)'
    <3> SUFFICES ASSUME NEW i, Restorable(i) PROVE Restorable(i)'
      OBVIOUS
    <3>1. CASE i \in manifest \cup unlisted
      BY <1>1, <3>1, RestorableMeansNext
    <3>2. CASE \E d \in Callers : Holds(fileCall[d], i)
      <4>1. PICK d \in Callers : Holds(fileCall[d], i)
        BY <3>2
      <4>2. d # c
        BY <1>1, <4>1 DEF Holds
      <4>3. Holds(fileCall'[d], i)
        BY <1>3, <4>1, <4>2
      <4> QED BY <4>3, RestorableMeansNext
    <3> QED BY <3>1, <3>2, RestorableMeans
  <2> QED BY <1>1, <2>1 DEF FilesInv, NothingVanishes
<1> QED BY <1>3, <1>5, <1>6, <1>7, <1>8, <1>9 DEF FilesInv, FileCallsInv

\* A call on the working tree begins.
LEMMA BeginOnTree ==
    ASSUME FilesInv, NEW c \in Callers, NEW op \in OnTreeOps,
           NEW from \in FileNames \cup {Absent}, NEW to \in SUBSET FileNames,
           NEW meant \in SUBSET FileContents, NEW text \in FileContents \cup {Absent},
           BeginFileCall(c, OnTree(op, from, to, meant, text)),
           op \in {"copy", "move"} => from \in FileNames /\ from \notin to,
           op \in {"patch", "unpack"} => text \in FileContents
    PROVE  FilesInv'
<1> DEFINE w == OnTree(op, from, to, meant, text)
<1>1. /\ w.op = op /\ w.step = "checked" /\ w.from = from /\ w.to = to
      /\ w.meant = meant /\ w.text = text /\ w.id = Absent /\ w.read = {}
  BY DEF OnTree
<1>2. w \in FileCalls /\ BeginFileCall(c, w)
  BY DEF OnTree, OnTreeOps, FileCalls
<1> HIDE DEF w
<1>3. ~HasRead(w) /\ BlobGone(w) /\ w.op \notin OnTrashOps
  BY <1>1 DEF HasRead, BlobGone, OnTrashOps, OnTreeOps
<1>4. FileCallOK(w)
  BY <1>1, <1>2, <1>3 DEF FileCallOK, OnTrashOps
<1>5. w.op # "trash"
  BY <1>3 DEF OnTrashOps
<1> QED BY <1>1, <1>2, <1>3, <1>4, <1>5, BeginFileInv

LEMMA BeginTreeCallInv ==
    ASSUME FilesInv, NEW c \in Callers,
           BeginPatch(c) \/ BeginTransfer(c) \/ BeginPack(c) \/ BeginUnpack(c)
    PROVE  FilesInv'
<1>1. CASE BeginPatch(c)
  <2>1. PICK p \in Files :
          \E x \in FileContents \ {file[p]} :
              BeginFileCall(c, OnTree("patch", p, {p}, {file[p]}, x))
    BY <1>1 DEF BeginPatch
  <2>2. PICK x \in FileContents : BeginFileCall(c, OnTree("patch", p, {p}, {file[p]}, x))
    BY <2>1
  <2>3. p \in FileNames /\ "patch" \in OnTreeOps /\ {file[p]} \in SUBSET FileContents
    BY DEF Files, OnTreeOps, FilesInv, FilesTyped
  <2> QED BY <2>2, <2>3, BeginOnTree
<1>2. CASE BeginTransfer(c)
  <2>1. PICK op \in {"copy", "move"}, p \in Files, q \in FileNames, overwrite \in BOOLEAN :
          /\ p # q /\ (q \in Files => overwrite)
          /\ BeginFileCall(c, OnTree(op, p, {q}, Meant(overwrite), Absent))
    BY <1>2 DEF BeginTransfer
  <2>2. /\ p \in FileNames /\ p \notin {q} /\ op \in OnTreeOps
        /\ Meant(overwrite) \in SUBSET FileContents /\ op \notin {"patch", "unpack"}
    BY <2>1 DEF Files, OnTreeOps, Meant
  <2> QED BY <2>1, <2>2, BeginOnTree
<1>3. CASE BeginPack(c)
  <2>1. PICK p \in FileNames, x \in FileContents :
          BeginFileCall(c, OnTree("unpack", Absent, {p}, Meant(FALSE), x))
    BY <1>3 DEF BeginPack
  <2>2. "unpack" \in OnTreeOps /\ {p} \in SUBSET FileNames /\ Meant(FALSE) \in SUBSET FileContents
    BY DEF OnTreeOps, Meant
  <2> QED BY <2>1, <2>2, BeginOnTree
<1>4. CASE BeginUnpack(c)
  <2>1. PICK ps \in SUBSET FileNames, x \in FileContents, overwrite \in BOOLEAN :
          /\ overwrite \/ ps \cap Files = {}
          /\ BeginFileCall(c, OnTree("unpack", Absent, ps, Meant(overwrite), x))
    BY <1>4 DEF BeginUnpack
  <2>2. "unpack" \in OnTreeOps /\ Meant(overwrite) \in SUBSET FileContents
    BY DEF OnTreeOps, Meant
  <2> QED BY <2>1, <2>2, BeginOnTree
<1> QED BY <1>1, <1>2, <1>3, <1>4

LEMMA BeginTrashCallInv ==
    ASSUME FilesInv, NEW c \in Callers, BeginTrash(c) \/ BeginRestore(c) \/ BeginPurge(c)
    PROVE  FilesInv'
<1>0. manifest \in SUBSET TrashIds
  BY DEF FilesInv, FilesTyped
<1>1. CASE BeginTrash(c)
  <2>1. PICK p \in Files, i \in TrashIds :
          FreshId(i) /\ BeginFileCall(c, OnTrash("trash", "checked", i, p, {}, {}, FALSE))
    BY <1>1 DEF BeginTrash
  <2> DEFINE w == OnTrash("trash", "checked", i, p, {}, {}, FALSE)
  <2>2. /\ p \in FileNames /\ "trash" \in OnTrashOps /\ {} \in SUBSET TrashIds
        /\ {} \in SUBSET FileNames /\ "checked" \in {"checked", "moved", "loaded"}
    BY DEF Files, OnTrashOps
  <2>3. /\ w \in FileCalls /\ w.op = "trash" /\ w.step = "checked" /\ w.from = p
        /\ w.id = i /\ w.read = {} /\ w.op \notin OnTreeOps
    BY <2>2 DEF OnTrash, OnTrashOps, OnTreeOps, FileCalls
  <2>4. BeginFileCall(c, w)
    BY <2>1
  <2> HIDE DEF w
  <2>5. FileCallOK(w) /\ BlobGone(w) /\ ~HasRead(w)
    BY <2>1, <2>2, <2>3 DEF FileCallOK, BlobGone, HasRead, FreshId
  <2> QED BY <2>1, <2>3, <2>4, <2>5, BeginFileInv
<1>2. CASE BeginRestore(c)
  <2>1. PICK i \in manifest, p \in FileNames \ Files :
          BeginFileCall(c, OnTrash("restore", "checked", i, Absent, {p}, manifest, FALSE))
    BY <1>2 DEF BeginRestore
  <2> DEFINE w == OnTrash("restore", "checked", i, Absent, {p}, manifest, FALSE)
  <2>2. /\ i \in TrashIds /\ {p} \in SUBSET FileNames /\ "restore" \in OnTrashOps
        /\ "checked" \in {"checked", "moved", "loaded"} /\ Absent \in FileNames \cup {Absent}
    BY <1>0 DEF OnTrashOps
  <2>3. /\ w \in FileCalls /\ w.op = "restore" /\ w.step = "checked"
        /\ w.id = i /\ w.read = manifest /\ w.op \notin OnTreeOps
    BY <1>0, <2>2 DEF OnTrash, OnTrashOps, OnTreeOps, FileCalls
  <2>4. BeginFileCall(c, w)
    BY <2>1
  <2> HIDE DEF w
  <2>5. FileCallOK(w) /\ BlobGone(w)
    BY <2>2, <2>3 DEF FileCallOK, BlobGone
  <2> QED BY <2>3, <2>4, <2>5, BeginFileInv
<1>3. CASE BeginPurge(c)
  <2>1. PICK i \in manifest :
          BeginFileCall(c, OnTrash("purge", "checked", i, Absent, {}, manifest, FALSE))
    BY <1>3 DEF BeginPurge
  <2> DEFINE w == OnTrash("purge", "checked", i, Absent, {}, manifest, FALSE)
  <2>2. /\ i \in TrashIds /\ {} \in SUBSET FileNames /\ "purge" \in OnTrashOps
        /\ "checked" \in {"checked", "moved", "loaded"} /\ Absent \in FileNames \cup {Absent}
    BY <1>0 DEF OnTrashOps
  <2>3. /\ w \in FileCalls /\ w.op = "purge" /\ w.step = "checked"
        /\ w.id = i /\ w.read = manifest /\ w.op \notin OnTreeOps
    BY <1>0, <2>2 DEF OnTrash, OnTrashOps, OnTreeOps, FileCalls
  <2>4. BeginFileCall(c, w)
    BY <2>1
  <2> HIDE DEF w
  <2>5. FileCallOK(w) /\ BlobGone(w)
    BY <2>2, <2>3 DEF FileCallOK, BlobGone
  <2> QED BY <2>3, <2>4, <2>5, BeginFileInv
<1> QED BY <1>1, <1>2, <1>3

\* One call moves on, or ends, and leaves the manifest alone.
LEMMA OneCallInv ==
    ASSUME FilesInv, NEW c \in FileBusy, NEW w, fileCall' = [fileCall EXCEPT ![c] = w],
           manifest' = manifest,
           w # Idle => /\ FileCallOK(w) /\ w.op = fileCall[c].op /\ w.id = fileCall[c].id
                       /\ w.read \subseteq manifest \/ w.read = fileCall[c].read
                       /\ HasRead(w) /\ ~w.crossed => w.read = manifest
                       /\ \/ w.op = "trash" /\ w.step = "checked"
                          \/ w.op \in {"restore", "purge"} /\ w.step = "loaded"
                          => trashed'[w.id] = Absent,
           \A i \in TrashIds :
               \/ trashed'[i] \in {trashed[i], Absent}
               \/ fileCall[c].op = "trash" /\ fileCall[c].id = i
    PROVE  FileCallsInv'
<1>1. /\ c \in Callers /\ FileCallOK(fileCall[c])
      /\ fileCall' = [d \in Callers |-> fileCall'[d]] /\ fileCall'[c] = w
      /\ \A d \in Callers \ {c} : fileCall'[d] = fileCall[d]
  BY BusyCall DEF FilesInv, FileCallsInv
<1>2. /\ \A d \in FileBusy' : d \in FileBusy /\ d \in Callers
      /\ \A d \in FileBusy' : d # c => fileCall'[d] = fileCall[d]
      /\ c \in FileBusy' => w # Idle
  BY <1>1 DEF FileBusy
<1>3. \A d \in FileBusy' : FileCallOK(fileCall[d])' /\ BlobGone(fileCall[d])'
  <2> SUFFICES ASSUME NEW d \in FileBusy'
               PROVE  FileCallOK(fileCall'[d])
                      /\ (\/ fileCall'[d].op = "trash" /\ fileCall'[d].step = "checked"
                          \/ fileCall'[d].op \in {"restore", "purge"} /\ fileCall'[d].step = "loaded"
                          => trashed'[fileCall'[d].id] = Absent)
    BY DEF BlobGone, FileCallOK
  <2>1. CASE d = c
    BY <1>1, <1>2, <2>1
  <2>2. CASE d # c
    <3>1. d \in FileBusy /\ fileCall'[d] = fileCall[d]
      BY <1>2, <2>2
    <3>2. FileCallOK(fileCall[d]) /\ BlobGone(fileCall[d])
      BY <3>1, BusyCall
    <3>3. ASSUME fileCall[d].op \in OnTrashOps
          PROVE  trashed'[fileCall[d].id] \in {trashed[fileCall[d].id], Absent}
      <4>1. fileCall[d].id \in TrashIds
        BY <3>2, <3>3 DEF FileCallOK
      <4>2. fileCall[c].op = "trash" => fileCall[c].id # fileCall[d].id
        BY <2>2, <3>1 DEF FilesInv, FileCallsInv, IdsOwned
      <4> QED BY <4>1, <4>2
    <3> QED BY <3>1, <3>2, <3>3 DEF BlobGone, OnTrashOps
  <2> QED BY <2>1, <2>2
<1>4. IdsOwned'
  <2> SUFFICES ASSUME NEW d \in FileBusy', fileCall'[d].op = "trash", NEW e \in FileBusy'
               PROVE  /\ fileCall'[d].id \notin manifest' /\ fileCall'[d].id \notin fileCall'[e].read
                      /\ d # e => fileCall'[d].id # fileCall'[e].id
    BY DEF IdsOwned
  <2>1. \A x \in FileBusy' : fileCall'[x].op = fileCall[x].op /\ fileCall'[x].id = fileCall[x].id
    BY <1>1, <1>2
  <2>2. fileCall'[e].read \subseteq manifest \/ fileCall'[e].read = fileCall[e].read
    BY <1>1, <1>2
  <2>3. d \in FileBusy /\ e \in FileBusy /\ fileCall[d].op = "trash"
    BY <1>2, <2>1
  <2>4. /\ fileCall[d].id \notin manifest /\ fileCall[d].id \notin fileCall[e].read
        /\ d # e => fileCall[d].id # fileCall[e].id
    BY <2>3 DEF FilesInv, FileCallsInv, IdsOwned
  <2> QED BY <2>1, <2>2, <2>4
<1>5. ReadCurrent'
  <2> SUFFICES ASSUME NEW d \in FileBusy', HasRead(fileCall'[d]), ~fileCall'[d].crossed
               PROVE  fileCall'[d].read = manifest'
    BY DEF ReadCurrent, HasRead
  <2>1. CASE d = c
    BY <1>1, <1>2, <2>1
  <2>2. CASE d # c
    BY <1>2, <2>2 DEF FilesInv, FileCallsInv, ReadCurrent
  <2> QED BY <2>1, <2>2
<1> QED BY <1>1, <1>3, <1>4, <1>5 DEF FileCallsInv

\* What is due and not overwritten stays at some name, or was at none.
FilesKept ==
    /\ file' \in [FileNames -> FileContents \cup {Absent}]
    /\ due' \subseteq FileContents
    /\ \A y \in due' \ overwritten' :
           \/ \E p \in FileNames : file'[p] = y
           \/ y \in due \ overwritten /\ \A p \in FileNames : file[p] # y

LEMMA ReplaceKeeps ==
    ASSUME FilesInv, NEW p \in FileNames, NEW x \in FileContents, NEW meant, Replace(p, x, meant)
    PROVE  FilesKept /\ x \in due' /\ file'[p] = x
<1>1. FilesTyped
  BY DEF FilesInv
<1>2. /\ file' = [file EXCEPT ![p] = x] /\ due' = (due \ ({file[p]} \cap meant)) \cup {x}
      /\ overwritten' = (overwritten \cup ({file[p]} \ (meant \cup {Absent}))) \ {x}
  BY DEF Replace, Lose
<1>3. /\ file' \in [FileNames -> FileContents \cup {Absent}] /\ file'[p] = x
      /\ \A q \in FileNames \ {p} : file'[q] = file[q]
      /\ due' \subseteq FileContents
  BY <1>1, <1>2 DEF FilesTyped
<1>4. ASSUME NEW y \in due' \ overwritten'
      PROVE  \/ \E q \in FileNames : file'[q] = y
             \/ y \in due \ overwritten /\ \A q \in FileNames : file[q] # y
  <2>1. CASE y = x
    BY <1>3, <2>1
  <2>2. CASE y # x
    <3>1. y \in due \ overwritten /\ file[p] # y
      BY <1>1, <1>2, <2>2, FilesAssumption DEF FilesTyped
    <3> QED BY <1>3, <3>1
  <2> QED BY <2>1, <2>2
<1> QED BY <1>2, <1>3, <1>4 DEF FilesKept

LEMMA RestorableStays ==
    ASSUME FilesInv, NEW c \in FileBusy, NEW w, fileCall' = [fileCall EXCEPT ![c] = w],
           manifest' = manifest, unlisted \subseteq unlisted', NEW i, Restorable(i),
           Holds(fileCall[c], i) => i \in unlisted' \/ Holds(w, i)
    PROVE  Restorable(i)'
<1>1. /\ c \in Callers /\ fileCall'[c] = w
      /\ \A d \in Callers \ {c} : fileCall'[d] = fileCall[d]
  BY BusyCall DEF FilesInv, FileCallsInv
<1>2. CASE i \in manifest \cup unlisted
  BY <1>2, RestorableMeansNext
<1>3. CASE \E d \in Callers : Holds(fileCall[d], i)
  <2>1. PICK d \in Callers : Holds(fileCall[d], i)
    BY <1>3
  <2>2. i \in unlisted' \/ Holds(fileCall'[d], i)
    BY <1>1, <2>1
  <2> QED BY <2>1, <2>2, RestorableMeansNext
<1> QED BY <1>2, <1>3, RestorableMeans

\* A call on the working tree moves on.
LEMMA TreeStepInv ==
    ASSUME FilesInv, NEW c \in FileBusy, NEW w, fileCall' = [fileCall EXCEPT ![c] = w],
           UNCHANGED <<trashed, manifest, unlisted>>, FilesKept, fileCall[c].op \in OnTreeOps,
           w # Idle => /\ FileCallOK(w) /\ w.op = fileCall[c].op /\ w.id = fileCall[c].id
                       /\ w.read = fileCall[c].read /\ ~HasRead(w)
    PROVE  FilesInv'
<1>1. FileCallsInv'
  <2>1. fileCall[c].op \notin OnTrashOps
    BY DEF OnTreeOps, OnTrashOps
  <2> QED BY <2>1, OneCallInv DEF OnTrashOps
<1>2. FilesTyped'
  BY DEF FilesInv, FilesTyped, FilesKept
<1>3. NothingVanishes'
  <2> SUFFICES ASSUME NEW y \in due' \ overwritten'
               PROVE  \/ \E p \in FileNames : file'[p] = y
                      \/ \E i \in TrashIds : trashed'[i] = y /\ Restorable(i)'
    BY DEF NothingVanishes
  <2>1. CASE y \in due \ overwritten /\ \A p \in FileNames : file[p] # y
    <3>1. PICK i \in TrashIds : trashed[i] = y /\ Restorable(i)
      BY <2>1 DEF FilesInv, NothingVanishes
    <3>2. ~Holds(fileCall[c], i)
      BY DEF Holds, OnTreeOps
    <3>3. Restorable(i)'
      BY <3>1, <3>2, RestorableStays
    <3> QED BY <3>1, <3>3
  <2> QED BY <2>1 DEF FilesKept
<1> QED BY <1>1, <1>2, <1>3 DEF FilesInv

LEMMA AtOnceInv == ASSUME FilesInv, WriteFile \/ DeleteFile PROVE FilesInv'
<1>1. UNCHANGED <<trashed, manifest, fileCall, unlisted>>
  BY DEF WriteFile, DeleteFile, AtOnce
<1>2. FilesKept
  <2>1. CASE WriteFile
    BY <2>1, ReplaceKeeps DEF WriteFile
  <2>2. CASE DeleteFile
    <3>1. PICK p \in Files : /\ file' = [file EXCEPT ![p] = Absent] /\ due' = due \ {file[p]}
                             /\ overwritten' = overwritten
      BY <2>2 DEF DeleteFile
    <3>2. FilesTyped /\ p \in FileNames
      BY DEF FilesInv, Files
    <3>3. /\ file' \in [FileNames -> FileContents \cup {Absent}]
          /\ \A q \in FileNames \ {p} : file'[q] = file[q]
          /\ due' \subseteq FileContents
      BY <3>1, <3>2 DEF FilesTyped
    <3>4. ASSUME NEW y \in due' \ overwritten'
          PROVE  \/ \E q \in FileNames : file'[q] = y
                 \/ y \in due \ overwritten /\ \A q \in FileNames : file[q] # y
      BY <3>1, <3>3
    <3> QED BY <3>3, <3>4 DEF FilesKept
  <2> QED BY <2>1, <2>2
<1>3. FilesTyped'
  BY <1>1, <1>2 DEF FilesInv, FilesTyped, FilesKept
<1>4. FileCallsInv'
  <2>1. FileBusy' = FileBusy
    BY <1>1 DEF FileBusy
  <2> QED BY <1>1, <2>1 DEF FilesInv, FileCallsInv, FileCallOK, BlobGone, IdsOwned, ReadCurrent,
                           HasRead
<1>5. NothingVanishes'
  <2> SUFFICES ASSUME NEW y \in due' \ overwritten'
               PROVE  \/ \E p \in FileNames : file'[p] = y
                      \/ \E i \in TrashIds : trashed'[i] = y /\ Restorable(i)'
    BY DEF NothingVanishes
  <2>1. \A i : Restorable(i) => Restorable(i)'
    BY <1>1, RestorableMeans, RestorableMeansNext
  <2> QED BY <1>1, <1>2, <2>1 DEF FilesKept, FilesInv, NothingVanishes
<1> QED BY <1>3, <1>4, <1>5 DEF FilesInv

LEMMA PatchInv == ASSUME FilesInv, NEW c \in Callers, ReplacePatched(c) PROVE FilesInv'
<1>1. PICK p \in fileCall[c].to : Replace(p, fileCall[c].text, fileCall[c].meant)
  BY DEF ReplacePatched
<1>2. /\ c \in FileBusy /\ fileCall[c].op = "patch" /\ fileCall' = [fileCall EXCEPT ![c] = Idle]
      /\ UNCHANGED <<trashed, manifest, unlisted>>
  BY DEF ReplacePatched, Doing, FileBusy
<1>3. p \in FileNames /\ fileCall[c].text \in FileContents
  BY <1>1, <1>2, BusyCall DEF FileCallOK, FileCalls
<1>4. FilesKept
  BY <1>1, <1>3, ReplaceKeeps
<1>5. fileCall[c].op \in OnTreeOps
  BY <1>2 DEF OnTreeOps
<1> QED BY <1>2, <1>4, <1>5, TreeStepInv

LEMMA TransferInv == ASSUME FilesInv, NEW c \in Callers, Transfer(c) PROVE FilesInv'
<1> DEFINE w == fileCall[c]
           x == file[w.from]
<1>1. PICK q \in w.to :
        /\ file' = [p \in FileNames |-> IF p = q THEN x
                                        ELSE IF p = w.from /\ w.op = "move" THEN Absent
                                        ELSE file[p]]
        /\ due' = (due \ ({file[q]} \cap w.meant)) \cup {x}
        /\ overwritten' = (overwritten \cup ({file[q]} \ (w.meant \cup {Absent}))) \ {x}
  BY DEF Transfer, Lose
<1>2. /\ c \in FileBusy /\ w.op \in {"copy", "move"} /\ x # Absent
      /\ fileCall' = [fileCall EXCEPT ![c] = Idle] /\ UNCHANGED <<trashed, manifest, unlisted>>
  BY DEF Transfer, Doing, FileBusy
<1>3. /\ q \in FileNames /\ w.from \in FileNames /\ w.from # q /\ w.op \in OnTreeOps
  BY <1>1, <1>2, BusyCall DEF FileCallOK, FileCalls, OnTreeOps
<1>4. FilesTyped
  BY DEF FilesInv
<1> HIDE DEF w
<1>4a. x \in FileContents
  BY <1>2, <1>3, <1>4 DEF FilesTyped
<1> HIDE DEF x
<1>5. /\ file' \in [FileNames -> FileContents \cup {Absent}] /\ due' \subseteq FileContents
      /\ file'[q] = x
      /\ \A p \in FileNames \ {q} : p # w.from => file'[p] = file[p]
  BY <1>1, <1>3, <1>4, <1>4a DEF FilesTyped
<1>6. ASSUME NEW y \in due' \ overwritten'
      PROVE  \/ \E p \in FileNames : file'[p] = y
             \/ y \in due \ overwritten /\ \A p \in FileNames : file[p] # y
  <2>1. CASE y = x
    BY <1>3, <1>5, <2>1
  <2>2. CASE y # x
    <3>1. y \in due \ overwritten /\ file[q] # y
      BY <1>1, <1>3, <1>4, <2>2, FilesAssumption DEF FilesTyped
    <3>2. file[w.from] = x
      BY DEF x
    <3> QED BY <1>5, <2>2, <3>1, <3>2
  <2> QED BY <2>1, <2>2
<1>7. FilesKept
  BY <1>5, <1>6 DEF FilesKept
<1> QED BY <1>2, <1>3, <1>7, TreeStepInv DEF w

LEMMA MemberInv == ASSUME FilesInv, NEW c \in Callers, WriteMember(c) PROVE FilesInv'
<1> DEFINE w == fileCall[c]
<1>1. PICK p \in w.to :
        /\ Replace(p, w.text, w.meant)
        /\ fileCall' = [fileCall EXCEPT ![c] = IF w.to = {p} THEN Idle
                                               ELSE [w EXCEPT !.to = w.to \ {p}]]
  BY DEF WriteMember
<1>2. /\ c \in FileBusy /\ w.op = "unpack" /\ w.step = "checked"
      /\ UNCHANGED <<trashed, manifest, unlisted>>
  BY DEF WriteMember, Doing, FileBusy
<1>3. /\ c \in Callers /\ w \in FileCalls /\ FileCallOK(w)
  BY <1>2, BusyCall
<1>4. /\ p \in FileNames /\ w.text \in FileContents
      /\ w.op \in OnTreeOps
  BY <1>1, <1>2, <1>3 DEF FileCallOK, FileCalls, OnTreeOps
<1>5. FilesKept
  BY <1>1, <1>4, ReplaceKeeps
<1> DEFINE v == [w EXCEPT !.to = w.to \ {p}]
           next == IF w.to = {p} THEN Idle ELSE v
<1>6. fileCall' = [fileCall EXCEPT ![c] = next]
  BY <1>1
<1>7. /\ v \in FileCalls /\ v.op = w.op /\ v.step = w.step /\ v.from = w.from /\ v.meant = w.meant
      /\ v.text = w.text /\ v.id = w.id /\ v.read = w.read
  BY <1>3 DEF FileCalls
<1> HIDE DEF v
<1>8. FileCallOK(v) /\ ~HasRead(v)
  BY <1>2, <1>3, <1>7 DEF FileCallOK, HasRead
<1>9. next # Idle => next = v
  OBVIOUS
<1> HIDE DEF next
<1> QED BY <1>2, <1>4, <1>5, <1>6, <1>7, <1>8, <1>9, TreeStepInv

\* A call on the trash moves on: what is in the trash stays there, or is no longer due or
\* overwritten.
LEMMA TrashStepInv ==
    ASSUME FilesInv, NEW c \in FileBusy, NEW w, fileCall' = [fileCall EXCEPT ![c] = w],
           manifest' = manifest, unlisted' = unlisted, FileCallsInv', FilesTyped',
           \A i : Holds(fileCall[c], i) => Holds(w, i),
           \A y \in due' \ overwritten' :
               \/ \E p \in FileNames : file'[p] = y
               \/ \E i \in TrashIds : trashed'[i] = y /\ (Holds(w, i) \/ Restorable(i))
    PROVE  FilesInv'
<1>1. c \in Callers /\ fileCall'[c] = w
  BY BusyCall DEF FilesInv, FileCallsInv
<1>2. \A i : Restorable(i) => Restorable(i)'
  BY RestorableStays
<1>3. \A i : Holds(w, i) => Restorable(i)'
  BY <1>1, RestorableMeansNext
<1> QED BY <1>2, <1>3 DEF FilesInv, NothingVanishes

LEMMA MoveToTrashInv == ASSUME FilesInv, NEW c \in Callers, MoveToTrash(c) PROVE FilesInv'
<1> DEFINE w == fileCall[c]
           v == [w EXCEPT !.step = "moved"]
           p == w.from
           i == w.id
<1>1. /\ c \in FileBusy /\ w.op = "trash" /\ w.step = "checked" /\ p \in Files
      /\ trashed' = [trashed EXCEPT ![i] = file[p]] /\ file' = [file EXCEPT ![p] = Absent]
      /\ fileCall' = [fileCall EXCEPT ![c] = v] /\ UNCHANGED <<manifest, due, overwritten, unlisted>>
  BY DEF MoveToTrash, Doing, FileBusy
<1>2. FileCallOK(w) /\ w \in FileCalls /\ BlobGone(w)
  BY <1>1, BusyCall
<1>3. /\ v \in FileCalls /\ v.op = w.op /\ v.step = "moved" /\ v.from = w.from /\ v.meant = w.meant
      /\ v.text = w.text /\ v.id = w.id /\ v.read = w.read /\ v.to = w.to
  BY <1>2 DEF FileCalls
<1>4. i \in TrashIds /\ trashed[i] = Absent /\ p \in FileNames /\ file[p] # Absent
  BY <1>1, <1>2 DEF FileCallOK, OnTrashOps, BlobGone, Files
<1> HIDE DEF v
<1>5. FileCallOK(v) /\ ~HasRead(v) /\ v # Idle
  BY <1>1, <1>2, <1>3, FilesAssumption DEF FileCallOK, HasRead
<1>6. FilesTyped
  BY DEF FilesInv
<1> HIDE DEF w, p, i
<1>7. /\ trashed' \in [TrashIds -> FileContents \cup {Absent}] /\ trashed'[i] = file[p]
      /\ \A j \in TrashIds \ {i} : trashed'[j] = trashed[j]
      /\ file' \in [FileNames -> FileContents \cup {Absent}]
      /\ \A q \in FileNames \ {p} : file'[q] = file[q]
  BY <1>1, <1>4, <1>6 DEF FilesTyped
<1>8. FilesTyped'
  BY <1>1, <1>6, <1>7 DEF FilesTyped
<1>9. FileCallsInv'
  BY <1>1, <1>3, <1>5, <1>7, OneCallInv DEF w, i
<1>10. \A j : Holds(fileCall[c], j) => Holds(v, j)
  BY <1>1, <1>3 DEF Holds, w
<1>11. Holds(v, i)
  BY <1>1, <1>3, <1>5 DEF Holds, i
<1>12. ASSUME NEW y \in due' \ overwritten'
       PROVE  \/ \E q \in FileNames : file'[q] = y
              \/ \E j \in TrashIds : trashed'[j] = y /\ (Holds(v, j) \/ Restorable(j))
  <2>1. y \in due \ overwritten /\ y # Absent
    BY <1>1, <1>6, FilesAssumption DEF FilesTyped
  <2>2. CASE \E q \in FileNames : file[q] = y
    <3>1. CASE file[p] = y
      BY <1>4, <1>7, <1>11, <3>1
    <3>2. CASE file[p] # y
      BY <1>7, <2>2, <3>2
    <3> QED BY <3>1, <3>2
  <2>3. CASE \E j \in TrashIds : trashed[j] = y /\ Restorable(j)
    BY <1>4, <1>7, <2>1, <2>3
  <2> QED BY <2>1, <2>2, <2>3 DEF FilesInv, NothingVanishes
<1> QED BY <1>1, <1>8, <1>9, <1>10, <1>12, TrashStepInv

LEMMA LoadToRecordInv == ASSUME FilesInv, NEW c \in Callers, LoadToRecord(c) PROVE FilesInv'
<1> DEFINE w == fileCall[c]
<1>1. PICK read \in {manifest, {}} :
        fileCall' = [fileCall EXCEPT ![c] =
            OnTrash("trash", "loaded", @.id, @.from, {}, read, read # manifest)]
  BY DEF LoadToRecord
<1>2. /\ c \in FileBusy /\ w.op = "trash" /\ w.step = "moved"
      /\ UNCHANGED <<file, trashed, manifest, due, overwritten, unlisted>>
  BY DEF LoadToRecord, Doing, FileBusy
<1>3. FilesTyped /\ FileCallOK(w) /\ w \in FileCalls
  BY <1>2, BusyCall DEF FilesInv
<1> DEFINE v == OnTrash("trash", "loaded", w.id, w.from, {}, read, read # manifest)
<1>4. fileCall' = [fileCall EXCEPT ![c] = v]
  BY <1>1
<1>5. /\ w.id \in TrashIds /\ w.from \in FileNames /\ read \in SUBSET TrashIds
      /\ (read # manifest) \in BOOLEAN
  BY <1>2, <1>3 DEF FileCallOK, FilesTyped, OnTrashOps
<1>6. /\ v \in FileCalls /\ v.op = "trash" /\ v.step = "loaded" /\ v.from = w.from
      /\ v.id = w.id /\ v.read = read /\ v.op \notin OnTreeOps
      /\ ~v.crossed => v.read = manifest
  BY <1>5 DEF OnTrash, FileCalls, OnTreeOps
<1> HIDE DEF v
<1>7. FileCallOK(v) /\ v # Idle
  BY <1>5, <1>6, FilesAssumption DEF FileCallOK
<1>8. FilesTyped'
  BY <1>2, <1>3 DEF FilesTyped
<1>9. FileCallsInv'
  BY <1>2, <1>4, <1>6, <1>7, OneCallInv
<1>10. \A j : Holds(fileCall[c], j) => Holds(v, j)
  BY <1>6, <1>7 DEF Holds
<1>11. \A y \in due' \ overwritten' :
         \/ \E p \in FileNames : file'[p] = y
         \/ \E j \in TrashIds : trashed'[j] = y /\ (Holds(v, j) \/ Restorable(j))
  BY <1>2 DEF FilesInv, NothingVanishes
<1> QED BY <1>2, <1>4, <1>8, <1>9, <1>10, <1>11, TrashStepInv

LEMMA MoveBackInv == ASSUME FilesInv, NEW c \in Callers, MoveBack(c) PROVE FilesInv'
<1> DEFINE w == fileCall[c]
           v == [w EXCEPT !.step = "loaded"]
           i == w.id
           x == trashed[i]
<1>1. PICK p \in w.to : Replace(p, x, {})
  BY DEF MoveBack
<1>2. /\ c \in FileBusy /\ w.op = "restore" /\ w.step = "checked" /\ x # Absent
      /\ trashed' = [trashed EXCEPT ![i] = Absent]
      /\ fileCall' = [fileCall EXCEPT ![c] = v] /\ UNCHANGED <<manifest, unlisted>>
  BY DEF MoveBack, Doing, FileBusy
<1>3. FilesTyped /\ FileCallOK(w) /\ w \in FileCalls
  BY <1>2, BusyCall DEF FilesInv
<1>4. /\ v \in FileCalls /\ v.op = w.op /\ v.step = "loaded" /\ v.from = w.from /\ v.meant = w.meant
      /\ v.text = w.text /\ v.id = w.id /\ v.read = w.read /\ v.to = w.to
      /\ v.crossed = w.crossed
  BY <1>3 DEF FileCalls
<1>5. i \in TrashIds /\ p \in FileNames /\ x \in FileContents
  BY <1>1, <1>2, <1>3 DEF FileCallOK, FileCalls, OnTrashOps, FilesTyped
<1>6. HasRead(w) /\ (~w.crossed => w.read = manifest)
  BY <1>2 DEF HasRead, FilesInv, FileCallsInv, ReadCurrent
<1> HIDE DEF v
<1>7. FileCallOK(v)
  BY <1>2, <1>3, <1>4 DEF FileCallOK
<1>8. FilesKept /\ file'[p] = x
  BY <1>1, <1>5, ReplaceKeeps, ZenonT(40)
<1> HIDE DEF w, i, x
<1>9. /\ trashed' \in [TrashIds -> FileContents \cup {Absent}] /\ trashed'[i] = Absent
      /\ \A j \in TrashIds \ {i} : trashed'[j] = trashed[j]
  BY <1>2, <1>3, <1>5 DEF FilesTyped
<1>10. FilesTyped'
  BY <1>2, <1>3, <1>8, <1>9 DEF FilesTyped, FilesKept
<1>11. FileCallsInv'
  <2>1. trashed'[v.id] = Absent
    BY <1>4, <1>9 DEF i
  <2> QED BY <1>2, <1>4, <1>6, <1>7, <1>9, <2>1, OneCallInv DEF w
<1>12. \A j : ~Holds(fileCall[c], j)
  BY <1>2 DEF Holds, w
<1>13. ASSUME NEW y \in due' \ overwritten'
       PROVE  \/ \E q \in FileNames : file'[q] = y
              \/ \E j \in TrashIds : trashed'[j] = y /\ (Holds(v, j) \/ Restorable(j))
  <2> SUFFICES ASSUME y \in due \ overwritten, \A q \in FileNames : file[q] # y, \A q \in FileNames : file'[q] # y
               PROVE  \E j \in TrashIds : trashed'[j] = y /\ Restorable(j)
    BY <1>8 DEF FilesKept
  <2>1. PICK j \in TrashIds : trashed[j] = y /\ Restorable(j)
    BY DEF FilesInv, NothingVanishes
  <2>2. j # i
    BY <1>5, <1>8, <2>1 DEF x
  <2> QED BY <1>9, <2>1, <2>2
<1> QED BY <1>2, <1>10, <1>11, <1>12, <1>13, TrashStepInv

LEMMA UnlinkInv == ASSUME FilesInv, NEW c \in Callers, UnlinkBlob(c) PROVE FilesInv'
<1> DEFINE w == fileCall[c]
           v == [w EXCEPT !.step = "loaded"]
           i == w.id
<1>1. /\ c \in FileBusy /\ w.op = "purge" /\ w.step = "checked" /\ due' = due \ {trashed[i]}
      /\ trashed' = [trashed EXCEPT ![i] = Absent]
      /\ fileCall' = [fileCall EXCEPT ![c] = v] /\ UNCHANGED <<file, manifest, overwritten, unlisted>>
  BY DEF UnlinkBlob, Doing, FileBusy
<1>2. FilesTyped /\ FileCallOK(w) /\ w \in FileCalls
  BY <1>1, BusyCall DEF FilesInv
<1>3. /\ v \in FileCalls /\ v.op = w.op /\ v.step = "loaded" /\ v.from = w.from /\ v.meant = w.meant
      /\ v.text = w.text /\ v.id = w.id /\ v.read = w.read /\ v.to = w.to
      /\ v.crossed = w.crossed
  BY <1>2 DEF FileCalls
<1>4. i \in TrashIds
  BY <1>1, <1>2 DEF FileCallOK, OnTrashOps
<1>5. HasRead(w) /\ (~w.crossed => w.read = manifest)
  BY <1>1 DEF HasRead, FilesInv, FileCallsInv, ReadCurrent
<1> HIDE DEF v
<1>6. FileCallOK(v)
  BY <1>1, <1>2, <1>3 DEF FileCallOK
<1> HIDE DEF w, i
<1>7. /\ trashed' \in [TrashIds -> FileContents \cup {Absent}] /\ trashed'[i] = Absent
      /\ \A j \in TrashIds \ {i} : trashed'[j] = trashed[j]
  BY <1>1, <1>2, <1>4 DEF FilesTyped
<1>8. FilesTyped'
  BY <1>1, <1>2, <1>7 DEF FilesTyped
<1>9. FileCallsInv'
  <2>1. trashed'[v.id] = Absent
    BY <1>3, <1>7 DEF i
  <2> QED BY <1>1, <1>3, <1>5, <1>6, <1>7, <2>1, OneCallInv DEF w
<1>10. \A j : ~Holds(fileCall[c], j)
  BY <1>1 DEF Holds, w
<1>11. ASSUME NEW y \in due' \ overwritten'
       PROVE  \/ \E q \in FileNames : file'[q] = y
              \/ \E j \in TrashIds : trashed'[j] = y /\ (Holds(v, j) \/ Restorable(j))
  <2> SUFFICES ASSUME \A q \in FileNames : file[q] # y
               PROVE  \E j \in TrashIds : trashed'[j] = y /\ Restorable(j)
    BY <1>1
  <2>1. y \in due \ overwritten /\ y # trashed[i]
    BY <1>1
  <2>2. PICK j \in TrashIds : trashed[j] = y /\ Restorable(j)
    BY <2>1 DEF FilesInv, NothingVanishes
  <2> QED BY <1>7, <2>1, <2>2
<1> QED BY <1>1, <1>8, <1>9, <1>10, <1>11, TrashStepInv

LEMMA FileCallEndsInv == ASSUME FilesInv, NEW c \in Callers, FileCallEnds(c) PROVE FilesInv'
<1> DEFINE w == fileCall[c]
<1>1. /\ c \in FileBusy /\ fileCall' = [fileCall EXCEPT ![c] = Idle]
      /\ unlisted' = IF w.op = "trash" /\ w.step # "checked" THEN unlisted \cup {w.id} ELSE unlisted
      /\ UNCHANGED <<file, trashed, manifest, due, overwritten>>
  BY DEF FileCallEnds, FileBusy
<1>2. FileCallsInv'
  BY <1>1, OneCallInv
<1>3. FilesTyped'
  BY <1>1 DEF FilesInv, FilesTyped
<1>4. \A i : Restorable(i) => Restorable(i)'
  <2> SUFFICES ASSUME NEW i, Restorable(i) PROVE Restorable(i)'
    OBVIOUS
  <2>1. Holds(fileCall[c], i) => i \in unlisted'
    BY <1>1 DEF Holds
  <2> QED BY <1>1, <2>1, RestorableStays
<1>5. NothingVanishes'
  BY <1>1, <1>4 DEF FilesInv, NothingVanishes
<1> QED BY <1>2, <1>3, <1>5 DEF FilesInv

LEMMA SaveInv == ASSUME FilesInv, NEW c \in Callers, SaveManifest(c) PROVE FilesInv'
<1> DEFINE w == fileCall[c]
           Later(x) == [x EXCEPT !.crossed = x.crossed \/ HasRead(x)]
<1>1. /\ c \in FileBusy /\ w.op \in OnTrashOps /\ w.step = "loaded" /\ manifest' = RecordsSaved(w)
      /\ unlisted' = IF w.crossed THEN unlisted \cup (manifest \ manifest') ELSE unlisted
      /\ UNCHANGED <<file, trashed, due, overwritten>>
  BY DEF SaveManifest, Doing, FileBusy, OnTrashOps
<1>2. fileCall' = [d \in Callers |-> IF d = c \/ fileCall[d] = Idle THEN Idle ELSE Later(fileCall[d])]
  BY DEF SaveManifest
<1>3. /\ FileCallOK(w) /\ w \in FileCalls /\ BlobGone(w) /\ HasRead(w) /\ FilesTyped
      /\ ~w.crossed => w.read = manifest
      /\ w.id \in TrashIds /\ w.read \subseteq TrashIds
  <2>1. FileCallOK(w) /\ w \in FileCalls /\ BlobGone(w) /\ FilesTyped
    BY <1>1, BusyCall DEF FilesInv
  <2>2. HasRead(w)
    BY <1>1 DEF HasRead
  <2>3. ~w.crossed => w.read = manifest
    BY <1>1, <2>2 DEF FilesInv, FileCallsInv, ReadCurrent
  <2>4. w.id \in TrashIds /\ w.read \subseteq TrashIds
    BY <1>1, <2>1 DEF FileCallOK, FileCalls
  <2> QED BY <2>1, <2>2, <2>3, <2>4
<1>4. ASSUME NEW x \in FileCalls
      PROVE  /\ Later(x) \in FileCalls /\ Later(x).op = x.op /\ Later(x).step = x.step
             /\ Later(x).from = x.from /\ Later(x).to = x.to /\ Later(x).meant = x.meant
             /\ Later(x).text = x.text /\ Later(x).id = x.id
             /\ Later(x).read = x.read
             /\ HasRead(x) => Later(x).crossed
  <2>1. HasRead(x) \in BOOLEAN
    BY DEF HasRead
  <2>2. x.crossed \in BOOLEAN
    BY DEF FileCalls
  <2> DEFINE b == x.crossed \/ HasRead(x)
  <2>3. b \in BOOLEAN /\ (HasRead(x) => b) /\ Later(x) = [x EXCEPT !.crossed = b]
    BY <2>1, <2>2
  <2> HIDE DEF b, Later
  <2> QED BY <2>3 DEF FileCalls
<1> HIDE DEF Later
<1>5. /\ fileCall' = [d \in Callers |-> fileCall'[d]] /\ fileCall'[c] = Idle
      /\ \A d \in FileBusy \ {c} : fileCall'[d] = Later(fileCall[d])
      /\ \A d \in FileBusy' : d \in FileBusy /\ d # c /\ fileCall'[d] = Later(fileCall[d])
  BY <1>2 DEF FileBusy
<1>6. \A d \in FileBusy : fileCall[d] \in FileCalls /\ FileCallOK(fileCall[d])
                          /\ BlobGone(fileCall[d])
  BY BusyCall
<1>7. manifest' = IF w.op = "trash" THEN w.read \cup {w.id} ELSE w.read \ {w.id}
  BY <1>1 DEF RecordsSaved
<1>8. FilesTyped'
  BY <1>1, <1>3, <1>7 DEF FilesTyped
<1>9. \A d \in FileBusy' : FileCallOK(fileCall[d])' /\ BlobGone(fileCall[d])'
  <2> SUFFICES ASSUME NEW d \in FileBusy'
               PROVE  FileCallOK(fileCall'[d])
                      /\ (\/ fileCall'[d].op = "trash" /\ fileCall'[d].step = "checked"
                          \/ fileCall'[d].op \in {"restore", "purge"} /\ fileCall'[d].step = "loaded"
                          => trashed'[fileCall'[d].id] = Absent)
    BY DEF BlobGone, FileCallOK
  <2> DEFINE x == fileCall[d]
             y == Later(x)
  <2>1. /\ x \in FileCalls /\ FileCallOK(x) /\ BlobGone(x) /\ fileCall'[d] = y
    BY <1>5, <1>6
  <2>2. /\ y \in FileCalls /\ y.op = x.op /\ y.step = x.step
        /\ y.from = x.from /\ y.to = x.to /\ y.meant = x.meant
        /\ y.text = x.text /\ y.id = x.id
    BY <1>4, <2>1
  <2> HIDE DEF x, y
  <2> QED BY <1>1, <2>1, <2>2 DEF FileCallOK, BlobGone
<1>10. IdsOwned'
  <2> SUFFICES ASSUME NEW d \in FileBusy', fileCall'[d].op = "trash", NEW e \in FileBusy'
               PROVE  /\ fileCall'[d].id \notin manifest' /\ fileCall'[d].id \notin fileCall'[e].read
                      /\ d # e => fileCall'[d].id # fileCall'[e].id
    BY DEF IdsOwned
  <2>1. /\ d \in FileBusy /\ d # c /\ fileCall'[d].id = fileCall[d].id /\ fileCall[d].op = "trash"
        /\ e \in FileBusy /\ fileCall'[e].id = fileCall[e].id /\ fileCall'[e].read = fileCall[e].read
    BY <1>4, <1>5, <1>6
  <2>2. /\ fileCall[d].id \notin fileCall[e].read /\ (d # e => fileCall[d].id # fileCall[e].id)
        /\ fileCall[d].id \notin w.read /\ fileCall[d].id # w.id
    BY <1>1, <2>1 DEF FilesInv, FileCallsInv, IdsOwned
  <2> QED BY <1>7, <2>1, <2>2
<1>11. ReadCurrent'
  <2> SUFFICES ASSUME NEW d \in FileBusy', HasRead(fileCall'[d]) PROVE fileCall'[d].crossed
    BY DEF ReadCurrent, HasRead
  <2>1. fileCall'[d] = Later(fileCall[d]) /\ fileCall[d] \in FileCalls
    BY <1>5, <1>6
  <2>2. HasRead(fileCall[d])
    BY <1>4, <2>1 DEF HasRead
  <2> QED BY <1>4, <2>1, <2>2
<1>12. \A i \in TrashIds : trashed[i] # Absent /\ Restorable(i) => Restorable(i)'
  <2> SUFFICES ASSUME NEW i \in TrashIds, trashed[i] # Absent, Restorable(i) PROVE Restorable(i)'
    OBVIOUS
  <2>1. CASE i \in unlisted
    <3>1. i \in unlisted'
      BY <1>1, <2>1
    <3> QED BY <3>1, RestorableMeansNext
  <2>2. CASE i \in manifest
    <3>1. i \in manifest' \cup unlisted'
      <4>1. CASE w.crossed
        BY <1>1, <2>2, <4>1
      <4>2. CASE ~w.crossed
        <5>1. w.read = manifest
          BY <1>3, <4>2
        <5>2. w.op # "trash" => i # w.id
          BY <1>1, <1>3 DEF BlobGone, OnTrashOps
        <5> QED BY <1>7, <2>2, <5>1, <5>2
      <4> QED BY <4>1, <4>2
    <3> QED BY <3>1, RestorableMeansNext
  <2>3. CASE \E d \in Callers : Holds(fileCall[d], i)
    <3>1. PICK d \in Callers : Holds(fileCall[d], i)
      BY <2>3
    <3>2. CASE d = c
      <4>1. i \in manifest'
        BY <1>7, <3>1, <3>2 DEF Holds
      <4> QED BY <4>1, RestorableMeansNext
    <3>3. CASE d # c
      <4>1. d \in FileBusy /\ fileCall'[d] = Later(fileCall[d]) /\ fileCall[d] \in FileCalls
        BY <1>5, <1>6, <3>1, <3>3 DEF FileBusy, Holds
      <4>2. fileCall'[d] # Idle
        BY <1>4, <4>1, FilesAssumption
      <4>3. Holds(fileCall'[d], i)
        BY <1>4, <3>1, <4>1, <4>2 DEF Holds
      <4> QED BY <4>3, RestorableMeansNext
    <3> QED BY <3>2, <3>3
  <2> QED BY <2>1, <2>2, <2>3, RestorableMeans
<1>13. NothingVanishes'
  <2> SUFFICES ASSUME NEW y \in due' \ overwritten', \A p \in FileNames : file'[p] # y
               PROVE  \E i \in TrashIds : trashed'[i] = y /\ Restorable(i)'
    BY DEF NothingVanishes
  <2>1. y \in due \ overwritten /\ y # Absent /\ \A p \in FileNames : file[p] # y
    BY <1>1, <1>3, FilesAssumption DEF FilesTyped
  <2>2. PICK i \in TrashIds : trashed[i] = y /\ Restorable(i)
    BY <2>1 DEF FilesInv, NothingVanishes
  <2> QED BY <1>1, <1>12, <2>1, <2>2
<1> QED BY <1>5, <1>8, <1>9, <1>10, <1>11, <1>13 DEF FilesInv, FileCallsInv

LEMMA FilesStepInv == FilesInv /\ [FilesNext]_fileVars => FilesInv'
<1> SUFFICES ASSUME FilesInv, [FilesNext]_fileVars PROVE FilesInv'
  OBVIOUS
<1>1. CASE UNCHANGED fileVars
  <2>1. UNCHANGED <<file, trashed, manifest, fileCall, due, overwritten, unlisted>>
    BY <1>1 DEF fileVars
  <2>2. FilesTyped'
    BY <2>1 DEF FilesInv, FilesTyped
  <2>3. FileBusy' = FileBusy
    BY <2>1 DEF FileBusy
  <2>4. FileCallsInv'
    <3>1. /\ fileCall = [c \in Callers |-> fileCall[c]] /\ IdsOwned /\ ReadCurrent
          /\ \A c \in FileBusy : FileCallOK(fileCall[c]) /\ BlobGone(fileCall[c])
      BY DEF FilesInv, FileCallsInv
    <3>2. IdsOwned'
      BY <2>1, <2>3, <3>1 DEF IdsOwned
    <3>3. ReadCurrent'
      BY <2>1, <2>3, <3>1 DEF ReadCurrent, HasRead
    <3>4. \A c \in FileBusy : FileCallOK(fileCall[c])' /\ BlobGone(fileCall[c])'
      BY <2>1, <3>1 DEF FileCallOK, BlobGone
    <3>5. fileCall' = [c \in Callers |-> fileCall'[c]]
      BY <2>1, <3>1
    <3> QED BY <2>3, <3>2, <3>3, <3>4, <3>5 DEF FileCallsInv
  <2>5. \A i : Restorable(i) => Restorable(i)'
    BY <2>1, RestorableMeans, RestorableMeansNext
  <2> QED BY <2>1, <2>2, <2>4, <2>5 DEF FilesInv, NothingVanishes
<1>2. CASE WriteFile \/ DeleteFile
  BY <1>2, AtOnceInv
<1>3. ASSUME NEW c \in Callers,
             \/ BeginPatch(c) \/ BeginTransfer(c) \/ BeginPack(c) \/ BeginUnpack(c)
             \/ BeginTrash(c) \/ BeginRestore(c) \/ BeginPurge(c)
             \/ ReplacePatched(c) \/ Transfer(c) \/ WriteMember(c)
             \/ MoveToTrash(c) \/ LoadToRecord(c) \/ MoveBack(c) \/ UnlinkBlob(c)
             \/ SaveManifest(c) \/ FileCallEnds(c)
      PROVE  FilesInv'
  BY <1>3, BeginTreeCallInv, BeginTrashCallInv, PatchInv, TransferInv, MemberInv, MoveToTrashInv,
     LoadToRecordInv, MoveBackInv, UnlinkInv, SaveInv, FileCallEndsInv
<1> QED BY <1>1, <1>2, <1>3 DEF FilesNext

\* What nobody asked to destroy is at some name or in the trash with a record, for any
\* callers, names, contents and ids of trashed files, and any number of calls, whatever a
\* call checked and another one changed before it acted; except for a record that a call
\* on the manifest loses (unlisted), and for a content that came to a name after a call
\* had read or checked it and before that call replaced it (overwritten): the lost update
\* of apply_patch among them (trash_file, restore_trashed_file, permanently_delete_file,
\* move_file, copy_file, extract_archive, apply_patch).
THEOREM FilesAlwaysOK == FilesSpec => []FilesOK
<1>1. FilesInv => FilesOK
  <2> SUFFICES ASSUME FilesInv PROVE FilesOK
    OBVIOUS
  <2>1. \A c \in Callers : fileCall[c] \in FileCalls \cup {Idle}
    BY BusyCall DEF FileBusy
  <2> QED BY <2>1 DEF FilesInv, FilesTyped, FilesOK, FilesTypeOK
<1> QED BY <1>1, FilesInitInv, FilesStepInv, PTL DEF FilesSpec
------------------------------------------------------------------------------
(* Roles.                                                                  *)

LEMMA UpwardsFrom0 ==
    ASSUME NEW N \in Nat, NEW S, 0 \in S,
           \A n \in 0 .. N : n < N /\ n \in S => n + 1 \in S
    PROVE  0 .. N \subseteq S
<1> DEFINE missing == {n \in 0 .. N : n \notin S}
<1>1. SUFFICES ASSUME missing # {} PROVE FALSE
  OBVIOUS
<1>2. missing \in SUBSET Nat
  OBVIOUS
<1>3. PICK m \in missing : \A k \in missing : m <= k
  <2> HIDE DEF missing
  <2> QED BY <1>1, <1>2, HasLeast
<1>4. m # 0 /\ m \in Nat /\ m <= N
  OBVIOUS
<1>5. m - 1 \in 0 .. N /\ m - 1 < N /\ ~(m <= m - 1)
  BY <1>4
<1>6. m - 1 \in S
  BY <1>3, <1>5
<1>7. m - 1 + 1 = m
  BY <1>4
<1> QED BY <1>3, <1>5, <1>6, <1>7

\* The merged usage is computed step by step.
MergeStep(m, calls, n) == m[n + 1] = m[n] + calls[n]

LEMMA MergedIsDefined ==
    ASSUME NEW calls \in [Prompts -> Nat]
    PROVE  /\ MergedUpTo(calls) \in [0 .. MaxSpecialists + 1 -> Nat]
           /\ MergedUpTo(calls)[0] = 0
           /\ \A n \in Prompts : MergeStep(MergedUpTo(calls), calls, n)
<1> DEFINE top == MaxSpecialists + 1
           D == 0 .. top
           Good(g, k) == /\ g[0] = 0
                         /\ \A n \in Prompts : n < k => MergeStep(g, calls, n)
           S == {k \in D : \E g \in [D -> Nat] : Good(g, k)}
<1>0. MaxSpecialists \in Nat /\ top \in Nat /\ Prompts = 0 .. MaxSpecialists
  BY RolesAssumption DEF Prompts
<1>1. 0 \in S
  <2>1. [n \in D |-> 0] \in [D -> Nat] /\ 0 \in D
    BY <1>0
  <2>2. Good([n \in D |-> 0], 0)
    BY <2>1, <1>0
  <2> QED BY <2>1, <2>2
<1>2. ASSUME NEW k \in 0 .. top, k < top, k \in S PROVE k + 1 \in S
  <2>1. PICK g \in [D -> Nat] : Good(g, k)
    BY <1>2
  <2>2. k \in Prompts /\ k + 1 \in D /\ k \in D /\ k \in Nat
    BY <1>0, <1>2
  <2>3. g[k] + calls[k] \in Nat
    BY <2>2
  <2> DEFINE h == [g EXCEPT ![k + 1] = g[k] + calls[k]]
  <2>4. h \in [D -> Nat]
    BY <2>3
  <2>5. h[0] = 0 /\ h[k] = g[k]
    BY <2>1, <2>2, <1>0
  <2>6. ASSUME NEW n \in Prompts, n < k + 1 PROVE MergeStep(h, calls, n)
    <3>0. n \in D /\ n + 1 \in D /\ n \in Nat
      BY <1>0
    <3>1. CASE n = k
      BY <3>1, <2>2, <2>5 DEF MergeStep
    <3>2. CASE n # k
      <4>1. n < k /\ n + 1 # k + 1 /\ n # k + 1
        BY <3>2, <2>6, <3>0, <2>2
      <4>2. MergeStep(g, calls, n)
        BY <4>1, <2>1
      <4> QED BY <4>1, <4>2, <3>0 DEF MergeStep
    <3> QED BY <3>1, <3>2
  <2>7. Good(h, k + 1)
    BY <2>5, <2>6
  <2> HIDE DEF h, Good
  <2> QED BY <2>2, <2>4, <2>7
<1>3. top \in S
  <2> HIDE DEF S, top
  <2>1. 0 .. top \subseteq S
    BY <1>0, <1>1, <1>2, UpwardsFrom0
  <2> QED BY <2>1, <1>0
<1>4. PICK g \in [D -> Nat] : Good(g, top)
  BY <1>3
<1>5. g = [n \in D |-> IF n = 0 THEN 0 ELSE g[n - 1] + calls[n - 1]]
  <2>1. ASSUME NEW n \in D PROVE g[n] = IF n = 0 THEN 0 ELSE g[n - 1] + calls[n - 1]
    <3>1. CASE n = 0
      BY <3>1, <1>4
    <3>2. CASE n # 0
      <4>1. n - 1 \in Prompts /\ n - 1 < top /\ n - 1 + 1 = n
        BY <3>2, <1>0
      <4>2. MergeStep(g, calls, n - 1)
        BY <4>1, <1>4
      <4> QED BY <4>1, <4>2, <3>2 DEF MergeStep
    <3> QED BY <3>1, <3>2
  <2> QED BY <2>1
<1> DEFINE G(x) == x = [n \in D |-> IF n = 0 THEN 0 ELSE x[n - 1] + calls[n - 1]]
<1>6. MergedUpTo(calls) = CHOOSE x : G(x)
  BY DEF MergedUpTo
<1>7. G(MergedUpTo(calls))
  <2>1. G(g)
    BY <1>5
  <2> HIDE DEF G
  <2> QED BY <2>1, <1>6
<1> DEFINE f == MergedUpTo(calls)
<1>8. f = [n \in D |-> IF n = 0 THEN 0 ELSE f[n - 1] + calls[n - 1]]
  BY <1>7
<1> HIDE DEF f
<1>12. \A n \in D : f[n] = IF n = 0 THEN 0 ELSE f[n - 1] + calls[n - 1]
  BY <1>8, Zenon
<1>13. \A n \in D : n # 0 => f[n] = f[n - 1] + calls[n - 1]
  BY <1>12
<1>9. f[0] = 0
  <2>1. 0 \in D
    BY <1>0
  <2> QED BY <1>8, <2>1
<1>10. \A n \in Prompts : MergeStep(f, calls, n)
  <2>1. ASSUME NEW n \in Prompts PROVE MergeStep(f, calls, n)
    <3>1. PICK j \in D : j = n + 1 /\ j # 0 /\ j - 1 = n
      BY <1>0
    <3>2. f[j] = f[j - 1] + calls[j - 1]
      BY <1>13, <3>1
    <3> QED BY <3>1, <3>2 DEF MergeStep
  <2> QED BY <2>1
<1>11. f \in [D -> Nat]
  <2> DEFINE T == {n \in D : f[n] \in Nat}
  <2>1. 0 \in T
    BY <1>9, <1>0
  <2>2. ASSUME NEW n \in 0 .. top, n < top, n \in T PROVE n + 1 \in T
    <3>1. n \in Prompts /\ n + 1 \in D
      BY <1>0, <2>2
    <3>2. f[n + 1] = f[n] + calls[n]
      BY <3>1, <1>10 DEF MergeStep
    <3> QED BY <3>1, <3>2, <2>2
  <2>3. D \subseteq T
    <3> HIDE DEF T, top
    <3>1. 0 .. top \subseteq T
      BY <1>0, <2>1, <2>2, UpwardsFrom0
    <3> QED BY <3>1 DEF top
  <2>4. \A n \in D : f[n] \in Nat
    BY <2>3
  <2> QED BY <2>4, <1>8
<1> QED BY <1>9, <1>10, <1>11 DEF f

LEMMA MergedOfNothing ==
    ASSUME NEW calls \in [Prompts -> Nat], \A p \in Prompts : calls[p] = 0
    PROVE  Merged(calls) = 0
<1> DEFINE top == MaxSpecialists + 1
           f == MergedUpTo(calls)
           T == {n \in 0 .. top : f[n] = 0}
<1>0. MaxSpecialists \in Nat /\ top \in Nat /\ Prompts = 0 .. MaxSpecialists
  BY RolesAssumption DEF Prompts
<1>1. f \in [0 .. top -> Nat] /\ f[0] = 0 /\ \A n \in Prompts : MergeStep(f, calls, n)
  BY MergedIsDefined
<1> HIDE DEF f
<1>2. 0 \in T
  BY <1>0, <1>1
<1>3. ASSUME NEW n \in 0 .. top, n < top, n \in T PROVE n + 1 \in T
  <2>1. n \in Prompts /\ n + 1 \in 0 .. top
    BY <1>0, <1>3
  <2>2. f[n + 1] = f[n] + calls[n] /\ calls[n] = 0
    BY <2>1, <1>1 DEF MergeStep
  <2> QED BY <2>1, <2>2, <1>3
<1>4. top \in T
  <2> HIDE DEF T, top
  <2>1. 0 .. top \subseteq T
    BY <1>0, <1>2, <1>3, UpwardsFrom0
  <2> QED BY <2>1, <1>0
<1> QED BY <1>4 DEF f, Merged

\* One call that costs k more makes the sum k more.
LEMMA MergedGrows ==
    ASSUME NEW calls \in [Prompts -> Nat], NEW more \in [Prompts -> Nat],
           NEW p \in Prompts, NEW k \in Nat,
           more[p] = calls[p] + k,
           \A q \in Prompts : q # p => more[q] = calls[q]
    PROVE  Merged(more) = Merged(calls) + k
<1> DEFINE top == MaxSpecialists + 1
           f == MergedUpTo(calls)
           g == MergedUpTo(more)
           T == {n \in 0 .. top : g[n] = f[n] + IF n > p THEN k ELSE 0}
<1>0. MaxSpecialists \in Nat /\ top \in Nat /\ Prompts = 0 .. MaxSpecialists /\ p \in Nat /\ p < top
  BY RolesAssumption DEF Prompts
<1>1. f \in [0 .. top -> Nat] /\ f[0] = 0 /\ \A n \in Prompts : MergeStep(f, calls, n)
  BY MergedIsDefined
<1>2. g \in [0 .. top -> Nat] /\ g[0] = 0 /\ \A n \in Prompts : MergeStep(g, more, n)
  BY MergedIsDefined
<1> HIDE DEF f, g
<1>3. 0 \in T
  BY <1>0, <1>1, <1>2
<1>4. ASSUME NEW n \in 0 .. top, n < top, n \in T PROVE n + 1 \in T
  <2>1. n \in Prompts /\ n + 1 \in 0 .. top /\ n \in 0 .. top
    BY <1>0, <1>4
  <2>2. f[n + 1] = f[n] + calls[n] /\ g[n + 1] = g[n] + more[n]
    BY <2>1, <1>1, <1>2 DEF MergeStep
  <2>3. f[n] \in Nat /\ calls[n] \in Nat /\ more[n] \in Nat /\ g[n] \in Nat
    BY <2>1, <1>1, <1>2
  <2>4. g[n] = f[n] + IF n > p THEN k ELSE 0
    BY <1>4
  <2>5. g[n + 1] = f[n + 1] + IF n + 1 > p THEN k ELSE 0
    <3>1. CASE n = p
      <4>1. more[n] = calls[n] + k /\ ~(n > p) /\ n + 1 > p
        BY <3>1, <1>0
      <4>2. g[n] = f[n]
        BY <4>1, <2>4, <2>3
      <4>3. g[n + 1] = f[n] + (calls[n] + k) /\ f[n + 1] + k = f[n] + calls[n] + k
        BY <4>1, <4>2, <2>2
      <4> QED BY <4>1, <4>3, <2>3
    <3>2. CASE n # p
      <4>1. more[n] = calls[n] /\ (n + 1 > p <=> n > p)
        BY <3>2, <2>1, <1>0
      <4> QED BY <4>1, <2>2, <2>3, <2>4
    <3> QED BY <3>1, <3>2
  <2> QED BY <2>1, <2>5
<1>5. top \in T
  <2> HIDE DEF T, top
  <2>1. 0 .. top \subseteq T
    BY <1>0, <1>3, <1>4, UpwardsFrom0
  <2> QED BY <2>1, <1>0
<1>6. g[top] = f[top] + k
  BY <1>5, <1>0
<1> QED BY <1>6 DEF f, g, Merged

RoleExchanges == {"none", "first", "again", "answered", "raised"}
RoleStages == {"FRAME", "DECOMPOSE", "REVIEW", "CRITIQUE", "RESOLVE", "SYNTHESIZE"} \cup Over

RolesTypeOK ==
    /\ stage \in RoleStages
    /\ accumulates \in BOOLEAN /\ fellBack \in BOOLEAN
    /\ exchange \in [Prompts -> RoleExchanges]
    /\ usage \in [Prompts -> Nat]
    /\ counted \in Nat /\ billed \in Nat /\ reasks \in Nat

\* What the prompts of the stage come to so far: the usage they have, and the first
\* answer once more where a second one will bring it again.
Twice(p) == IF accumulates /\ exchange[p] = "again" THEN 1 ELSE 0
SoFar == [p \in Prompts |-> usage[p] + Twice(p)]

\* Nothing has been lost: no role has raised.
NothingLost == stage # "FAILED" /\ ~fellBack /\ \A p \in Prompts : exchange[p] # "raised"

\* Every answer is in the budget or in what the stage comes to so far.
AllIsBilled ==
    NothingLost => counted + Merged(SoFar) = billed + IF accumulates THEN reasks ELSE 0

\* What a prompt has used goes with what it has been asked.
UsageOfExchange ==
    stage # "FAILED" =>
        \A p \in Prompts : /\ exchange[p] \in {"none", "first"} => usage[p] = 0
                           /\ exchange[p] = "again" => usage[p] = 1
                           /\ p \notin PromptsOf(stage) => exchange[p] = "none"

RolesInv == RolesTypeOK /\ AllIsBilled /\ UsageOfExchange

LEMMA SoFarOK ==
    ASSUME RolesTypeOK
    PROVE  SoFar \in [Prompts -> Nat] /\ \A p \in Prompts : Twice(p) \in {0, 1}
BY DEF RolesTypeOK, SoFar, Twice

LEMMA RolesInitInv == RolesInit => RolesInv
<1> SUFFICES ASSUME RolesInit PROVE RolesInv
  OBVIOUS
<1>0. 0 \in Prompts
  BY RolesAssumption DEF Prompts
<1>1. RolesTypeOK
  BY DEF RolesTypeOK, RolesInit, RoleExchanges, RoleStages
<1>2. UsageOfExchange
  BY <1>0 DEF UsageOfExchange, RolesInit, PromptsOf, Over
<1>3. AllIsBilled
  <2>1. \A p \in Prompts : SoFar[p] = 0
    BY DEF SoFar, Twice, RolesInit
  <2>2. Merged(SoFar) = 0
    BY <2>1, <1>1, SoFarOK, MergedOfNothing
  <2> QED BY <2>2 DEF AllIsBilled, RolesInit
<1> QED BY <1>1, <1>2, <1>3 DEF RolesInv

\* A step of one prompt that adds k to what the stage comes to.
LEMMA PromptAdds ==
    ASSUME RolesTypeOK, RolesTypeOK', NEW p \in Prompts, NEW k \in Nat,
           \A q \in Prompts : q # p => usage'[q] = usage[q] /\ exchange'[q] = exchange[q],
           accumulates' = accumulates,
           usage'[p] + Twice(p)' = usage[p] + Twice(p) + k
    PROVE  Merged(SoFar)' = Merged(SoFar) + k
<1>1. SoFar \in [Prompts -> Nat] /\ SoFar' \in [Prompts -> Nat]
  BY SoFarOK DEF RolesTypeOK, SoFar, Twice
<1>2. SoFar'[p] = SoFar[p] + k
  BY DEF SoFar
<1>3. \A q \in Prompts : q # p => SoFar'[q] = SoFar[q]
  BY DEF SoFar, Twice
<1> DEFINE a == SoFar
           b == SoFar'
<1>4. a \in [Prompts -> Nat] /\ b \in [Prompts -> Nat] /\ b[p] = a[p] + k
      /\ \A q \in Prompts : q # p => b[q] = a[q]
  BY <1>1, <1>2, <1>3
<1>5. Merged(b) = Merged(a) + k
  <2> HIDE DEF a, b
  <2> QED BY <1>4, MergedGrows
<1> QED BY <1>5 DEF Merged, MergedUpTo

LEMMA AskInv ==
    ASSUME RolesInv, NEW s \in RoleStages \ {"FAILED"}, Ask(s),
           specialists' = specialists, accumulates' = accumulates, fellBack' \in BOOLEAN,
           counted' \in Nat, billed' = billed, reasks' = reasks,
           ~fellBack' => NothingLost /\ counted' = counted + Merged(SoFar)
    PROVE  RolesInv'
<1>1. RolesTypeOK'
  BY DEF RolesInv, RolesTypeOK, Ask, RoleExchanges
<1>2. UsageOfExchange'
  BY DEF UsageOfExchange, Ask, PromptsOf
<1>3. AllIsBilled'
  <2>1. SUFFICES ASSUME NothingLost' PROVE counted' + Merged(SoFar)' = billed' + IF accumulates' THEN reasks' ELSE 0
    BY DEF AllIsBilled
  <2>2. NothingLost /\ counted' = counted + Merged(SoFar)
    BY <2>1 DEF NothingLost
  <2> DEFINE b == SoFar'
  <2>3. b \in [Prompts -> Nat] /\ \A p \in Prompts : b[p] = 0
    BY DEF SoFar, Twice, Ask
  <2>4. Merged(b) = 0
    <3> HIDE DEF b
    <3> QED BY <2>3, MergedOfNothing
  <2>5. Merged(SoFar)' = 0
    BY <2>4 DEF Merged, MergedUpTo
  <2>6. counted' = billed + IF accumulates THEN reasks ELSE 0
    BY <2>2 DEF RolesInv, AllIsBilled
  <2> QED BY <2>5, <2>6, <1>1 DEF RolesTypeOK
<1> QED BY <1>1, <1>2, <1>3 DEF RolesInv

LEMMA PromptStepInv ==
    ASSUME RolesInv, NEW p \in Prompts,
           AnswerIsJson(p) \/ Reask(p) \/ ReaskFails(p) \/ RequestFails(p)
    PROVE  RolesInv'
<1> USE DEF RolesInv
<1>1. RolesTypeOK'
  <2> USE DEF RolesTypeOK, RoleExchanges, UsageFromResult
  <2>1. CASE AnswerIsJson(p)
    BY <2>1 DEF AnswerIsJson, Answered
  <2>2. CASE Reask(p)
    BY <2>2 DEF Reask
  <2>3. CASE ReaskFails(p)
    BY <2>3 DEF ReaskFails
  <2>4. CASE RequestFails(p)
    BY <2>4 DEF RequestFails
  <2> QED BY <2>1, <2>2, <2>3, <2>4
<1>2. UsageOfExchange'
  <2> USE DEF RolesTypeOK, UsageOfExchange, UsageFromResult
  <2>0. stage' = stage /\ specialists' = specialists
    BY DEF AnswerIsJson, Reask, ReaskFails, RequestFails
  <2>1. CASE AnswerIsJson(p)
    BY <2>0, <2>1 DEF AnswerIsJson, Answered, PromptsOf
  <2>2. CASE Reask(p)
    BY <2>0, <2>2 DEF Reask, PromptsOf
  <2>3. CASE ReaskFails(p)
    BY <2>0, <2>3 DEF ReaskFails, PromptsOf
  <2>4. CASE RequestFails(p)
    BY <2>0, <2>4 DEF RequestFails, PromptsOf
  <2> QED BY <2>1, <2>2, <2>3, <2>4
<1>3. AllIsBilled'
  <2>1. CASE AnswerIsJson(p) \/ Reask(p)
    <3> DEFINE k == IF accumulates /\ Reask(p) THEN 2 ELSE 1
    <3>1. \A q \in Prompts : q # p => usage'[q] = usage[q] /\ exchange'[q] = exchange[q]
      BY <2>1 DEF AnswerIsJson, Answered, Reask, RolesTypeOK
    <3>2. accumulates' = accumulates /\ counted' = counted /\ billed' = billed + 1 /\ stage' = stage
          /\ fellBack' = fellBack /\ (NothingLost' => NothingLost)
      <4>1. accumulates' = accumulates /\ counted' = counted /\ billed' = billed + 1 /\ stage' = stage
            /\ fellBack' = fellBack
        BY <2>1 DEF AnswerIsJson, Reask
      <4>2. exchange[p] # "raised"
        BY <2>1 DEF AnswerIsJson, Answered, Reask
      <4> QED BY <3>1, <4>1, <4>2 DEF NothingLost
    <3>3. CASE NothingLost'
      <4>0. NothingLost /\ stage # "FAILED"
        BY <3>2, <3>3 DEF NothingLost
      <4>1. CASE Reask(p)
        <5>1. exchange[p] = "first" /\ exchange'[p] = "again" /\ usage'[p] = 1 /\ usage[p] = 0
              /\ reasks' = reasks + 1
          BY <4>0, <4>1 DEF Reask, RolesTypeOK, UsageFromResult, UsageOfExchange
        <5>2. usage'[p] + Twice(p)' = usage[p] + Twice(p) + (IF accumulates THEN 2 ELSE 1)
          BY <5>1, <3>2 DEF Twice
        <5>3. Merged(SoFar)' = Merged(SoFar) + (IF accumulates THEN 2 ELSE 1)
          <6>1. (IF accumulates THEN 2 ELSE 1) \in Nat
            OBVIOUS
          <6> QED BY <5>2, <6>1, <3>1, <3>2, <1>1, PromptAdds
        <5>4. Merged(SoFar) \in Nat
          BY SoFarOK, MergedIsDefined, RolesAssumption DEF Merged
        <5>5. counted + Merged(SoFar) = billed + IF accumulates THEN reasks ELSE 0
          BY <4>0 DEF AllIsBilled
        <5> QED BY <5>1, <5>3, <5>4, <5>5, <3>2 DEF AllIsBilled, RolesTypeOK
      <4>2. CASE AnswerIsJson(p)
        <5>1. exchange'[p] = "answered" /\ reasks' = reasks
          BY <4>2 DEF AnswerIsJson, RolesTypeOK
        <5>2. usage'[p] + Twice(p)' = usage[p] + Twice(p) + 1
          <6>1. CASE exchange[p] = "first"
            BY <6>1, <4>0, <4>2, <5>1 DEF AnswerIsJson, Answered, RolesTypeOK, UsageFromResult, UsageOfExchange, Twice
          <6>2. CASE exchange[p] = "again"
            BY <6>2, <4>0, <4>2, <5>1 DEF AnswerIsJson, Answered, RolesTypeOK, UsageFromResult, UsageOfExchange, Twice
          <6> QED BY <6>1, <6>2, <4>2 DEF AnswerIsJson, Answered
        <5>3. Merged(SoFar)' = Merged(SoFar) + 1
          <6>1. 1 \in Nat
            OBVIOUS
          <6> QED BY <5>2, <6>1, <3>1, <3>2, <1>1, PromptAdds
        <5>4. Merged(SoFar) \in Nat
          BY SoFarOK, MergedIsDefined, RolesAssumption DEF Merged
        <5>5. counted + Merged(SoFar) = billed + IF accumulates THEN reasks ELSE 0
          BY <4>0 DEF AllIsBilled
        <5> QED BY <5>1, <5>3, <5>4, <5>5, <3>2 DEF AllIsBilled, RolesTypeOK
      <4> QED BY <2>1, <4>1, <4>2
    <3> QED BY <3>3 DEF AllIsBilled
  <2>2. CASE ReaskFails(p) \/ RequestFails(p)
    <3>1. exchange'[p] = "raised"
      BY <2>2 DEF ReaskFails, RequestFails, RolesTypeOK
    <3> QED BY <3>1 DEF AllIsBilled, NothingLost
  <2> QED BY <2>1, <2>2
<1> QED BY <1>1, <1>2, <1>3

\* A stage that returns has lost nothing of its own, and hands over what it came to.
LEMMA ReturnsCounts ==
    ASSUME RolesInv, NEW s \in RoleStages \ {"FAILED"}, Returns(s)
    PROVE  /\ counted' \in Nat
           /\ ~fellBack => NothingLost /\ counted' = counted + Merged(SoFar)
<1> USE DEF RolesInv
<1>1. \A p \in Prompts : exchange[p] \in {"answered", "none"}
  BY DEF Returns, UsageOfExchange
<1>2. SoFar = usage
  <2>1. \A p \in Prompts : Twice(p) = 0
    BY <1>1 DEF Twice
  <2>2. \A p \in Prompts : usage[p] + Twice(p) = usage[p]
    BY <2>1 DEF RolesTypeOK
  <2> QED BY <2>2 DEF SoFar, RolesTypeOK
<1>3. Merged(usage) \in Nat
  BY MergedIsDefined, RolesAssumption DEF Merged, RolesTypeOK
<1> QED BY <1>1, <1>2, <1>3 DEF Returns, RolesTypeOK, NothingLost

LEMMA RolesNextInv == RolesInv /\ [RolesNext]_roleVars => RolesInv'
<1> SUFFICES ASSUME RolesInv, [RolesNext]_roleVars PROVE RolesInv'
  OBVIOUS
<1>1. ASSUME NEW p \in Prompts, AnswerIsJson(p) \/ Reask(p) \/ ReaskFails(p) \/ RequestFails(p)
      PROVE RolesInv'
  BY <1>1, PromptStepInv
<1>2. ASSUME NEW s \in RoleStages \ {"FAILED"}, NEW t \in RoleStages \ {"FAILED"}, Returns(s), Ask(t)
      PROVE RolesInv'
  <2>1. specialists' = specialists /\ accumulates' = accumulates /\ fellBack' = fellBack
        /\ billed' = billed /\ reasks' = reasks
    BY <1>2 DEF Returns
  <2>2. counted' \in Nat /\ (~fellBack => NothingLost /\ counted' = counted + Merged(SoFar))
    BY <1>2, ReturnsCounts
  <2>3. fellBack' \in BOOLEAN
    BY <2>1 DEF RolesInv, RolesTypeOK
  <2>4. ~fellBack' => NothingLost /\ counted' = counted + Merged(SoFar)
    BY <2>1, <2>2
  <2> QED BY <1>2, <2>1, <2>2, <2>3, <2>4, AskInv
<1>3. ASSUME NEW s \in RoleStages \ {"FAILED"}, NEW to \in SUBSET (RoleStages \ {"FAILED"}), Returns(s), OnTo(to)
      PROVE RolesInv'
  <2>1. \E t \in RoleStages \ {"FAILED"} : Ask(t)
    BY <1>3 DEF OnTo, RoleStages, Over
  <2> QED BY <1>2, <1>3, <2>1
<1>4. ASSUME FrameReturns \/ DecomposeReturns \/ ReviewReturns \/ CritiqueReturns
             \/ ResolveReturns \/ SynthesizeReturns
      PROVE RolesInv'
  <2>1. CASE FrameReturns
    BY <2>1, <1>2 DEF FrameReturns, RoleStages, Over
  <2>2. CASE DecomposeReturns
    <3>1. {"REVIEW"} \in SUBSET (RoleStages \ {"FAILED"}) /\ "DECOMPOSE" \in RoleStages \ {"FAILED"}
      BY DEF RoleStages, Over
    <3> QED BY <2>2, <3>1, <1>3 DEF DecomposeReturns
  <2>3. CASE ReviewReturns
    <3>1. {"CRITIQUE"} \in SUBSET (RoleStages \ {"FAILED"}) /\ "REVIEW" \in RoleStages \ {"FAILED"}
      BY DEF RoleStages, Over
    <3> QED BY <2>3, <3>1, <1>3 DEF ReviewReturns
  <2>4. CASE CritiqueReturns
    <3>1. {"RESOLVE"} \in SUBSET (RoleStages \ {"FAILED"}) /\ "CRITIQUE" \in RoleStages \ {"FAILED"}
      BY DEF RoleStages, Over
    <3> QED BY <2>4, <3>1, <1>3 DEF CritiqueReturns
  <2>5. CASE ResolveReturns
    <3>1. {} \in SUBSET (RoleStages \ {"FAILED"}) /\ "RESOLVE" \in RoleStages \ {"FAILED"}
      BY DEF RoleStages, Over
    <3> QED BY <2>5, <3>1, <1>3 DEF ResolveReturns
  <2>6. CASE SynthesizeReturns
    BY <2>6, <1>2 DEF SynthesizeReturns, RoleStages, Over
  <2> QED BY <1>4, <2>1, <2>2, <2>3, <2>4, <2>5, <2>6
<1>5. ASSUME FallbackSynthesis PROVE RolesInv'
  <2>1. "COMPLETE" \in RoleStages \ {"FAILED"}
    BY DEF RoleStages, Over
  <2>2. /\ specialists' = specialists /\ accumulates' = accumulates /\ fellBack' \in BOOLEAN /\ fellBack'
        /\ counted' \in Nat /\ billed' = billed /\ reasks' = reasks /\ Ask("COMPLETE")
    BY <1>5 DEF FallbackSynthesis, RolesInv, RolesTypeOK
  <2> QED BY <2>1, <2>2, AskInv
<1>6. ASSUME StageFails PROVE RolesInv'
  <2>1. RolesTypeOK' /\ stage' = "FAILED"
    BY <1>6 DEF StageFails, RolesInv, RolesTypeOK, RoleStages, Over
  <2> QED BY <2>1 DEF RolesInv, AllIsBilled, NothingLost, UsageOfExchange
<1>7. ASSUME LoopCloses PROVE RolesInv'
  <2>1. RolesTypeOK' /\ stage' = "FAILED"
    BY <1>7 DEF LoopCloses, RolesInv, RolesTypeOK, RoleExchanges
  <2> QED BY <2>1 DEF RolesInv, AllIsBilled, NothingLost, UsageOfExchange
<1>8. ASSUME StopRun \/ UNCHANGED roleVars PROVE RolesInv'
  <2>1. UNCHANGED <<stage, specialists, accumulates, exchange, usage, counted, billed, reasks, fellBack>>
    BY <1>8 DEF StopRun, roleVars
  <2> QED BY <2>1 DEF RolesInv, RolesTypeOK, AllIsBilled, NothingLost, UsageOfExchange, PromptsOf,
                      SoFar, Twice, Merged, MergedUpTo
<1> QED BY <1>1, <1>4, <1>5, <1>6, <1>7, <1>8 DEF RolesNext

\* A run that ends well has counted every answer it was billed, a question asked twice
\* and the critics that ask together included, and no other answer twice than the first
\* one of a question asked again: for any number of critics.
THEOREM UsageAlwaysWhole == RolesSpec => []UsageIsWhole
<1>1. RolesInv => UsageIsWhole
  <2> SUFFICES ASSUME RolesInv, stage \in {"COMPLETE", "CANCELLED"}, ~fellBack
               PROVE counted = billed + IF accumulates THEN reasks ELSE 0
    BY DEF UsageIsWhole
  <2>1. \A p \in Prompts : exchange[p] = "none" /\ usage[p] = 0
    BY DEF RolesInv, UsageOfExchange, PromptsOf, Over
  <2>2. Merged(SoFar) = 0
    <3>1. \A p \in Prompts : SoFar[p] = 0
      BY <2>1 DEF SoFar, Twice
    <3> QED BY <3>1, SoFarOK, MergedOfNothing DEF RolesInv
  <2>3. NothingLost
    BY <2>1 DEF NothingLost
  <2> QED BY <2>2, <2>3 DEF RolesInv, AllIsBilled, RolesTypeOK
<1> QED BY <1>1, RolesInitInv, RolesNextInv, PTL DEF RolesSpec
=============================================================================
