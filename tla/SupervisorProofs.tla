-------------------------- MODULE SupervisorProofs --------------------------
(***************************************************************************)
(* Safety of Supervisor for any callers, runs, shutdowns, processes and    *)
(* pipe capacity.  The inductive invariant IInv strengthens NoLostWaiter:  *)
(* that a waiting caller has an entry is only preserved because the reader *)
(* that takes an entry out still holds its line (TrackHead), because a     *)
(* live process has a reader that has not reached the end of its pipe      *)
(* (LiveReader) and is the one in the slot (NoOrphan), and because a       *)
(* caller on its way to write has not lost its entry unanswered            *)
(* (OpenRequests).  From it follows also that the supervisor implements    *)
(* AtMostOnceCall.                                                         *)
(***************************************************************************)
EXTENDS Supervisor, SequenceTheorems, TLAPS

USE DEF hostVars, mapVars, taskVars, stdinVars, sidecarVars

\* A reader between the two statements of route_incoming_line holds the line
\* of a run at the head of its pipe, whose entry it has taken out.
TrackHead ==
    \A p \in Procs :
        reader[p] = "track" =>
            /\ out[p] # << >>
            /\ Head(out[p]).id \in Runs
            /\ Head(out[p]).id \notin pending
            /\ task[Head(out[p]).id] \in {"write", "flush", "wait", "done", "dropped"}

\* A process that runs has a reader that reads it.
LiveReader == \A p \in Procs : p \in alive => reader[p] \in {"read", "track", "lock"}

\* The oneshot of a pending request is empty; one about to be written has not
\* lost its entry without an answer; one that waits was written.
OpenRequests ==
    \A i \in Ids :
        /\ i \in pending /\ task[i] \in {"write", "flush", "wait"} => box[i] = NoReply
        /\ task[i] \in {"write", "flush"} /\ box[i] = NoReply =>
               i \in pending \/ BeingTracked(i)
        /\ task[i] = "wait" => home[i] \in Procs

IInv ==
    /\ TypeOK
    /\ TrackHead
    /\ NoOrphan
    /\ LiveReader
    /\ PendingOwned
    /\ OpenRequests
    /\ NoLostWaiter

LEMMA LineFacts ==
    ASSUME TypeOK, NEW p \in Procs, out[p] # << >>
    PROVE  /\ Head(out[p]) \in Lines
           /\ Head(out[p]).id \in Ids
           /\ Head(out[p]).kind \in LineKinds
           /\ Head(out[p]).kind # "reply" => Head(out[p]).id \in Requests
           /\ Tail(out[p]) \in Seq(Lines)
<1>1. out[p] \in Seq(Lines)
  BY DEF TypeOK
<1>2. Head(out[p]) \in Lines /\ Tail(out[p]) \in Seq(Lines)
  BY <1>1, HeadTailProperties
<1> QED
  BY <1>2 DEF Lines, Ids, LineKinds

LEMMA EmitFacts ==
    ASSUME TypeOK, NEW p \in Procs, NEW i, NEW k, [id |-> i, kind |-> k] \in Lines,
           Emit(p, i, k)
    PROVE  /\ out' \in [Procs -> Seq(Lines)]
           /\ p \in alive
           /\ \A q \in Procs : out[q] # << >> =>
                  out'[q] # << >> /\ Head(out'[q]) = Head(out[q])
<1>1. out \in [Procs -> Seq(Lines)]
  BY DEF TypeOK
<1>2. Append(out[p], [id |-> i, kind |-> k]) \in Seq(Lines)
  BY <1>1, AppendProperties
<1>3. out[p] # << >> =>
        /\ Append(out[p], [id |-> i, kind |-> k]) # << >>
        /\ Head(Append(out[p], [id |-> i, kind |-> k])) = Head(out[p])
  BY <1>1
<1> QED
  BY <1>1, <1>2, <1>3 DEF Emit

LEMMA TypeInit == Init => TypeOK
<1> SUFFICES ASSUME Init PROVE TypeOK
  OBVIOUS
<1>1. << >> \in Seq(Lines)
  OBVIOUS
<1> QED
  BY <1>1 DEF Init, TypeOK, Ids, NoProc, Free, NoReply, CallerPcs, StopperPcs,
              ReaderPcs, States

LEMMA TypeStep == TypeOK /\ TrackHead /\ [Next]_vars => TypeOK'
<1> SUFFICES ASSUME TypeOK, TrackHead, [Next]_vars PROVE TypeOK'
  OBVIOUS
<1> USE DEF TypeOK, Goto, NoReply, NoProc, Free, CallerPcs, StopperPcs,
            ReaderPcs, States, Outcomes, LineKinds
<1>1. ASSUME NEW r \in Requests, Call(r) PROVE TypeOK'
  BY <1>1 DEF Call, Ids
<1>2. ASSUME NEW r \in Requests, CallerStep(r) PROVE TypeOK'
  <2> r \in Ids BY DEF Ids
  <2>1. CASE ReuseChild(r) BY <2>1 DEF ReuseChild
  <2>2. CASE SpawnChild(r) BY <2>2 DEF SpawnChild, Unspawned
  <2>3. CASE SpawnFails(r) BY <2>3 DEF SpawnFails
  <2>4. CASE MarkRunning(r) BY <2>4 DEF MarkRunning
  <2>5. CASE InsertPending(r) BY <2>5 DEF InsertPending
  <2>6. CASE TakeStdin(r) BY <2>6 DEF TakeStdin
  <2>7. CASE WriteFails(r) BY <2>7 DEF WriteFails, RoundTripEnds
  <2>8. CASE TakeReply(r) BY <2>8 DEF TakeReply, RoundTripEnds
  <2> QED BY <1>2, <2>1, <2>2, <2>3, <2>4, <2>5, <2>6, <2>7, <2>8 DEF CallerStep
<1>3. ASSUME NEW r \in Leaving, Drop(r) PROVE TypeOK'
  BY <1>3, IdsAssumption DEF Drop, Ids, Requests
<1>4. ASSUME NEW i \in Ids, WriteLine(i) \/ Timeout(i) PROVE TypeOK'
  <2>1. CASE WriteLine(i) BY <2>1 DEF WriteLine
  <2>2. CASE Timeout(i) BY <2>2 DEF Timeout, RoundTripEnds
  <2> QED BY <1>4, <2>1, <2>2
<1>5. ASSUME NEW w \in Watchdog, WatchdogFires(w) \/ WatchdogChecks(w)
      PROVE  TypeOK'
  BY <1>5, SMTT(30) DEF WatchdogFires, WatchdogChecks, Ids, Stoppers
<1>6. ASSUME NEW h \in Hosts, HostExits(h) PROVE TypeOK'
  BY <1>6 DEF HostExits, Ids, Stoppers
<1>7. ASSUME NEW s \in Stoppers, StopperStep(s) PROVE TypeOK'
  <2> s \in Ids BY DEF Ids
  <2> USE DEF AfterShutdown, RoundTripEnds
  <2>1. CASE EnterShutdown(s) BY <2>1 DEF EnterShutdown
  <2>2. CASE InsertPending(s) BY <2>2 DEF InsertPending
  <2>3. CASE TakeStdin(s) BY <2>3 DEF TakeStdin
  <2>4. CASE WriteFails(s) BY <2>4 DEF WriteFails
  <2>5. CASE TakeReply(s) BY <2>5 DEF TakeReply
  <2>6. CASE TakeChild(s) BY <2>6 DEF TakeChild, ProcessEnds
  <2>7. CASE ClearPid(s) BY <2>7 DEF ClearPid
  <2>8. CASE ShutdownDrains(s) BY <2>8 DEF ShutdownDrains, FailAllPending, Deliver
  <2>9. CASE ShutdownCloses(s) BY <2>9 DEF ShutdownCloses, FailActiveStreams
  <2> QED
    BY <1>7, <2>1, <2>2, <2>3, <2>4, <2>5, <2>6, <2>7, <2>8, <2>9 DEF StopperStep
<1>8. ASSUME NEW p \in Procs, ReaderStep(p) PROVE TypeOK'
  <2> USE DEF ReaderAt, ReaderGoto, PopLine, Deliver
  <2>1. CASE AnswerPending(p) BY <2>1, LineFacts, ZenonT(40) DEF AnswerPending
  <2>2. CASE TrackStream(p)
    BY <2>2, LineFacts DEF TrackStream, TrackHead, Requests
  <2>3. CASE BroadcastLine(p)
    BY <2>3, LineFacts DEF BroadcastLine, StreamsAfter
  <2>4. CASE Eof(p) BY <2>4 DEF Eof
  <2>5. CASE ReleaseSlot(p) BY <2>5 DEF ProcessEnds, ReleaseSlot
  <2>6. CASE ReaderClearsPid(p) BY <2>6 DEF ReaderClearsPid
  <2>7. CASE ReaderSetsState(p) BY <2>7 DEF ReaderSetsState
  <2>8. CASE ReaderDrains(p) BY <2>8 DEF ReaderDrains, FailAllPending
  <2>9. CASE ReaderCloses(p) BY <2>9 DEF ReaderCloses, FailActiveStreams
  <2> QED
    BY <1>8, <2>1, <2>2, <2>3, <2>4, <2>5, <2>6, <2>7, <2>8, <2>9 DEF ReaderStep
<1>9. ASSUME NEW p \in Procs, SidecarStep(p) PROVE TypeOK'
  <2>1. \A r \in Requests, k \in LineKinds : [id |-> r, kind |-> k] \in Lines
    BY DEF Lines
  <2>2. ASSUME NEW r \in Requests, SidecarReplies(p, r) PROVE TypeOK'
    BY <2>1, <2>2, EmitFacts DEF Reads, SidecarReplies
  <2>3. ASSUME NEW r \in Runs, SidecarStartsRun(p, r) PROVE TypeOK'
    BY <2>3 DEF Reads, SidecarStartsRun
  <2>4. ASSUME NEW r \in Runs, SidecarAcksRun(p, r) PROVE TypeOK'
    BY <2>1, <2>4, EmitFacts DEF SidecarAcksRun, Requests
  <2>5. ASSUME NEW r \in Runs, RunEmits(p, r) PROVE TypeOK'
    BY <2>1, <2>5, EmitFacts DEF RunEmits, Requests
  <2>6. ASSUME NEW s \in Stoppers, SidecarStops(p, s) PROVE TypeOK'
    <3>1. [id |-> s, kind |-> "reply"] \in Lines
      BY DEF Lines
    <3> QED BY <2>6, <3>1, EmitFacts DEF Reads, SidecarStops, ProcessEnds
  <2>7. CASE SidecarCrashes(p) BY <2>7 DEF SidecarCrashes, ProcessEnds
  <2> QED BY <1>9, <2>2, <2>3, <2>4, <2>5, <2>6, <2>7 DEF SidecarStep
<1>10. CASE UNCHANGED vars
  BY <1>10 DEF vars
<1> QED
  BY <1>1, <1>2, <1>3, <1>4, <1>5, <1>6, <1>7, <1>8, <1>9, <1>10 DEF Next

LEMMA InvStep == IInv /\ [Next]_vars => IInv'
<1> SUFFICES ASSUME IInv, [Next]_vars
             PROVE  TrackHead' /\ NoOrphan' /\ LiveReader' /\ PendingOwned'
                        /\ OpenRequests' /\ NoLostWaiter'
  BY TypeStep DEF IInv
<1> TypeOK'
  BY TypeStep DEF IInv
<1> DEFINE Goal == TrackHead' /\ NoOrphan' /\ LiveReader' /\ PendingOwned'
                        /\ OpenRequests' /\ NoLostWaiter'
<1> USE DEF IInv, TypeOK, Goto, NoReply, NoProc, Free
<1>0. ASSUME NEW i \in Ids, WriteLine(i) PROVE Goal
  <2>0. /\ task[i] = "flush" /\ task' = [task EXCEPT ![i] = "wait"]
        /\ slot \in alive /\ slot \in Procs /\ home' = [home EXCEPT ![i] = slot]
        /\ UNCHANGED <<slot, reader, alive, out, pending, box>>
    BY <1>0 DEF WriteLine
  <2>1. TrackHead'
    BY <2>0 DEF TrackHead
  <2>2. NoOrphan' /\ LiveReader'
    BY <2>0 DEF NoOrphan, LiveReader
  <2>3. \A j \in Ids : BeingTracked(j) => BeingTracked(j)'
    BY <2>0 DEF BeingTracked
  <2>4. \A q \in Procs : CleanupDue(q) => CleanupDue(q)'
    BY <2>0 DEF CleanupDue
  <2>5. PendingOwned'
    BY <2>0 DEF PendingOwned
  <2>6. OpenRequests'
    BY <2>0, <2>3 DEF OpenRequests
  <2>7. NoLostWaiter'
    BY <2>0, <2>3, <2>4 DEF NoLostWaiter, OpenRequests
  <2> QED BY <2>1, <2>2, <2>5, <2>6, <2>7
<1>1. ASSUME NEW r \in Requests, Call(r) \/ Drop(r) \/ CallerStep(r) PROVE Goal
  <2> r \in Ids BY DEF Ids
  <2>1. CASE Call(r)
    <3>1. TrackHead'
      BY <2>1 DEF Call, TrackHead
    <3>2. NoOrphan' /\ LiveReader'
      BY <2>1 DEF Call, NoOrphan, LiveReader
    <3>3. \A j \in Ids : BeingTracked(j) => BeingTracked(j)'
      BY <2>1 DEF Call, BeingTracked
    <3>4. \A q \in Procs : CleanupDue(q) => CleanupDue(q)'
      BY <2>1 DEF Call, CleanupDue
    <3>5. PendingOwned'
      BY <2>1 DEF Call, PendingOwned
    <3>6. OpenRequests'
      BY <2>1, <3>3 DEF Call, OpenRequests, PendingOwned
    <3>7. NoLostWaiter'
      BY <2>1, <3>3, <3>4 DEF Call, NoLostWaiter, OpenRequests
    <3> QED BY <3>1, <3>2, <3>5, <3>6, <3>7
  <2>2. CASE Drop(r)
    <3>1. TrackHead'
      BY <2>2 DEF Drop, TrackHead
    <3>2. NoOrphan' /\ LiveReader'
      BY <2>2 DEF Drop, NoOrphan, LiveReader
    <3>3. \A j \in Ids : BeingTracked(j) => BeingTracked(j)'
      BY <2>2 DEF Drop, BeingTracked
    <3>4. \A q \in Procs : CleanupDue(q) => CleanupDue(q)'
      BY <2>2 DEF Drop, CleanupDue
    <3>5. PendingOwned'
      BY <2>2 DEF Drop, PendingOwned
    <3>6. OpenRequests'
      BY <2>2, <3>3 DEF Drop, OpenRequests, PendingOwned
    <3>7. NoLostWaiter'
      BY <2>2, <3>3, <3>4 DEF Drop, NoLostWaiter, OpenRequests
    <3> QED BY <3>1, <3>2, <3>5, <3>6, <3>7
  <2>3. CASE ReuseChild(r)
    <3>1. TrackHead'
      BY <2>3 DEF ReuseChild, TrackHead
    <3>2. NoOrphan' /\ LiveReader'
      BY <2>3 DEF ReuseChild, NoOrphan, LiveReader
    <3>3. \A j \in Ids : BeingTracked(j) => BeingTracked(j)'
      BY <2>3 DEF ReuseChild, BeingTracked
    <3>4. \A q \in Procs : CleanupDue(q) => CleanupDue(q)'
      BY <2>3 DEF ReuseChild, CleanupDue
    <3>5. PendingOwned'
      BY <2>3 DEF ReuseChild, PendingOwned
    <3>6. OpenRequests'
      BY <2>3, <3>3 DEF ReuseChild, OpenRequests, PendingOwned
    <3>7. NoLostWaiter'
      BY <2>3, <3>3, <3>4 DEF ReuseChild, NoLostWaiter, OpenRequests
    <3> QED BY <3>1, <3>2, <3>5, <3>6, <3>7
  <2>4. CASE SpawnChild(r)
    <3>10. PICK p \in Procs :
              /\ reader[p] = "off" /\ reader' = [reader EXCEPT ![p] = "read"]
              /\ slot' = p /\ alive' = alive \cup {p}
      BY <2>4 DEF SpawnChild, Unspawned
    <3>11. /\ slot = NoProc /\ NoProc \notin Procs
           /\ task[r] = "spawn" /\ task' = [task EXCEPT ![r] = "mark"]
           /\ UNCHANGED <<pending, box, out, home>>
      BY <2>4, BoundsAssumption DEF SpawnChild, CanSpawn, Procs
    <3>1. TrackHead'
      BY <3>10, <3>11 DEF TrackHead
    <3>2. NoOrphan' /\ LiveReader'
      BY <3>10, <3>11 DEF NoOrphan, LiveReader
    <3>3. \A j \in Ids : BeingTracked(j) => BeingTracked(j)'
      BY <3>10, <3>11 DEF BeingTracked
    <3>4. \A q \in Procs : CleanupDue(q) => CleanupDue(q)'
      BY <3>10, <3>11 DEF CleanupDue
    <3>5. PendingOwned'
      BY <3>10, <3>11 DEF PendingOwned
    <3>6. OpenRequests'
      BY <3>10, <3>11, <3>3 DEF OpenRequests, PendingOwned
    <3>7. NoLostWaiter'
      BY <3>10, <3>11, <3>3, <3>4 DEF NoLostWaiter, OpenRequests
    <3> QED BY <3>1, <3>2, <3>5, <3>6, <3>7
  <2>5. CASE SpawnFails(r)
    <3>1. TrackHead'
      BY <2>5 DEF SpawnFails, CanSpawn, TrackHead
    <3>2. NoOrphan' /\ LiveReader'
      BY <2>5 DEF SpawnFails, CanSpawn, NoOrphan, LiveReader
    <3>3. \A j \in Ids : BeingTracked(j) => BeingTracked(j)'
      BY <2>5 DEF SpawnFails, CanSpawn, BeingTracked
    <3>4. \A q \in Procs : CleanupDue(q) => CleanupDue(q)'
      BY <2>5 DEF SpawnFails, CanSpawn, CleanupDue
    <3>5. PendingOwned'
      BY <2>5 DEF SpawnFails, CanSpawn, PendingOwned
    <3>6. OpenRequests'
      BY <2>5, <3>3 DEF SpawnFails, CanSpawn, OpenRequests, PendingOwned
    <3>7. NoLostWaiter'
      BY <2>5, <3>3, <3>4 DEF SpawnFails, CanSpawn, NoLostWaiter, OpenRequests
    <3> QED BY <3>1, <3>2, <3>5, <3>6, <3>7
  <2>6. CASE MarkRunning(r)
    <3>1. TrackHead'
      BY <2>6 DEF MarkRunning, TrackHead
    <3>2. NoOrphan' /\ LiveReader'
      BY <2>6 DEF MarkRunning, NoOrphan, LiveReader
    <3>3. \A j \in Ids : BeingTracked(j) => BeingTracked(j)'
      BY <2>6 DEF MarkRunning, BeingTracked
    <3>4. \A q \in Procs : CleanupDue(q) => CleanupDue(q)'
      BY <2>6 DEF MarkRunning, CleanupDue
    <3>5. PendingOwned'
      BY <2>6 DEF MarkRunning, PendingOwned
    <3>6. OpenRequests'
      BY <2>6, <3>3 DEF MarkRunning, OpenRequests, PendingOwned
    <3>7. NoLostWaiter'
      BY <2>6, <3>3, <3>4 DEF MarkRunning, NoLostWaiter, OpenRequests
    <3> QED BY <3>1, <3>2, <3>5, <3>6, <3>7
  <2>7. CASE InsertPending(r)
    <3>1. TrackHead'
      BY <2>7 DEF InsertPending, TrackHead
    <3>2. NoOrphan' /\ LiveReader'
      BY <2>7 DEF InsertPending, NoOrphan, LiveReader
    <3>3. \A j \in Ids : BeingTracked(j) => BeingTracked(j)'
      BY <2>7 DEF InsertPending, BeingTracked
    <3>4. \A q \in Procs : CleanupDue(q) => CleanupDue(q)'
      BY <2>7 DEF InsertPending, CleanupDue
    <3>5. PendingOwned'
      BY <2>7 DEF InsertPending, PendingOwned
    <3>6. OpenRequests'
      BY <2>7, <3>3 DEF InsertPending, OpenRequests, PendingOwned
    <3>7. NoLostWaiter'
      BY <2>7, <3>3, <3>4 DEF InsertPending, NoLostWaiter, OpenRequests
    <3> QED BY <3>1, <3>2, <3>5, <3>6, <3>7
  <2>8. CASE TakeStdin(r)
    <3>1. TrackHead'
      BY <2>8 DEF TakeStdin, TrackHead
    <3>2. NoOrphan' /\ LiveReader'
      BY <2>8 DEF TakeStdin, NoOrphan, LiveReader
    <3>3. \A j \in Ids : BeingTracked(j) => BeingTracked(j)'
      BY <2>8 DEF TakeStdin, BeingTracked
    <3>4. \A q \in Procs : CleanupDue(q) => CleanupDue(q)'
      BY <2>8 DEF TakeStdin, CleanupDue
    <3>5. PendingOwned'
      BY <2>8 DEF TakeStdin, PendingOwned
    <3>6. OpenRequests'
      BY <2>8, <3>3 DEF TakeStdin, OpenRequests, PendingOwned
    <3>7. NoLostWaiter'
      BY <2>8, <3>3, <3>4 DEF TakeStdin, NoLostWaiter, OpenRequests
    <3> QED BY <3>1, <3>2, <3>5, <3>6, <3>7
  <2>9. CASE WriteFails(r)
    <3>10. /\ task' = [task EXCEPT ![r] = "done"]
           /\ task[r] \in {"write", "flush"}
           /\ UNCHANGED <<slot, reader, alive, out, home>>
           /\ pending' = pending \ {r}
           /\ \A j \in Ids : j # r => box'[j] = box[j]
      BY <2>9 DEF WriteFails, RoundTripEnds, OpenRequests
    <3>1. TrackHead'
      BY <3>10 DEF Requests, TrackHead
    <3>2. NoOrphan' /\ LiveReader'
      BY <3>10 DEF Requests, NoOrphan, LiveReader
    <3>3. \A j \in Ids : BeingTracked(j) => BeingTracked(j)'
      BY <3>10 DEF Requests, BeingTracked
    <3>4. \A q \in Procs : CleanupDue(q) => CleanupDue(q)'
      BY <3>10 DEF Requests, CleanupDue
    <3>5. PendingOwned'
      BY <3>10 DEF Requests, PendingOwned
    <3>6. OpenRequests'
      BY <3>10, <3>3 DEF Requests, OpenRequests, PendingOwned
    <3>7. NoLostWaiter'
      BY <3>10, <3>3, <3>4 DEF Requests, NoLostWaiter, OpenRequests
    <3> QED BY <3>1, <3>2, <3>5, <3>6, <3>7
  <2>10. CASE TakeReply(r)
    <3>10. /\ task' = [task EXCEPT ![r] = "done"]
           /\ task[r] = "wait"
           /\ UNCHANGED <<slot, held, reader, alive, out, home>>
           /\ UNCHANGED pending /\ r \notin pending
           /\ \A j \in Ids : j # r => box'[j] = box[j]
      BY <2>10 DEF TakeReply, RoundTripEnds, OpenRequests
    <3>1. TrackHead'
      BY <3>10 DEF Requests, TrackHead
    <3>2. NoOrphan' /\ LiveReader'
      BY <3>10 DEF Requests, NoOrphan, LiveReader
    <3>3. \A j \in Ids : BeingTracked(j) => BeingTracked(j)'
      BY <3>10 DEF Requests, BeingTracked
    <3>4. \A q \in Procs : CleanupDue(q) => CleanupDue(q)'
      BY <3>10 DEF Requests, CleanupDue
    <3>5. PendingOwned'
      BY <3>10 DEF Requests, PendingOwned
    <3>6. OpenRequests'
      BY <3>10, <3>3 DEF Requests, OpenRequests, PendingOwned
    <3>7. NoLostWaiter'
      BY <3>10, <3>3, <3>4 DEF Requests, NoLostWaiter, OpenRequests
    <3> QED BY <3>1, <3>2, <3>5, <3>6, <3>7
  <2> QED
    BY <1>1, <2>1, <2>2, <2>3, <2>4, <2>5, <2>6, <2>7, <2>8, <2>9, <2>10 DEF CallerStep
<1>2. ASSUME NEW i \in Ids, Timeout(i) PROVE Goal
  <2>1. TrackHead'
    BY <1>2, IdsAssumption, LineFacts DEF Timeout, RoundTripEnds, TrackHead, Requests, Stoppers
  <2>2. NoOrphan' /\ LiveReader'
    BY <1>2 DEF Timeout, RoundTripEnds, NoOrphan, LiveReader
  <2>3. \A j \in Ids : BeingTracked(j) => BeingTracked(j)'
    BY <1>2 DEF Timeout, RoundTripEnds, BeingTracked
  <2>4. \A q \in Procs : CleanupDue(q) => CleanupDue(q)'
    <3>1. PICK pc : pc \in {"done", "take"} /\ task' = [task EXCEPT ![i] = pc]
      BY <1>2 DEF Timeout, RoundTripEnds
    <3> QED BY <1>2, <3>1 DEF Timeout, CleanupDue
  <2>5. PendingOwned'
    BY <1>2 DEF Timeout, RoundTripEnds, PendingOwned
  <2>6. OpenRequests'
    BY <1>2, <2>3 DEF Timeout, RoundTripEnds, OpenRequests, PendingOwned
  <2>7. NoLostWaiter'
    BY <1>2, <2>3, <2>4 DEF Timeout, RoundTripEnds, NoLostWaiter, OpenRequests
  <2> QED BY <2>1, <2>2, <2>5, <2>6, <2>7
<1>3. ASSUME NEW s \in Stoppers, \/ WatchdogFires(s) \/ WatchdogChecks(s)
                                 \/ HostExits(s) \/ StopperStep(s)
      PROVE  Goal
  <2> s \in Ids /\ s \notin Requests /\ s \notin Runs
    BY IdsAssumption DEF Ids, Requests, Stoppers
  <2>1. CASE WatchdogFires(s)
    <3>1. TrackHead'
      BY <2>1 DEF WatchdogFires, TrackHead
    <3>2. NoOrphan' /\ LiveReader'
      BY <2>1 DEF WatchdogFires, NoOrphan, LiveReader
    <3>3. \A j \in Ids : BeingTracked(j) => BeingTracked(j)'
      BY <2>1 DEF WatchdogFires, BeingTracked
    <3>4. \A q \in Procs : CleanupDue(q) => CleanupDue(q)'
      BY <2>1 DEF WatchdogFires, CleanupDue
    <3>5. PendingOwned'
      BY <2>1 DEF WatchdogFires, PendingOwned
    <3>6. OpenRequests'
      BY <2>1, <3>3 DEF WatchdogFires, OpenRequests, PendingOwned
    <3>7. NoLostWaiter'
      BY <2>1, <3>3, <3>4 DEF WatchdogFires, NoLostWaiter, OpenRequests
    <3> QED BY <3>1, <3>2, <3>5, <3>6, <3>7
  <2>2. CASE WatchdogChecks(s)
    <3>1. TrackHead'
      BY <2>2 DEF WatchdogChecks, TrackHead
    <3>2. NoOrphan' /\ LiveReader'
      BY <2>2 DEF WatchdogChecks, NoOrphan, LiveReader
    <3>3. \A j \in Ids : BeingTracked(j) => BeingTracked(j)'
      BY <2>2 DEF WatchdogChecks, BeingTracked
    <3>4. \A q \in Procs : CleanupDue(q) => CleanupDue(q)'
      BY <2>2 DEF WatchdogChecks, CleanupDue
    <3>5. PendingOwned'
      BY <2>2 DEF WatchdogChecks, PendingOwned
    <3>6. OpenRequests'
      BY <2>2, <3>3 DEF WatchdogChecks, OpenRequests, PendingOwned
    <3>7. NoLostWaiter'
      BY <2>2, <3>3, <3>4 DEF WatchdogChecks, NoLostWaiter, OpenRequests
    <3> QED BY <3>1, <3>2, <3>5, <3>6, <3>7
  <2>3. CASE HostExits(s)
    <3>1. TrackHead'
      BY <2>3 DEF HostExits, TrackHead
    <3>2. NoOrphan' /\ LiveReader'
      BY <2>3 DEF HostExits, NoOrphan, LiveReader
    <3>3. \A j \in Ids : BeingTracked(j) => BeingTracked(j)'
      BY <2>3 DEF HostExits, BeingTracked
    <3>4. \A q \in Procs : CleanupDue(q) => CleanupDue(q)'
      BY <2>3 DEF HostExits, CleanupDue
    <3>5. PendingOwned'
      BY <2>3 DEF HostExits, PendingOwned
    <3>6. OpenRequests'
      BY <2>3, <3>3 DEF HostExits, OpenRequests, PendingOwned
    <3>7. NoLostWaiter'
      BY <2>3, <3>3, <3>4 DEF HostExits, NoLostWaiter, OpenRequests
    <3> QED BY <3>1, <3>2, <3>5, <3>6, <3>7
  <2>4. CASE EnterShutdown(s)
    <3>10. PICK pc \in {"sleep", "gone", "insert"} : task' = [task EXCEPT ![s] = pc]
      BY <2>4 DEF EnterShutdown, AfterShutdown
    <3>11. /\ task[s] = "enter"
           /\ UNCHANGED <<slot, reader, alive, out, home, pending, box>>
      BY <2>4 DEF EnterShutdown
    <3>1. TrackHead'
      BY <3>10, <3>11 DEF TrackHead
    <3>2. NoOrphan' /\ LiveReader'
      BY <3>10, <3>11 DEF NoOrphan, LiveReader
    <3>3. \A j \in Ids : BeingTracked(j) => BeingTracked(j)'
      BY <3>10, <3>11 DEF BeingTracked
    <3>4. \A q \in Procs : CleanupDue(q) => CleanupDue(q)'
      BY <3>10, <3>11 DEF CleanupDue
    <3>5. PendingOwned'
      BY <3>10, <3>11 DEF PendingOwned
    <3>6. OpenRequests'
      BY <3>10, <3>11, <3>3 DEF OpenRequests, PendingOwned
    <3>7. NoLostWaiter'
      BY <3>10, <3>11, <3>3, <3>4 DEF NoLostWaiter, OpenRequests
    <3> QED BY <3>1, <3>2, <3>5, <3>6, <3>7
  <2>5. CASE InsertPending(s)
    <3>1. TrackHead'
      BY <2>5 DEF InsertPending, TrackHead
    <3>2. NoOrphan' /\ LiveReader'
      BY <2>5 DEF InsertPending, NoOrphan, LiveReader
    <3>3. \A j \in Ids : BeingTracked(j) => BeingTracked(j)'
      BY <2>5 DEF InsertPending, BeingTracked
    <3>4. \A q \in Procs : CleanupDue(q) => CleanupDue(q)'
      BY <2>5 DEF InsertPending, CleanupDue
    <3>5. PendingOwned'
      BY <2>5 DEF InsertPending, PendingOwned
    <3>6. OpenRequests'
      BY <2>5, <3>3 DEF InsertPending, OpenRequests, PendingOwned
    <3>7. NoLostWaiter'
      BY <2>5, <3>3, <3>4 DEF InsertPending, NoLostWaiter, OpenRequests
    <3> QED BY <3>1, <3>2, <3>5, <3>6, <3>7
  <2>6. CASE TakeStdin(s)
    <3>1. TrackHead'
      BY <2>6 DEF TakeStdin, TrackHead
    <3>2. NoOrphan' /\ LiveReader'
      BY <2>6 DEF TakeStdin, NoOrphan, LiveReader
    <3>3. \A j \in Ids : BeingTracked(j) => BeingTracked(j)'
      BY <2>6 DEF TakeStdin, BeingTracked
    <3>4. \A q \in Procs : CleanupDue(q) => CleanupDue(q)'
      BY <2>6 DEF TakeStdin, CleanupDue
    <3>5. PendingOwned'
      BY <2>6 DEF TakeStdin, PendingOwned
    <3>6. OpenRequests'
      BY <2>6, <3>3 DEF TakeStdin, OpenRequests, PendingOwned
    <3>7. NoLostWaiter'
      BY <2>6, <3>3, <3>4 DEF TakeStdin, NoLostWaiter, OpenRequests
    <3> QED BY <3>1, <3>2, <3>5, <3>6, <3>7
  <2>7. CASE WriteFails(s)
    <3>10. /\ task' = [task EXCEPT ![s] = "take"]
           /\ task[s] \in {"write", "flush"}
           /\ UNCHANGED <<slot, reader, alive, out, home>>
           /\ pending' = pending \ {s}
           /\ \A j \in Ids : j # s => box'[j] = box[j]
      BY <2>7 DEF WriteFails, RoundTripEnds, OpenRequests
    <3>1. TrackHead'
      BY <3>10 DEF TrackHead
    <3>2. NoOrphan' /\ LiveReader'
      BY <3>10 DEF NoOrphan, LiveReader
    <3>3. \A j \in Ids : BeingTracked(j) => BeingTracked(j)'
      BY <3>10 DEF BeingTracked
    <3>4. \A q \in Procs : CleanupDue(q) => CleanupDue(q)'
      BY <3>10 DEF CleanupDue
    <3>5. PendingOwned'
      BY <3>10 DEF PendingOwned
    <3>6. OpenRequests'
      BY <3>10, <3>3 DEF OpenRequests, PendingOwned
    <3>7. NoLostWaiter'
      BY <3>10, <3>3, <3>4 DEF NoLostWaiter, OpenRequests
    <3> QED BY <3>1, <3>2, <3>5, <3>6, <3>7
  <2>8. CASE TakeReply(s)
    <3>10. /\ task' = [task EXCEPT ![s] = "take"]
           /\ task[s] = "wait"
           /\ UNCHANGED <<slot, held, reader, alive, out, home>>
           /\ UNCHANGED pending /\ s \notin pending
           /\ \A j \in Ids : j # s => box'[j] = box[j]
      BY <2>8 DEF TakeReply, RoundTripEnds, OpenRequests
    <3>1. TrackHead'
      BY <3>10 DEF TrackHead
    <3>2. NoOrphan' /\ LiveReader'
      BY <3>10 DEF NoOrphan, LiveReader
    <3>3. \A j \in Ids : BeingTracked(j) => BeingTracked(j)'
      BY <3>10 DEF BeingTracked
    <3>4. \A q \in Procs : CleanupDue(q) => CleanupDue(q)'
      BY <3>10 DEF CleanupDue
    <3>5. PendingOwned'
      BY <3>10 DEF PendingOwned
    <3>6. OpenRequests'
      BY <3>10, <3>3 DEF OpenRequests, PendingOwned
    <3>7. NoLostWaiter'
      BY <3>10, <3>3, <3>4 DEF NoLostWaiter, OpenRequests
    <3> QED BY <3>1, <3>2, <3>5, <3>6, <3>7
  <2>9. CASE TakeChild(s)
    <3>1. TrackHead'
      BY <2>9 DEF TakeChild, ProcessEnds, TrackHead
    <3>2. NoOrphan' /\ LiveReader'
      BY <2>9 DEF TakeChild, ProcessEnds, NoOrphan, LiveReader
    <3>3. \A j \in Ids : BeingTracked(j) => BeingTracked(j)'
      BY <2>9 DEF TakeChild, ProcessEnds, BeingTracked
    <3>4. \A q \in Procs : CleanupDue(q)'
      BY <2>9 DEF TakeChild, CleanupDue
    <3>5. PendingOwned'
      BY <2>9 DEF TakeChild, ProcessEnds, PendingOwned
    <3>6. OpenRequests'
      BY <2>9, <3>3 DEF TakeChild, ProcessEnds, OpenRequests, PendingOwned
    <3>7. NoLostWaiter'
      BY <2>9, <3>3, <3>4 DEF TakeChild, ProcessEnds, NoLostWaiter, OpenRequests
    <3> QED BY <3>1, <3>2, <3>5, <3>6, <3>7
  <2>10. CASE ClearPid(s)
    <3>1. TrackHead'
      BY <2>10 DEF ClearPid, TrackHead
    <3>2. NoOrphan' /\ LiveReader'
      BY <2>10 DEF ClearPid, NoOrphan, LiveReader
    <3>3. \A j \in Ids : BeingTracked(j) => BeingTracked(j)'
      BY <2>10 DEF ClearPid, BeingTracked
    <3>4. \A q \in Procs : CleanupDue(q) => CleanupDue(q)'
      BY <2>10 DEF ClearPid, CleanupDue
    <3>5. PendingOwned'
      BY <2>10 DEF ClearPid, PendingOwned
    <3>6. OpenRequests'
      BY <2>10, <3>3 DEF ClearPid, OpenRequests, PendingOwned
    <3>7. NoLostWaiter'
      BY <2>10, <3>3, <3>4 DEF ClearPid, NoLostWaiter, OpenRequests
    <3> QED BY <3>1, <3>2, <3>5, <3>6, <3>7
  <2>11. CASE ShutdownDrains(s)
    <3>1. TrackHead'
      BY <2>11 DEF ShutdownDrains, FailAllPending, Deliver, TrackHead
    <3>2. NoOrphan' /\ LiveReader'
      BY <2>11 DEF ShutdownDrains, FailAllPending, Deliver, NoOrphan, LiveReader
    <3>3. \A j \in Ids : BeingTracked(j) => BeingTracked(j)'
      BY <2>11 DEF ShutdownDrains, FailAllPending, Deliver, BeingTracked
    <3>5. PendingOwned'
      BY <2>11 DEF ShutdownDrains, FailAllPending, Deliver, PendingOwned
    <3>6. OpenRequests'
      BY <2>11, <3>3 DEF ShutdownDrains, FailAllPending, Deliver, OpenRequests, PendingOwned
    <3>7. NoLostWaiter'
      BY <2>11, <3>3 DEF ShutdownDrains, FailAllPending, Deliver, NoLostWaiter, OpenRequests
    <3> QED BY <3>1, <3>2, <3>5, <3>6, <3>7
  <2>12. CASE ShutdownCloses(s)
    <3>1. TrackHead'
      BY <2>12 DEF ShutdownCloses, FailActiveStreams, AfterShutdown, TrackHead
    <3>2. NoOrphan' /\ LiveReader'
      BY <2>12 DEF ShutdownCloses, FailActiveStreams, AfterShutdown, NoOrphan, LiveReader
    <3>3. \A j \in Ids : BeingTracked(j) => BeingTracked(j)'
      BY <2>12 DEF ShutdownCloses, FailActiveStreams, AfterShutdown, BeingTracked
    <3>4. \A q \in Procs : CleanupDue(q) => CleanupDue(q)'
      BY <2>12 DEF ShutdownCloses, FailActiveStreams, AfterShutdown, CleanupDue
    <3>5. PendingOwned'
      BY <2>12 DEF ShutdownCloses, FailActiveStreams, AfterShutdown, PendingOwned
    <3>6. OpenRequests'
      BY <2>12, <3>3 DEF ShutdownCloses, FailActiveStreams, AfterShutdown, OpenRequests, PendingOwned
    <3>7. NoLostWaiter'
      BY <2>12, <3>3, <3>4 DEF ShutdownCloses, FailActiveStreams, AfterShutdown, NoLostWaiter, OpenRequests
    <3> QED BY <3>1, <3>2, <3>5, <3>6, <3>7
  <2> QED
    BY <1>3, <2>1, <2>2, <2>3, <2>4, <2>5, <2>6, <2>7, <2>8, <2>9, <2>10, <2>11, <2>12 DEF StopperStep
<1>4. ASSUME NEW p \in Procs, ReaderStep(p) PROVE Goal
  <2> USE DEF ReaderAt, ReaderGoto
  <2>1. CASE AnswerPending(p)
    <3>9. PICK id \in Ids : id = Head(out[p]).id
      BY <2>1, LineFacts DEF AnswerPending
    <3>10. /\ id \in pending /\ pending' = pending \ {id}
           /\ reader[p] = "read" /\ out[p] # << >>
           /\ UNCHANGED <<slot, alive, task, home>>
      BY <2>1, <3>9, LineFacts DEF AnswerPending
    <3>11. \/ /\ id \in Runs
              /\ reader' = [reader EXCEPT ![p] = "track"] /\ UNCHANGED <<box, out>>
           \/ /\ reader' = reader
              /\ out' = [out EXCEPT ![p] = Tail(out[p])]
              /\ task[id] \in {"write", "flush", "wait"} => box'[id] # NoReply
      BY <2>1, <3>9, LineFacts DEF AnswerPending, PopLine, Deliver, LineKinds
    <3>12. \A i \in Ids : i = id \/ box'[i] = box[i]
      BY <2>1, <3>9, LineFacts DEF AnswerPending, Deliver
    <3>1. TrackHead'
      <4>1. task[id] \in {"write", "flush", "wait", "done", "dropped"}
        BY <3>10 DEF PendingOwned
      <4> QED BY <3>9, <3>10, <3>11, <4>1 DEF TrackHead
    <3>2. NoOrphan' /\ LiveReader'
      BY <3>9, <3>10, <3>11 DEF NoOrphan, LiveReader
    <3>3. /\ \A j \in Ids : BeingTracked(j) => BeingTracked(j)'
          /\ task[id] \in {"write", "flush", "wait"} => box'[id] # NoReply \/ BeingTracked(id)'
      BY <3>9, <3>10, <3>11 DEF BeingTracked
    <3>4. \A q \in Procs : CleanupDue(q) => CleanupDue(q)'
      BY <3>9, <3>10, <3>11 DEF CleanupDue
    <3>5. PendingOwned'
      BY <3>9, <3>10, <3>11 DEF PendingOwned
    <3>6. OpenRequests'
      BY <3>10, <3>12, <3>3 DEF OpenRequests
    <3>7. NoLostWaiter'
      BY <3>10, <3>12, <3>3, <3>4 DEF NoLostWaiter, OpenRequests
    <3> QED BY <3>1, <3>2, <3>5, <3>6, <3>7
  <2>2. CASE TrackStream(p)
    <3>9. PICK id \in Ids : id = Head(out[p]).id
      BY <2>2, LineFacts DEF TrackStream, TrackHead
    <3>10. /\ id \notin pending
           /\ reader[p] = "track" /\ reader' = [reader EXCEPT ![p] = "read"]
           /\ out' = [out EXCEPT ![p] = Tail(out[p])]
           /\ UNCHANGED <<slot, alive, pending, task, home>>
      BY <2>2, <3>9, LineFacts DEF TrackStream, TrackHead, PopLine
    <3>11. /\ \A i \in Ids : i = id \/ box'[i] = box[i]
           /\ task[id] \in {"write", "flush", "wait"} => box'[id] # NoReply
      BY <2>2, <3>9, LineFacts DEF TrackStream, TrackHead, PopLine, Deliver, LineKinds
    <3>12. \A j \in Ids : BeingTracked(j) => BeingTracked(j)' \/ j = id
      BY <3>9, <3>10 DEF BeingTracked
    <3>1. TrackHead'
      BY <3>9, <3>10, <3>11 DEF TrackHead
    <3>2. NoOrphan' /\ LiveReader'
      BY <3>9, <3>10, <3>11 DEF NoOrphan, LiveReader
    <3>3. \A j \in Ids : BeingTracked(j) => BeingTracked(j)' \/ j = id
      BY <3>12
    <3>4. \A q \in Procs : CleanupDue(q) => CleanupDue(q)'
      BY <3>9, <3>10, <3>11 DEF CleanupDue
    <3>5. PendingOwned'
      BY <3>9, <3>10, <3>11 DEF PendingOwned
    <3>6. OpenRequests'
      <4> SUFFICES ASSUME NEW j \in Ids
                   PROVE  /\ j \in pending /\ task[j] \in {"write", "flush", "wait"} => box'[j] = NoReply
                          /\ task[j] \in {"write", "flush"} /\ box'[j] = NoReply =>
                                 j \in pending \/ BeingTracked(j)'
                          /\ task[j] = "wait" => home[j] \in Procs
        BY <3>10 DEF OpenRequests
      <4>1. CASE j = id BY <3>10, <3>11, <4>1 DEF OpenRequests
      <4>2. CASE j # id BY <3>10, <3>11, <3>3, <4>2 DEF OpenRequests
      <4> QED BY <4>1, <4>2
    <3>7. NoLostWaiter'
      BY <3>10, <3>11, <3>3, <3>4 DEF NoLostWaiter, OpenRequests
    <3> QED BY <3>1, <3>2, <3>5, <3>6, <3>7
  <2>3. CASE BroadcastLine(p)
    <3>1. TrackHead'
      BY <2>3, LineFacts DEF BroadcastLine, PopLine, TrackHead
    <3>2. NoOrphan' /\ LiveReader'
      BY <2>3, LineFacts DEF BroadcastLine, PopLine, NoOrphan, LiveReader
    <3>3. \A j \in Ids : BeingTracked(j) => BeingTracked(j)'
      BY <2>3, LineFacts DEF BroadcastLine, PopLine, BeingTracked
    <3>4. \A q \in Procs : CleanupDue(q) => CleanupDue(q)'
      BY <2>3, LineFacts DEF BroadcastLine, PopLine, CleanupDue
    <3>5. PendingOwned'
      BY <2>3, LineFacts DEF BroadcastLine, PopLine, PendingOwned
    <3>6. OpenRequests'
      BY <2>3, LineFacts, <3>3 DEF BroadcastLine, PopLine, OpenRequests, PendingOwned
    <3>7. NoLostWaiter'
      BY <2>3, LineFacts, <3>3, <3>4 DEF BroadcastLine, PopLine, NoLostWaiter, OpenRequests
    <3> QED BY <3>1, <3>2, <3>5, <3>6, <3>7
  <2>4. CASE Eof(p)
    <3>1. TrackHead'
      BY <2>4 DEF Eof, TrackHead
    <3>2. NoOrphan' /\ LiveReader'
      BY <2>4 DEF Eof, NoOrphan, LiveReader
    <3>3. \A j \in Ids : BeingTracked(j) => BeingTracked(j)'
      BY <2>4 DEF Eof, BeingTracked
    <3>4. \A q \in Procs : CleanupDue(q) => CleanupDue(q)'
      BY <2>4 DEF Eof, CleanupDue
    <3>5. PendingOwned'
      BY <2>4 DEF Eof, PendingOwned
    <3>6. OpenRequests'
      BY <2>4, <3>3 DEF Eof, OpenRequests, PendingOwned
    <3>7. NoLostWaiter'
      BY <2>4, <3>3, <3>4 DEF Eof, NoLostWaiter, OpenRequests
    <3> QED BY <3>1, <3>2, <3>5, <3>6, <3>7
  <2>5. CASE ReleaseSlot(p)
    <3>1. TrackHead'
      BY <2>5 DEF ProcessEnds, ReleaseSlot, TrackHead
    <3>2. NoOrphan' /\ LiveReader'
      BY <2>5 DEF ProcessEnds, ReleaseSlot, NoOrphan, LiveReader
    <3>3. \A j \in Ids : BeingTracked(j) => BeingTracked(j)'
      BY <2>5 DEF ProcessEnds, ReleaseSlot, BeingTracked
    <3>4. \A q \in Procs : CleanupDue(q) => CleanupDue(q)'
      BY <2>5 DEF ProcessEnds, ReleaseSlot, CleanupDue
    <3>5. PendingOwned'
      BY <2>5 DEF ProcessEnds, ReleaseSlot, PendingOwned
    <3>6. OpenRequests'
      BY <2>5, <3>3 DEF ProcessEnds, ReleaseSlot, OpenRequests, PendingOwned
    <3>7. NoLostWaiter'
      <4>1. \A q \in Procs : q \in alive => q \in alive' \/ CleanupDue(q)'
        BY <2>5 DEF ProcessEnds, ReleaseSlot, NoOrphan, CleanupDue
      <4>2. UNCHANGED <<task, box, home, pending>>
        BY <2>5 DEF ReleaseSlot
      <4> QED BY <3>3, <3>4, <4>1, <4>2 DEF NoLostWaiter, OpenRequests
    <3> QED BY <3>1, <3>2, <3>5, <3>6, <3>7
  <2>6. CASE ReaderClearsPid(p)
    <3>1. TrackHead'
      BY <2>6 DEF ReaderClearsPid, TrackHead
    <3>2. NoOrphan' /\ LiveReader'
      BY <2>6 DEF ReaderClearsPid, NoOrphan, LiveReader
    <3>3. \A j \in Ids : BeingTracked(j) => BeingTracked(j)'
      BY <2>6 DEF ReaderClearsPid, BeingTracked
    <3>4. \A q \in Procs : CleanupDue(q) => CleanupDue(q)'
      BY <2>6 DEF ReaderClearsPid, CleanupDue
    <3>5. PendingOwned'
      BY <2>6 DEF ReaderClearsPid, PendingOwned
    <3>6. OpenRequests'
      BY <2>6, <3>3 DEF ReaderClearsPid, OpenRequests, PendingOwned
    <3>7. NoLostWaiter'
      BY <2>6, <3>3, <3>4 DEF ReaderClearsPid, NoLostWaiter, OpenRequests
    <3> QED BY <3>1, <3>2, <3>5, <3>6, <3>7
  <2>7. CASE ReaderSetsState(p)
    <3>1. TrackHead'
      BY <2>7 DEF ReaderSetsState, TrackHead
    <3>2. NoOrphan' /\ LiveReader'
      BY <2>7 DEF ReaderSetsState, NoOrphan, LiveReader
    <3>3. \A j \in Ids : BeingTracked(j) => BeingTracked(j)'
      BY <2>7 DEF ReaderSetsState, BeingTracked
    <3>4. \A q \in Procs : CleanupDue(q) => CleanupDue(q)'
      BY <2>7 DEF ReaderSetsState, CleanupDue
    <3>5. PendingOwned'
      BY <2>7 DEF ReaderSetsState, PendingOwned
    <3>6. OpenRequests'
      BY <2>7, <3>3 DEF ReaderSetsState, OpenRequests, PendingOwned
    <3>7. NoLostWaiter'
      BY <2>7, <3>3, <3>4 DEF ReaderSetsState, NoLostWaiter, OpenRequests
    <3> QED BY <3>1, <3>2, <3>5, <3>6, <3>7
  <2>8. CASE ReaderDrains(p)
    <3>1. TrackHead'
      BY <2>8 DEF ReaderDrains, FailAllPending, Deliver, TrackHead
    <3>2. NoOrphan' /\ LiveReader'
      BY <2>8 DEF ReaderDrains, FailAllPending, Deliver, NoOrphan, LiveReader
    <3>3. \A j \in Ids : BeingTracked(j) => BeingTracked(j)'
      BY <2>8 DEF ReaderDrains, FailAllPending, Deliver, BeingTracked
    <3>5. PendingOwned'
      BY <2>8 DEF ReaderDrains, FailAllPending, Deliver, PendingOwned
    <3>6. OpenRequests'
      BY <2>8, <3>3 DEF ReaderDrains, FailAllPending, Deliver, OpenRequests, PendingOwned
    <3>7. NoLostWaiter'
      BY <2>8, <3>3 DEF ReaderDrains, FailAllPending, Deliver, NoLostWaiter, OpenRequests
    <3> QED BY <3>1, <3>2, <3>5, <3>6, <3>7
  <2>9. CASE ReaderCloses(p)
    <3>1. TrackHead'
      BY <2>9 DEF ReaderCloses, FailActiveStreams, TrackHead
    <3>2. NoOrphan' /\ LiveReader'
      BY <2>9 DEF ReaderCloses, FailActiveStreams, NoOrphan, LiveReader
    <3>3. \A j \in Ids : BeingTracked(j) => BeingTracked(j)'
      BY <2>9 DEF ReaderCloses, FailActiveStreams, BeingTracked
    <3>4. \A q \in Procs : CleanupDue(q) => CleanupDue(q)'
      BY <2>9 DEF ReaderCloses, FailActiveStreams, CleanupDue
    <3>5. PendingOwned'
      BY <2>9 DEF ReaderCloses, FailActiveStreams, PendingOwned
    <3>6. OpenRequests'
      BY <2>9, <3>3 DEF ReaderCloses, FailActiveStreams, OpenRequests, PendingOwned
    <3>7. NoLostWaiter'
      BY <2>9, <3>3, <3>4 DEF ReaderCloses, FailActiveStreams, NoLostWaiter, OpenRequests
    <3> QED BY <3>1, <3>2, <3>5, <3>6, <3>7
  <2> QED
    BY <1>4, <2>1, <2>2, <2>3, <2>4, <2>5, <2>6, <2>7, <2>8, <2>9 DEF ReaderStep
<1>5. ASSUME NEW p \in Procs, SidecarStep(p) PROVE Goal
  <2>1. \A r \in Requests, k \in LineKinds : [id |-> r, kind |-> k] \in Lines
    BY DEF Lines
  <2> DEFINE HeadsKept == \A q \in Procs : out[q] # << >> =>
                              out'[q] # << >> /\ Head(out'[q]) = Head(out[q])
  <2> DEFINE Frame == UNCHANGED <<hostVars, mapVars, taskVars, reader, home>>
  <2>2. ASSUME NEW r \in Requests, SidecarReplies(p, r) PROVE HeadsKept /\ Frame /\ alive' = alive
    BY <2>1, <2>2, EmitFacts DEF Reads, SidecarReplies, LineKinds
  <2>3. ASSUME NEW r \in Runs, SidecarStartsRun(p, r) PROVE HeadsKept /\ Frame /\ alive' = alive
    BY <2>3 DEF Reads, SidecarStartsRun
  <2>4. ASSUME NEW r \in Runs, SidecarAcksRun(p, r) PROVE HeadsKept /\ Frame /\ alive' = alive
    BY <2>1, <2>4, EmitFacts DEF SidecarAcksRun, Requests, LineKinds
  <2>5. ASSUME NEW r \in Runs, RunEmits(p, r) PROVE HeadsKept /\ Frame /\ alive' = alive
    BY <2>1, <2>5, EmitFacts DEF RunEmits, Requests, LineKinds
  <2>6. ASSUME NEW s \in Stoppers, SidecarStops(p, s)
        PROVE  HeadsKept /\ Frame /\ alive' = alive \ {p} /\ p \in alive
    <3>1. [id |-> s, kind |-> "reply"] \in Lines
      BY DEF Lines
    <3> QED BY <2>6, <3>1, EmitFacts DEF Reads, SidecarStops, ProcessEnds
  <2>7. ASSUME SidecarCrashes(p)
        PROVE  HeadsKept /\ Frame /\ alive' = alive \ {p} /\ p \in alive
    BY <2>7 DEF SidecarCrashes, ProcessEnds
  <2>8. HeadsKept /\ Frame /\ \/ alive' = alive
                              \/ alive' = alive \ {p} /\ p \in alive
    BY <1>5, <2>2, <2>3, <2>4, <2>5, <2>6, <2>7 DEF SidecarStep
  <2>9. TrackHead'
    BY <2>8 DEF TrackHead
  <2>10. NoOrphan' /\ LiveReader'
    BY <2>8 DEF NoOrphan, LiveReader
  <2>11. \A j \in Ids : BeingTracked(j) => BeingTracked(j)'
    BY <2>8 DEF BeingTracked, TrackHead
  <2>12. /\ \A q \in Procs : CleanupDue(q) => CleanupDue(q)'
         /\ \A q \in Procs : q \in alive /\ q \notin alive' => CleanupDue(q)'
    BY <2>8 DEF CleanupDue, NoOrphan, LiveReader
  <2>13. PendingOwned'
    BY <2>8 DEF PendingOwned
  <2>14. OpenRequests'
    BY <2>8, <2>11 DEF OpenRequests, PendingOwned
  <2>15. NoLostWaiter'
    BY <2>8, <2>11, <2>12 DEF NoLostWaiter, OpenRequests
  <2> QED BY <2>9, <2>10, <2>13, <2>14, <2>15
<1>6. CASE UNCHANGED vars
  <2>1. TrackHead'
    BY <1>6 DEF vars, TrackHead
  <2>2. NoOrphan' /\ LiveReader'
    BY <1>6 DEF vars, NoOrphan, LiveReader
  <2>3. \A j \in Ids : BeingTracked(j) => BeingTracked(j)'
    BY <1>6 DEF vars, BeingTracked
  <2>4. \A q \in Procs : CleanupDue(q) => CleanupDue(q)'
    BY <1>6 DEF vars, CleanupDue
  <2>5. PendingOwned'
    BY <1>6 DEF vars, PendingOwned
  <2>6. OpenRequests'
    BY <1>6, <2>3 DEF vars, OpenRequests, PendingOwned
  <2>7. NoLostWaiter'
    BY <1>6, <2>3, <2>4 DEF vars, NoLostWaiter, OpenRequests
  <2> QED BY <2>1, <2>2, <2>5, <2>6, <2>7
<1> QED
  BY <1>0, <1>1, <1>2, <1>3, <1>4, <1>5, <1>6, IdsAssumption DEF Next, Stoppers, Requests

\* AckedRunTracked is inductive relative to IInv: the only line that makes a
\* run acknowledged is delivered by TrackStream, which opens its stream.
LEMMA AckedStep == IInv /\ AckedRunTracked /\ [Next]_vars => AckedRunTracked'
<1> SUFFICES ASSUME IInv, AckedRunTracked, [Next]_vars PROVE AckedRunTracked'
  OBVIOUS
<1> TypeOK /\ TrackHead
  BY DEF IInv
<1> USE DEF TypeOK, AckedRunTracked, NoReply, NoProc
<1> Runs \subseteq Ids
  BY DEF Ids, Requests
<1> DEFINE Kept == UNCHANGED <<streams, ended>>
                   /\ \A r \in Runs : \/ box'[r] = box[r]
                                      \/ box'[r] \notin {"started", "event"}
<1>1. ASSUME NEW i \in Ids, \/ InsertPending(i) \/ TakeStdin(i) \/ WriteFails(i)
                            \/ WriteLine(i) \/ TakeReply(i) \/ Timeout(i)
      PROVE  Kept
  BY <1>1 DEF InsertPending, TakeStdin, WriteLine, WriteFails, TakeReply, Timeout,
              RoundTripEnds
<1>2. ASSUME NEW r \in Requests, \/ Call(r) \/ Drop(r) \/ ReuseChild(r)
                                 \/ SpawnChild(r) \/ SpawnFails(r)
                                 \/ MarkRunning(r)
      PROVE  Kept
  BY <1>2 DEF Call, Drop, ReuseChild, SpawnChild, SpawnFails, MarkRunning, Ids
<1>3. ASSUME NEW s \in Stoppers, \/ WatchdogFires(s) \/ WatchdogChecks(s)
                                 \/ HostExits(s) \/ EnterShutdown(s)
                                 \/ TakeChild(s) \/ ClearPid(s)
                                 \/ ShutdownDrains(s)
      PROVE  Kept
  BY <1>3 DEF WatchdogFires, WatchdogChecks, HostExits, EnterShutdown,
              TakeChild, ClearPid, ShutdownDrains, FailAllPending, Deliver
<1>4. ASSUME NEW s \in Stoppers, ShutdownCloses(s) PROVE AckedRunTracked'
  BY <1>4 DEF ShutdownCloses, FailActiveStreams
<1>5. ASSUME NEW p \in Procs, \/ AnswerPending(p) \/ Eof(p) \/ ReleaseSlot(p)
                              \/ ReaderClearsPid(p) \/ ReaderSetsState(p)
                              \/ ReaderDrains(p)
      PROVE  Kept
  <2>1. CASE AnswerPending(p)
    BY <2>1, LineFacts DEF AnswerPending, Deliver, LineKinds
  <2>2. CASE ReaderDrains(p)
    BY <2>2 DEF ReaderDrains, FailAllPending, Deliver
  <2> QED
    BY <1>5, <2>1, <2>2 DEF Eof, ProcessEnds, ReleaseSlot, ReaderClearsPid, ReaderSetsState
<1>6. ASSUME NEW p \in Procs, TrackStream(p) PROVE AckedRunTracked'
  BY <1>6, LineFacts DEF TrackStream, TrackHead, ReaderAt, Deliver
<1>7. ASSUME NEW p \in Procs, BroadcastLine(p) PROVE AckedRunTracked'
  BY <1>7, LineFacts DEF BroadcastLine, StreamsAfter
<1>8. ASSUME NEW p \in Procs, ReaderCloses(p) PROVE AckedRunTracked'
  BY <1>8 DEF ReaderCloses, FailActiveStreams
<1>9. ASSUME NEW p \in Procs, SidecarStep(p) PROVE Kept
  BY <1>9 DEF SidecarStep, Reads, SidecarReplies, SidecarStartsRun, SidecarAcksRun,
              RunEmits, SidecarStops, SidecarCrashes
<1>10. CASE UNCHANGED vars
  BY <1>10 DEF vars
<1>11. Kept => AckedRunTracked'
  OBVIOUS
<1> HIDE DEF Kept, AckedRunTracked, TypeOK
<1> QED
  BY <1>1, <1>2, <1>3, <1>4, <1>5, <1>6, <1>7, <1>8, <1>9, <1>10, <1>11,
     IdsAssumption DEF Next, CallerStep, StopperStep, ReaderStep, Ids, Stoppers, Requests

LEMMA InvInit == Init => IInv
  BY TypeInit DEF Init, IInv, TrackHead, NoOrphan, LiveReader, PendingOwned,
                  OpenRequests, NoLostWaiter

\* The variables of the supervisor always have their types, whatever the
\* bounds: in particular the stream map never holds the id of a shutdown.
THEOREM TypeCorrect == Spec => []TypeOK
  BY InvInit, InvStep, PTL DEF Spec, IInv

\* For any number of callers, shutdowns and processes, every live sidecar is
\* the one in the child slot (ensure_spawned, shutdown and the reader's EOF
\* clean-up never leave a second one running).
THEOREM NoOrphanEver == Spec => []NoOrphan
  BY InvInit, InvStep, PTL DEF Spec, IInv

\* No entry of the pending map outlives its request (round_trip).
THEOREM PendingOwnedAlways == Spec => []PendingOwned
  BY InvInit, InvStep, PTL DEF Spec, IInv

\* No caller waits for an answer that nobody is going to give: its entry is in
\* the pending map, and when its sidecar is dead a clean-up is still to come.
THEOREM NoLostWaiterEver == Spec => []NoLostWaiter
  BY InvInit, InvStep, PTL DEF Spec, IInv

\* A run whose start was acknowledged is never lost from the stream map before
\* a terminal event of it was broadcast (route_incoming_line).
THEOREM AckedRunTrackedAlways == Spec => []AckedRunTracked
<1>1. Init => AckedRunTracked
  BY DEF Init, AckedRunTracked, Ids, Requests, NoReply
<1> QED
  BY <1>1, InvInit, InvStep, AckedStep, PTL DEF Spec
-----------------------------------------------------------------------------
(* At most once: each step of the supervisor is a step of AtMostOnceCall,  *)
(* or changes nothing that a caller or the sidecar's work can tell.        *)

\* Where the line of a request is not written yet.
Unwritten == {"idle", "spawn", "mark", "insert", "write", "flush"}

Executed(r) == home[r] # NoProc /\ r \notin queued

\* The caller's view of one request: clientView[r].
View(r) == CASE task[r] = "idle" -> "new"
             [] task[r] = "dropped" -> "failed"
             [] task[r] = "done" -> IF box[r] \in LineKinds THEN "answered" ELSE "failed"
             [] OTHER -> "open"

\* Nothing is known of a request before it is written; an answer, a run and a line in a
\* pipe are those of a request that a sidecar has taken from its stdin.
AnswersExecuted ==
    /\ \A r \in Requests : task[r] \in Unwritten =>
           home[r] = NoProc /\ r \notin queued
    /\ \A r \in Requests : box[r] \in LineKinds => Executed(r)
    /\ \A r \in unacked \cup live : Executed(r)
    /\ \A p \in Procs : \A n \in 1 .. Len(out[p]) :
           out[p][n].id \in Requests => Executed(out[p][n].id)

\* A request once executed stays so: only a request never written is written.
LEMMA ExecutedStays ==
    ASSUME IInv, AnswersExecuted, [Next]_vars, NEW r \in Requests, Executed(r)
    PROVE  Executed(r)'
<1>0. TypeOK
  BY DEF IInv
<1>1. ASSUME NEW i \in Ids, WriteLine(i) PROVE Executed(r)'
  <2>1. i # r
    BY <1>1 DEF WriteLine, AnswersExecuted, Executed, Unwritten
  <2> QED BY <1>0, <1>1, <2>1 DEF WriteLine, Executed, TypeOK, Ids
<1>2. ASSUME NEW p \in Procs, SidecarStep(p) PROVE Executed(r)'
  BY <1>2 DEF SidecarStep, Reads, SidecarReplies, SidecarStartsRun, SidecarAcksRun, RunEmits, SidecarStops, SidecarCrashes,
              Executed
<1>3. ASSUME NEW p \in Procs, ReaderStep(p) PROVE Executed(r)'
  BY <1>3 DEF ReaderStep, AnswerPending, TrackStream, BroadcastLine, Eof, ProcessEnds, ReleaseSlot, ReaderClearsPid,
              ReaderSetsState, ReaderDrains, ReaderCloses, Executed
<1>4. ASSUME NEW q \in Requests, Call(q) \/ CallerStep(q) \/ Drop(q) PROVE Executed(r)'
  BY <1>4 DEF Call, CallerStep, Drop, ReuseChild, SpawnChild, SpawnFails, MarkRunning, InsertPending, TakeStdin, WriteFails,
              TakeReply, Executed
<1>5. ASSUME NEW s \in Stoppers, StopperStep(s) PROVE Executed(r)'
  BY <1>5 DEF StopperStep, EnterShutdown, InsertPending, TakeStdin, WriteFails, TakeReply, TakeChild, ClearPid, ShutdownDrains,
              ShutdownCloses, Executed
<1>6. ASSUME \/ \E i \in Ids : Timeout(i)
             \/ \E w \in Watchdog : WatchdogFires(w) \/ WatchdogChecks(w)
             \/ \E h \in Hosts : HostExits(h)
             \/ UNCHANGED vars
      PROVE  Executed(r)'
  BY <1>6 DEF Timeout, WatchdogFires, WatchdogChecks, HostExits, vars, Executed
<1> QED BY <1>1, <1>2, <1>3, <1>4, <1>5, <1>6, IdsAssumption DEF Next, Ids, Requests

\* The lines of a pipe after one was read or written.
LEMMA LinesStay ==
    ASSUME IInv, AnswersExecuted, [Next]_vars, NEW p \in Procs, NEW n \in 1 .. Len(out'[p]),
           NEW id \in Requests, out'[p][n].id = id
    PROVE  Executed(id)'
<1>0. TypeOK /\ out \in [Procs -> Seq(Lines)] /\ TrackHead
  BY DEF IInv, TypeOK
<1>1. ASSUME NEW q \in Procs, NEW r \in Requests, NEW k \in LineKinds, Emit(q, r, k), Executed(r)'
      PROVE  Executed(id)'
  <2> DEFINE e == [id |-> r, kind |-> k]
  <2>1. e \in Lines /\ e.id = r
    BY <1>1 DEF Lines
  <2> HIDE DEF e
  <2>2. CASE out'[p] = out[p]
    BY <1>0, <2>2, ExecutedStays DEF AnswersExecuted
  <2>3. CASE out'[p] = Append(out[p], e)
    <3>1. /\ Len(out'[p]) = Len(out[p]) + 1 /\ Len(out[p]) \in Nat
          /\ \A m \in 1 .. Len(out[p]) : out'[p][m] = out[p][m]
          /\ out'[p][Len(out[p]) + 1] = e
      BY <1>0, <2>1, <2>3, AppendProperties, LenProperties
    <3>2. CASE n \in 1 .. Len(out[p])
      <4>1. out'[p][n] = out[p][n]
        BY <3>1, <3>2
      <4> QED BY <3>2, <4>1, ExecutedStays DEF AnswersExecuted
    <3>3. CASE n = Len(out[p]) + 1
      BY <1>1, <2>1, <3>1, <3>3
    <3> QED BY <3>1, <3>2, <3>3
  <2> QED BY <1>0, <1>1, <2>2, <2>3 DEF Emit, e
<1>2. ASSUME NEW q \in Procs, SidecarStep(q) PROVE Executed(id)'
  <2>1. ASSUME NEW r \in Requests, SidecarReplies(q, r) PROVE Executed(id)'
    <3>1. PICK k \in LineKinds : Emit(q, r, k)
      BY <2>1 DEF Reads, SidecarReplies, LineKinds
    <3>2. Executed(r)'
      BY <2>1 DEF Reads, SidecarReplies, Executed, NoProc, Procs
    <3> QED BY <1>1, <3>1, <3>2
  <2>2. ASSUME NEW r \in Runs, SidecarAcksRun(q, r) \/ RunEmits(q, r) PROVE Executed(id)'
    <3>0. r \in Requests
      BY DEF Requests
    <3>1. PICK k \in LineKinds : Emit(q, r, k)
      BY <2>2 DEF SidecarAcksRun, RunEmits, LineKinds
    <3>2. Executed(r)'
      BY <2>2, <3>0, ExecutedStays DEF SidecarAcksRun, RunEmits, AnswersExecuted
    <3> QED BY <1>1, <3>0, <3>1, <3>2
  <2>3. ASSUME NEW s \in Stoppers, SidecarStops(q, s) PROVE Executed(id)'
    <3> DEFINE e == [id |-> s, kind |-> "reply"]
    <3>1. Emit(q, s, "reply") /\ e \in Lines /\ e.id \notin Requests
      BY <2>3, IdsAssumption DEF Reads, SidecarStops, Lines, Requests, Stoppers
    <3>2. out'[p] = out[p] \/ out'[p] = Append(out[p], e)
      BY <1>0, <3>1 DEF Emit
    <3> HIDE DEF e
    <3>3. CASE out'[p] = out[p]
      BY <1>0, <3>3, ExecutedStays DEF AnswersExecuted
    <3>4. CASE out'[p] = Append(out[p], e)
      <4>1. /\ Len(out'[p]) = Len(out[p]) + 1 /\ Len(out[p]) \in Nat
            /\ \A m \in 1 .. Len(out[p]) : out'[p][m] = out[p][m]
            /\ out'[p][Len(out[p]) + 1] = e
        BY <1>0, <3>1, <3>4, AppendProperties, LenProperties
      <4>2. n \in 1 .. Len(out[p]) /\ out'[p][n] = out[p][n]
        BY <3>1, <4>1
      <4> QED BY <4>2, ExecutedStays DEF AnswersExecuted
    <3> QED BY <3>2, <3>3, <3>4
  <2>4. ASSUME UNCHANGED out PROVE Executed(id)'
    BY <2>4, ExecutedStays DEF AnswersExecuted
  <2> QED BY <1>2, <2>1, <2>2, <2>3, <2>4 DEF SidecarStep, SidecarStartsRun, SidecarCrashes
<1>3. ASSUME out'[p] = Tail(out[p]), out[p] # << >> PROVE Executed(id)'
  <2>1. /\ Len(Tail(out[p])) = Len(out[p]) - 1 /\ Len(out[p]) \in Nat
        /\ \A m \in 1 .. Len(Tail(out[p])) : Tail(out[p])[m] = out[p][m + 1]
    BY <1>0, <1>3, HeadTailProperties, LenProperties
  <2>2. n + 1 \in 1 .. Len(out[p]) /\ out'[p][n] = out[p][n + 1]
    BY <1>3, <2>1
  <2> QED BY <2>2, ExecutedStays DEF AnswersExecuted
<1>4. ASSUME out'[p] = out[p] PROVE Executed(id)'
  BY <1>4, ExecutedStays DEF AnswersExecuted
<1>5. ASSUME NEW q \in Procs, ReaderStep(q)
      PROVE  out'[p] = out[p] \/ (out'[p] = Tail(out[p]) /\ out[p] # << >>)
  BY <1>0, <1>5 DEF ReaderStep, AnswerPending, TrackStream, BroadcastLine, Eof, ProcessEnds, ReleaseSlot, ReaderClearsPid,
                    ReaderSetsState, ReaderDrains, ReaderCloses, PopLine, ReaderAt, TrackHead
<1>6. ASSUME NEW r \in Requests, Call(r) \/ CallerStep(r) \/ Drop(r) PROVE UNCHANGED out
  BY <1>6 DEF Call, CallerStep, Drop, ReuseChild, SpawnChild, SpawnFails, MarkRunning, InsertPending, TakeStdin,
              WriteFails, TakeReply
<1>7. ASSUME NEW s \in Stoppers, StopperStep(s) PROVE UNCHANGED out
  BY <1>7 DEF StopperStep, EnterShutdown, InsertPending, TakeStdin, WriteFails, TakeReply, TakeChild, ClearPid,
              ShutdownDrains, ShutdownCloses
<1>8. ASSUME \/ \E i \in Ids : WriteLine(i) \/ Timeout(i)
             \/ \E w \in Watchdog : WatchdogFires(w) \/ WatchdogChecks(w)
             \/ \E h \in Hosts : HostExits(h)
             \/ UNCHANGED vars
      PROVE  UNCHANGED out
  BY <1>8 DEF WriteLine, Timeout, WatchdogFires, WatchdogChecks, HostExits, vars
<1> QED BY <1>2, <1>3, <1>4, <1>5, <1>6, <1>7, <1>8, IdsAssumption DEF Next, Requests
\* A line is that of a request that was executed, and it makes the caller's answer.
LEMMA BoxMoves ==
    ASSUME IInv, AnswersExecuted, [Next]_vars, NEW r \in Requests, box'[r] \in LineKinds
    PROVE  Executed(r)
<1>0. TypeOK /\ TrackHead /\ box \in [Ids -> Outcomes \cup {NoReply}] /\ r \in Ids
  BY DEF IInv, TypeOK, Ids
<1>a. "sidecar_crashed" \notin LineKinds /\ "sidecar_shutdown" \notin LineKinds /\ "timeout" \notin LineKinds
      /\ "spawn_failed" \notin LineKinds /\ NoReply \notin LineKinds
  BY DEF LineKinds, NoReply
<1>1. box[r] \in LineKinds => Executed(r)
  BY DEF AnswersExecuted
<1>2. ASSUME NEW p \in Procs, AnswerPending(p) \/ TrackStream(p) PROVE Executed(r)
  <2>1. out[p] # << >> /\ out[p] \in Seq(Lines)
    BY <1>0, <1>2 DEF AnswerPending, TrackStream, ReaderAt, TrackHead, TypeOK
  <2>2. Head(out[p]) = out[p][1] /\ 1 \in 1 .. Len(out[p])
    BY <2>1, LenProperties
  <2>3. box'[r] = box[r] \/ r = Head(out[p]).id
    BY <1>0, <1>2 DEF AnswerPending, TrackStream, Deliver
  <2> QED BY <1>1, <2>2, <2>3 DEF AnswersExecuted
<1>3. ASSUME NEW p \in Procs, ReaderStep(p), ~AnswerPending(p), ~TrackStream(p) PROVE box'[r] \notin LineKinds \/ box'[r] = box[r]
  BY <1>0, <1>a, <1>3 DEF ReaderStep, BroadcastLine, Eof, ProcessEnds, ReleaseSlot, ReaderClearsPid, ReaderSetsState, ReaderDrains,
                          ReaderCloses, FailAllPending, Deliver
<1>4. ASSUME NEW q \in Requests, Call(q) \/ CallerStep(q) \/ Drop(q) PROVE box'[r] \notin LineKinds \/ box'[r] = box[r]
  BY <1>0, <1>a, <1>4 DEF Call, CallerStep, Drop, ReuseChild, SpawnChild, SpawnFails, MarkRunning, InsertPending,
                          TakeStdin, WriteFails, TakeReply, RoundTripEnds
<1>5. ASSUME NEW s \in Stoppers, StopperStep(s) PROVE box'[r] \notin LineKinds \/ box'[r] = box[r]
  BY <1>0, <1>a, <1>5 DEF StopperStep, EnterShutdown, InsertPending, TakeStdin, WriteFails, TakeReply, TakeChild,
                          ClearPid, ShutdownDrains, ShutdownCloses, RoundTripEnds, FailAllPending, Deliver
<1>6. ASSUME \/ \E i \in Ids : WriteLine(i) \/ Timeout(i)
             \/ \E w \in Watchdog : WatchdogFires(w) \/ WatchdogChecks(w)
             \/ \E h \in Hosts : HostExits(h)
             \/ \E p \in Procs : SidecarStep(p)
             \/ UNCHANGED vars
      PROVE  box'[r] \notin LineKinds \/ box'[r] = box[r]
  BY <1>0, <1>a, <1>6 DEF WriteLine, Timeout, WatchdogFires, WatchdogChecks, HostExits, vars, RoundTripEnds, SidecarStep,
                          Reads, SidecarReplies, SidecarStartsRun, SidecarAcksRun, RunEmits, SidecarStops, SidecarCrashes
<1> QED BY <1>1, <1>2, <1>3, <1>4, <1>5, <1>6, IdsAssumption DEF Next, Requests

\* Only the caller itself moves its task on, and writes its request.
LEMMA UnwrittenStays ==
    ASSUME IInv, [Next]_vars, NEW r \in Requests, task'[r] \in Unwritten
    PROVE  task[r] \in Unwritten /\ home'[r] = home[r] /\ (r \in queued' => r \in queued)
<1>0. TypeOK /\ r \in Ids /\ r \notin Stoppers
  BY IdsAssumption DEF IInv, Ids, Requests, Stoppers
<1> USE DEF Unwritten, TypeOK, Goto
<1>1. ASSUME NEW q \in Requests, Call(q) \/ CallerStep(q) \/ Drop(q)
      PROVE  task[r] \in Unwritten /\ home'[r] = home[r] /\ (r \in queued' => r \in queued)
  BY <1>0, <1>1 DEF Call, CallerStep, Drop, ReuseChild, SpawnChild, SpawnFails, MarkRunning, InsertPending,
                    TakeStdin, WriteFails, TakeReply, RoundTripEnds
<1>2. ASSUME NEW s \in Stoppers, StopperStep(s)
      PROVE  task[r] \in Unwritten /\ home'[r] = home[r] /\ (r \in queued' => r \in queued)
  BY <1>0, <1>2 DEF StopperStep, EnterShutdown, InsertPending, TakeStdin, WriteFails, TakeReply, TakeChild,
                    ClearPid, ShutdownDrains, ShutdownCloses, RoundTripEnds
<1>3. ASSUME \/ \E i \in Ids : WriteLine(i) \/ Timeout(i)
             \/ \E w \in Watchdog : WatchdogFires(w) \/ WatchdogChecks(w)
             \/ \E h \in Hosts : HostExits(h)
             \/ UNCHANGED vars
      PROVE  task[r] \in Unwritten /\ home'[r] = home[r] /\ (r \in queued' => r \in queued)
  BY <1>0, <1>3 DEF WriteLine, Timeout, WatchdogFires, WatchdogChecks, HostExits, vars, RoundTripEnds, Stoppers
<1>4. ASSUME NEW p \in Procs, ReaderStep(p) \/ SidecarStep(p)
      PROVE  task' = task /\ home' = home /\ queued' \subseteq queued
  BY <1>4 DEF ReaderStep, AnswerPending, TrackStream, BroadcastLine, Eof, ProcessEnds, ReleaseSlot, ReaderClearsPid,
              ReaderSetsState, ReaderDrains, ReaderCloses, SidecarStep, Reads, SidecarReplies, SidecarStartsRun,
              SidecarAcksRun, RunEmits, SidecarStops, SidecarCrashes
<1> QED BY <1>1, <1>2, <1>3, <1>4, IdsAssumption DEF Next, Requests

LEMMA RunsMoves ==
    ASSUME IInv, AnswersExecuted, [Next]_vars, NEW r \in (unacked \cup live)'
    PROVE  r \in Requests /\ Executed(r)'
<1>0. TypeOK /\ Runs \subseteq Requests
  BY DEF IInv, Requests
<1>1. ASSUME NEW p \in Procs, NEW q \in Runs, SidecarStartsRun(p, q), r = q PROVE r \in Requests /\ Executed(r)'
  BY <1>0, <1>1 DEF Reads, SidecarStartsRun, Executed, NoProc, Procs
<1>2. r \in unacked \cup live \/ \E p \in Procs, q \in Runs : SidecarStartsRun(p, q) /\ r = q
  <2>1. ASSUME NEW p \in Procs, SidecarStep(p) \/ ReaderStep(p)
        PROVE  r \in unacked \cup live \/ \E q \in Runs : SidecarStartsRun(p, q) /\ r = q
    BY <2>1 DEF SidecarStep, Reads, SidecarReplies, SidecarStartsRun, SidecarAcksRun, RunEmits, SidecarStops,
                SidecarCrashes, ProcessEnds, ReaderStep, AnswerPending, TrackStream, BroadcastLine, Eof, ProcessEnds, ReleaseSlot,
                ReaderClearsPid, ReaderSetsState, ReaderDrains, ReaderCloses
  <2>2. ASSUME NEW q \in Requests, Call(q) \/ CallerStep(q) \/ Drop(q) PROVE r \in unacked \cup live
    BY <2>2 DEF Call, CallerStep, Drop, ReuseChild, SpawnChild, SpawnFails, MarkRunning, InsertPending, TakeStdin,
                WriteFails, TakeReply
  <2>3. ASSUME NEW s \in Stoppers, StopperStep(s) PROVE r \in unacked \cup live
    BY <2>3 DEF StopperStep, EnterShutdown, InsertPending, TakeStdin, WriteFails, TakeReply, TakeChild, ClearPid,
                ShutdownDrains, ShutdownCloses, ProcessEnds
  <2>4. ASSUME \/ \E i \in Ids : WriteLine(i) \/ Timeout(i)
               \/ \E w \in Watchdog : WatchdogFires(w) \/ WatchdogChecks(w)
               \/ \E h \in Hosts : HostExits(h)
               \/ UNCHANGED vars
        PROVE  r \in unacked \cup live
    BY <2>4 DEF WriteLine, Timeout, WatchdogFires, WatchdogChecks, HostExits, vars
  <2> QED BY <2>1, <2>2, <2>3, <2>4, IdsAssumption DEF Next, Requests
<1>3. ASSUME r \in unacked \cup live PROVE r \in Requests /\ Executed(r)'
  BY <1>0, <1>3, ExecutedStays DEF AnswersExecuted, TypeOK
<1> QED BY <1>1, <1>2, <1>3

LEMMA AnswersExecutedStep == IInv /\ AnswersExecuted /\ [Next]_vars => AnswersExecuted'
<1> SUFFICES ASSUME IInv, AnswersExecuted, [Next]_vars PROVE AnswersExecuted'
  OBVIOUS
<1>1. ASSUME NEW r \in Requests, task'[r] \in Unwritten
      PROVE  home'[r] = NoProc /\ r \notin queued'
  BY <1>1, UnwrittenStays DEF AnswersExecuted
<1>2. ASSUME NEW r \in Requests, box'[r] \in LineKinds PROVE Executed(r)'
  BY <1>2, BoxMoves, ExecutedStays
<1>3. ASSUME NEW r \in (unacked \cup live)' PROVE Executed(r)'
  BY <1>3, RunsMoves
<1>4. ASSUME NEW p \in Procs, NEW n \in 1 .. Len(out'[p]), NEW id \in Requests, out'[p][n].id = id
      PROVE  Executed(id)'
  BY <1>4, LinesStay
<1> QED BY <1>1, <1>2, <1>3, <1>4 DEF AnswersExecuted
LEMMA AnswersExecutedInit == Init => AnswersExecuted
<1> SUFFICES ASSUME Init PROVE AnswersExecuted
  OBVIOUS
<1>1. Requests \subseteq Ids /\ NoReply \notin LineKinds
  BY DEF Ids, LineKinds, NoReply
<1>2. \A p \in Procs : out[p] = << >> /\ Len(out[p]) = 0
  BY DEF Init
<1> QED BY <1>1, <1>2 DEF Init, AnswersExecuted

\* The two views of AtMostOnceCall, request by request.
SameViews    == \A q \in Requests : View(q)' = View(q)
SameExecuted == \A q \in Requests : Executed(q)' = Executed(q)

ViewMoves(r, v) ==
    /\ View(r)' = v
    /\ \A q \in Requests : q # r => View(q)' = View(q)

LEMMA SameViewsKept == ASSUME SameViews PROVE clientView' = clientView
BY DEF SameViews, clientView, View

LEMMA SameExecutedKept == ASSUME SameExecuted PROVE serverView' = serverView
BY DEF SameExecuted, serverView, Executed

LEMMA ViewMovesOne ==
    ASSUME NEW r \in Requests, NEW v, ViewMoves(r, v)
    PROVE  clientView' = [clientView EXCEPT ![r] = v]
<1>1. \A q \in Requests : clientView[q] = View(q) /\ clientView'[q] = View(q)'
  BY DEF clientView, View
<1>2. /\ DOMAIN clientView = Requests /\ clientView = [q \in Requests |-> clientView[q]]
      /\ DOMAIN clientView' = Requests /\ clientView' = [q \in Requests |-> clientView'[q]]
  BY DEF clientView
<1>3. DOMAIN [clientView EXCEPT ![r] = v] = Requests
  BY <1>2
<1>4. \A q \in Requests : clientView'[q] = [clientView EXCEPT ![r] = v][q]
  BY <1>1, <1>2 DEF ViewMoves
<1> QED BY <1>2, <1>3, <1>4

\* A request that fails, and one that is answered.
LEMMA FailsOne ==
    ASSUME NEW r \in Requests, View(r) = "open", ViewMoves(r, "failed"), SameExecuted
    PROVE  Remote!Next
<1>1. clientView[r] = "open"
  BY DEF clientView, View
<1> QED BY <1>1, ViewMovesOne, SameExecutedKept DEF Remote!Next, Remote!Fail

LEMMA AnswersOne ==
    ASSUME NEW r \in Requests, View(r) = "open", Executed(r), ViewMoves(r, "answered"), SameExecuted
    PROVE  Remote!Next
<1>1. clientView[r] = "open" /\ r \in serverView
  BY DEF clientView, View, serverView, Executed
<1> QED BY <1>1, ViewMovesOne, SameExecutedKept DEF Remote!Next, Remote!Answer

LEMMA IssuesOne ==
    ASSUME NEW r \in Requests, View(r) = "new", ViewMoves(r, "open"), SameExecuted
    PROVE  Remote!Next
<1>1. clientView[r] = "new"
  BY DEF clientView, View
<1> QED BY <1>1, ViewMovesOne, SameExecutedKept DEF Remote!Next, Remote!Issue

LEMMA ExecutesOne ==
    ASSUME NEW r \in Requests, View(r) # "new", ~Executed(r), Executed(r)', SameViews,
           \A q \in Requests : q # r => Executed(q)' = Executed(q)
    PROVE  Remote!Next
<1>1. clientView[r] # "new" /\ r \notin serverView
  BY DEF clientView, View, serverView, Executed
<1>2. serverView' = serverView \cup {r}
  BY DEF serverView, Executed
<1> QED BY <1>1, <1>2, SameViewsKept DEF Remote!Next, Remote!Execute

\* Every step of the supervisor is a step of the abstract call, or invisible to it.
LEMMA RemoteStep == IInv /\ AnswersExecuted /\ [Next]_vars => [Remote!Next]_(Remote!vars)
<1> SUFFICES ASSUME IInv, AnswersExecuted, [Next]_vars PROVE Remote!Next \/ UNCHANGED Remote!vars
  OBVIOUS
<1>0. TypeOK /\ task \in [Ids -> CallerPcs \cup StopperPcs] /\ box \in [Ids -> Outcomes \cup {NoReply}]
      /\ \A r \in Requests : r \in Ids /\ r \notin Stoppers
  BY IdsAssumption DEF IInv, TypeOK, Ids, Requests, Stoppers
<1>a. "sidecar_crashed" \notin LineKinds /\ "sidecar_shutdown" \notin LineKinds /\ "timeout" \notin LineKinds
      /\ "spawn_failed" \notin LineKinds /\ NoReply \notin LineKinds
  BY DEF LineKinds, NoReply
<1>b. SameViews /\ SameExecuted => UNCHANGED Remote!vars
  BY SameViewsKept, SameExecutedKept DEF Remote!vars
<1>1. ASSUME NEW r \in Requests, Call(r) PROVE Remote!Next
  <2>1. View(r) = "new" /\ ViewMoves(r, "open")
    BY <1>0, <1>1 DEF Call, Goto, View, ViewMoves
  <2>2. SameExecuted
    BY <1>1 DEF Call, SameExecuted, Executed
  <2> QED BY <2>1, <2>2, IssuesOne
<1>2. ASSUME NEW r \in Requests, SpawnFails(r) \/ WriteFails(r) \/ Timeout(r) PROVE Remote!Next
  <2>1. View(r) = "open" /\ ViewMoves(r, "failed")
    BY <1>0, <1>a, <1>2 DEF SpawnFails, WriteFails, Timeout, RoundTripEnds, Goto, View, ViewMoves
  <2>2. SameExecuted
    BY <1>2 DEF SpawnFails, WriteFails, Timeout, SameExecuted, Executed
  <2> QED BY <2>1, <2>2, FailsOne
<1>3. ASSUME NEW r \in Leaving, Drop(r) PROVE Remote!Next
  <2>0. r \in Requests
    BY IdsAssumption DEF Requests
  <2>1. View(r) = "open" /\ ViewMoves(r, "failed")
    BY <1>0, <1>3, <2>0 DEF Drop, Goto, View, ViewMoves
  <2>2. SameExecuted
    BY <1>3 DEF Drop, SameExecuted, Executed
  <2> QED BY <2>0, <2>1, <2>2, FailsOne
<1>4. ASSUME NEW r \in Requests, TakeReply(r) PROVE Remote!Next
  <2>1. View(r) = "open" /\ ViewMoves(r, IF box[r] \in LineKinds THEN "answered" ELSE "failed")
    BY <1>0, <1>4 DEF TakeReply, RoundTripEnds, Goto, View, ViewMoves
  <2>2. SameExecuted
    BY <1>4 DEF TakeReply, SameExecuted, Executed
  <2>3. CASE box[r] \in LineKinds
    BY <2>1, <2>2, <2>3, AnswersOne DEF AnswersExecuted
  <2>4. CASE box[r] \notin LineKinds
    BY <2>1, <2>2, <2>4, FailsOne
  <2> QED BY <2>3, <2>4
<1>5. ASSUME NEW r \in Requests,
             ReuseChild(r) \/ SpawnChild(r) \/ MarkRunning(r) \/ InsertPending(r) \/ TakeStdin(r)
      PROVE  UNCHANGED Remote!vars
  <2>1. SameViews
    BY <1>0, <1>5 DEF ReuseChild, SpawnChild, MarkRunning, InsertPending, TakeStdin, Goto, View, SameViews
  <2>2. SameExecuted
    BY <1>5 DEF ReuseChild, SpawnChild, MarkRunning, InsertPending, TakeStdin, SameExecuted, Executed
  <2> QED BY <1>b, <2>1, <2>2
<1>c. ASSUME NEW i \in Ids, WriteLine(i) PROVE UNCHANGED Remote!vars
  <2>1. SameViews
    BY <1>0, <1>c DEF WriteLine, Goto, View, SameViews
  <2>2. ASSUME NEW q \in Requests PROVE Executed(q)' = Executed(q)
    <3>1. CASE q = i
      <4>1. home[i] = NoProc
        BY <1>c, <3>1 DEF WriteLine, AnswersExecuted, Unwritten
      <4> QED BY <1>0, <1>c, <3>1, <4>1 DEF WriteLine, Executed, TypeOK
    <3>2. CASE q # i
      BY <1>0, <1>c, <3>2 DEF WriteLine, Executed, TypeOK
    <3> QED BY <3>1, <3>2
  <2> QED BY <1>b, <2>1, <2>2 DEF SameExecuted
<1>6. ASSUME NEW s \in Stoppers, StopperStep(s) \/ Timeout(s) PROVE UNCHANGED Remote!vars
  <2>0. s \notin Requests /\ s \in Ids
    BY <1>0 DEF Ids
  <2>1. ASSUME NEW q \in Requests
        PROVE task'[q] = task[q] /\ (box'[q] = box[q] \/ task[q] \in {"write", "flush", "wait"})
    BY <1>0, <1>6, <2>0 DEF StopperStep, Timeout, EnterShutdown, InsertPending, TakeStdin, WriteFails, TakeReply, TakeChild,
          ClearPid, ShutdownDrains, ShutdownCloses, RoundTripEnds, FailAllPending, Deliver, Goto
  <2>2. SameViews
    BY <2>1 DEF SameViews, View
  <2>3. SameExecuted
    BY <1>0, <1>6, <2>0 DEF StopperStep, Timeout, EnterShutdown, InsertPending, TakeStdin, WriteFails, TakeReply, TakeChild,
          ClearPid, ShutdownDrains, ShutdownCloses, SameExecuted, Executed, TypeOK
  <2> QED BY <1>b, <2>2, <2>3
<1>7. ASSUME \/ \E w \in Watchdog : WatchdogFires(w) \/ WatchdogChecks(w)
             \/ \E h \in Hosts : HostExits(h)
             \/ UNCHANGED vars
      PROVE  UNCHANGED Remote!vars
  <2>1. SameViews /\ SameExecuted
    BY <1>0, <1>7 DEF WatchdogFires, WatchdogChecks, HostExits, vars, Goto, SameViews, View, SameExecuted, Executed,
                      Stoppers
  <2> QED BY <1>b, <2>1
<1>8. ASSUME NEW p \in Procs, ReaderStep(p) PROVE UNCHANGED Remote!vars
  <2>1. ASSUME NEW q \in Requests
        PROVE task'[q] = task[q] /\ (box'[q] = box[q] \/ task[q] \in {"write", "flush", "wait"})
    BY <1>0, <1>8 DEF ReaderStep, AnswerPending, TrackStream, BroadcastLine, Eof, ProcessEnds, ReleaseSlot, ReaderClearsPid,
              ReaderSetsState, ReaderDrains, ReaderCloses, FailAllPending, Deliver
  <2>2. SameViews
    BY <2>1 DEF SameViews, View
  <2>3. SameExecuted
    BY <1>8 DEF ReaderStep, AnswerPending, TrackStream, BroadcastLine, Eof, ProcessEnds, ReleaseSlot, ReaderClearsPid,
              ReaderSetsState, ReaderDrains, ReaderCloses, SameExecuted, Executed
  <2> QED BY <1>b, <2>2, <2>3
<1>9. ASSUME NEW p \in Procs, NEW r \in Requests, SidecarReplies(p, r) \/ (r \in Runs /\ SidecarStartsRun(p, r))
      PROVE  Remote!Next
  <2>1. r \in queued /\ home[r] = p /\ queued' = queued \ {r} /\ UNCHANGED <<home, task, box>>
    BY <1>9 DEF Reads, SidecarReplies, SidecarStartsRun
  <2>2. View(r) # "new"
    BY <2>1 DEF View, AnswersExecuted, Unwritten
  <2>3. ~Executed(r) /\ Executed(r)' /\ SameViews /\ \A q \in Requests : q # r => Executed(q)' = Executed(q)
    BY <2>1 DEF Executed, SameViews, View, NoProc, Procs
  <2> QED BY <2>2, <2>3, ExecutesOne
<1>10. ASSUME NEW p \in Procs,
              \/ \E r \in Runs : SidecarAcksRun(p, r) \/ RunEmits(p, r)
              \/ \E s \in Stoppers : SidecarStops(p, s)
              \/ SidecarCrashes(p)
       PROVE  UNCHANGED Remote!vars
  <2>1. SameViews /\ SameExecuted
    BY <1>0, <1>10 DEF SidecarAcksRun, RunEmits, Reads, SidecarStops, SidecarCrashes, SameViews, View, SameExecuted, Executed
  <2> QED BY <1>b, <2>1
<1> QED
  BY <1>1, <1>2, <1>3, <1>4, <1>5, <1>6, <1>7, <1>8, <1>9, <1>10, <1>c
  DEF Next, CallerStep, SidecarStep, Ids, Requests

LEMMA RemoteInit == Init => Remote!Init
<1> SUFFICES ASSUME Init PROVE Remote!Init
  OBVIOUS
<1>1. \A r \in Requests : r \in Ids /\ r \notin Watchdog
  BY IdsAssumption DEF Ids, Requests
<1> QED BY <1>1 DEF Init, Remote!Init, clientView, serverView

\* The supervisor's request() is an at-most-once call (lib.rs:221-225): an answered request
\* was executed by a sidecar, none is executed twice, and an outcome never changes, whatever
\* is spawned, killed, timed out or drained meanwhile.
THEOREM CallsAreAtMostOnce == Spec => AtMostOnce
<1>1. Init => IInv /\ AnswersExecuted /\ Remote!Init
  BY InvInit, AnswersExecutedInit, RemoteInit
<1>2. IInv /\ AnswersExecuted /\ [Next]_vars => IInv' /\ AnswersExecuted' /\ [Remote!Next]_(Remote!vars)
  BY InvStep, AnswersExecutedStep, RemoteStep
<1> QED
  BY <1>1, <1>2, PTL DEF Spec, AtMostOnce, Remote!Spec
=============================================================================
