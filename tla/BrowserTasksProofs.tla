------------------------- MODULE BrowserTasksProofs -------------------------
(***************************************************************************)
(* For any number of tasks: the types, that the browser is suspended only  *)
(* for a runner that owns it, that a finished task has its final row and   *)
(* no token, and that all slots are free when nobody is at work.           *)
(*                                                                         *)
(* The slots are shared and written without a look at whose they are, so   *)
(* no invariant can say to whom one belongs.  What holds instead is that   *)
(* whoever could still free them is there (SomebodyAtWork): a slot is only *)
(* taken by a task that has a clean-up before it.                          *)
(***************************************************************************)
EXTENDS BrowserTasks, TLAPS

\* A runner exists only after its caller has spawned it.
RunnerSpawned == \A t \in Tasks : calls[t] \in {"new", "start", "insert", "spawn"} => run[t] = "none"

\* The runner's verdict is known from the moment its inner function ends.
VerdictAtEnd ==
    \A t \in Tasks :
        /\ verdict[t] # "none" <=> run[t] \in {"release", "finish", "cleanup", "done"}
        /\ run[t] \in {"release", "finish"} => verdict[t] # "unsaved"

\* The final row stands as soon as it is written.
RowIsFinal ==
    \A t \in Tasks : run[t] \in {"cleanup", "done"} /\ verdict[t] # "unsaved" =>
        /\ row[t] \in Terminal
        /\ row[t] = "completed" => verdict[t] = "completed"

AtWork(t) == calls[t] = "spawn" \/ run[t] \notin {"none", "done"}
SomebodyAtWork == task.id # NoTask \/ cancel # NoTask \/ ~manual => \E t \in Tasks : AtWork(t)

IInv ==
    /\ TasksTypeOK
    /\ RunnerSpawned
    /\ VerdictAtEnd
    /\ RowIsFinal
    /\ TokenHasRunner
    /\ SuspensionHasOwner
    /\ SomebodyAtWork

-----------------------------------------------------------------------------
(* Types.                                                                  *)

LEMMA AdvanceTyped ==
    ASSUME TasksTypeOK, NEW event, Advance(event)
    PROVE  task' \in [id : Tasks \cup {NoTask}, st : Active \cup Terminal]
<1>1. \A st \in Active \cup Terminal : Transition(st, event) \in Active \cup Terminal
  BY DEF Transition, Active, Terminal
<1> QED BY <1>1 DEF Advance, TasksTypeOK

LEMMA TypeStep == ASSUME TasksTypeOK, VerdictAtEnd, [TasksNext]_taskVars PROVE TasksTypeOK'
<1> USE DEF TasksTypeOK, slotVars, callsVars, endVars, userVars, CallPcs, RunPcs, Verdicts, Active, Terminal
<1>1. ASSUME NEW t \in Tasks, Enter(t) PROVE TasksTypeOK'
  BY <1>1 DEF Enter, CallAt
<1>2. ASSUME NEW t \in Tasks, StartReturns(t) PROVE TasksTypeOK'
  BY <1>2 DEF StartReturns, CallAt
<1>3. ASSUME NEW t \in Tasks, Insert(t) PROVE TasksTypeOK'
  BY <1>3 DEF Insert, CallAt
<1>4. ASSUME NEW t \in Tasks, InsertFails(t) PROVE TasksTypeOK'
  BY <1>4 DEF InsertFails, CallAt
<1>5. ASSUME NEW t \in Tasks, SpawnRunner(t) PROVE TasksTypeOK'
  BY <1>5 DEF SpawnRunner, CallAt
<1>6. ASSUME NEW t \in Tasks, TakeReceiver(t) PROVE TasksTypeOK'
  BY <1>6 DEF TakeReceiver, CallAt
<1>7. ASSUME NEW t \in Tasks, Answered(t) PROVE TasksTypeOK'
  BY <1>7 DEF Answered, CallAt
<1>8. ASSUME NEW t \in Tasks, CheckGrant(t) PROVE TasksTypeOK'
  BY <1>8 DEF CheckGrant, Goes
<1>9. ASSUME NEW t \in Tasks, Allowed(t) PROVE TasksTypeOK'
  BY <1>9 DEF Allowed, Goes
<1>10. ASSUME NEW t \in Tasks, Denied(t) PROVE TasksTypeOK'
  BY <1>10, AdvanceTyped DEF Denied, Ends, Goes
<1>11. ASSUME NEW t \in Tasks, AskTimeout(t) PROVE TasksTypeOK'
  BY <1>11 DEF AskTimeout, Ends, Goes
<1>12. ASSUME NEW t \in Tasks, Approve(t) PROVE TasksTypeOK'
  BY <1>12, AdvanceTyped DEF Approve, Goes
<1>13. ASSUME NEW t \in Tasks, DbFails(t) PROVE TasksTypeOK'
  BY <1>13 DEF DbFails, Ends, Goes
<1>14. ASSUME NEW t \in Tasks, TakeBrowser(t) PROVE TasksTypeOK'
  BY <1>14 DEF TakeBrowser, Goes
<1>15. ASSUME NEW t \in Tasks, HubReady(t) PROVE TasksTypeOK'
  BY <1>15 DEF HubReady, Goes
<1>16. ASSUME NEW t \in Tasks, HubMissing(t) PROVE TasksTypeOK'
  BY <1>16 DEF HubMissing, GivesUp, Goes
<1>17. ASSUME NEW t \in Tasks, Mint(t) PROVE TasksTypeOK'
  BY <1>17, AdvanceTyped DEF Mint, Goes
<1>18. ASSUME NEW t \in Tasks, SendExecute(t) PROVE TasksTypeOK'
  BY <1>18 DEF SendExecute, Goes
<1>19. ASSUME NEW t \in Tasks, SendFails(t) PROVE TasksTypeOK'
  BY <1>19 DEF SendFails, GivesUp, Goes
<1>20. ASSUME NEW t \in Tasks, ReadResult(t) PROVE TasksTypeOK'
  BY <1>20, AdvanceTyped DEF ReadResult, GivesUp, Goes, Revoke
<1>21. ASSUME NEW t \in Tasks, Cancelled(t) PROVE TasksTypeOK'
  BY <1>21, AdvanceTyped DEF Cancelled, GivesUp, Goes, Revoke
<1>22. ASSUME NEW t \in Tasks, TaskTimeout(t) PROVE TasksTypeOK'
  BY <1>22 DEF TaskTimeout, GivesUp, Goes, Revoke
<1>23. ASSUME NEW t \in Tasks, Release(t) PROVE TasksTypeOK'
  BY <1>23 DEF Release, Goes
<1>24. ASSUME NEW t \in Tasks, FinishRow(t) PROVE TasksTypeOK'
  BY <1>24 DEF FinishRow, Goes, VerdictAtEnd
<1>25. ASSUME NEW t \in Tasks, FinishFails(t) PROVE TasksTypeOK'
  BY <1>25 DEF FinishFails, Goes
<1>26. ASSUME NEW t \in Tasks, CleanUp(t) PROVE TasksTypeOK'
  BY <1>26 DEF CleanUp, Goes, Empty
<1>27. ASSUME NEW t \in Tasks, StopTask(t) PROVE TasksTypeOK'
  BY <1>27 DEF StopTask
<1>28. ASSUME NEW t \in Tasks, AbandonTask(t) PROVE TasksTypeOK'
  BY <1>28 DEF AbandonTask
<1>29. ASSUME TakeOver PROVE TasksTypeOK'
  BY <1>29 DEF TakeOver
<1>30. ASSUME Crash PROVE TasksTypeOK'
  BY <1>30 DEF Crash
<1>31. ASSUME CrashFailsRow PROVE TasksTypeOK'
  BY <1>31 DEF CrashFailsRow
<1>32. ASSUME UNCHANGED taskVars PROVE TasksTypeOK'
  BY <1>32 DEF taskVars
<1> QED
  BY <1>1, <1>2, <1>3, <1>4, <1>5, <1>6, <1>7, <1>8, <1>9, <1>10, <1>11,
     <1>12, <1>13, <1>14, <1>15, <1>16, <1>17, <1>18, <1>19, <1>20, <1>21,
     <1>22, <1>23, <1>24, <1>25, <1>26, <1>27, <1>28, <1>29, <1>30, <1>31,
     <1>32
     DEF TasksNext, TaskCaller, Runner, Environment

-----------------------------------------------------------------------------
(* Runners, verdicts and rows.                                             *)

LEMMA SpawnedStep == ASSUME TasksTypeOK, RunnerSpawned, [TasksNext]_taskVars PROVE RunnerSpawned'
<1> USE DEF slotVars, callsVars, endVars, userVars, TasksTypeOK, RunnerSpawned
<1>1. ASSUME NEW t \in Tasks, Enter(t) PROVE RunnerSpawned'
  BY <1>1 DEF Enter, CallAt
<1>2. ASSUME NEW t \in Tasks, StartReturns(t) PROVE RunnerSpawned'
  BY <1>2 DEF StartReturns, CallAt
<1>3. ASSUME NEW t \in Tasks, Insert(t) PROVE RunnerSpawned'
  BY <1>3 DEF Insert, CallAt
<1>4. ASSUME NEW t \in Tasks, InsertFails(t) PROVE RunnerSpawned'
  BY <1>4 DEF InsertFails, CallAt
<1>5. ASSUME NEW t \in Tasks, SpawnRunner(t) PROVE RunnerSpawned'
  BY <1>5 DEF SpawnRunner, CallAt
<1>6. ASSUME NEW t \in Tasks, TakeReceiver(t) PROVE RunnerSpawned'
  BY <1>6 DEF TakeReceiver, CallAt
<1>7. ASSUME NEW t \in Tasks, Answered(t) PROVE RunnerSpawned'
  BY <1>7 DEF Answered, CallAt
<1>8. ASSUME NEW t \in Tasks, CheckGrant(t) PROVE RunnerSpawned'
  BY <1>8 DEF CheckGrant, Goes
<1>9. ASSUME NEW t \in Tasks, Allowed(t) PROVE RunnerSpawned'
  BY <1>9 DEF Allowed, Goes
<1>10. ASSUME NEW t \in Tasks, Denied(t) PROVE RunnerSpawned'
  BY <1>10 DEF Denied, Ends, Goes
<1>11. ASSUME NEW t \in Tasks, AskTimeout(t) PROVE RunnerSpawned'
  BY <1>11 DEF AskTimeout, Ends, Goes
<1>12. ASSUME NEW t \in Tasks, Approve(t) PROVE RunnerSpawned'
  BY <1>12 DEF Approve, Goes
<1>13. ASSUME NEW t \in Tasks, DbFails(t) PROVE RunnerSpawned'
  BY <1>13 DEF DbFails, Ends, Goes
<1>14. ASSUME NEW t \in Tasks, TakeBrowser(t) PROVE RunnerSpawned'
  BY <1>14 DEF TakeBrowser, Goes
<1>15. ASSUME NEW t \in Tasks, HubReady(t) PROVE RunnerSpawned'
  BY <1>15 DEF HubReady, Goes
<1>16. ASSUME NEW t \in Tasks, HubMissing(t) PROVE RunnerSpawned'
  BY <1>16 DEF HubMissing, GivesUp, Goes
<1>17. ASSUME NEW t \in Tasks, Mint(t) PROVE RunnerSpawned'
  BY <1>17 DEF Mint, Goes
<1>18. ASSUME NEW t \in Tasks, SendExecute(t) PROVE RunnerSpawned'
  BY <1>18 DEF SendExecute, Goes
<1>19. ASSUME NEW t \in Tasks, SendFails(t) PROVE RunnerSpawned'
  BY <1>19 DEF SendFails, GivesUp, Goes
<1>20. ASSUME NEW t \in Tasks, ReadResult(t) PROVE RunnerSpawned'
  BY <1>20 DEF ReadResult, GivesUp, Goes, Revoke
<1>21. ASSUME NEW t \in Tasks, Cancelled(t) PROVE RunnerSpawned'
  BY <1>21 DEF Cancelled, GivesUp, Goes, Revoke
<1>22. ASSUME NEW t \in Tasks, TaskTimeout(t) PROVE RunnerSpawned'
  BY <1>22 DEF TaskTimeout, GivesUp, Goes, Revoke
<1>23. ASSUME NEW t \in Tasks, Release(t) PROVE RunnerSpawned'
  BY <1>23 DEF Release, Goes
<1>24. ASSUME NEW t \in Tasks, FinishRow(t) PROVE RunnerSpawned'
  BY <1>24 DEF FinishRow, Goes
<1>25. ASSUME NEW t \in Tasks, FinishFails(t) PROVE RunnerSpawned'
  BY <1>25 DEF FinishFails, Goes
<1>26. ASSUME NEW t \in Tasks, CleanUp(t) PROVE RunnerSpawned'
  BY <1>26 DEF CleanUp, Goes
<1>27. ASSUME NEW t \in Tasks, StopTask(t) PROVE RunnerSpawned'
  BY <1>27 DEF StopTask
<1>28. ASSUME NEW t \in Tasks, AbandonTask(t) PROVE RunnerSpawned'
  BY <1>28 DEF AbandonTask
<1>29. ASSUME TakeOver PROVE RunnerSpawned'
  BY <1>29 DEF TakeOver
<1>30. ASSUME Crash PROVE RunnerSpawned'
  BY <1>30 DEF Crash
<1>31. ASSUME CrashFailsRow PROVE RunnerSpawned'
  BY <1>31 DEF CrashFailsRow
<1>32. ASSUME UNCHANGED taskVars PROVE RunnerSpawned'
  BY <1>32 DEF taskVars
<1> QED
  BY <1>1, <1>2, <1>3, <1>4, <1>5, <1>6, <1>7, <1>8, <1>9, <1>10, <1>11,
     <1>12, <1>13, <1>14, <1>15, <1>16, <1>17, <1>18, <1>19, <1>20, <1>21,
     <1>22, <1>23, <1>24, <1>25, <1>26, <1>27, <1>28, <1>29, <1>30, <1>31,
     <1>32
     DEF TasksNext, TaskCaller, Runner, Environment

LEMMA VerdictStep == ASSUME TasksTypeOK, VerdictAtEnd, RunnerSpawned, [TasksNext]_taskVars PROVE VerdictAtEnd'
<1> USE DEF slotVars, callsVars, endVars, userVars, TasksTypeOK, VerdictAtEnd, RunnerSpawned, Terminal
<1>1. ASSUME NEW t \in Tasks, Enter(t) PROVE VerdictAtEnd'
  BY <1>1 DEF Enter, CallAt
<1>2. ASSUME NEW t \in Tasks, StartReturns(t) PROVE VerdictAtEnd'
  BY <1>2 DEF StartReturns, CallAt
<1>3. ASSUME NEW t \in Tasks, Insert(t) PROVE VerdictAtEnd'
  BY <1>3 DEF Insert, CallAt
<1>4. ASSUME NEW t \in Tasks, InsertFails(t) PROVE VerdictAtEnd'
  BY <1>4 DEF InsertFails, CallAt
<1>5. ASSUME NEW t \in Tasks, SpawnRunner(t) PROVE VerdictAtEnd'
  BY <1>5 DEF SpawnRunner, CallAt
<1>6. ASSUME NEW t \in Tasks, TakeReceiver(t) PROVE VerdictAtEnd'
  BY <1>6 DEF TakeReceiver, CallAt
<1>7. ASSUME NEW t \in Tasks, Answered(t) PROVE VerdictAtEnd'
  BY <1>7 DEF Answered, CallAt
<1>8. ASSUME NEW t \in Tasks, CheckGrant(t) PROVE VerdictAtEnd'
  BY <1>8 DEF CheckGrant, Goes
<1>9. ASSUME NEW t \in Tasks, Allowed(t) PROVE VerdictAtEnd'
  BY <1>9 DEF Allowed, Goes
<1>10. ASSUME NEW t \in Tasks, Denied(t) PROVE VerdictAtEnd'
  BY <1>10 DEF Denied, Ends, Goes
<1>11. ASSUME NEW t \in Tasks, AskTimeout(t) PROVE VerdictAtEnd'
  BY <1>11 DEF AskTimeout, Ends, Goes
<1>12. ASSUME NEW t \in Tasks, Approve(t) PROVE VerdictAtEnd'
  BY <1>12 DEF Approve, Goes
<1>13. ASSUME NEW t \in Tasks, DbFails(t) PROVE VerdictAtEnd'
  BY <1>13 DEF DbFails, Ends, Goes
<1>14. ASSUME NEW t \in Tasks, TakeBrowser(t) PROVE VerdictAtEnd'
  BY <1>14 DEF TakeBrowser, Goes
<1>15. ASSUME NEW t \in Tasks, HubReady(t) PROVE VerdictAtEnd'
  BY <1>15 DEF HubReady, Goes
<1>16. ASSUME NEW t \in Tasks, HubMissing(t) PROVE VerdictAtEnd'
  BY <1>16 DEF HubMissing, GivesUp, Goes
<1>17. ASSUME NEW t \in Tasks, Mint(t) PROVE VerdictAtEnd'
  BY <1>17 DEF Mint, Goes
<1>18. ASSUME NEW t \in Tasks, SendExecute(t) PROVE VerdictAtEnd'
  BY <1>18 DEF SendExecute, Goes
<1>19. ASSUME NEW t \in Tasks, SendFails(t) PROVE VerdictAtEnd'
  BY <1>19 DEF SendFails, GivesUp, Goes
<1>20. ASSUME NEW t \in Tasks, ReadResult(t) PROVE VerdictAtEnd'
  BY <1>20 DEF ReadResult, GivesUp, Goes, Revoke
<1>21. ASSUME NEW t \in Tasks, Cancelled(t) PROVE VerdictAtEnd'
  BY <1>21 DEF Cancelled, GivesUp, Goes, Revoke
<1>22. ASSUME NEW t \in Tasks, TaskTimeout(t) PROVE VerdictAtEnd'
  BY <1>22 DEF TaskTimeout, GivesUp, Goes, Revoke
<1>23. ASSUME NEW t \in Tasks, Release(t) PROVE VerdictAtEnd'
  BY <1>23 DEF Release, Goes
<1>24. ASSUME NEW t \in Tasks, FinishRow(t) PROVE VerdictAtEnd'
  BY <1>24 DEF FinishRow, Goes
<1>25. ASSUME NEW t \in Tasks, FinishFails(t) PROVE VerdictAtEnd'
  BY <1>25 DEF FinishFails, Goes
<1>26. ASSUME NEW t \in Tasks, CleanUp(t) PROVE VerdictAtEnd'
  BY <1>26 DEF CleanUp, Goes
<1>27. ASSUME NEW t \in Tasks, StopTask(t) PROVE VerdictAtEnd'
  BY <1>27 DEF StopTask
<1>28. ASSUME NEW t \in Tasks, AbandonTask(t) PROVE VerdictAtEnd'
  BY <1>28 DEF AbandonTask
<1>29. ASSUME TakeOver PROVE VerdictAtEnd'
  BY <1>29 DEF TakeOver
<1>30. ASSUME Crash PROVE VerdictAtEnd'
  BY <1>30 DEF Crash
<1>31. ASSUME CrashFailsRow PROVE VerdictAtEnd'
  BY <1>31 DEF CrashFailsRow
<1>32. ASSUME UNCHANGED taskVars PROVE VerdictAtEnd'
  BY <1>32 DEF taskVars
<1> QED
  BY <1>1, <1>2, <1>3, <1>4, <1>5, <1>6, <1>7, <1>8, <1>9, <1>10, <1>11,
     <1>12, <1>13, <1>14, <1>15, <1>16, <1>17, <1>18, <1>19, <1>20, <1>21,
     <1>22, <1>23, <1>24, <1>25, <1>26, <1>27, <1>28, <1>29, <1>30, <1>31,
     <1>32
     DEF TasksNext, TaskCaller, Runner, Environment

LEMMA RowStep == ASSUME TasksTypeOK, RowIsFinal, VerdictAtEnd, RunnerSpawned, [TasksNext]_taskVars PROVE RowIsFinal'
<1> USE DEF slotVars, callsVars, endVars, userVars, TasksTypeOK, RowIsFinal, VerdictAtEnd, RunnerSpawned, Terminal, Verdicts
<1>1. ASSUME NEW t \in Tasks, Enter(t) PROVE RowIsFinal'
  BY <1>1 DEF Enter, CallAt
<1>2. ASSUME NEW t \in Tasks, StartReturns(t) PROVE RowIsFinal'
  BY <1>2 DEF StartReturns, CallAt
<1>3. ASSUME NEW t \in Tasks, Insert(t) PROVE RowIsFinal'
  BY <1>3 DEF Insert, CallAt
<1>4. ASSUME NEW t \in Tasks, InsertFails(t) PROVE RowIsFinal'
  BY <1>4 DEF InsertFails, CallAt
<1>5. ASSUME NEW t \in Tasks, SpawnRunner(t) PROVE RowIsFinal'
  BY <1>5 DEF SpawnRunner, CallAt
<1>6. ASSUME NEW t \in Tasks, TakeReceiver(t) PROVE RowIsFinal'
  BY <1>6 DEF TakeReceiver, CallAt
<1>7. ASSUME NEW t \in Tasks, Answered(t) PROVE RowIsFinal'
  BY <1>7 DEF Answered, CallAt
<1>8. ASSUME NEW t \in Tasks, CheckGrant(t) PROVE RowIsFinal'
  BY <1>8 DEF CheckGrant, Goes
<1>9. ASSUME NEW t \in Tasks, Allowed(t) PROVE RowIsFinal'
  BY <1>9 DEF Allowed, Goes
<1>10. ASSUME NEW t \in Tasks, Denied(t) PROVE RowIsFinal'
  BY <1>10 DEF Denied, Ends, Goes
<1>11. ASSUME NEW t \in Tasks, AskTimeout(t) PROVE RowIsFinal'
  BY <1>11 DEF AskTimeout, Ends, Goes
<1>12. ASSUME NEW t \in Tasks, Approve(t) PROVE RowIsFinal'
  BY <1>12 DEF Approve, Goes
<1>13. ASSUME NEW t \in Tasks, DbFails(t) PROVE RowIsFinal'
  BY <1>13 DEF DbFails, Ends, Goes
<1>14. ASSUME NEW t \in Tasks, TakeBrowser(t) PROVE RowIsFinal'
  BY <1>14 DEF TakeBrowser, Goes
<1>15. ASSUME NEW t \in Tasks, HubReady(t) PROVE RowIsFinal'
  BY <1>15 DEF HubReady, Goes
<1>16. ASSUME NEW t \in Tasks, HubMissing(t) PROVE RowIsFinal'
  BY <1>16 DEF HubMissing, GivesUp, Goes
<1>17. ASSUME NEW t \in Tasks, Mint(t) PROVE RowIsFinal'
  BY <1>17 DEF Mint, Goes
<1>18. ASSUME NEW t \in Tasks, SendExecute(t) PROVE RowIsFinal'
  BY <1>18 DEF SendExecute, Goes
<1>19. ASSUME NEW t \in Tasks, SendFails(t) PROVE RowIsFinal'
  BY <1>19 DEF SendFails, GivesUp, Goes
<1>20. ASSUME NEW t \in Tasks, ReadResult(t) PROVE RowIsFinal'
  BY <1>20 DEF ReadResult, GivesUp, Goes, Revoke
<1>21. ASSUME NEW t \in Tasks, Cancelled(t) PROVE RowIsFinal'
  BY <1>21 DEF Cancelled, GivesUp, Goes, Revoke
<1>22. ASSUME NEW t \in Tasks, TaskTimeout(t) PROVE RowIsFinal'
  BY <1>22 DEF TaskTimeout, GivesUp, Goes, Revoke
<1>23. ASSUME NEW t \in Tasks, Release(t) PROVE RowIsFinal'
  BY <1>23 DEF Release, Goes
<1>24. ASSUME NEW t \in Tasks, FinishRow(t) PROVE RowIsFinal'
  BY <1>24 DEF FinishRow, Goes
<1>25. ASSUME NEW t \in Tasks, FinishFails(t) PROVE RowIsFinal'
  BY <1>25 DEF FinishFails, Goes
<1>26. ASSUME NEW t \in Tasks, CleanUp(t) PROVE RowIsFinal'
  BY <1>26 DEF CleanUp, Goes
<1>27. ASSUME NEW t \in Tasks, StopTask(t) PROVE RowIsFinal'
  BY <1>27 DEF StopTask
<1>28. ASSUME NEW t \in Tasks, AbandonTask(t) PROVE RowIsFinal'
  BY <1>28 DEF AbandonTask
<1>29. ASSUME TakeOver PROVE RowIsFinal'
  BY <1>29 DEF TakeOver
<1>30. ASSUME Crash PROVE RowIsFinal'
  BY <1>30 DEF Crash
<1>31. ASSUME CrashFailsRow PROVE RowIsFinal'
  BY <1>31 DEF CrashFailsRow
<1>32. ASSUME UNCHANGED taskVars PROVE RowIsFinal'
  BY <1>32 DEF taskVars
<1> QED
  BY <1>1, <1>2, <1>3, <1>4, <1>5, <1>6, <1>7, <1>8, <1>9, <1>10, <1>11,
     <1>12, <1>13, <1>14, <1>15, <1>16, <1>17, <1>18, <1>19, <1>20, <1>21,
     <1>22, <1>23, <1>24, <1>25, <1>26, <1>27, <1>28, <1>29, <1>30, <1>31,
     <1>32
     DEF TasksNext, TaskCaller, Runner, Environment

LEMMA TokenStep == ASSUME TasksTypeOK, TokenHasRunner, VerdictAtEnd, RunnerSpawned, [TasksNext]_taskVars PROVE TokenHasRunner'
<1> USE DEF slotVars, callsVars, endVars, userVars, TasksTypeOK, TokenHasRunner, VerdictAtEnd, RunnerSpawned
<1>1. ASSUME NEW t \in Tasks, Enter(t) PROVE TokenHasRunner'
  BY <1>1 DEF Enter, CallAt
<1>2. ASSUME NEW t \in Tasks, StartReturns(t) PROVE TokenHasRunner'
  BY <1>2 DEF StartReturns, CallAt
<1>3. ASSUME NEW t \in Tasks, Insert(t) PROVE TokenHasRunner'
  BY <1>3 DEF Insert, CallAt
<1>4. ASSUME NEW t \in Tasks, InsertFails(t) PROVE TokenHasRunner'
  BY <1>4 DEF InsertFails, CallAt
<1>5. ASSUME NEW t \in Tasks, SpawnRunner(t) PROVE TokenHasRunner'
  BY <1>5 DEF SpawnRunner, CallAt
<1>6. ASSUME NEW t \in Tasks, TakeReceiver(t) PROVE TokenHasRunner'
  BY <1>6 DEF TakeReceiver, CallAt
<1>7. ASSUME NEW t \in Tasks, Answered(t) PROVE TokenHasRunner'
  BY <1>7 DEF Answered, CallAt
<1>8. ASSUME NEW t \in Tasks, CheckGrant(t) PROVE TokenHasRunner'
  BY <1>8 DEF CheckGrant, Goes
<1>9. ASSUME NEW t \in Tasks, Allowed(t) PROVE TokenHasRunner'
  BY <1>9 DEF Allowed, Goes
<1>10. ASSUME NEW t \in Tasks, Denied(t) PROVE TokenHasRunner'
  BY <1>10 DEF Denied, Ends, Goes
<1>11. ASSUME NEW t \in Tasks, AskTimeout(t) PROVE TokenHasRunner'
  BY <1>11 DEF AskTimeout, Ends, Goes
<1>12. ASSUME NEW t \in Tasks, Approve(t) PROVE TokenHasRunner'
  BY <1>12 DEF Approve, Goes
<1>13. ASSUME NEW t \in Tasks, DbFails(t) PROVE TokenHasRunner'
  BY <1>13 DEF DbFails, Ends, Goes
<1>14. ASSUME NEW t \in Tasks, TakeBrowser(t) PROVE TokenHasRunner'
  BY <1>14 DEF TakeBrowser, Goes
<1>15. ASSUME NEW t \in Tasks, HubReady(t) PROVE TokenHasRunner'
  BY <1>15 DEF HubReady, Goes
<1>16. ASSUME NEW t \in Tasks, HubMissing(t) PROVE TokenHasRunner'
  BY <1>16 DEF HubMissing, GivesUp, Goes
<1>17. ASSUME NEW t \in Tasks, Mint(t) PROVE TokenHasRunner'
  BY <1>17 DEF Mint, Goes
<1>18. ASSUME NEW t \in Tasks, SendExecute(t) PROVE TokenHasRunner'
  BY <1>18 DEF SendExecute, Goes
<1>19. ASSUME NEW t \in Tasks, SendFails(t) PROVE TokenHasRunner'
  BY <1>19 DEF SendFails, GivesUp, Goes
<1>20. ASSUME NEW t \in Tasks, ReadResult(t) PROVE TokenHasRunner'
  BY <1>20 DEF ReadResult, GivesUp, Goes, Revoke
<1>21. ASSUME NEW t \in Tasks, Cancelled(t) PROVE TokenHasRunner'
  BY <1>21 DEF Cancelled, GivesUp, Goes, Revoke
<1>22. ASSUME NEW t \in Tasks, TaskTimeout(t) PROVE TokenHasRunner'
  BY <1>22 DEF TaskTimeout, GivesUp, Goes, Revoke
<1>23. ASSUME NEW t \in Tasks, Release(t) PROVE TokenHasRunner'
  BY <1>23 DEF Release, Goes
<1>24. ASSUME NEW t \in Tasks, FinishRow(t) PROVE TokenHasRunner'
  BY <1>24 DEF FinishRow, Goes
<1>25. ASSUME NEW t \in Tasks, FinishFails(t) PROVE TokenHasRunner'
  BY <1>25 DEF FinishFails, Goes
<1>26. ASSUME NEW t \in Tasks, CleanUp(t) PROVE TokenHasRunner'
  BY <1>26 DEF CleanUp, Goes
<1>27. ASSUME NEW t \in Tasks, StopTask(t) PROVE TokenHasRunner'
  BY <1>27 DEF StopTask
<1>28. ASSUME NEW t \in Tasks, AbandonTask(t) PROVE TokenHasRunner'
  BY <1>28 DEF AbandonTask
<1>29. ASSUME TakeOver PROVE TokenHasRunner'
  BY <1>29 DEF TakeOver
<1>30. ASSUME Crash PROVE TokenHasRunner'
  BY <1>30 DEF Crash
<1>31. ASSUME CrashFailsRow PROVE TokenHasRunner'
  BY <1>31 DEF CrashFailsRow
<1>32. ASSUME UNCHANGED taskVars PROVE TokenHasRunner'
  BY <1>32 DEF taskVars
<1> QED
  BY <1>1, <1>2, <1>3, <1>4, <1>5, <1>6, <1>7, <1>8, <1>9, <1>10, <1>11,
     <1>12, <1>13, <1>14, <1>15, <1>16, <1>17, <1>18, <1>19, <1>20, <1>21,
     <1>22, <1>23, <1>24, <1>25, <1>26, <1>27, <1>28, <1>29, <1>30, <1>31,
     <1>32
     DEF TasksNext, TaskCaller, Runner, Environment

-----------------------------------------------------------------------------
(* The shared slots.                                                       *)

LEMMA OwnerStep == ASSUME TasksTypeOK, SuspensionHasOwner, RunnerSpawned, [TasksNext]_taskVars PROVE SuspensionHasOwner'
<1> USE DEF slotVars, callsVars, endVars, userVars, TasksTypeOK, SuspensionHasOwner, OwnsBrowser, RunnerSpawned
<1>1. ASSUME NEW t \in Tasks, Enter(t) PROVE SuspensionHasOwner'
  BY <1>1 DEF Enter, CallAt
<1>2. ASSUME NEW t \in Tasks, StartReturns(t) PROVE SuspensionHasOwner'
  BY <1>2 DEF StartReturns, CallAt
<1>3. ASSUME NEW t \in Tasks, Insert(t) PROVE SuspensionHasOwner'
  BY <1>3 DEF Insert, CallAt
<1>4. ASSUME NEW t \in Tasks, InsertFails(t) PROVE SuspensionHasOwner'
  BY <1>4 DEF InsertFails, CallAt
<1>5. ASSUME NEW t \in Tasks, SpawnRunner(t) PROVE SuspensionHasOwner'
  BY <1>5 DEF SpawnRunner, CallAt
<1>6. ASSUME NEW t \in Tasks, TakeReceiver(t) PROVE SuspensionHasOwner'
  BY <1>6 DEF TakeReceiver, CallAt
<1>7. ASSUME NEW t \in Tasks, Answered(t) PROVE SuspensionHasOwner'
  BY <1>7 DEF Answered, CallAt
<1>8. ASSUME NEW t \in Tasks, CheckGrant(t) PROVE SuspensionHasOwner'
  BY <1>8 DEF CheckGrant, Goes
<1>9. ASSUME NEW t \in Tasks, Allowed(t) PROVE SuspensionHasOwner'
  BY <1>9 DEF Allowed, Goes
<1>10. ASSUME NEW t \in Tasks, Denied(t) PROVE SuspensionHasOwner'
  BY <1>10 DEF Denied, Ends, Goes
<1>11. ASSUME NEW t \in Tasks, AskTimeout(t) PROVE SuspensionHasOwner'
  BY <1>11 DEF AskTimeout, Ends, Goes
<1>12. ASSUME NEW t \in Tasks, Approve(t) PROVE SuspensionHasOwner'
  BY <1>12 DEF Approve, Goes
<1>13. ASSUME NEW t \in Tasks, DbFails(t) PROVE SuspensionHasOwner'
  BY <1>13 DEF DbFails, Ends, Goes
<1>14. ASSUME NEW t \in Tasks, TakeBrowser(t) PROVE SuspensionHasOwner'
  BY <1>14 DEF TakeBrowser, Goes
<1>15. ASSUME NEW t \in Tasks, HubReady(t) PROVE SuspensionHasOwner'
  BY <1>15 DEF HubReady, Goes
<1>16. ASSUME NEW t \in Tasks, HubMissing(t) PROVE SuspensionHasOwner'
  BY <1>16 DEF HubMissing, GivesUp, Goes
<1>17. ASSUME NEW t \in Tasks, Mint(t) PROVE SuspensionHasOwner'
  BY <1>17 DEF Mint, Goes
<1>18. ASSUME NEW t \in Tasks, SendExecute(t) PROVE SuspensionHasOwner'
  BY <1>18 DEF SendExecute, Goes
<1>19. ASSUME NEW t \in Tasks, SendFails(t) PROVE SuspensionHasOwner'
  BY <1>19 DEF SendFails, GivesUp, Goes
<1>20. ASSUME NEW t \in Tasks, ReadResult(t) PROVE SuspensionHasOwner'
  BY <1>20 DEF ReadResult, GivesUp, Goes, Revoke
<1>21. ASSUME NEW t \in Tasks, Cancelled(t) PROVE SuspensionHasOwner'
  BY <1>21 DEF Cancelled, GivesUp, Goes, Revoke
<1>22. ASSUME NEW t \in Tasks, TaskTimeout(t) PROVE SuspensionHasOwner'
  BY <1>22 DEF TaskTimeout, GivesUp, Goes, Revoke
<1>23. ASSUME NEW t \in Tasks, Release(t) PROVE SuspensionHasOwner'
  BY <1>23 DEF Release, Goes
<1>24. ASSUME NEW t \in Tasks, FinishRow(t) PROVE SuspensionHasOwner'
  BY <1>24 DEF FinishRow, Goes
<1>25. ASSUME NEW t \in Tasks, FinishFails(t) PROVE SuspensionHasOwner'
  BY <1>25 DEF FinishFails, Goes
<1>26. ASSUME NEW t \in Tasks, CleanUp(t) PROVE SuspensionHasOwner'
  BY <1>26 DEF CleanUp, Goes
<1>27. ASSUME NEW t \in Tasks, StopTask(t) PROVE SuspensionHasOwner'
  BY <1>27 DEF StopTask
<1>28. ASSUME NEW t \in Tasks, AbandonTask(t) PROVE SuspensionHasOwner'
  BY <1>28 DEF AbandonTask
<1>29. ASSUME TakeOver PROVE SuspensionHasOwner'
  BY <1>29 DEF TakeOver
<1>30. ASSUME Crash PROVE SuspensionHasOwner'
  BY <1>30 DEF Crash
<1>31. ASSUME CrashFailsRow PROVE SuspensionHasOwner'
  BY <1>31 DEF CrashFailsRow
<1>32. ASSUME UNCHANGED taskVars PROVE SuspensionHasOwner'
  BY <1>32 DEF taskVars
<1> QED
  BY <1>1, <1>2, <1>3, <1>4, <1>5, <1>6, <1>7, <1>8, <1>9, <1>10, <1>11,
     <1>12, <1>13, <1>14, <1>15, <1>16, <1>17, <1>18, <1>19, <1>20, <1>21,
     <1>22, <1>23, <1>24, <1>25, <1>26, <1>27, <1>28, <1>29, <1>30, <1>31,
     <1>32
     DEF TasksNext, TaskCaller, Runner, Environment

LEMMA WorkStep == ASSUME TasksTypeOK, SomebodyAtWork, RunnerSpawned, [TasksNext]_taskVars PROVE SomebodyAtWork'
<1> USE DEF slotVars, callsVars, endVars, userVars, TasksTypeOK, SomebodyAtWork, AtWork, RunnerSpawned, Empty
<1>1. ASSUME NEW t \in Tasks, Enter(t) PROVE SomebodyAtWork'
  BY <1>1 DEF Enter, CallAt
<1>2. ASSUME NEW t \in Tasks, StartReturns(t) PROVE SomebodyAtWork'
  BY <1>2 DEF StartReturns, CallAt
<1>3. ASSUME NEW t \in Tasks, Insert(t) PROVE SomebodyAtWork'
  BY <1>3 DEF Insert, CallAt
<1>4. ASSUME NEW t \in Tasks, InsertFails(t) PROVE SomebodyAtWork'
  BY <1>4 DEF InsertFails, CallAt
<1>5. ASSUME NEW t \in Tasks, SpawnRunner(t) PROVE SomebodyAtWork'
  BY <1>5 DEF SpawnRunner, CallAt
<1>6. ASSUME NEW t \in Tasks, TakeReceiver(t) PROVE SomebodyAtWork'
  BY <1>6 DEF TakeReceiver, CallAt
<1>7. ASSUME NEW t \in Tasks, Answered(t) PROVE SomebodyAtWork'
  BY <1>7 DEF Answered, CallAt
<1>8. ASSUME NEW t \in Tasks, CheckGrant(t) PROVE SomebodyAtWork'
  BY <1>8 DEF CheckGrant, Goes
<1>9. ASSUME NEW t \in Tasks, Allowed(t) PROVE SomebodyAtWork'
  BY <1>9 DEF Allowed, Goes
<1>10. ASSUME NEW t \in Tasks, Denied(t) PROVE SomebodyAtWork'
  BY <1>10 DEF Denied, Ends, Goes, Advance
<1>11. ASSUME NEW t \in Tasks, AskTimeout(t) PROVE SomebodyAtWork'
  BY <1>11 DEF AskTimeout, Ends, Goes
<1>12. ASSUME NEW t \in Tasks, Approve(t) PROVE SomebodyAtWork'
  BY <1>12 DEF Approve, Goes, Advance
<1>13. ASSUME NEW t \in Tasks, DbFails(t) PROVE SomebodyAtWork'
  BY <1>13 DEF DbFails, Ends, Goes
<1>14. ASSUME NEW t \in Tasks, TakeBrowser(t) PROVE SomebodyAtWork'
  BY <1>14 DEF TakeBrowser, Goes
<1>15. ASSUME NEW t \in Tasks, HubReady(t) PROVE SomebodyAtWork'
  BY <1>15 DEF HubReady, Goes
<1>16. ASSUME NEW t \in Tasks, HubMissing(t) PROVE SomebodyAtWork'
  BY <1>16 DEF HubMissing, GivesUp, Goes
<1>17. ASSUME NEW t \in Tasks, Mint(t) PROVE SomebodyAtWork'
  BY <1>17 DEF Mint, Goes, Advance
<1>18. ASSUME NEW t \in Tasks, SendExecute(t) PROVE SomebodyAtWork'
  BY <1>18 DEF SendExecute, Goes
<1>19. ASSUME NEW t \in Tasks, SendFails(t) PROVE SomebodyAtWork'
  BY <1>19 DEF SendFails, GivesUp, Goes
<1>20. ASSUME NEW t \in Tasks, ReadResult(t) PROVE SomebodyAtWork'
  BY <1>20 DEF ReadResult, GivesUp, Goes, Revoke, Advance
<1>21. ASSUME NEW t \in Tasks, Cancelled(t) PROVE SomebodyAtWork'
  BY <1>21 DEF Cancelled, GivesUp, Goes, Revoke, Advance
<1>22. ASSUME NEW t \in Tasks, TaskTimeout(t) PROVE SomebodyAtWork'
  BY <1>22 DEF TaskTimeout, GivesUp, Goes, Revoke
<1>23. ASSUME NEW t \in Tasks, Release(t) PROVE SomebodyAtWork'
  BY <1>23 DEF Release, Goes
<1>24. ASSUME NEW t \in Tasks, FinishRow(t) PROVE SomebodyAtWork'
  BY <1>24 DEF FinishRow, Goes
<1>25. ASSUME NEW t \in Tasks, FinishFails(t) PROVE SomebodyAtWork'
  BY <1>25 DEF FinishFails, Goes
<1>26. ASSUME NEW t \in Tasks, CleanUp(t) PROVE SomebodyAtWork'
  BY <1>26 DEF CleanUp, Goes
<1>27. ASSUME NEW t \in Tasks, StopTask(t) PROVE SomebodyAtWork'
  BY <1>27 DEF StopTask
<1>28. ASSUME NEW t \in Tasks, AbandonTask(t) PROVE SomebodyAtWork'
  BY <1>28 DEF AbandonTask
<1>29. ASSUME TakeOver PROVE SomebodyAtWork'
  BY <1>29 DEF TakeOver
<1>30. ASSUME Crash PROVE SomebodyAtWork'
  BY <1>30 DEF Crash
<1>31. ASSUME CrashFailsRow PROVE SomebodyAtWork'
  BY <1>31 DEF CrashFailsRow
<1>32. ASSUME UNCHANGED taskVars PROVE SomebodyAtWork'
  BY <1>32 DEF taskVars
<1> QED
  BY <1>1, <1>2, <1>3, <1>4, <1>5, <1>6, <1>7, <1>8, <1>9, <1>10, <1>11,
     <1>12, <1>13, <1>14, <1>15, <1>16, <1>17, <1>18, <1>19, <1>20, <1>21,
     <1>22, <1>23, <1>24, <1>25, <1>26, <1>27, <1>28, <1>29, <1>30, <1>31,
     <1>32
     DEF TasksNext, TaskCaller, Runner, Environment

-----------------------------------------------------------------------------
(* The theorems.                                                           *)

LEMMA InitInv == TasksInit => IInv
<1> SUFFICES ASSUME TasksInit PROVE IInv
  OBVIOUS
<1>1. TasksTypeOK
  BY DEF TasksInit, TasksTypeOK, Empty, CallPcs, RunPcs, Verdicts, Active, Terminal
<1>2. RunnerSpawned /\ VerdictAtEnd /\ RowIsFinal
  BY DEF TasksInit, RunnerSpawned, VerdictAtEnd, RowIsFinal
<1>3. TokenHasRunner /\ SuspensionHasOwner /\ SomebodyAtWork
  BY DEF TasksInit, TokenHasRunner, SuspensionHasOwner, SomebodyAtWork, Empty
<1> QED BY <1>1, <1>2, <1>3 DEF IInv

\* The strengthening: who has a runner, a verdict, a final row, and who is at work
\* while a slot is taken.
THEOREM TasksInv == TasksSpec => []IInv
<1>1. IInv /\ [TasksNext]_taskVars => IInv'
  BY TypeStep, SpawnedStep, VerdictStep, RowStep, TokenStep, OwnerStep, WorkStep DEF IInv
<1> QED BY <1>1, InitInv, PTL DEF TasksSpec

\* The variables keep their types.
THEOREM TasksTyped == TasksSpec => []TasksTypeOK
<1>1. IInv => TasksTypeOK
  BY DEF IInv
<1> QED BY <1>1, TasksInv, PTL

\* Manual control is suspended only while some runner owns the browser.
THEOREM SuspensionAlwaysOwned == TasksSpec => []SuspensionHasOwner
<1>1. IInv => SuspensionHasOwner
  BY DEF IInv
<1> QED BY <1>1, TasksInv, PTL

\* A runner that has ended left a final status in its row, and the right one, unless
\* the write failed.
THEOREM RowAlwaysTellsTheEnd == TasksSpec => []RowTellsTheEnd
<1>1. IInv => RowTellsTheEnd
  BY DEF IInv, RowIsFinal, RowTellsTheEnd
<1> QED BY <1>1, TasksInv, PTL

\* No token outlives the work of its task, with the exception of a failed hand-over.
THEOREM TokenAlwaysHasRunner == TasksSpec => []TokenHasRunner
<1>1. IInv => TokenHasRunner
  BY DEF IInv
<1> QED BY <1>1, TasksInv, PTL

\* When nobody is at work, no slot of the manager is taken.
THEOREM QuietAlwaysMeansFree == TasksSpec => []QuietMeansFree
<1>1. IInv => QuietMeansFree
  BY DEF IInv, SomebodyAtWork, AtWork, QuietMeansFree
<1> QED BY <1>1, TasksInv, PTL

=============================================================================
