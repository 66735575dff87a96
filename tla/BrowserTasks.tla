---------------------------- MODULE BrowserTasks ----------------------------
(***************************************************************************)
(* The page-agent tasks of the host's BrowserManager (browser/manager.rs): *)
(* execute_task() starts the browser, writes a row, takes the one slot for *)
(* the active task and spawns a runner, which asks for approval, takes the *)
(* browser from the user, waits for the extension's hub, hands the task    *)
(* over with a token for the model proxy and waits for the result.         *)
(*                                                                         *)
(* All tasks share the slots of Inner: the task, its cancel handle, the    *)
(* receiver of its outcome, manual control.  What is outside is free: the  *)
(* hub comes, goes and speaks when it likes, so every look at it can find  *)
(* it there or not; Chromium (BrowserProcess) is reduced to starts that    *)
(* succeed or not and to crashes.                                          *)
(***************************************************************************)
CONSTANTS
    Tasks,  \* calls of execute_task
    Waiting \* those of them that wait for the outcome

NoTask == "no task"
ASSUME TasksAssumption == NoTask \notin Tasks /\ Waiting \subseteq Tasks

Terminal == {"completed", "failed", "cancelled"}
Active   == {"awaiting", "starting", "running"}
CallPcs  == {"new", "start", "insert", "spawn", "take", "wait", "returned"}
RunPcs   == {"none", "check", "ask", "approved", "starting", "hub", "mint",
             "send", "working", "release", "finish", "cleanup", "done"}
\* The last two: the hub did not take the task; the final write failed.
Verdicts == Terminal \cup {"none", "unsent", "unsaved"}

VARIABLES
    calls,    \* where each caller of execute_task() is
    task,     \* RuntimeState.task: an id and a status
    blamed,   \* the task a crash watcher saw and whose row it will write
    done,     \* Inner.task_done: whose outcome the stored receiver gets
    awaits,   \* whose outcome a caller waits for, while it does
    run,      \* where the runner of each task is
    verdict,  \* how the runner's inner function ended
    row,      \* browser_tasks.status
    cancel,   \* Inner.task_cancel, by its task
    notified, \* tasks whose Notify holds a permit
    manual,   \* Inner.manual_control
    taking,   \* a take-over has cancelled a task and not yet given control back
    tokens    \* Inner.task_tokens, by their tasks

slotVars == <<task, blamed>>
callsVars == <<calls, done, awaits>>
endVars  == <<verdict, row>>
userVars == <<cancel, notified, manual, taking>>
taskVars == <<slotVars, callsVars, run, endVars, userVars, tokens>>

TasksTypeOK ==
    /\ calls \in [Tasks -> CallPcs]
    /\ task \in [id : Tasks \cup {NoTask}, st : Active \cup Terminal]
    /\ blamed \in Tasks \cup {NoTask}
    /\ done \in Tasks \cup {NoTask}
    /\ awaits \in [Tasks -> Tasks \cup {NoTask}]
    /\ run \in [Tasks -> RunPcs]
    /\ verdict \in [Tasks -> Verdicts]
    /\ row \in [Tasks -> Active \cup Terminal \cup {"none"}]
    /\ cancel \in Tasks \cup {NoTask}
    /\ notified \subseteq Tasks
    /\ manual \in BOOLEAN
    /\ taking \in BOOLEAN
    /\ tokens \subseteq Tasks

Empty == [id |-> NoTask, st |-> "completed"]

TasksInit ==
    /\ calls = [t \in Tasks |-> "new"]
    /\ task = Empty
    /\ blamed = NoTask
    /\ done = NoTask
    /\ awaits = [t \in Tasks |-> NoTask]
    /\ run = [t \in Tasks |-> "none"]
    /\ verdict = [t \in Tasks |-> "none"]
    /\ row = [t \in Tasks |-> "none"]
    /\ cancel = NoTask
    /\ notified = {}
    /\ manual = TRUE
    /\ taking = FALSE
    /\ tokens = {}

----------------------------------------------------------------------------
(* execute_task(): the start, the row, the slot for the active task, the   *)
(* slot for the outcome's receiver, the runner.                            *)

CallAt(t, here, there) == calls[t] = here /\ calls' = [calls EXCEPT ![t] = there]

\* The slot is looked at before the browser is started, and not again.
Enter(t) ==
    /\ CallAt(t, "new", IF task.id # NoTask /\ task.st \in Active THEN "returned" ELSE "start")
    /\ UNCHANGED <<slotVars, done, awaits, run, endVars, userVars, tokens>>

\* start() succeeds or fails, whatever happened to the browser since.
StartReturns(t) ==
    /\ CallAt(t, "start", "insert") \/ CallAt(t, "start", "returned")
    /\ UNCHANGED <<slotVars, done, awaits, run, endVars, userVars, tokens>>

\* Only its runner and a watcher that finds it in the slot write the row again.
Insert(t) ==
    /\ CallAt(t, "insert", "spawn")
    /\ row' = [row EXCEPT ![t] = "awaiting"]
    /\ task' = [id |-> t, st |-> "awaiting"]
    /\ UNCHANGED <<blamed, done, awaits, run, verdict, userVars, tokens>>

InsertFails(t) ==
    /\ CallAt(t, "insert", "returned")
    /\ UNCHANGED <<slotVars, done, awaits, run, endVars, userVars, tokens>>

\* The receiver of one that waits is stored before the runner is spawned.
SpawnRunner(t) ==
    /\ CallAt(t, "spawn", IF t \in Waiting THEN "take" ELSE "returned")
    /\ done' = IF t \in Waiting THEN t ELSE done
    /\ run' = [run EXCEPT ![t] = "check"]
    /\ UNCHANGED <<slotVars, awaits, endVars, userVars, tokens>>

\* The caller takes whatever receiver is stored; with none it gives up.
TakeReceiver(t) ==
    /\ CallAt(t, "take", IF done = NoTask THEN "returned" ELSE "wait")
    /\ awaits' = [awaits EXCEPT ![t] = done]
    /\ done' = NoTask
    /\ UNCHANGED <<slotVars, run, endVars, userVars, tokens>>

Answered(t) ==
    /\ CallAt(t, "wait", "returned")
    /\ run[awaits[t]] = "done"
    /\ awaits' = [awaits EXCEPT ![t] = NoTask]
    /\ UNCHANGED <<slotVars, done, run, endVars, userVars, tokens>>

\* The client goes away and the handler is dropped at an await.  The insert may
\* be carried out all the same; the runner is a task of its own and goes on.
AbandonTask(t) ==
    /\ calls[t] \in {"start", "insert", "wait"}
    /\ calls' = [calls EXCEPT ![t] = "returned"]
    /\ row' \in {row} \cup (IF calls[t] = "insert" THEN {[row EXCEPT ![t] = "awaiting"]} ELSE {})
    /\ awaits' = [awaits EXCEPT ![t] = NoTask]
    /\ UNCHANGED <<slotVars, done, run, verdict, userVars, tokens>>

----------------------------------------------------------------------------
(* run_task(): approval, hub, result, clean-up.                            *)

\* transition_task(): illegal transitions leave the status alone.  TimedOut and
\* the rows of PausedForUser and Stopping have no use in the code.
Transition(st, event) ==
    CASE st = "awaiting" /\ event = "Approved"        -> "starting"
      [] st = "awaiting" /\ event = "Denied"          -> "cancelled"
      [] st = "starting" /\ event = "Started"         -> "running"
      [] st = "running"  /\ event = "Completed"       -> "completed"
      [] st = "running"  /\ event = "Failed"          -> "failed"
      [] st = "running"  /\ event = "CancelRequested" -> "cancelled"
      [] OTHER -> st

\* transition_active_task(): whichever task is in the slot.
Advance(event) ==
    task' = IF task.id = NoTask THEN task ELSE [task EXCEPT !.st = Transition(task.st, event)]

Goes(t, here, there) == run[t] = here /\ run' = [run EXCEPT ![t] = there]

\* The inner function ends before it took the browser, or after.
Ends(t, here, how) ==
    /\ Goes(t, here, "finish")
    /\ verdict' = [verdict EXCEPT ![t] = how]
GivesUp(t, here, how) ==
    /\ Goes(t, here, "release")
    /\ verdict' = [verdict EXCEPT ![t] = how]

\* A stored grant spares the prompt.
CheckGrant(t) ==
    /\ Goes(t, "check", "approved") \/ Goes(t, "check", "ask")
    /\ UNCHANGED <<slotVars, callsVars, endVars, userVars, tokens>>

\* resolve_approval() and the wake-up of the runner.
Allowed(t) ==
    /\ Goes(t, "ask", "approved")
    /\ UNCHANGED <<slotVars, callsVars, endVars, userVars, tokens>>

Denied(t) ==
    /\ Ends(t, "ask", "cancelled")
    /\ Advance("Denied")
    /\ UNCHANGED <<blamed, callsVars, row, userVars, tokens>>

\* The prompt stays in Inner.approvals; an answer to it will find nobody.
AskTimeout(t) ==
    /\ Ends(t, "ask", "failed")
    /\ UNCHANGED <<slotVars, callsVars, row, userVars, tokens>>

Approve(t) ==
    /\ Goes(t, "approved", "starting")
    /\ Advance("Approved")
    /\ UNCHANGED <<blamed, callsVars, endVars, userVars, tokens>>

\* The database fails while the permission is read or written, or here.
DbFails(t) ==
    /\ \E here \in {"check", "approved", "starting"} : Ends(t, here, "failed")
    /\ UNCHANGED <<slotVars, callsVars, row, userVars, tokens>>

\* The agent takes the browser from the user.
TakeBrowser(t) ==
    /\ Goes(t, "starting", "hub")
    /\ row' = [row EXCEPT ![t] = "starting"]
    /\ manual' = FALSE
    /\ cancel' = t
    /\ UNCHANGED <<slotVars, callsVars, verdict, notified, taking, tokens>>

\* The page is loaded, the hub connected, and Ready arrives after the runner has
\* subscribed to the hub's events.
HubReady(t) ==
    /\ Goes(t, "hub", "mint")
    /\ UNCHANGED <<slotVars, callsVars, endVars, userVars, tokens>>

\* The navigation fails or is refused, no hub is connected, or Ready does not come.
HubMissing(t) ==
    /\ GivesUp(t, "hub", "failed")
    /\ UNCHANGED <<slotVars, callsVars, row, userVars, tokens>>

Mint(t) ==
    /\ Goes(t, "mint", "send")
    /\ tokens' = tokens \cup {t}
    /\ Advance("Started")
    /\ UNCHANGED <<blamed, callsVars, endVars, userVars>>

\* The row is running, and the hub is told to execute.
SendExecute(t) ==
    /\ Goes(t, "send", "working")
    /\ row' = [row EXCEPT ![t] = "running"]
    /\ UNCHANGED <<slotVars, callsVars, verdict, userVars, tokens>>

\* One of the two fails; the token stays valid.
SendFails(t) ==
    /\ GivesUp(t, "send", "unsent")
    /\ row' \in {row, [row EXCEPT ![t] = "running"]}
    /\ UNCHANGED <<slotVars, callsVars, userVars, tokens>>

Revoke(t) == tokens' = tokens \ {t}

\* The first result or error on the bus, whoever it was meant for.  The bus cannot
\* close meanwhile: the runner itself holds the manager and with it the sender.
ReadResult(t) ==
    /\ \/ GivesUp(t, "working", "completed") /\ Advance("Completed")
       \/ GivesUp(t, "working", "failed")    /\ Advance("Failed")
    /\ Revoke(t)
    /\ UNCHANGED <<blamed, callsVars, row, userVars>>

Cancelled(t) ==
    /\ t \in notified
    /\ notified' = notified \ {t}
    /\ GivesUp(t, "working", "cancelled")
    /\ Advance("CancelRequested")
    /\ Revoke(t)
    /\ UNCHANGED <<blamed, callsVars, row, cancel, manual, taking>>

TaskTimeout(t) ==
    /\ GivesUp(t, "working", "failed")
    /\ Revoke(t)
    /\ UNCHANGED <<slotVars, callsVars, row, userVars>>

\* Mutant: manual control waits for the clean-up after the last write.
ReleaseHandle(t) ==
    /\ Goes(t, "release", "finish")
    /\ cancel' = NoTask
    /\ notified' = notified \ {t}
    /\ UNCHANGED <<slotVars, callsVars, endVars, manual, taking, tokens>>

\* The handle goes with its permit; manual control comes back on every way out.
Release(t) ==
    /\ Goes(t, "release", "finish")
    /\ cancel' = NoTask
    /\ manual' = TRUE
    /\ notified' = notified \ {t}
    /\ UNCHANGED <<slotVars, callsVars, endVars, taking, tokens>>

\* Mutant: UPDATE ... WHERE status = 'running'.
FinishRunningRow(t) ==
    /\ Goes(t, "finish", "cleanup")
    /\ row' = IF row[t] # "running" THEN row
              ELSE [row EXCEPT ![t] = IF verdict[t] = "unsent" THEN "failed" ELSE verdict[t]]
    /\ UNCHANGED <<slotVars, callsVars, verdict, userVars, tokens>>

FinishRow(t) ==
    /\ Goes(t, "finish", "cleanup")
    /\ row' = [row EXCEPT ![t] = IF verdict[t] = "unsent" THEN "failed" ELSE verdict[t]]
    /\ UNCHANGED <<slotVars, callsVars, verdict, userVars, tokens>>

FinishFails(t) ==
    /\ Goes(t, "finish", "cleanup")
    /\ verdict' = [verdict EXCEPT ![t] = "unsaved"]
    /\ UNCHANGED <<slotVars, callsVars, row, userVars, tokens>>

\* Mutant: only a task that ended frees the slot.
CleanUpEnded(t) ==
    /\ Goes(t, "cleanup", "done")
    /\ task' = IF task.st \in Terminal THEN Empty ELSE task
    /\ cancel' = NoTask
    /\ manual' = TRUE
    /\ UNCHANGED <<blamed, callsVars, endVars, notified, taking, tokens>>

\* The slot frees, whichever task is in it; the outcome is sent.
CleanUp(t) ==
    /\ Goes(t, "cleanup", "done")
    /\ task' = Empty
    /\ cancel' = NoTask
    /\ manual' = TRUE
    /\ UNCHANGED <<blamed, callsVars, endVars, notified, taking, tokens>>

----------------------------------------------------------------------------
(* The user's stop and take-over, and a crash.                             *)

\* stop_task() reaches only the task whose handle is stored.
StopTask(t) ==
    /\ cancel = t
    /\ notified' = notified \cup {t}
    /\ taking' \in {taking, TRUE}
    /\ UNCHANGED <<slotVars, callsVars, run, endVars, cancel, manual, tokens>>

\* take_over() gives manual control back after it has cancelled.
TakeOver ==
    /\ taking
    /\ taking' = FALSE
    /\ manual' = TRUE
    /\ UNCHANGED <<slotVars, callsVars, run, endVars, cancel, notified, tokens>>

\* The watcher of a dead Chromium fails the task in the slot, then its row.  The
\* runner goes on and frees the slot when it ends.
Crash ==
    /\ task.id # NoTask
    /\ blamed = NoTask
    /\ blamed' = task.id
    /\ task' = [task EXCEPT !.st = "failed"]
    /\ UNCHANGED <<callsVars, run, endVars, userVars, tokens>>

CrashFailsRow ==
    /\ blamed # NoTask
    /\ blamed' = NoTask
    /\ row' = [row EXCEPT ![blamed] = "failed"]
    /\ UNCHANGED <<task, callsVars, run, verdict, userVars, tokens>>

----------------------------------------------------------------------------
TaskCaller(t) ==
    \/ Enter(t) \/ StartReturns(t) \/ Insert(t) \/ InsertFails(t) \/ SpawnRunner(t)
    \/ TakeReceiver(t) \/ Answered(t)

Runner(t) ==
    \/ CheckGrant(t) \/ Allowed(t) \/ Denied(t) \/ AskTimeout(t) \/ Approve(t)
    \/ DbFails(t) \/ TakeBrowser(t) \/ HubReady(t) \/ HubMissing(t)
    \/ Mint(t) \/ SendExecute(t) \/ SendFails(t) \/ ReadResult(t) \/ Cancelled(t)
    \/ TaskTimeout(t) \/ Release(t) \/ FinishRow(t) \/ FinishFails(t) \/ CleanUp(t)

Environment ==
    \/ \E t \in Tasks : StopTask(t) \/ AbandonTask(t)
    \/ TakeOver \/ Crash \/ CrashFailsRow

TasksNext == (\E t \in Tasks : TaskCaller(t) \/ Runner(t)) \/ Environment

TasksSpec == TasksInit /\ [][TasksNext]_taskVars

----------------------------------------------------------------------------
OwnsBrowser(t) == run[t] \in {"hub", "mint", "send", "working", "release"}

\* Manual control is suspended only while some runner owns the browser: it comes
\* back when the task ends however it ends, and whatever crashes, stops,
\* take-overs and other runners do meanwhile (run_task, spec 2.5).
SuspensionHasOwner == ~manual => \E t \in Tasks : OwnsBrowser(t)

\* When a runner has ended, its row has a final status, whatever a crash watcher
\* wrote before or after, and is completed only if the hub reported success;
\* unless the last write failed (run_task, finish_task).
RowTellsTheEnd ==
    \A t \in Tasks : run[t] = "done" /\ verdict[t] # "unsaved" =>
        /\ row[t] \in Terminal
        /\ row[t] = "completed" => verdict[t] = "completed"

\* A token of the model proxy lives only as long as its task works, except when
\* the task could not be handed to the hub (revoke_task_token).
TokenHasRunner ==
    \A t \in tokens : run[t] \in {"send", "working"} \/ verdict[t] \in {"unsent", "unsaved"}

\* When nobody is at work the browser is free: no task holds the slot (which would
\* make every later call TASK_BUSY), no cancel handle is left, and the user is in
\* control ("the profile slot frees and manual control resumes", run_task).
QuietMeansFree ==
    (\A t \in Tasks : calls[t] \in {"new", "returned"} /\ run[t] \in {"none", "done"})
        => task.id = NoTask /\ cancel = NoTask /\ manual
=============================================================================
