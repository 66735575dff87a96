--------------------------- MODULE BrowserProcess ---------------------------
(***************************************************************************)
(* The Chromium process of the host's BrowserManager (browser/manager.rs): *)
(* started on demand by any request, stopped by request or by the idle     *)
(* timer, watched for crashes.                                             *)
(*                                                                         *)
(* The manager is one Inner behind a dozen separate locks, none of them    *)
(* held across an await.  An action is the code of one task between two    *)
(* points at which another can see or change what it works on.  A Chromium *)
(* is named by the number of its launch; 0 stands for none.                *)
(***************************************************************************)
EXTENDS Naturals

CONSTANTS
    Callers,    \* calls of start()
    Stoppers,   \* calls of stop()
    IdleTimers, \* those of them that the idle timer makes
    MaxLaunches \* bound: how often Chromium can be launched

Free == "free"
Slot == "slot"

ASSUME NamesAssumption == IdleTimers \subseteq Stoppers /\ {Free, Slot} \cap Callers = {}
ASSUME BoundsAssumption == MaxLaunches \in Nat

Launches == 1 .. MaxLaunches

ProcessStatuses == {"stopped", "starting", "running", "stopping", "crashed"}
\* "closing": it has heard its shutdown channel and waits for the process, or
\* kills it after some seconds; "row": it noticed a crash and fails the task.
WatcherStates == {"none", "watching", "told", "closing", "row", "over"}
StartPcs == {"mark", "launch", "connect", "watch", "touch", "failed"}
StopPcs  == {"mark", "close", "tell", "clear"}

VARIABLES
    status,   \* RuntimeState.process_status
    busy,     \* RuntimeState.task is active (BrowserTasks)
    live,     \* the Chromium processes that run
    launched, \* how many were launched
    cdp,      \* Inner.cdp, by the process it is connected to
    lock,     \* the profile lock: Free, the caller that carries it, or Slot (Inner)
    shutdown, \* Inner.process_shutdown, by the process of the watcher
    watcher,  \* the crash watcher of each process
    call,     \* where each caller of start() is
    own,      \* the process a caller has launched
    stop,     \* where each caller of stop() is
    cut,      \* history: something cut into a start() or ended a stop() halfway
    missed    \* history: a crash was noticed before its start said "running"

innerVars == <<cdp, lock, shutdown>>
chromeVars == <<live, launched, watcher>>
callVars == <<call, own>>
history == <<cut, missed>>
vars == <<status, busy, innerVars, chromeVars, callVars, stop, history>>

TypeOK ==
    /\ status \in ProcessStatuses
    /\ busy \in BOOLEAN
    /\ launched \in 0 .. MaxLaunches
    /\ live \subseteq 1 .. launched
    /\ cdp \in 0 .. launched
    /\ lock \in Callers \cup {Free, Slot}
    /\ shutdown \in 0 .. launched
    /\ watcher \in [Launches -> WatcherStates]
    /\ call \in [Callers -> StartPcs \cup {"new", "returned"}]
    /\ own \in [Callers -> 0 .. launched]
    /\ stop \in [Stoppers -> StopPcs \cup {"new", "returned"}]
    /\ cut \in BOOLEAN
    /\ missed \in BOOLEAN

Init ==
    /\ status = "stopped"
    /\ busy = FALSE
    /\ launched = 0
    /\ live = {}
    /\ cdp = 0
    /\ lock = Free
    /\ shutdown = 0
    /\ watcher = [g \in Launches |-> "none"]
    /\ call = [c \in Callers |-> "new"]
    /\ own = [c \in Callers |-> 0]
    /\ stop = [s \in Stoppers |-> "new"]
    /\ cut = FALSE
    /\ missed = FALSE

----------------------------------------------------------------------------
(* start(): from its check to its result; nobody else waits for it.        *)

\* Callers that passed the check of start() and have not its result.
Starting == {c \in Callers : call[c] \in StartPcs}
\* Callers that passed the check of stop() and have not finished.
Stopping == {s \in Stoppers : stop[s] \in StopPcs}

At(c, here, there) == call[c] = here /\ call' = [call EXCEPT ![c] = there]

StartCheck(c) ==
    /\ At(c, "new", IF status \in {"running", "starting"} THEN "returned" ELSE "mark")
    /\ UNCHANGED <<status, busy, innerVars, chromeVars, own, stop, history>>

StartMark(c) ==
    /\ At(c, "mark", "launch")
    /\ status' = "starting"
    /\ cut' = (cut \/ Starting # {c} \/ Stopping # {})
    /\ UNCHANGED <<busy, innerVars, chromeVars, own, stop, missed>>

\* The lock file is taken before the launch and carried by the caller.
Launch(c) ==
    /\ lock = Free
    /\ launched < MaxLaunches
    /\ At(c, "launch", "connect")
    /\ lock' = c
    /\ launched' = launched + 1
    /\ live' = live \cup {launched + 1}
    /\ own' = [own EXCEPT ![c] = launched + 1]
    /\ UNCHANGED <<status, busy, cdp, shutdown, watcher, stop, history>>

\* No such profile or executable, the lock is held, or Chromium does not come up.
LaunchFails(c) ==
    /\ At(c, "launch", "failed")
    /\ UNCHANGED <<status, busy, innerVars, chromeVars, own, stop, history>>

Connect(c) ==
    /\ At(c, "connect", "watch")
    /\ own[c] \in live
    /\ cdp' = own[c]
    /\ lock' = Slot
    /\ UNCHANGED <<status, busy, shutdown, chromeVars, own, stop, history>>

\* The process is killed and the lock file removed when they are dropped.
ConnectFails(c) ==
    /\ At(c, "connect", "failed")
    /\ live' = live \ {own[c]}
    /\ lock' = Free
    /\ UNCHANGED <<status, busy, cdp, shutdown, launched, watcher, own, stop, history>>

\* A watcher waits for the exit of its process or for its shutdown channel,
\* which fires when it is used and when it is dropped.
Tell(g) == [w \in Launches |-> IF w = g /\ watcher[w] = "watching" THEN "told" ELSE watcher[w]]

\* Mutant: the replaced channel is kept open, so the old watcher hears nothing.
WatchQuiet(c) ==
    /\ At(c, "watch", "touch")
    /\ shutdown' = own[c]
    /\ watcher' = [watcher EXCEPT ![own[c]] = "watching"]
    /\ UNCHANGED <<status, busy, cdp, lock, live, launched, own, stop, history>>

\* spawn_crash_watcher() replaces the shutdown channel.
Watch(c) ==
    /\ At(c, "watch", "touch")
    /\ shutdown' = own[c]
    /\ watcher' = [Tell(shutdown) EXCEPT ![own[c]] = "watching"]
    /\ UNCHANGED <<status, busy, cdp, lock, live, launched, own, stop, history>>

\* Whatever the watcher has made of the process in between.
Touch(c) ==
    /\ At(c, "touch", "returned")
    /\ status' = "running"
    /\ missed' = (missed \/ watcher[own[c]] \in {"row", "over"})
    /\ UNCHANGED <<busy, innerVars, chromeVars, own, stop, cut>>

\* The write of last_used_at fails: the browser runs, start() says it failed
\* and calls it stopped.
TouchFails(c) ==
    /\ At(c, "touch", "failed")
    /\ cut' = TRUE
    /\ UNCHANGED <<status, busy, innerVars, chromeVars, own, stop, missed>>

StartFailed(c) ==
    /\ At(c, "failed", "returned")
    /\ status' = "stopped"
    /\ UNCHANGED <<busy, innerVars, chromeVars, own, stop, history>>

\* The client of the HTTP request goes away and the handler is dropped at an
\* await, with the process and the lock it carries.
Abandon(c) ==
    /\ call[c] \in StartPcs
    /\ call' = [call EXCEPT ![c] = "returned"]
    /\ live' = IF call[c] \in {"connect", "watch"} THEN live \ {own[c]} ELSE live
    /\ lock' = IF lock = c THEN Free ELSE lock
    /\ cut' = TRUE
    /\ UNCHANGED <<status, busy, cdp, shutdown, launched, watcher, own, stop, missed>>

----------------------------------------------------------------------------
(* The crash watcher.                                                      *)

ProcessDies(g) ==
    /\ g \in live
    /\ live' = live \ {g}
    /\ UNCHANGED <<status, busy, innerVars, launched, watcher, callVars, stop, history>>

\* A watcher that has not taken up its channel yet may see the exit first, also
\* when it was told: select! takes any branch that is ready.
SeesExit(g) == watcher[g] \in {"watching", "told"} /\ g \notin live

\* The exit of a process that was told to end, or of another one than a start
\* is about, cuts into what goes on now.
NoticeCrash(g) ==
    /\ status' = "crashed"
    /\ busy' = FALSE
    /\ watcher' = [watcher EXCEPT ![g] = "row"]
    /\ cut' = (cut \/ watcher[g] = "told" \/ \E c \in Starting : own[c] # g)

\* Mutant: an exit counts as a crash only if it hits a task.
WatchExitBusy(g) ==
    /\ SeesExit(g)
    /\ IF status \in {"running", "starting"} /\ busy
       THEN NoticeCrash(g)
       ELSE /\ watcher' = [watcher EXCEPT ![g] = "over"]
            /\ UNCHANGED <<status, busy, cut>>
    /\ UNCHANGED <<innerVars, live, launched, callVars, stop, missed>>

\* An exit counts as a crash unless a stop is under way or over; the task fails
\* at once, its row after the next await.
WatchExit(g) ==
    /\ SeesExit(g)
    /\ IF status \in {"running", "starting"}
       THEN NoticeCrash(g)
       ELSE /\ watcher' = [watcher EXCEPT ![g] = "over"]
            /\ UNCHANGED <<status, busy, cut>>
    /\ UNCHANGED <<innerVars, live, launched, callVars, stop, missed>>

\* After the task's row was written.
CrashClears(g) ==
    /\ watcher[g] = "row"
    /\ watcher' = [watcher EXCEPT ![g] = "over"]
    /\ cdp' = 0
    /\ lock' = IF lock = Slot THEN Free ELSE lock
    /\ UNCHANGED <<status, busy, shutdown, live, launched, callVars, stop, history>>

HearsShutdown(g) ==
    /\ watcher[g] = "told"
    /\ watcher' = [watcher EXCEPT ![g] = "closing"]
    /\ UNCHANGED <<status, busy, innerVars, live, launched, callVars, stop, history>>

\* Chromium ends by itself in the time it is given, or is killed.
Closes(g) ==
    /\ watcher[g] = "closing"
    /\ watcher' = [watcher EXCEPT ![g] = "over"]
    /\ live' = live \ {g}
    /\ UNCHANGED <<status, busy, innerVars, launched, callVars, stop, history>>

----------------------------------------------------------------------------
(* stop() and the idle timer.                                              *)

StopAt(s, here, there) == stop[s] = here /\ stop' = [stop EXCEPT ![s] = there]

StopCheck(s) ==
    /\ StopAt(s, "new", IF status = "stopped" \/ busy THEN "returned" ELSE "mark")
    /\ UNCHANGED <<status, busy, innerVars, chromeVars, callVars, history>>

StopMark(s) ==
    /\ StopAt(s, "mark", "close")
    /\ status' = "stopping"
    /\ cut' = (cut \/ Starting # {})
    /\ UNCHANGED <<busy, innerVars, chromeVars, callVars, missed>>

\* Browser.close, when there is a connection; its answer is not looked at.
StopClose(s) ==
    /\ StopAt(s, "close", "tell")
    /\ live' \in {live, live \ {cdp}}
    /\ UNCHANGED <<status, busy, innerVars, launched, watcher, callVars, history>>

StopTell(s) ==
    /\ StopAt(s, "tell", "clear")
    /\ watcher' = Tell(shutdown)
    /\ shutdown' = 0
    /\ UNCHANGED <<status, busy, cdp, lock, live, launched, callVars, history>>

\* stop() also aborts the idle timer.  If that is the task it runs in, it ends
\* at its next wait, before the status is written.
StopClear(s) ==
    /\ StopAt(s, "clear", "returned")
    /\ cdp' = 0
    /\ lock' = IF lock = Slot THEN Free ELSE lock
    /\ status' \in {"stopped"} \cup (IF s \in IdleTimers THEN {status} ELSE {})
    /\ UNCHANGED <<busy, shutdown, chromeVars, callVars, history>>

\* A viewer connects, or another stop() comes to its end, and aborts the idle
\* timer with the stop() it is in; or the client of a stop request goes away.
StopAborted(s) ==
    /\ stop[s] \in StopPcs
    /\ stop' = [stop EXCEPT ![s] = "returned"]
    /\ cut' = TRUE
    /\ UNCHANGED <<status, busy, innerVars, chromeVars, callVars, missed>>

\* Tasks begin and end (BrowserTasks).
TaskChanges ==
    /\ busy' = ~busy
    /\ UNCHANGED <<status, innerVars, chromeVars, callVars, stop, history>>

----------------------------------------------------------------------------
Caller(c) ==
    \/ StartCheck(c) \/ StartMark(c) \/ Launch(c) \/ LaunchFails(c) \/ Connect(c)
    \/ ConnectFails(c) \/ Watch(c) \/ Touch(c) \/ TouchFails(c) \/ StartFailed(c)
Watcher(g) == WatchExit(g) \/ CrashClears(g) \/ HearsShutdown(g) \/ Closes(g)
Stopper(s) == StopCheck(s) \/ StopMark(s) \/ StopClose(s) \/ StopTell(s) \/ StopClear(s)

Next ==
    \/ \E c \in Callers : Caller(c) \/ Abandon(c)
    \/ \E g \in Launches : Watcher(g) \/ ProcessDies(g)
    \/ \E s \in Stoppers : Stopper(s) \/ StopAborted(s)
    \/ TaskChanges

Spec == Init /\ [][Next]_vars

\* Watchers are tokio tasks; no caller, user or task is needed.
FairSpec == Spec /\ \A g \in Launches : WF_vars(Watcher(g))

----------------------------------------------------------------------------
\* Every Chromium that runs is in the hands of the call that launched it, or has
\* a watcher that was told to end it, or one that holds the current channel.
\* stop() uses that channel unless the status says "stopped" (manager.rs:754),
\* which is false of a running Chromium only if something cut into a start or a
\* stop: a start that fails after another one, or after its own, has brought
\* Chromium up (manager.rs:605-608, 738-740) leaves it out of reach.
ChromiumHasKeeper ==
    \A g \in live :
        \/ \E c \in Callers : own[c] = g /\ call[c] \in {"connect", "watch"}
        \/ watcher[g] \in {"told", "closing"}
        \/ watcher[g] = "watching" /\ shutdown = g /\ (status # "stopped" \/ cut)

\* Nothing is under way in the manager.
Settled ==
    /\ Starting = {} /\ Stopping = {}
    /\ \A g \in Launches : watcher[g] # "row"

\* A stopped browser can be started again: it holds neither the profile lock nor
\* a connection (ProfileLock, "released on drop"), unless something cut into a
\* start or a stop.
StoppedIsStartable == status = "stopped" /\ Settled /\ ~cut => lock = Free /\ cdp = 0

\* A browser that is called running and has no process does not stay so: its
\* watcher notices (crash flow, spec 14.4).  Two exceptions: something cut into
\* a start or a stop, or the watcher had noticed the crash before the start
\* wrote "running" over it (manager.rs:737-743), which lasts.
CrashIsNoticed ==
    (status = "running" /\ live = {} /\ ~cut /\ ~missed)
        ~> (status # "running" \/ live # {} \/ cut \/ missed)
=============================================================================
