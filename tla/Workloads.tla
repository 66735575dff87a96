----------------------------- MODULE Workloads -----------------------------
(***************************************************************************)
(* The bridge's WorkloadManager (manager.py) with one ComfyUI workload     *)
(* (workloads/comfyui.py on base.py): a GPU server that is spawned by the  *)
(* first job, freed when it was idle for a while and stopped by request or *)
(* after a longer idle time.                                               *)
(*                                                                         *)
(* Everything runs on one asyncio loop, so tasks interleave where they     *)
(* await: at the spawn, between two polls, during a job and while a stop   *)
(* waits for the process.  Nothing but the state field keeps them apart.   *)
(* A process is named by the job whose start() spawned it.                 *)
(***************************************************************************)
EXTENDS FiniteSets

CONSTANTS
    Jobs, \* job requests (ensure_started, then submit_job)
    Stops \* stop requests

NoProc   == "no process"
IdleLoop == "idle loop"
Tasks    == Jobs \cup Stops \cup {IdleLoop}

ASSUME TasksAssumption ==
    /\ Jobs \cap Stops = {}
    /\ NoProc \notin Jobs
    /\ IdleLoop \notin Jobs \cup Stops

WorkloadStates == {"stopped", "starting", "ready", "busy", "stopping", "error"}
\* "stopwait": in stop(), awaiting the exit of the process.
Pcs(t) ==
    IF t = IdleLoop THEN {"sleep", "freeing", "stopwait"}
    ELSE {"new", "stopwait", "over"}
         \cup (IF t \in Jobs THEN {"waiting", "spawn", "polling", "running"} ELSE {})

VARIABLES
    state,     \* Workload.state
    proc,      \* Workload._proc
    alive,     \* processes that run
    dying,     \* those of them that were told to terminate
    pc,        \* where each task is
    target,    \* the process a stop waits for
    idle,      \* Workload.idle_for() in tiers of the two limits
    due,       \* the idle loop has not checked since the tier last grew
    overlapped \* history: a stop began while a start was under way

procVars == <<proc, alive, dying>>
timeVars == <<idle, due>>
vars == <<state, procVars, pc, target, timeVars, overlapped>>

TypeOK ==
    /\ state \in WorkloadStates
    /\ proc \in Jobs \cup {NoProc}
    /\ alive \subseteq Jobs
    /\ dying \subseteq alive
    /\ pc \in [Tasks -> UNION {Pcs(t) : t \in Tasks}]
    /\ \A t \in Tasks : pc[t] \in Pcs(t)
    /\ target \in [Tasks -> Jobs \cup {NoProc}]
    /\ \A t \in Tasks : pc[t] = "stopwait" <=> target[t] # NoProc
    /\ idle \in {"recent", "soft", "hard"}
    /\ due \in BOOLEAN
    /\ overlapped \in BOOLEAN

\* A workload that was never used counts as idle for ever.
Init ==
    /\ state = "stopped"
    /\ proc = NoProc
    /\ alive = {}
    /\ dying = {}
    /\ pc = [t \in Tasks |-> IF t = IdleLoop THEN "sleep" ELSE "new"]
    /\ target = [t \in Tasks |-> NoProc]
    /\ idle = "hard"
    /\ due = FALSE
    /\ overlapped = FALSE

Goto(t, where) == pc' = [pc EXCEPT ![t] = where]
Rest(t) == IF t = IdleLoop THEN "sleep" ELSE "over"

-----------------------------------------------------------------------------
(* stop() up to its await, as a step of task t.                            *)

StopNow(t) ==
    /\ state' = "stopped"
    /\ proc' = NoProc
    /\ Goto(t, Rest(t))
    /\ UNCHANGED <<alive, dying, target>>

BeginStop(t) ==
    /\ overlapped' = (overlapped \/ \E j \in Jobs \ {t} : pc[j] \in {"spawn", "polling"})
    /\ IF proc \in alive
       THEN /\ state' = "stopping"
            /\ dying' = dying \cup {proc}
            /\ Goto(t, "stopwait")
            /\ target' = [target EXCEPT ![t] = proc]
            /\ UNCHANGED <<proc, alive>>
       ELSE StopNow(t)

\* After ten seconds the process of that moment is killed and waited for.  If
\* there is none any more, or a dead one, the task fails with an exception.
KillAfterTimeout(t) ==
    /\ pc[t] = "stopwait"
    /\ proc # target[t]
    /\ IF proc \notin alive
       THEN Goto(t, Rest(t)) /\ UNCHANGED dying /\ target' = [target EXCEPT ![t] = NoProc]
       ELSE /\ target' = [target EXCEPT ![t] = proc]
            /\ dying' = dying \cup {proc}
            /\ UNCHANGED pc
    /\ UNCHANGED <<state, proc, alive, timeVars, overlapped>>

\* All tasks that wait for the process go on at once and finish their stop.
ProcessExits(p) ==
    /\ p \in dying
    /\ alive' = alive \ {p}
    /\ dying' = dying \ {p}
    /\ LET waiting == {t \in Tasks : pc[t] = "stopwait" /\ target[t] = p}
       IN  IF waiting = {}
           THEN UNCHANGED <<state, proc, pc, target>>
           ELSE /\ state' = "stopped"
                /\ proc' = NoProc
                /\ pc' = [t \in Tasks |-> IF t \in waiting THEN Rest(t) ELSE pc[t]]
                /\ target' = [t \in Tasks |-> IF t \in waiting THEN NoProc ELSE target[t]]
    /\ UNCHANGED <<timeVars, overlapped>>

\* Nobody watches the process: a crash changes no field of the workload.
ProcessCrashes(p) ==
    /\ p \in alive \ dying
    /\ alive' = alive \ {p}
    /\ UNCHANGED <<state, proc, dying, pc, target, timeVars, overlapped>>

-----------------------------------------------------------------------------
(* A job request.                                                          *)

\* ensure_ready in state s and the start of the job: only a stopped or
\* failed workload is refused.
Accept(j, s) ==
    IF s \in {"stopped", "error"}
    THEN state' = s /\ Goto(j, "over") /\ UNCHANGED idle
    ELSE state' = "busy" /\ Goto(j, "running") /\ idle' = "recent"

\* Mutant: a job that finds the workload starting starts it once more.
RequestTwice(j) ==
    /\ pc[j] = "new"
    /\ IF state \in {"stopped", "starting"}
       THEN state' = "starting" /\ Goto(j, "spawn") /\ UNCHANGED idle
       ELSE Accept(j, state)
    /\ UNCHANGED <<procVars, target, due, overlapped>>

Request(j) ==
    /\ pc[j] = "new"
    /\ CASE state = "stopped"  -> state' = "starting" /\ Goto(j, "spawn") /\ UNCHANGED idle
         [] state = "starting" -> Goto(j, "waiting") /\ UNCHANGED <<state, idle>>
         [] OTHER              -> Accept(j, state)
    /\ UNCHANGED <<procVars, target, due, overlapped>>

\* Mutant: the wait is for readiness, which a failed start never brings.
WaitOverReady(j) ==
    /\ pc[j] = "waiting"
    /\ state = "ready"
    /\ Accept(j, state)
    /\ UNCHANGED <<procVars, target, due, overlapped>>

WaitOver(j) ==
    /\ pc[j] = "waiting"
    /\ state # "starting"
    /\ Accept(j, state)
    /\ UNCHANGED <<procVars, target, due, overlapped>>

Spawned(j) ==
    /\ pc[j] = "spawn"
    /\ proc' = j
    /\ alive' = alive \cup {j}
    /\ Goto(j, "polling")
    /\ UNCHANGED <<state, dying, target, timeVars, overlapped>>

\* There is no such program, which the start reports.
SpawnFails(j) ==
    /\ pc[j] = "spawn"
    /\ Accept(j, "error")
    /\ UNCHANGED <<procVars, target, due, overlapped>>

\* Any other failure of the spawn, and the cancellation of a call that starts
\* the workload, goes past start(): the call fails and the state stays at
\* "starting", with a process if one was spawned.
StartBreaksOff(j) ==
    /\ pc[j] \in {"spawn", "polling"}
    /\ Goto(j, "over")
    /\ UNCHANGED <<state, procVars, target, timeVars, overlapped>>

\* Whatever process listens on the port answers the poll.
BecomesReady(j) ==
    /\ pc[j] = "polling"
    /\ alive # {}
    /\ Accept(j, "ready")
    /\ UNCHANGED <<procVars, target, due, overlapped>>

\* The error state lasts until the stop that follows without an await.
NeverReady(j) ==
    /\ pc[j] = "polling"
    /\ BeginStop(j)
    /\ UNCHANGED timeVars

\* Done or failed, the workload is called ready again.
JobEnds(j) ==
    /\ pc[j] = "running"
    /\ state' = "ready"
    /\ Goto(j, "over")
    /\ UNCHANGED <<procVars, target, timeVars, overlapped>>

Job(j) ==
    \/ WaitOver(j) \/ Spawned(j) \/ SpawnFails(j) \/ StartBreaksOff(j)
    \/ BecomesReady(j) \/ NeverReady(j) \/ JobEnds(j)

StopRequest(s) ==
    /\ pc[s] = "new"
    /\ BeginStop(s)
    /\ UNCHANGED timeVars

-----------------------------------------------------------------------------
(* The idle loop.                                                          *)

\* The loop checks every 30 seconds and is held up for less than a minute at
\* a time, the limits are 5 and 15 minutes: no tier goes unchecked.
TimePasses ==
    /\ ~due
    /\ due' = TRUE
    /\ idle' = IF idle = "recent" THEN "soft" ELSE "hard"
    /\ UNCHANGED <<state, procVars, pc, target, overlapped>>

IdleCheck ==
    /\ pc[IdleLoop] = "sleep"
    /\ due
    /\ due' = FALSE
    /\ UNCHANGED idle
    /\ IF state \notin {"ready", "busy"} \/ idle = "recent"
       THEN UNCHANGED <<state, procVars, pc, target, overlapped>>
       ELSE IF idle = "hard"
       THEN BeginStop(IdleLoop)
       ELSE Goto(IdleLoop, "freeing")
            /\ UNCHANGED <<state, procVars, target, overlapped>>

\* POST /free is answered or fails; the workload then counts as just used.
Freed ==
    /\ pc[IdleLoop] = "freeing"
    /\ Goto(IdleLoop, "sleep")
    /\ idle' = "recent"
    /\ UNCHANGED <<state, procVars, target, due, overlapped>>

Next ==
    \/ \E j \in Jobs : Request(j) \/ Job(j) \/ ProcessExits(j) \/ ProcessCrashes(j)
    \/ \E s \in Stops : StopRequest(s)
    \/ \E t \in Tasks : KillAfterTimeout(t)
    \/ TimePasses
    \/ IdleCheck
    \/ Freed

Spec == Init /\ [][Next]_vars

\* The loop runs every task on, spawns and polls are bounded by timeouts, a
\* terminated process exits, and time passes.  Requests and crashes just
\* happen.
FairSpec ==
    /\ Spec
    /\ \A j \in Jobs : WF_vars(Job(j)) /\ WF_vars(ProcessExits(j))
    /\ \A t \in Tasks : WF_vars(KillAfterTimeout(t))
    /\ WF_vars(TimePasses)
    /\ WF_vars(IdleCheck)
    /\ WF_vars(Freed)

-----------------------------------------------------------------------------
(* Properties.                                                             *)

\* The state field alone makes starts single-flight: unless a stop cut into a
\* start, there is at most one GPU process and the workload knows it.
OneProcess ==
    ~overlapped => alive \subseteq {proc}

\* A workload that says it is stopped holds no GPU process, under the same
\* proviso (base.py:115-117, "kill the subprocess, release all VRAM").
StoppedHoldsNothing ==
    state = "stopped" /\ ~overlapped => alive = {}

\* The state is "starting" and nobody starts: a start broke off.  Only a stop
\* request ends this; the idle loop passes such a workload by.
StartAbandoned ==
    state = "starting" /\ \A j \in Jobs : pc[j] \notin {"spawn", "polling"}

\* Every job and stop request is answered, whatever other requests, idle
\* checks and crashes it meets, and a job that waits for somebody else's start
\* learns of its failure; but jobs that wait for a start that broke off wait
\* until somebody asks for a stop (manager.py:63-64 asks the state alone).
EveryRequestReturns ==
    \A t \in Jobs \cup Stops :
        pc[t] # "new" ~> pc[t] = "over" \/ (pc[t] = "waiting" /\ StartAbandoned)

=============================================================================
