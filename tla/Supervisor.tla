----------------------------- MODULE Supervisor -----------------------------
(***************************************************************************)
(* The sidecar supervisor of the Rust host (crates/supervisor/src/lib.rs). *)
(*                                                                         *)
(* One Python agent runtime ("sidecar") is spawned lazily by the first     *)
(* request, talks newline-delimited JSON over its stdin and stdout, and is *)
(* stopped by an idle watchdog or when the host exits.  Three kinds of     *)
(* tokio tasks share the supervisor's state:                               *)
(*   - callers of request(), one per request id;                           *)
(*   - callers of shutdown(): the idle watchdog and the host on its way    *)
(*     out, which send a runtime.shutdown request of their own;            *)
(*   - one stdout reader per spawned process.                              *)
(*                                                                         *)
(* Only the child slot is guarded by the async mutex `lock`; pid, state,   *)
(* the pending map and the stream map are touched without it, so each      *)
(* access is a step of its own.  A critical section of the mutex that no   *)
(* other task can observe half-done is one step; a request keeps the mutex *)
(* while its line is written, for as long as the sidecar does not read.    *)
(*                                                                         *)
(* Processes are numbered by spawn order; the number stands for the pid.   *)
(* The pipe of a process holds at most PipeCap lines (backpressure), and   *)
(* at most MaxSpawns processes are spawned: later spawns fail, which the   *)
(* code has to survive at any time anyway.                                 *)
(***************************************************************************)
EXTENDS Naturals, Sequences

CONSTANTS
    Calls,      \* requests other than run.start, each id used once
    Runs,       \* run.start requests: the id is also the stream's id
    Watchdog,   \* the idle watchdog's shutdown requests ({} or a singleton)
    Hosts,      \* the host-exit shutdown requests ({} or a singleton)
    Leaving,    \* requests whose HTTP client may go away
    Noisy,      \* processes whose stdout may carry a line that is no UTF-8
    MaxSpawns,  \* bound: processes spawned in a behaviour
    PipeCap     \* bound: lines a stdout pipe holds

ASSUME IdsAssumption ==
    /\ Calls \cap Runs = {}
    /\ Watchdog \cap Hosts = {}
    /\ (Calls \cup Runs) \cap (Watchdog \cup Hosts) = {}
    /\ Leaving \subseteq Calls \cup Runs

ASSUME BoundsAssumption == MaxSpawns \in Nat /\ PipeCap \in Nat \ {0}

Requests == Calls \cup Runs
Stoppers == Watchdog \cup Hosts
Ids      == Requests \cup Stoppers
Procs    == 1 .. MaxSpawns
NoProc   == 0

States == {"not_spawned", "starting", "running", "stopping"}

\* Kinds of stdout lines.  "started" is the run.started acknowledgement,
\* "event" any other non-terminal run.* event, "end" run.completed or
\* run.failed, "reply" an answer that is not a run.* line.
LineKinds == {"started", "event", "end", "reply", "error"}
Lines     == [id : Requests, kind : LineKinds] \cup
             [id : Stoppers, kind : {"reply"}]

\* What a caller can be handed: a line of the sidecar, an error envelope the
\* supervisor synthesises, or an Err of its own.
NoReply  == "none"
Outcomes == LineKinds \cup
            {"sidecar_crashed", "sidecar_shutdown", "timeout", "spawn_failed"}

CallerPcs  == {"idle", "spawn", "mark", "insert", "write", "flush", "wait",
               "done", "dropped"}
StopperPcs == {"sleep", "check", "enter", "insert", "write", "flush", "wait",
               "take", "clear", "drain", "close", "gone"}
ReaderPcs  == {"off", "read", "track", "lock", "pid", "state", "drain",
               "close", "stopped"}

VARIABLES
    slot,     \* the process in Inner.child, NoProc when it is None
    held,     \* who holds the child mutex across an await: a writer of a line,
              \* or a shutdown that has taken the child
    pid,      \* Inner.pid
    state,    \* Inner.state
    pending,  \* keys of the pending map
    streams,  \* keys of the stream map
    task,     \* where each caller of request() and shutdown() is
    box,      \* what each caller's oneshot holds or its Result was
    reader,   \* where each process's stdout reader is
    alive,    \* processes that run
    out,      \* stdout pipe of each process
    home,     \* process each request was written to, NoProc before
    queued,   \* requests on a sidecar's stdin, not (yet) dispatched
    torn,     \* processes whose stdin ends in the middle of a line
    garbled,  \* requests whose line was written behind the half of another
    unacked,  \* runs whose thread started and whose ack is not written yet
    live,     \* runs whose thread still runs
    ended     \* history: streams whose terminal event was broadcast

hostVars    == <<slot, held, pid, state>>
mapVars     == <<pending, streams, ended>>
taskVars    == <<task, box>>
stdinVars   == <<home, queued, torn, garbled>>
sidecarVars == <<alive, out, stdinVars, unacked, live>>
vars        == <<hostVars, mapVars, taskVars, reader, sidecarVars>>

Free == "free"

TypeOK ==
    /\ slot \in Procs \cup {NoProc}
    /\ held \in Ids \cup {Free}
    /\ pid \in Procs \cup {NoProc}
    /\ state \in States
    /\ pending \subseteq Ids
    /\ streams \subseteq Requests
    /\ ended \subseteq Requests
    /\ task \in [Ids -> CallerPcs \cup StopperPcs]
    /\ box \in [Ids -> Outcomes \cup {NoReply}]
    /\ reader \in [Procs -> ReaderPcs]
    /\ alive \subseteq Procs
    /\ out \in [Procs -> Seq(Lines)]
    /\ home \in [Ids -> Procs \cup {NoProc}]
    /\ queued \subseteq Ids
    /\ torn \subseteq Procs
    /\ garbled \subseteq Ids
    /\ unacked \subseteq Runs
    /\ live \subseteq Runs

Init ==
    /\ slot = NoProc
    /\ held = Free
    /\ pid = NoProc
    /\ state = "not_spawned"
    /\ pending = {}
    /\ streams = {}
    /\ ended = {}
    /\ task = [i \in Ids |-> IF i \in Watchdog THEN "sleep" ELSE "idle"]
    /\ box = [i \in Ids |-> NoReply]
    /\ reader = [p \in Procs |-> "off"]
    /\ alive = {}
    /\ out = [p \in Procs |-> << >>]
    /\ home = [i \in Ids |-> NoProc]
    /\ queued = {}
    /\ torn = {}
    /\ garbled = {}
    /\ unacked = {}
    /\ live = {}

Goto(i, pc) == task' = [task EXCEPT ![i] = pc]

\* tx.send: the oneshot of a caller that has returned or was dropped discards.
Deliver(ids, what) ==
    box' = [i \in Ids |-> IF i \in ids /\ task[i] \in {"write", "flush", "wait"}
                          THEN what ELSE box[i]]

\* fail_all_pending: every pending oneshot gets an error envelope.
FailAllPending(code) ==
    /\ Deliver(pending, code)
    /\ pending' = {}

\* fail_active_streams: a synthetic run.failed is broadcast for each stream.
FailActiveStreams ==
    /\ streams' = {}
    /\ ended' = ended \cup streams

\* The end of a process takes its main loop and its run threads with it; what
\* it had not dispatched stays undispatched, lines in its pipe stay readable.
ProcessEnds(p) ==
    /\ alive' = alive \ {p}
    /\ unacked' = {r \in unacked : home[r] # p}
    /\ live' = {r \in live : home[r] # p}

-----------------------------------------------------------------------------
(* request(): touch, ensure_spawned, round_trip.                           *)

Call(r) ==
    /\ task[r] = "idle"
    /\ Goto(r, "spawn")
    /\ UNCHANGED <<hostVars, mapVars, box, reader, sidecarVars>>

Unspawned == {p \in Procs : reader[p] = "off"}

\* ensure_spawned finds a handle in the slot; the process may be dead already.
ReuseChild(r) ==
    /\ task[r] = "spawn"
    /\ held = Free
    /\ slot # NoProc
    /\ Goto(r, "insert")
    /\ UNCHANGED <<hostVars, mapVars, box, reader, sidecarVars>>

\* Mutant: the slot is not looked at.
CanSpawnAnyway == held = Free

CanSpawn == held = Free /\ slot = NoProc

SpawnChild(r) ==
    /\ task[r] = "spawn"
    /\ CanSpawn
    /\ \E p \in Unspawned :
        /\ \A q \in Unspawned : p <= q
        /\ state' = "starting"
        /\ pid' = p
        /\ slot' = p
        /\ alive' = alive \cup {p}
        /\ reader' = [reader EXCEPT ![p] = "read"]
    /\ Goto(r, "mark")
    /\ UNCHANGED <<held, mapVars, box, out, stdinVars, unacked, live>>

\* Command::spawn fails: the error returns with the state left at Starting.
SpawnFails(r) ==
    /\ task[r] = "spawn"
    /\ CanSpawn
    /\ state' = "starting"
    /\ Goto(r, "done")
    /\ box' = [box EXCEPT ![r] = "spawn_failed"]
    /\ UNCHANGED <<slot, held, pid, mapVars, reader, sidecarVars>>

\* The last statement of ensure_spawned, after the guard is dropped and the
\* reader task is running.
MarkRunning(r) ==
    /\ task[r] = "mark"
    /\ state' = "running"
    /\ Goto(r, "insert")
    /\ UNCHANGED <<slot, held, pid, mapVars, box, reader, sidecarVars>>

\* round_trip, from a caller of request() or of shutdown().
InsertPending(i) ==
    /\ task[i] = "insert"
    /\ pending' = pending \cup {i}
    /\ box' = [box EXCEPT ![i] = NoReply]
    /\ Goto(i, "write")
    /\ UNCHANGED <<hostVars, streams, ended, reader, sidecarVars>>

\* request() returns the outcome; shutdown() ignores it and goes on.
RoundTripEnds(i, outcome) ==
    IF i \in Requests
    THEN Goto(i, "done") /\ box' = [box EXCEPT ![i] = outcome]
    ELSE Goto(i, "take") /\ box' = [box EXCEPT ![i] = NoReply]

\* The handle is there: the mutex is kept over write_all() and flush().
TakeStdin(i) ==
    /\ task[i] = "write"
    /\ held = Free
    /\ slot # NoProc
    /\ held' = i
    /\ Goto(i, "flush")
    /\ UNCHANGED <<slot, pid, state, mapVars, box, reader, sidecarVars>>

\* The whole line is in the pipe, which may take as long as the sidecar does
\* not read: no deadline runs yet.
WriteLine(i) ==
    /\ task[i] = "flush"
    /\ held = i
    /\ slot \in alive
    /\ queued' = queued \cup {i}
    /\ home' = [home EXCEPT ![i] = slot]
    /\ torn' = torn \ {slot}
    /\ garbled' = IF slot \in torn THEN garbled \cup {i} ELSE garbled \ {i}
    /\ held' = Free
    /\ Goto(i, "wait")
    /\ UNCHANGED <<slot, pid, state, mapVars, box, reader, alive, out, unacked,
                   live>>

\* No handle, or a broken pipe: the entry is withdrawn, the caller gets
\* Err(Crashed) whatever its oneshot holds.
WriteFails(i) ==
    /\ \/ task[i] = "write" /\ held = Free /\ slot = NoProc
       \/ task[i] = "flush" /\ held = i /\ slot \notin alive
    /\ held' = Free
    /\ pending' = pending \ {i}
    /\ RoundTripEnds(i, "sidecar_crashed")
    /\ UNCHANGED <<slot, pid, state, streams, ended, reader, sidecarVars>>

\* Mutant: a request that failed because the sidecar went away is retried.
TakeReplyRetries(i) ==
    /\ task[i] = "wait"
    /\ box[i] # NoReply
    /\ IF box[i] = "sidecar_crashed"
       THEN Goto(i, "spawn") /\ UNCHANGED box
       ELSE RoundTripEnds(i, box[i])
    /\ UNCHANGED <<hostVars, mapVars, reader, sidecarVars>>

TakeReply(i) ==
    /\ task[i] = "wait"
    /\ box[i] # NoReply
    /\ RoundTripEnds(i, box[i])
    /\ UNCHANGED <<hostVars, mapVars, reader, sidecarVars>>

Timeout(i) ==
    /\ task[i] = "wait"
    /\ box[i] = NoReply
    /\ pending' = pending \ {i}
    /\ RoundTripEnds(i, "timeout")
    /\ UNCHANGED <<hostVars, streams, ended, reader, sidecarVars>>

\* The HTTP handler that awaits request() is dropped when its client goes
\* away.  A future is dropped only at an await; round_trip has no guard that
\* withdraws the pending entry, and a write that had begun leaves what the
\* pipe has taken.
Drop(r) ==
    /\ \/ task[r] \in {"spawn", "write", "wait"} /\ UNCHANGED <<held, torn>>
       \/ /\ task[r] = "flush" /\ held = r
          /\ held' = Free
          /\ torn' \in {torn, torn \cup ({slot} \cap alive)}
    /\ Goto(r, "dropped")
    /\ UNCHANGED <<slot, pid, state, mapVars, box, reader, alive, out, home,
                   queued, garbled, unacked, live>>

CallerStep(r) ==
    \/ ReuseChild(r) \/ SpawnChild(r) \/ SpawnFails(r) \/ MarkRunning(r)
    \/ InsertPending(r) \/ TakeStdin(r) \/ WriteFails(r) \/ TakeReply(r)

-----------------------------------------------------------------------------
(* The idle watchdog and shutdown().                                       *)

\* Requests and stdout lines reset last_activity, and the idle timeout is far
\* longer than a request may last, so the watchdog finds the deadline passed
\* only when no request is in flight and no reader has anything to do.
Quiet ==
    /\ \A r \in Requests : task[r] \in {"idle", "done", "dropped"}
    /\ \A p \in Procs : \/ reader[p] \in {"off", "stopped"}
                        \/ reader[p] = "read" /\ p \in alive /\ out[p] = << >>

WatchdogFires(w) ==
    /\ task[w] = "sleep"
    /\ Quiet
    /\ Goto(w, "check")
    /\ UNCHANGED <<hostVars, mapVars, box, reader, sidecarVars>>

\* child.lock().await.is_some(); the guard is released with the condition.
WatchdogChecks(w) ==
    /\ task[w] = "check"
    /\ held = Free
    /\ Goto(w, IF slot # NoProc THEN "enter" ELSE "sleep")
    /\ UNCHANGED <<hostVars, mapVars, box, reader, sidecarVars>>

HostExits(h) ==
    /\ task[h] = "idle"
    /\ Goto(h, "enter")
    /\ UNCHANGED <<hostVars, mapVars, box, reader, sidecarVars>>

AfterShutdown(s) == IF s \in Watchdog THEN "sleep" ELSE "gone"

EnterShutdown(s) ==
    /\ task[s] = "enter"
    /\ IF pid = NoProc
       THEN Goto(s, AfterShutdown(s)) /\ UNCHANGED state
       ELSE Goto(s, "insert") /\ state' = "stopping"
    /\ UNCHANGED <<slot, held, pid, mapVars, box, reader, sidecarVars>>

\* Whatever is in the slot by now is dropped, hence killed.
TakeChild(s) ==
    /\ task[s] = "take"
    /\ held = Free
    /\ held' = s
    /\ slot' = NoProc
    /\ ProcessEnds(slot)
    /\ Goto(s, "clear")
    /\ UNCHANGED <<pid, state, mapVars, box, reader, out, stdinVars>>

ClearPid(s) ==
    /\ task[s] = "clear"
    /\ pid' = NoProc
    /\ state' = "not_spawned"
    /\ Goto(s, "drain")
    /\ UNCHANGED <<slot, held, mapVars, box, reader, sidecarVars>>

ShutdownDrains(s) ==
    /\ task[s] = "drain"
    /\ FailAllPending("sidecar_shutdown")
    /\ Goto(s, "close")
    /\ UNCHANGED <<hostVars, streams, ended, reader, sidecarVars>>

\* Mutant: the child mutex stays locked.
ShutdownKeepsLock(s) ==
    /\ task[s] = "close"
    /\ FailActiveStreams
    /\ Goto(s, AfterShutdown(s))
    /\ UNCHANGED <<hostVars, pending, box, reader, sidecarVars>>

ShutdownCloses(s) ==
    /\ task[s] = "close"
    /\ FailActiveStreams
    /\ held' = Free
    /\ Goto(s, AfterShutdown(s))
    /\ UNCHANGED <<slot, pid, state, pending, box, reader, sidecarVars>>

StopperStep(s) ==
    \/ EnterShutdown(s) \/ InsertPending(s) \/ TakeStdin(s) \/ WriteFails(s)
    \/ TakeReply(s) \/ TakeChild(s) \/ ClearPid(s) \/ ShutdownDrains(s)
    \/ ShutdownCloses(s)

-----------------------------------------------------------------------------
(* The stdout reader of process p.                                         *)

ReaderAt(p, pc)   == reader[p] = pc
ReaderGoto(p, pc) == reader' = [reader EXCEPT ![p] = pc]
PopLine(p)        == out' = [out EXCEPT ![p] = Tail(out[p])]

\* route_incoming_line: ANY line whose id is pending answers that request,
\* whatever its kind.  The answer to a run.start first enters the stream map
\* (TrackStream) unless it is an error.
AnswerPending(p) ==
    /\ ReaderAt(p, "read")
    /\ out[p] # << >>
    /\ LET line == Head(out[p]) IN
        /\ line.id \in pending
        /\ pending' = pending \ {line.id}
        /\ IF line.id \in Runs /\ line.kind # "error"
           THEN ReaderGoto(p, "track") /\ UNCHANGED <<box, out>>
           ELSE /\ Deliver({line.id}, line.kind)
                /\ PopLine(p)
                /\ UNCHANGED reader
    /\ UNCHANGED <<hostVars, streams, ended, task, alive, stdinVars,
                   unacked, live>>

TrackStream(p) ==
    /\ ReaderAt(p, "track")
    /\ LET line == Head(out[p]) IN
        /\ streams' = streams \cup {line.id}
        /\ Deliver({line.id}, line.kind)
    /\ PopLine(p)
    /\ ReaderGoto(p, "read")
    /\ UNCHANGED <<hostVars, pending, ended, task, alive, stdinVars,
                   unacked, live>>

\* The end of a run closes its stream, any other run.* line opens it.
StreamsAfter(line) ==
    CASE line.kind = "end" -> streams \ {line.id}
      [] line.kind \in {"started", "event"} -> streams \cup {line.id}
      [] OTHER -> streams

\* A line nobody waits for is broadcast.
BroadcastLine(p) ==
    /\ ReaderAt(p, "read")
    /\ out[p] # << >>
    /\ LET line == Head(out[p]) IN
        /\ line.id \notin pending
        /\ streams' = StreamsAfter(line)
        /\ ended' = IF line.kind = "end" THEN ended \cup {line.id} ELSE ended
    /\ PopLine(p)
    /\ UNCHANGED <<hostVars, pending, taskVars, reader, alive, stdinVars,
                   unacked, live>>

\* The loop ends: at the end of the pipe, or at a line that is no UTF-8,
\* which can come at any time and from a process that lives on.
Eof(p) ==
    /\ ReaderAt(p, "read")
    /\ \/ p \notin alive /\ out[p] = << >>
       \/ p \in Noisy
    /\ ReaderGoto(p, "lock")
    /\ UNCHANGED <<hostVars, mapVars, taskVars, sidecarVars>>

\* The handle is taken, and its process killed, only if it is still this
\* reader's; what follows runs without the mutex.
ReleaseSlot(p) ==
    /\ ReaderAt(p, "lock")
    /\ held = Free
    /\ IF slot = p
       THEN slot' = NoProc /\ ProcessEnds(p) /\ ReaderGoto(p, "pid")
       ELSE UNCHANGED <<slot, alive, unacked, live>> /\ ReaderGoto(p, "stopped")
    /\ UNCHANGED <<held, pid, state, mapVars, taskVars, out, stdinVars>>

ReaderClearsPid(p) ==
    /\ ReaderAt(p, "pid")
    /\ pid' = NoProc
    /\ ReaderGoto(p, "state")
    /\ UNCHANGED <<slot, held, state, mapVars, taskVars, sidecarVars>>

ReaderSetsState(p) ==
    /\ ReaderAt(p, "state")
    /\ state' = IF state = "stopping" THEN state ELSE "not_spawned"
    /\ ReaderGoto(p, "drain")
    /\ UNCHANGED <<slot, held, pid, mapVars, taskVars, sidecarVars>>

\* Mutant: the pending requests are forgotten.
ReaderSkipsDrain(p) ==
    /\ ReaderAt(p, "drain")
    /\ ReaderGoto(p, "close")
    /\ UNCHANGED <<hostVars, mapVars, taskVars, sidecarVars>>

ReaderDrains(p) ==
    /\ ReaderAt(p, "drain")
    /\ FailAllPending("sidecar_crashed")
    /\ ReaderGoto(p, "close")
    /\ UNCHANGED <<hostVars, streams, ended, task, sidecarVars>>

\* Mutant: the streams are left open.
ReaderSkipsStreams(p) ==
    /\ ReaderAt(p, "close")
    /\ ReaderGoto(p, "stopped")
    /\ UNCHANGED <<hostVars, mapVars, taskVars, sidecarVars>>

ReaderCloses(p) ==
    /\ ReaderAt(p, "close")
    /\ FailActiveStreams
    /\ ReaderGoto(p, "stopped")
    /\ UNCHANGED <<hostVars, pending, taskVars, sidecarVars>>

ReaderStep(p) ==
    \/ AnswerPending(p) \/ TrackStream(p) \/ BroadcastLine(p) \/ Eof(p)
    \/ ReleaseSlot(p) \/ ReaderClearsPid(p) \/ ReaderSetsState(p)
    \/ ReaderDrains(p) \/ ReaderCloses(p)

-----------------------------------------------------------------------------
(* The sidecar process p (apps/agent-runtime).  Its main loop dispatches   *)
(* one stdin line at a time and writes the response before it reads the    *)
(* next; each run has a thread that writes its events to the same stdout.  *)

Emit(p, i, kind) ==
    /\ p \in alive
    /\ Len(out[p]) < PipeCap
    /\ out' = [out EXCEPT ![p] = Append(@, [id |-> i, kind |-> kind])]

\* The main loop is between two lines: no ack of p is still to be written.
MainLoopIdle(p) == \A r \in unacked : home[r] # p

\* The main loop reads the line of i.  A garbled line is no JSON: it is
\* answered with an error for the request "unknown", which concerns nobody.
Reads(p, i) ==
    /\ i \in queued \ garbled /\ home[i] = p
    /\ MainLoopIdle(p)
    /\ queued' = queued \ {i}

\* Some answers are run.* lines themselves (run.cancelled, run.approve.ok).
SidecarReplies(p, r) ==
    /\ Reads(p, r)
    /\ \/ r \in Calls /\ \E kind \in {"reply", "event"} : Emit(p, r, kind)
       \/ Emit(p, r, "error")
    /\ UNCHANGED <<hostVars, mapVars, taskVars, reader, alive, home, torn, garbled,
                   unacked, live>>

\* ChatRuns.start registers the run and starts its thread; run.started is
\* only returned to the main loop afterwards.
SidecarStartsRun(p, r) ==
    /\ p \in alive
    /\ Reads(p, r)
    /\ unacked' = unacked \cup {r}
    /\ live' = live \cup {r}
    /\ UNCHANGED <<hostVars, mapVars, taskVars, reader, alive, out, home, torn,
                   garbled>>

SidecarAcksRun(p, r) ==
    /\ r \in unacked /\ home[r] = p
    /\ Emit(p, r, "started")
    /\ unacked' = unacked \ {r}
    /\ UNCHANGED <<hostVars, mapVars, taskVars, reader, alive, stdinVars,
                   live>>

RunEmits(p, r) ==
    /\ r \in live /\ home[r] = p
    /\ \/ Emit(p, r, "event") /\ UNCHANGED live
       \/ Emit(p, r, "end") /\ live' = live \ {r}
    /\ UNCHANGED <<hostVars, mapVars, taskVars, reader, alive, stdinVars,
                   unacked>>

\* runtime.shutdown is echoed and the process exits.
SidecarStops(p, s) ==
    /\ Reads(p, s)
    /\ Emit(p, s, "reply")
    /\ ProcessEnds(p)
    /\ UNCHANGED <<hostVars, mapVars, taskVars, reader, home, torn, garbled>>

SidecarCrashes(p) ==
    /\ p \in alive
    /\ ProcessEnds(p)
    /\ UNCHANGED <<hostVars, mapVars, taskVars, reader, out, stdinVars>>

SidecarStep(p) ==
    \/ \E r \in Requests : SidecarReplies(p, r)
    \/ \E r \in Runs : \/ SidecarStartsRun(p, r) \/ SidecarAcksRun(p, r)
                       \/ RunEmits(p, r)
    \/ \E s \in Stoppers : SidecarStops(p, s)
    \/ SidecarCrashes(p)

-----------------------------------------------------------------------------

Next ==
    \/ \E r \in Requests : Call(r) \/ CallerStep(r)
    \/ \E r \in Leaving : Drop(r)
    \/ \E i \in Ids : WriteLine(i) \/ Timeout(i)
    \/ \E w \in Watchdog : WatchdogFires(w) \/ WatchdogChecks(w)
    \/ \E h \in Hosts : HostExits(h)
    \/ \E s \in Stoppers : StopperStep(s)
    \/ \E p \in Procs : ReaderStep(p) \/ SidecarStep(p)

Spec == Init /\ [][Next]_vars

\* The host's tasks are scheduled (tokio polls a woken task); nothing is
\* assumed of the sidecar, which need not read its stdin either (WriteLine),
\* of new requests, or of the timers.
TaskFairness ==
    /\ \A r \in Requests : WF_vars(CallerStep(r))
    /\ \A s \in Stoppers : WF_vars(StopperStep(s))
    /\ \A p \in Procs : WF_vars(ReaderStep(p))

\* tokio::time fires a timer once its deadline has passed.
TimerFairness == \A i \in Ids : WF_vars(Timeout(i))

SpecTasks == Spec /\ TaskFairness
SpecFair  == Spec /\ TaskFairness /\ TimerFairness

-----------------------------------------------------------------------------
(* Safety.                                                                 *)

\* Every live process is the one in the child slot: no spawn, shutdown or
\* reader clean-up ever leaves a sidecar running that nothing can stop.
NoOrphan == alive \subseteq {slot}

\* The entries of the pending map belong to requests between insertion and
\* answer, or to requests whose handler was dropped there (lib.rs:390-435):
\* no answered, failed or timed-out request leaves its entry behind.
PendingOwned ==
    \A i \in pending : task[i] \in {"write", "flush", "wait", "dropped"}

\* Somebody will still drain the pending map because process p has died: its
\* reader on the way to clean up, or the shutdown that killed it.
CleanupDue(p) ==
    \/ slot = p /\ reader[p] \in {"read", "track", "lock"}
    \/ reader[p] \in {"pid", "state", "drain"}
    \/ \E s \in Stoppers : task[s] \in {"clear", "drain"}

BeingTracked(i) ==
    \E p \in Procs : reader[p] = "track" /\ Head(out[p]).id = i

\* No lost wake-up: a caller that waits with nothing in its oneshot is still
\* in the pending map (or just being taken out of it to be answered), and if
\* its sidecar is dead the clean-up that will answer it is still to come.
NoLostWaiter ==
    \A i \in Ids :
        task[i] = "wait" /\ box[i] = NoReply =>
            \/ BeingTracked(i)
            \/ i \in pending /\ (home[i] \in alive \/ CleanupDue(home[i]))

\* A run whose start was acknowledged to the host has an entry in the stream
\* map until a terminal event of it was broadcast: the map never forgets a
\* run that the host would have to be told about.
AckedRunTracked ==
    \A r \in Runs : box[r] \in {"started", "event"} => r \in streams \cup ended

\* The call interface implements at-most-once remote calls: an answer implies
\* that the sidecar executed the request, no request is executed twice, and
\* an outcome never changes, whatever is spawned, killed or drained meanwhile.
clientView ==
    [r \in Requests |->
        CASE task[r] = "idle" -> "new"
          [] task[r] = "dropped" -> "failed"
          [] task[r] = "done" -> IF box[r] \in LineKinds THEN "answered"
                                                         ELSE "failed"
          [] OTHER -> "open"]
serverView == {r \in Requests : home[r] # NoProc /\ r \notin queued}

Remote == INSTANCE AtMostOnceCall
              WITH client <- clientView, executed <- serverView
AtMostOnce == Remote!Spec

(* Liveness.                                                               *)

\* No line is on its way into a stdin, so nobody keeps the mutex at an await
\* without a deadline (lib.rs:416-425).
NobodyWrites == \A i \in Ids : task[i] # "flush"

\* Every call of request() and of shutdown() returns, unless one write hangs
\* for ever: whatever spawns, dies, is dropped or shut down meanwhile, the
\* mutex is given back.  (With a write that hangs nothing is promised: the
\* timeout begins only after it, and everybody else waits for the mutex.)
EveryCallReturns ==
    []<>NobodyWrites =>
        \A i \in Ids :
            task[i] \notin {"idle", "sleep", "check"} ~>
                task[i] \in {"done", "dropped", "sleep", "gone"}

\* The doc of request(), lib.rs:221-225: a caller whose sidecar dies is told
\* so at once.  Checked without timer fairness: the clean-up answers it.
CrashWakesCallers ==
    \A r \in Requests :
        (task[r] = "wait" /\ home[r] \notin alive) ~>
            task[r] \in {"done", "dropped"}

\* A run whose start was acknowledged gets a terminal event once its sidecar
\* is dead (lib.rs:512-515, "instead of leaking it in running state").
AckedRunEnds ==
    \A r \in Runs :
        (box[r] \in {"started", "event"} /\ home[r] \notin alive) ~> r \in ended

\* ADR-0004, "terminates it after a configurable idle timeout": a sidecar that
\* stays idle is stopped.
IdleSidecarStops == <>[]Quiet => []<>(slot = NoProc)

\* Fairness for the idle watchdog's own timer on top of the tasks.
SpecChecks ==
    /\ SpecFair
    /\ \A w \in Watchdog : WF_vars(WatchdogFires(w)) /\ WF_vars(WatchdogChecks(w))

\* Besides, a sidecar that reads its stdin.
SpecWatchdog == SpecChecks /\ \A i \in Ids : WF_vars(WriteLine(i))
=============================================================================
