------------------------------ MODULE ChatRuns ------------------------------
(***************************************************************************)
(* The life of a chat run across the host and the sidecar:                 *)
(* crates/server/src/chat.rs (send_message, the persistence task it        *)
(* spawns, cancel_run), the rows of db.rs they read and overwrite, the     *)
(* supervisor's event bus, and the run thread of the sidecar's chat.py.    *)
(*                                                                         *)
(* Per run there are four actors: the HTTP handler that inserts the run    *)
(* and relays run.start, the run thread in the sidecar, the persistence    *)
(* task that folds the run's events into the database when the terminal    *)
(* event arrives, and any number of cancel handlers.  They meet in the     *)
(* run's row, which every one of them reads, changes in memory and writes  *)
(* back whole, and on a broadcast bus that drops its oldest events.        *)
(*                                                                         *)
(* Supervisor.tla has the pending map, the stream map and the process in   *)
(* full; here a line leaves the sidecar and is routed in one step, and the *)
(* end of the process drains both maps in one step.  A conversation has    *)
(* one run.                                                                *)
(***************************************************************************)
EXTENDS Naturals, Sequences, FiniteSets

CONSTANTS
    Runs,      \* run ids, each submitted at most once
    Cancels,   \* calls of cancel_run
    Faults,    \* what the environment may do to the host, see FaultKinds
    MaxText,   \* bound: text deltas of a run
    BusCap,    \* events a receiver of the broadcast bus retains
    MaxStops   \* bound: exits of the sidecar and of the host together

FaultKinds ==
    {"drop",       \* the client goes away and its handler is dropped
     "timeout",    \* a relayed request runs into the request timeout
     "refuse",     \* no sidecar can be spawned or written to
     "db",         \* a write of the database fails
     "delete",     \* the conversation is deleted while the run is active
     "exit",       \* the sidecar process dies
     "idle_stop",  \* the idle watchdog shuts the sidecar down
     "host"}       \* the host process dies and is started again

ASSUME TasksAssumption == Runs \cap Cancels = {} /\ IsFiniteSet(Runs)
ASSUME FaultsAssumption == Faults \subseteq FaultKinds
ASSUME LimitsAssumption ==
    MaxText \in Nat /\ BusCap \in Nat \ {0} /\ MaxStops \in Nat

RunStatuses == {"absent", "running", "completed", "failed", "interrupted",
                "deleted"}
Terminal    == {"completed", "failed", "interrupted"}
\* The columns of a runs row that are ever overwritten: the status, and
\* whether assistant_message_id is set.
RunRows     == [status : RunStatuses, reply : BOOLEAN]

\* How a run thread ends, and what the supervisor says when it cannot.
Outcomes == {"completed", "cancelled", "model_error",
             "sidecar_crashed", "sidecar_shutdown"}
Kinds    == {"started", "activity", "text"} \cup Outcomes
Events   == [run : Runs, kind : Kinds]

NoRun      == "no run"
NoOutcome  == "no outcome"
SendPcs    == {"idle", "subscribe", "start", "wait", "reject", "done"}
KeeperPcs  == {"off", "listen", "load", "message", "save"}
CancelPcs  == {"idle", "ask", "wait", "save", "done", "failed"}
ThreadPcs  == {"none", "begin", "stream", "closing", "leaving", "gone"}

VARIABLES
    up,          \* the host process runs
    row,         \* the runs table
    stored,      \* assistant messages stored for each run
    send,        \* send_message handlers
    answer,      \* the oneshot of each run.start
    keeper,      \* persistence tasks
    heard,       \* text deltas in a persistence task's assistant_text
    verdict,     \* the terminal event a persistence task is folding in
    call,        \* cancel_run handlers
    target,      \* the run each cancel is about
    copy,        \* the row each task read and will write back
    subscribed,  \* runs whose receiver is open
    queue,       \* events in each run's receiver
    pending,     \* run.start requests in the supervisor's pending map
    streams,     \* the supervisor's stream map
    inbox,       \* requests on the sidecar's stdin
    unacked,     \* the run whose thread started and whose ack is unwritten
    thread,      \* run threads of the sidecar
    cancelled,   \* runs whose cancelled event is set
    outcome,     \* how each run thread ended
    said,        \* text deltas each run emitted
    stops,       \* exits so far
    lost,        \* history: runs whose terminal event no task will see
    gaps         \* history: runs some of whose text was lost

dbVars      == <<row, stored>>
sendVars    == <<send, answer>>
keeperVars  == <<keeper, heard, verdict>>
cancelVars  == <<call, target>>
busVars     == <<subscribed, queue>>
mapVars     == <<pending, streams>>
sidecarVars == <<inbox, unacked, thread, cancelled, outcome, said>>
histVars    == <<lost, gaps>>
vars == <<up, dbVars, sendVars, keeperVars, cancelVars, copy, busVars,
          mapVars, sidecarVars, stops, histVars>>

TypeOK ==
    /\ up \in BOOLEAN
    /\ row \in [Runs -> RunRows]
    /\ stored \in [Runs -> Seq([text : 0 .. MaxText, status : Terminal])]
    /\ send \in [Runs -> SendPcs]
    /\ answer \in [Runs -> {"none", "started", "error"}]
    /\ keeper \in [Runs -> KeeperPcs]
    /\ heard \in [Runs -> 0 .. MaxText]
    /\ verdict \in [Runs -> Outcomes \cup {NoOutcome}]
    /\ call \in [Cancels -> CancelPcs]
    /\ target \in [Cancels -> Runs \cup {NoRun}]
    /\ copy \in [Runs \cup Cancels -> RunRows]
    /\ subscribed \subseteq Runs
    /\ queue \in [Runs -> Seq(Events)]
    /\ \A r \in Runs : Len(queue[r]) <= BusCap
    /\ pending \subseteq Runs
    /\ streams \subseteq Runs
    /\ inbox \subseteq Runs \cup Cancels
    /\ unacked \subseteq Runs
    /\ thread \in [Runs -> ThreadPcs]
    /\ cancelled \subseteq Runs
    /\ outcome \in [Runs -> Outcomes \cup {NoOutcome}]
    /\ said \in [Runs -> 0 .. MaxText]
    /\ stops \in 0 .. MaxStops
    /\ lost \subseteq Runs
    /\ gaps \subseteq Runs

NoRow == [status |-> "absent", reply |-> FALSE]

Init ==
    /\ up = TRUE
    /\ row = [r \in Runs |-> NoRow]
    /\ stored = [r \in Runs |-> << >>]
    /\ send = [r \in Runs |-> "idle"]
    /\ answer = [r \in Runs |-> "none"]
    /\ keeper = [r \in Runs |-> "off"]
    /\ heard = [r \in Runs |-> 0]
    /\ verdict = [r \in Runs |-> NoOutcome]
    /\ call = [c \in Cancels |-> "idle"]
    /\ target = [c \in Cancels |-> NoRun]
    /\ copy = [t \in Runs \cup Cancels |-> NoRow]
    /\ subscribed = {}
    /\ queue = [r \in Runs |-> << >>]
    /\ pending = {}
    /\ streams = {}
    /\ inbox = {}
    /\ unacked = {}
    /\ thread = [r \in Runs |-> "none"]
    /\ cancelled = {}
    /\ outcome = [r \in Runs |-> NoOutcome]
    /\ said = [r \in Runs |-> 0]
    /\ stops = 0
    /\ lost = {}
    /\ gaps = {}

-----------------------------------------------------------------------------
(* The database.                                                           *)

Exists(r) == row[r].status \notin {"absent", "deleted"}

\* Db::update_run: the whole row, whatever it holds by now; a deleted row is
\* not brought back.
UpdateRun(r, status, reply) ==
    row' = [row EXCEPT ![r] =
                IF Exists(r) THEN [status |-> status, reply |-> reply] ELSE @]

\* DELETE of the conversation, whose messages and runs go with it.
DeleteConversation(r) ==
    /\ "delete" \in Faults
    /\ up
    /\ Exists(r)
    /\ row' = [row EXCEPT ![r] = [status |-> "deleted", reply |-> FALSE]]
    /\ stored' = [stored EXCEPT ![r] = << >>]
    /\ UNCHANGED <<up, sendVars, keeperVars, cancelVars, copy, busVars,
                   mapVars, sidecarVars, stops, histVars>>

-----------------------------------------------------------------------------
(* The event bus: tokio's broadcast channel.                               *)

IsEnd(e) == e.kind \in Outcomes

\* A full receiver forgets its oldest events; recv reports Lagged, which the
\* persistence task answers with continue.
Excess(q)  == IF Len(q) > BusCap THEN Len(q) - BusCap ELSE 0
Kept(q)    == SubSeq(q, Excess(q) + 1, Len(q))
Dropped(q) == {q[n] : n \in 1 .. Excess(q)}

\* Sends a sequence of events to every open receiver.
Broadcast(es) ==
    LET Fed(k) == queue[k] \o es
        Missed(k) == {e \in Dropped(Fed(k)) : e.run = k}
    IN  /\ queue' = [k \in Runs |->
                        IF k \in subscribed THEN Kept(Fed(k)) ELSE queue[k]]
        /\ lost' = lost \cup {k \in subscribed : \E e \in Missed(k) : IsEnd(e)}
        /\ gaps' = gaps \cup
                   {k \in subscribed : \E e \in Missed(k) : e.kind = "text"}
        /\ UNCHANGED subscribed

\* route_incoming_line: the first line with a pending request id is the
\* request's answer, whatever it is, and is not broadcast.
Route(r, kind) ==
    IF r \in pending
    THEN /\ pending' = pending \ {r}
         /\ answer' = [answer EXCEPT ![r] = "started"]
         /\ streams' = streams \cup {r}
         /\ lost' = IF kind \in Outcomes THEN lost \cup {r} ELSE lost
         /\ UNCHANGED <<busVars, gaps>>
    ELSE /\ streams' = IF kind \in Outcomes THEN streams \ {r}
                                            ELSE streams \cup {r}
         /\ Broadcast(<<[run |-> r, kind |-> kind]>>)
         /\ UNCHANGED <<pending, answer>>

\* The synthetic terminal events, in the order the map is walked in.
SyntheticEnds(code) ==
    {[n \in DOMAIN order |-> [run |-> order[n], kind |-> code]] :
        order \in {s \in UNION {[1 .. n -> streams] : n \in {Cardinality(streams)}} :
                       \A r \in streams : \E n \in DOMAIN s : s[n] = r}}

-----------------------------------------------------------------------------
(* send_message.                                                           *)

Receivers(gone) == /\ subscribed' = subscribed \ gone
                   /\ queue' = [r \in Runs |-> IF r \in gone THEN << >>
                                                             ELSE queue[r]]

\* The run is inserted as "running" before the sidecar hears of it.
InsertRun(r) ==
    /\ up
    /\ send[r] = "idle"
    /\ send' = [send EXCEPT ![r] = "subscribe"]
    /\ row' = [row EXCEPT ![r] = [status |-> "running", reply |-> FALSE]]
    /\ UNCHANGED <<up, stored, answer, keeperVars, cancelVars, copy, busVars,
                   mapVars, sidecarVars, stops, histVars>>

Subscribe(r) ==
    /\ send[r] = "subscribe"
    /\ send' = [send EXCEPT ![r] = "start"]
    /\ subscribed' = subscribed \cup {r}
    /\ UNCHANGED <<up, dbVars, answer, keeperVars, cancelVars, copy, queue,
                   mapVars, sidecarVars, stops, histVars>>

\* relay::run_start, up to the point where the request is written.
StartRun(r) ==
    /\ send[r] = "start"
    /\ send' = [send EXCEPT ![r] = "wait"]
    /\ pending' = pending \cup {r}
    /\ inbox' = inbox \cup {r}
    /\ UNCHANGED <<up, dbVars, answer, keeperVars, cancelVars, copy, busVars,
                   streams, unacked, thread, cancelled, outcome, said, stops,
                   histVars>>

StartRefused(r) ==
    /\ "refuse" \in Faults
    /\ send[r] = "start"
    /\ send' = [send EXCEPT ![r] = "reject"]
    /\ UNCHANGED <<up, dbVars, answer, keeperVars, cancelVars, copy, busVars,
                   mapVars, sidecarVars, stops, histVars>>

\* Mutant: the persistence task subscribes when it starts.
StartAnsweredLateSubscribe(r) ==
    /\ send[r] = "wait"
    /\ answer[r] = "started"
    /\ send' = [send EXCEPT ![r] = "done"]
    /\ keeper' = [keeper EXCEPT ![r] = "listen"]
    /\ queue' = [queue EXCEPT ![r] = << >>]
    /\ UNCHANGED <<up, dbVars, answer, heard, verdict, cancelVars, copy,
                   subscribed, mapVars, sidecarVars, stops, histVars>>

\* The answer arrived: an acknowledgement starts the persistence task, which
\* takes over the receiver; an error rejects the message.
StartAnswered(r) ==
    /\ send[r] = "wait"
    /\ \/ /\ answer[r] = "started"
          /\ send' = [send EXCEPT ![r] = "done"]
          /\ keeper' = [keeper EXCEPT ![r] = "listen"]
       \/ /\ answer[r] = "error"
          /\ send' = [send EXCEPT ![r] = "reject"]
          /\ UNCHANGED keeper
    /\ UNCHANGED <<up, dbVars, answer, heard, verdict, cancelVars, copy,
                   busVars, mapVars, sidecarVars, stops, histVars>>

\* The request timeout: the sidecar may still run what was asked of it.
StartTimesOut(r) ==
    /\ "timeout" \in Faults
    /\ send[r] = "wait"
    /\ answer[r] = "none"
    /\ send' = [send EXCEPT ![r] = "reject"]
    /\ pending' = pending \ {r}
    /\ UNCHANGED <<up, dbVars, answer, keeperVars, cancelVars, copy, busVars,
                   streams, sidecarVars, stops, histVars>>

\* Err: the handler's own row, as inserted, is written back as failed.
RejectMessage(r) ==
    /\ send[r] = "reject"
    /\ send' = [send EXCEPT ![r] = "done"]
    /\ Receivers({r})
    /\ \/ UpdateRun(r, "failed", FALSE) /\ UNCHANGED lost
       \/ "db" \in Faults /\ lost' = lost \cup {r} /\ UNCHANGED row
    /\ UNCHANGED <<up, stored, answer, keeperVars, cancelVars, copy, mapVars,
                   sidecarVars, stops, gaps>>

\* The client disconnects and the handler's future is dropped at an await.
DropSend(r) ==
    /\ "drop" \in Faults
    /\ send[r] \in {"subscribe", "start", "wait", "reject"}
    /\ send' = [send EXCEPT ![r] = "done"]
    /\ Receivers({r})
    /\ lost' = lost \cup {r}
    /\ UNCHANGED <<up, dbVars, answer, keeperVars, cancelVars, copy, mapVars,
                   sidecarVars, stops, gaps>>

-----------------------------------------------------------------------------
(* The persistence task and persist_terminal_run.                          *)

KeeperGoto(r, pc) == keeper' = [keeper EXCEPT ![r] = pc]

\* events.recv: text of this run is collected, its terminal event starts the
\* write-back, everything else is skipped.
Listen(r) ==
    /\ keeper[r] = "listen"
    /\ queue[r] # << >>
    /\ queue' = [queue EXCEPT ![r] = Tail(@)]
    /\ LET e == Head(queue[r]) IN
       \/ /\ e.run = r /\ e.kind = "text"
          /\ heard' = [heard EXCEPT ![r] = @ + 1]
          /\ UNCHANGED <<keeper, verdict>>
       \/ /\ e.run = r /\ IsEnd(e)
          /\ verdict' = [verdict EXCEPT ![r] = e.kind]
          /\ KeeperGoto(r, "load")
          /\ UNCHANGED heard
       \/ /\ e.run # r \/ e.kind \in {"started", "activity"}
          /\ UNCHANGED keeperVars
    /\ UNCHANGED <<up, dbVars, sendVars, cancelVars, copy, subscribed,
                   mapVars, sidecarVars, stops, histVars>>

StatusOf(kind) == CASE kind = "completed" -> "completed"
                    [] kind \in {"cancelled", "sidecar_crashed"} -> "interrupted"
                    [] OTHER -> "failed"

\* get_run; without a row, or with an error, the task gives up.
LoadRun(r) ==
    /\ keeper[r] = "load"
    /\ \/ /\ Exists(r)
          /\ copy' = [copy EXCEPT ![r] =
                         [row[r] EXCEPT !.status = StatusOf(verdict[r])]]
          /\ KeeperGoto(r, IF heard[r] > 0 THEN "message" ELSE "save")
          /\ UNCHANGED <<busVars, lost>>
       \/ /\ \/ ~Exists(r) /\ UNCHANGED lost
             \/ "db" \in Faults /\ lost' = lost \cup {r}
          /\ KeeperGoto(r, "off")
          /\ Receivers({r})
          /\ UNCHANGED copy
    /\ UNCHANGED <<up, dbVars, sendVars, heard, verdict, cancelVars, mapVars,
                   sidecarVars, stops, gaps>>

\* Mutant: the message is linked whether or not it was stored.
SaveMessageUnchecked(r) ==
    /\ keeper[r] = "message"
    /\ KeeperGoto(r, "save")
    /\ copy' = [copy EXCEPT ![r].reply = TRUE]
    /\ \/ /\ Exists(r)
          /\ stored' = [stored EXCEPT ![r] = Append(@,
                           [text |-> heard[r], status |-> copy[r].status])]
          /\ UNCHANGED gaps
       \/ /\ ~Exists(r) \/ "db" \in Faults
          /\ gaps' = gaps \cup {r}
          /\ UNCHANGED stored
    /\ UNCHANGED <<up, row, sendVars, heard, verdict, cancelVars, busVars,
                   mapVars, sidecarVars, stops, lost>>

\* insert_message; it is linked only when it was stored.
SaveMessage(r) ==
    /\ keeper[r] = "message"
    /\ KeeperGoto(r, "save")
    /\ \/ /\ Exists(r)
          /\ stored' = [stored EXCEPT ![r] = Append(@,
                           [text |-> heard[r], status |-> copy[r].status])]
          /\ copy' = [copy EXCEPT ![r].reply = TRUE]
          /\ UNCHANGED gaps
       \/ /\ ~Exists(r) \/ "db" \in Faults
          /\ gaps' = gaps \cup {r}
          /\ UNCHANGED <<stored, copy>>
    /\ UNCHANGED <<up, row, sendVars, heard, verdict, cancelVars, busVars,
                   mapVars, sidecarVars, stops, lost>>

\* update_run with the copy read at LoadRun; the task ends.
SaveRun(r) ==
    /\ keeper[r] = "save"
    /\ KeeperGoto(r, "off")
    /\ Receivers({r})
    /\ \/ UpdateRun(r, copy[r].status, copy[r].reply) /\ UNCHANGED lost
       \/ "db" \in Faults /\ lost' = lost \cup {r} /\ UNCHANGED row
    /\ UNCHANGED <<up, stored, sendVars, heard, verdict, cancelVars, copy,
                   mapVars, sidecarVars, stops, gaps>>

-----------------------------------------------------------------------------
(* cancel_run.                                                             *)

CallGoto(c, pc) == call' = [call EXCEPT ![c] = pc]

\* A client has seen the run: its thread was started at some time.
LoadForCancel(c, r) ==
    /\ up
    /\ call[c] = "idle"
    /\ thread[r] # "none"
    /\ target' = [target EXCEPT ![c] = r]
    /\ \/ /\ row[r].status = "running"
          /\ copy' = [copy EXCEPT ![c] = row[r]]
          /\ CallGoto(c, "ask")
       \/ /\ row[r].status # "running"
          /\ CallGoto(c, "failed")
          /\ UNCHANGED copy
    /\ UNCHANGED <<up, dbVars, sendVars, keeperVars, busVars, mapVars,
                   sidecarVars, stops, histVars>>

\* relay::run_cancel, up to the point where the request is written.
AskCancel(c) ==
    /\ call[c] = "ask"
    /\ CallGoto(c, "wait")
    /\ inbox' = inbox \cup {c}
    /\ UNCHANGED <<up, dbVars, sendVars, keeperVars, target, copy, busVars,
                   mapVars, unacked, thread, cancelled, outcome, said, stops,
                   histVars>>

\* A refused or timed out relay, and a client that went away.
GiveUpCancel(c) ==
    /\ \/ "refuse" \in Faults /\ call[c] = "ask"
       \/ "timeout" \in Faults /\ call[c] = "wait"
       \/ "drop" \in Faults /\ call[c] \in {"ask", "wait", "save"}
       \/ "db" \in Faults /\ call[c] = "save"
    /\ CallGoto(c, "failed")
    /\ UNCHANGED <<up, dbVars, sendVars, keeperVars, target, copy, busVars,
                   mapVars, sidecarVars, stops, histVars>>

\* Mutant: only completed_at is set on the copy.
SaveCancelledStale(c) ==
    /\ call[c] = "save"
    /\ CallGoto(c, "done")
    /\ UpdateRun(target[c], copy[c].status, copy[c].reply)
    /\ UNCHANGED <<up, stored, sendVars, keeperVars, target, copy, busVars,
                   mapVars, sidecarVars, stops, histVars>>

\* The row read before the relay is written back as interrupted.
SaveCancelled(c) ==
    /\ call[c] = "save"
    /\ CallGoto(c, "done")
    /\ UpdateRun(target[c], "interrupted", copy[c].reply)
    /\ UNCHANGED <<up, stored, sendVars, keeperVars, target, copy, busVars,
                   mapVars, sidecarVars, stops, histVars>>

-----------------------------------------------------------------------------
(* The sidecar: its dispatcher and its run threads.                        *)

Active == {r \in Runs : thread[r] \in {"begin", "stream", "closing", "leaving"}}

ThreadGoto(r, pc) == thread' = [thread EXCEPT ![r] = pc]

\* ChatRuns.start: the thread runs before the dispatcher writes the ack.
DispatchStart(r) ==
    /\ r \in inbox
    /\ unacked = {}
    /\ inbox' = inbox \ {r}
    /\ unacked' = {r}
    /\ ThreadGoto(r, "begin")
    /\ UNCHANGED <<up, dbVars, sendVars, keeperVars, cancelVars, copy, busVars,
                   mapVars, cancelled, outcome, said, stops, histVars>>

WriteAck(r) ==
    /\ r \in unacked
    /\ unacked' = {}
    /\ Route(r, "started")
    /\ UNCHANGED <<up, dbVars, send, keeperVars, cancelVars, copy, inbox,
                   thread, cancelled, outcome, said, stops>>

\* ChatRuns.cancel: the flag is set and run.cancelled answered, or
\* run_not_found when the thread has left.
DispatchCancel(c) ==
    /\ c \in inbox
    /\ unacked = {}
    /\ inbox' = inbox \ {c}
    /\ \/ /\ target[c] \in Active
          /\ cancelled' = cancelled \cup {target[c]}
          /\ call' = [call EXCEPT ![c] = IF @ = "wait" THEN "save" ELSE @]
       \/ /\ target[c] \notin Active
          /\ call' = [call EXCEPT ![c] = IF @ = "wait" THEN "failed" ELSE @]
          /\ UNCHANGED cancelled
    /\ UNCHANGED <<up, dbVars, sendVars, keeperVars, target, copy, busVars,
                   mapVars, unacked, thread, outcome, said, stops, histVars>>

\* The first line of a thread is an activity.
EmitActivity(r) ==
    /\ thread[r] = "begin"
    /\ ThreadGoto(r, "stream")
    /\ Route(r, "activity")
    /\ UNCHANGED <<up, dbVars, send, keeperVars, cancelVars, copy, inbox,
                   unacked, cancelled, outcome, said, stops>>

\* A model event: the flag is looked at before the delta is written.
EmitText(r) ==
    /\ thread[r] = "stream"
    /\ r \notin cancelled
    /\ said[r] < MaxText
    /\ said' = [said EXCEPT ![r] = @ + 1]
    /\ Route(r, "text")
    /\ UNCHANGED <<up, dbVars, send, keeperVars, cancelVars, copy, inbox,
                   unacked, thread, cancelled, outcome, stops>>

\* The last look at the flag, after the stream or in the except branch of
\* _worker; an exception may come before the first line.
Conclude(r) ==
    /\ \/ /\ thread[r] = "stream"
          /\ outcome' = [outcome EXCEPT ![r] =
                IF r \in cancelled THEN "cancelled" ELSE "completed"]
       \/ /\ thread[r] \in {"begin", "stream"}
          /\ outcome' = [outcome EXCEPT ![r] =
                IF r \in cancelled THEN "cancelled" ELSE "model_error"]
    /\ ThreadGoto(r, "closing")
    /\ UNCHANGED <<up, dbVars, sendVars, keeperVars, cancelVars, copy, busVars,
                   mapVars, inbox, unacked, cancelled, said, stops, histVars>>

EmitEnd(r) ==
    /\ thread[r] = "closing"
    /\ ThreadGoto(r, "leaving")
    /\ Route(r, outcome[r])
    /\ UNCHANGED <<up, dbVars, send, keeperVars, cancelVars, copy, inbox,
                   unacked, cancelled, outcome, said, stops>>

\* finally: the run leaves the table of active runs.
LeaveRuns(r) ==
    /\ thread[r] = "leaving"
    /\ ThreadGoto(r, "gone")
    /\ UNCHANGED <<up, dbVars, sendVars, keeperVars, cancelVars, copy, busVars,
                   mapVars, inbox, unacked, cancelled, outcome, said, stops,
                   histVars>>

-----------------------------------------------------------------------------
(* Exits.                                                                  *)

SidecarGone ==
    /\ inbox' = {}
    /\ unacked' = {}
    /\ thread' = [r \in Runs |-> IF r \in Active THEN "gone" ELSE thread[r]]
    /\ UNCHANGED <<cancelled, outcome, said>>

\* The process dies or is shut down for idleness: requests in flight are
\* answered with an error, active streams get a synthetic run.failed.
SidecarExits(code) ==
    /\ stops < MaxStops
    /\ stops' = stops + 1
    /\ up
    /\ SidecarGone
    /\ answer' = [r \in Runs |-> IF r \in pending THEN "error" ELSE answer[r]]
    /\ pending' = {}
    /\ streams' = {}
    /\ call' = [c \in Cancels |-> IF call[c] = "wait" THEN "failed" ELSE call[c]]
    /\ \E es \in SyntheticEnds(code) : Broadcast(es)
    /\ UNCHANGED <<up, dbVars, send, keeperVars, target, copy>>

SidecarCrashes   == "exit" \in Faults /\ SidecarExits("sidecar_crashed")
SidecarShutDown  == "idle_stop" \in Faults /\ SidecarExits("sidecar_shutdown")

\* The host dies with every task, receiver and map it holds; the sidecar
\* goes with its stdin.
HostDies ==
    /\ "host" \in Faults
    /\ up
    /\ stops < MaxStops
    /\ stops' = stops + 1
    /\ up' = FALSE
    /\ SidecarGone
    /\ send' = [r \in Runs |-> IF send[r] = "idle" THEN "idle" ELSE "done"]
    /\ keeper' = [r \in Runs |-> "off"]
    /\ call' = [c \in Cancels |-> IF call[c] \in {"idle", "done"} THEN call[c]
                                                                 ELSE "failed"]
    /\ pending' = {}
    /\ streams' = {}
    /\ Receivers(Runs)
    /\ UNCHANGED <<dbVars, answer, heard, verdict, target, copy, histVars>>

\* Mutant: the rows are left as they were found.
HostStartsUnrecovered ==
    /\ ~up
    /\ up' = TRUE
    /\ UNCHANGED <<dbVars, sendVars, keeperVars, cancelVars, copy, busVars,
                   mapVars, sidecarVars, stops, histVars>>

\* interrupt_running_runs, before the server accepts work.
HostStarts ==
    /\ ~up
    /\ up' = TRUE
    /\ row' = [r \in Runs |-> IF row[r].status = "running"
                              THEN [row[r] EXCEPT !.status = "interrupted"]
                              ELSE row[r]]
    /\ UNCHANGED <<stored, sendVars, keeperVars, cancelVars, copy, busVars,
                   mapVars, sidecarVars, stops, histVars>>

-----------------------------------------------------------------------------
SendStep(r)   == \/ Subscribe(r) \/ StartRun(r) \/ StartAnswered(r)
                 \/ RejectMessage(r)
KeeperStep(r) == Listen(r) \/ LoadRun(r) \/ SaveMessage(r) \/ SaveRun(r)
ThreadStep(r) == \/ EmitActivity(r) \/ EmitText(r) \/ Conclude(r)
                 \/ EmitEnd(r) \/ LeaveRuns(r)
CancelStep(c) == AskCancel(c) \/ SaveCancelled(c)
Dispatch      == \/ \E r \in Runs : DispatchStart(r) \/ WriteAck(r)
                 \/ \E c \in Cancels : DispatchCancel(c)
Environment ==
    \/ \E r \in Runs : \/ InsertRun(r) \/ DropSend(r) \/ StartRefused(r)
                       \/ StartTimesOut(r) \/ DeleteConversation(r)
    \/ \E c \in Cancels : \/ GiveUpCancel(c)
                          \/ \E r \in Runs : LoadForCancel(c, r)
    \/ SidecarCrashes \/ SidecarShutDown \/ HostDies

Next == \/ \E r \in Runs : SendStep(r) \/ KeeperStep(r) \/ ThreadStep(r)
        \/ \E c \in Cancels : CancelStep(c)
        \/ Dispatch
        \/ HostStarts
        \/ Environment

Spec == Init /\ [][Next]_vars

\* Tasks are polled, threads run and a host that died is started again.
\* Nothing of the environment is promised, and the model answers in the end.
Fairness ==
    /\ \A r \in Runs : /\ WF_vars(SendStep(r))
                       /\ WF_vars(KeeperStep(r))
                       /\ WF_vars(ThreadStep(r))
    /\ \A c \in Cancels : WF_vars(CancelStep(c))
    /\ WF_vars(Dispatch)
    /\ WF_vars(HostStarts)

FairSpec == Spec /\ Fairness

-----------------------------------------------------------------------------
(* Properties.                                                             *)

\* A run's row never links an assistant message that is not in the database:
\* the message is inserted first and linked only if that worked, and a copy
\* of the row made earlier or by another handler never brings a link back
\* after the conversation was deleted.
LinkedReplyIsStored == \A r \in Runs : row[r].reply => stored[r] # << >>

\* A run is answered by at most one assistant message, however many terminal
\* events its stream gets: its own, and a synthetic one when a late line
\* reopened the stream before the sidecar went away.
OneReplyPerRun == \A r \in Runs : Len(stored[r]) <= 1

\* Rows and messages agree: one reply for a run, and the one its row links.
RepliesOK == TypeOK /\ LinkedReplyIsStored /\ OneReplyPerRun

\* A row says completed only if the run thread completed, and then the stored
\* reply holds every text delta, unless the receiver lagged or the insert
\* failed: the receiver is open before the run can say anything.
CompletedHasWholeReply ==
    \A r \in Runs : row[r].status = "completed" =>
        /\ outcome[r] = "completed"
        /\ r \in gaps \/ said[r] = 0
           \/ \E n \in DOMAIN stored[r] :
                  stored[r][n] = [text |-> said[r], status |-> "completed"]

\* No write of a stale copy reopens a run that has ended.
SettledForGood ==
    [][\A r \in Runs : row[r].status \in Terminal =>
                           row'[r].status \in Terminal \cup {"deleted"}]_vars

\* A run does not stay running for ever, whatever ends it: the model, the
\* user, a dead sidecar or a restart of the host.  `lost` names the ways the
\* code has of losing the terminal event: a dropped handler, a failed
\* database call, a lagging receiver, and a terminal line taken for the ack.
RunLeavesRunning ==
    \A r \in Runs : row[r].status = "running" ~>
                        (row[r].status # "running" \/ r \in lost)
=============================================================================
