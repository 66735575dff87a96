------------------------------ MODULE RunStream ------------------------------
(***************************************************************************)
(* One chat run inside the sidecar (chat.py, ChatRuns._stream): the loop   *)
(* over the agent's events, the ladder of request parameters it climbs     *)
(* down when the endpoint rejects them (thinking.py), the cache of         *)
(* endpoints that rejected them, and the events it puts on the wire.       *)
(*                                                                         *)
(* A run is a thread with an event loop; between two awaits nothing of the *)
(* same run interferes, so one event of the agent is one step.  Whether    *)
(* the tools of a message, with their approval prompts, run one after the  *)
(* other is up to the agent library; the model lets them overlap.  Runs    *)
(* share the cache, in memory under a lock and in a file.                  *)
(*                                                                         *)
(* The model, the tools and the user are external.  Left out: max mode     *)
(* (see Orchestration), what events say, usage, MCP clients, how a         *)
(* decision reaches ask_ui (see Approvals); all runs use one endpoint.     *)
(* Bounds: Calls, MaxWire.                                                 *)
(***************************************************************************)
EXTENDS Naturals, Sequences, FiniteSets, ToolCalls

CONSTANTS
    StreamRuns,
    Modes,              \* of runs: [thinking : {"off", "high"}, override, known : BOOLEAN]
    Calls,              \* toolUseIds of a run
    MaxWire             \* bound: events of a run on the wire

ASSUME StreamAssumption == IsFiniteSet(Calls) /\ Absent \notin Calls /\ MaxWire \in Nat

VARIABLES
    mode,               \* thinking_mode and the override of the endpoint for each run
    runAt,              \* where _stream() of each run is
    ladder, attempt,    \* the parameter sets to try, and the index of the current one
    emittedAny,         \* emitted_any: this attempt has put something on the wire
    sequence,           \* the next sequence number
    wire,               \* run events in the order in which they were written
    openCalls,          \* pending_tools: calls on the wire without a result
    prompts,            \* calls whose ask_ui() waits for the user
    stop,               \* ActiveRun.cancelled
    rejected,           \* the endpoint is in the cache in memory
    onDisk,             \* ... and in thinking-params-cache.json
    fell,               \* history: a run of this sidecar went on without parameters
    learned             \* history: the runs that began after that

streamVars == <<mode, runAt, ladder, attempt, emittedAny, sequence, wire, openCalls, prompts,
                stop, rejected, onDisk, fell, learned>>
runVars == <<mode, runAt, ladder, attempt, emittedAny, sequence, wire, openCalls, prompts>>

Activity == <<"activity", Absent>>
Text == <<"text", Absent>>

Plain == "none"             \* a request without thinking parameters
Minimum == "minimal"        \* THINKING_OFF_FALLBACK

\* resolve_thinking_params(): override, then the cache, then a known profile
ThinkingParams(r) ==
    IF mode[r].override # Absent THEN mode[r].override
    ELSE IF rejected \/ ~mode[r].known THEN Plain
    ELSE "profile"

\* thinking_attempt_ladder()
Ladder(r) ==
    LET params == ThinkingParams(r)
    IN  IF params = Plain THEN <<Plain>>
        ELSE IF mode[r].thinking = "off" /\ params # Minimum THEN <<params, Minimum, Plain>>
        ELSE <<params, Plain>>

StreamInit ==
    /\ mode \in [StreamRuns -> Modes]
    /\ runAt = [r \in StreamRuns |-> "new"]
    /\ ladder = [r \in StreamRuns |-> <<Plain>>]
    /\ attempt = [r \in StreamRuns |-> 1]
    /\ emittedAny = [r \in StreamRuns |-> FALSE]
    /\ sequence = [r \in StreamRuns |-> 0]
    /\ wire = [r \in StreamRuns |-> <<>>]
    /\ openCalls = [r \in StreamRuns |-> {}]
    /\ prompts = [r \in StreamRuns |-> {}]
    /\ stop = [r \in StreamRuns |-> FALSE]
    /\ rejected = FALSE
    /\ onDisk = FALSE
    /\ fell = FALSE
    /\ learned = {}

\* events of run r with the numbers n, n + 1, ...
Numbered(r, kinds, n) ==
    [i \in DOMAIN kinds |-> [kind |-> kinds[i], at |-> n + i - 1, try |-> attempt[r]]]
Emit(r, kinds) ==
    /\ Len(wire[r]) + Len(kinds) <= MaxWire
    /\ wire' = [wire EXCEPT ![r] = @ \o Numbered(r, kinds, sequence[r])]
    /\ sequence' = [sequence EXCEPT ![r] = @ + Len(kinds)]

\* the run begins: it looks into the cache
StartStream(r) ==
    /\ runAt[r] = "new"
    /\ ladder' = [ladder EXCEPT ![r] = Ladder(r)]
    /\ learned' = IF fell THEN learned \cup {r} ELSE learned
    /\ Emit(r, <<Activity>>)
    /\ runAt' = [runAt EXCEPT ![r] = "build"]
    /\ UNCHANGED <<mode, attempt, emittedAny, openCalls, prompts, stop, rejected, onDisk, fell>>

\* a model and an agent with the parameters of the attempt
BuildAgent(r) ==
    /\ runAt[r] = "build"
    /\ emittedAny' = [emittedAny EXCEPT ![r] = FALSE]
    /\ runAt' = [runAt EXCEPT ![r] = "stream"]
    /\ UNCHANGED <<mode, ladder, attempt, sequence, wire, openCalls, prompts, stop,
                   rejected, onDisk, fell, learned>>

\* Mutant: only a text counts as something that cannot be taken back.
EventUnnoticed(r, kinds) ==
    /\ runAt[r] = "stream"
    /\ ~stop[r]
    /\ Emit(r, kinds)
    /\ emittedAny' = [emittedAny EXCEPT ![r] = @ \/ kinds = <<Text>>]
    /\ UNCHANGED <<mode, runAt, ladder, attempt, stop, rejected, onDisk, fell, learned>>

\* the next event of the agent, unless the run was cancelled
Event(r, kinds) ==
    /\ runAt[r] = "stream"
    /\ ~stop[r]
    /\ Emit(r, kinds)
    /\ emittedAny' = [emittedAny EXCEPT ![r] = TRUE]
    /\ UNCHANGED <<mode, runAt, ladder, attempt, stop, rejected, onDisk, fell, learned>>

TextEvent(r) == prompts[r] = {} /\ Event(r, <<Text>>) /\ UNCHANGED <<openCalls, prompts>>

\* _emit_tool_events(): the call is announced with the first fragment of its input;
\* every fragment is an activity.
Said(r, kind) == \E i \in DOMAIN wire[r] : wire[r][i].kind = kind
ToolUseEvent(r) ==
    /\ prompts[r] = {}
    /\ \E k \in Calls :
        /\ Said(r, <<"call", k>>) => k \in openCalls[r]
        /\ Event(r, IF Said(r, <<"call", k>>) THEN <<Activity>> ELSE <<<<"call", k>>, Activity>>)
        /\ openCalls' = [openCalls EXCEPT ![r] = @ \cup {k}]
        /\ UNCHANGED prompts

\* one message with the results of all the calls of a message of the model
ToolResultEvent(r) ==
    /\ openCalls[r] # {} /\ prompts[r] = {}
    /\ \E order \in [1 .. Cardinality(openCalls[r]) -> openCalls[r]] :
        /\ \A k \in openCalls[r] : \E i \in DOMAIN order : order[i] = k
        /\ Event(r, [i \in DOMAIN order |-> <<"result", order[i]>>])
    /\ openCalls' = [openCalls EXCEPT ![r] = {}]
    /\ UNCHANGED prompts

\* ask_ui() of a call that needs approval, and the decision, also that of a cancel
AskUi(r) ==
    /\ runAt[r] = "stream"
    /\ \E k \in openCalls[r] :
        /\ ~Said(r, <<"ask", k>>)
        /\ Emit(r, <<<<"ask", k>>>>)
        /\ prompts' = [prompts EXCEPT ![r] = @ \cup {k}]
    /\ UNCHANGED <<mode, runAt, ladder, attempt, emittedAny, openCalls, stop, rejected, onDisk,
                   fell, learned>>
Decided(r) ==
    /\ runAt[r] = "stream"
    /\ \E k \in prompts[r] :
        /\ Emit(r, <<<<"decided", k>>>>)
        /\ prompts' = [prompts EXCEPT ![r] = @ \ {k}]
    /\ UNCHANGED <<mode, runAt, ladder, attempt, emittedAny, openCalls, stop, rejected, onDisk,
                   fell, learned>>

\* mark_unsupported(): the file is written if it can be
MarkUnsupported ==
    /\ rejected' = TRUE
    /\ onDisk' \in IF rejected THEN {onDisk} ELSE {FALSE, TRUE}

\* next_thinking_attempt(): an error of class 400 that names a parameter of this
\* attempt leads to the next one; before the last, plain one the endpoint is marked.
\* What has reached the wire cannot be taken back: then the run fails all the same.
ParametersRejected(r) ==
    LET next == attempt[r] + 1
    IN  /\ runAt[r] = "stream"
        /\ ladder[r][attempt[r]] # Plain
        /\ IF ladder[r][next] = Plain THEN MarkUnsupported ELSE UNCHANGED <<rejected, onDisk>>
        /\ IF emittedAny[r]
           THEN /\ runAt' = [runAt EXCEPT ![r] = "raised"]
                /\ UNCHANGED <<attempt, sequence, wire, fell>>
           ELSE /\ attempt' = [attempt EXCEPT ![r] = next]
                /\ fell' = (fell \/ ladder[r][next] = Plain)
                /\ Emit(r, <<Activity>>)
                /\ runAt' = [runAt EXCEPT ![r] = "build"]
        /\ UNCHANGED <<mode, ladder, emittedAny, openCalls, prompts, stop, learned>>

\* any other error
StreamRaises(r) ==
    /\ runAt[r] \in {"new", "build", "stream"}
    /\ runAt' = [runAt EXCEPT ![r] = "raised"]
    /\ UNCHANGED <<mode, ladder, attempt, emittedAny, sequence, wire, openCalls, prompts, stop,
                   rejected, onDisk, fell, learned>>

\* the agent is done, or its next event finds the run cancelled
StreamStops(r) ==
    /\ runAt[r] = "stream"
    /\ stop[r] \/ openCalls[r] = {}
    /\ runAt' = [runAt EXCEPT ![r] = "done"]
    /\ UNCHANGED <<mode, ladder, attempt, emittedAny, sequence, wire, openCalls, prompts, stop,
                   rejected, onDisk, fell, learned>>

\* the last event of the run; that of _worker() has no number
EndStream(r) ==
    /\ runAt[r] = "done"
    /\ wire' = [wire EXCEPT ![r] = @ \o Numbered(r,
           <<<<IF stop[r] THEN "cancelled" ELSE "completed", Absent>>>>, sequence[r])]
    /\ runAt' = [runAt EXCEPT ![r] = "over"]
    /\ UNCHANGED <<mode, ladder, attempt, emittedAny, sequence, openCalls, prompts, stop,
                   rejected, onDisk, fell, learned>>
FailStream(r) ==
    /\ runAt[r] = "raised"
    /\ wire' = [wire EXCEPT ![r] = Append(@,
           [kind |-> <<IF stop[r] THEN "cancelled" ELSE "failed", Absent>>,
            at |-> Absent, try |-> attempt[r]])]
    /\ runAt' = [runAt EXCEPT ![r] = "over"]
    /\ UNCHANGED <<mode, ladder, attempt, emittedAny, sequence, openCalls, prompts, stop,
                   rejected, onDisk, fell, learned>>

\* cancel() by the dispatcher
CancelStream(r) ==
    /\ runAt[r] # "over" /\ ~stop[r]
    /\ stop' = [stop EXCEPT ![r] = TRUE]
    /\ UNCHANGED <<runVars, rejected, onDisk, fell, learned>>

\* the sidecar dies; the next one reads the file
CacheReloads ==
    /\ rejected' = onDisk
    /\ fell' = (fell /\ onDisk)
    /\ runAt' = [r \in StreamRuns |-> IF runAt[r] = "new" THEN "new" ELSE "over"]
    /\ UNCHANGED <<mode, ladder, attempt, emittedAny, sequence, wire, openCalls, prompts, stop,
                   onDisk, learned>>

StreamNext ==
    \/ CacheReloads
    \/ \E r \in StreamRuns :
        \/ StartStream(r) \/ BuildAgent(r)
        \/ TextEvent(r) \/ ToolUseEvent(r) \/ ToolResultEvent(r)
        \/ AskUi(r) \/ Decided(r)
        \/ ParametersRejected(r) \/ StreamRaises(r) \/ StreamStops(r)
        \/ EndStream(r) \/ FailStream(r)
        \/ CancelStream(r)

StreamSpec == StreamInit /\ [][StreamNext]_streamVars

------------------------------------------------------------------------------
\* Properties

StreamTypeOK ==
    /\ mode \in [StreamRuns -> Modes]
    /\ runAt \in [StreamRuns -> {"new", "build", "stream", "done", "raised", "over"}]
    /\ \A r \in StreamRuns : ladder[r] # <<>> /\ attempt[r] \in DOMAIN ladder[r]
    /\ sequence \in [StreamRuns -> 0 .. MaxWire]
    /\ \A r \in StreamRuns : prompts[r] \subseteq openCalls[r] /\ openCalls[r] \subseteq Calls

\* What a reader sees of a run was said by one attempt: the ladder never goes on after
\* text, a call or a result is on the wire (chat.py: a partial answer is not replayable).
AnswerIsOneAttempt ==
    \A r \in StreamRuns : \A i, j \in DOMAIN wire[r] :
        wire[r][i].kind # Activity /\ wire[r][j].kind # Activity
            => wire[r][i].try = wire[r][j].try

\* The event loop and the prompts of the tools number the events of a run with one
\* counter; the numbers have no gap and no double, a result follows its one call, and
\* nothing follows the last event.
WireIsOrdered ==
    \A r \in StreamRuns : \A i \in DOMAIN wire[r] :
        LET event == wire[r][i]
        IN  /\ event.at \in {i - 1, Absent}
            /\ event.kind[1] \in {"completed", "failed", "cancelled"} => i = Len(wire[r])
            /\ event.kind[1] = "result" =>
                   Cardinality({j \in 1 .. i : /\ wire[r][j].kind[2] = event.kind[2]
                                               /\ wire[r][j].kind[1] \in {"call", "result"}}) = 2

\* "Endpoints that reject the params are learned once [...] and never sent thinking
\* params again" (thinking.py:6-8): a run that begins after another one of this sidecar
\* had to go on without parameters sends none, unless the user's own override says so.
LearnedOnce ==
    \A r \in learned : mode[r].override = Absent => ladder[r] = <<Plain>>

\* The stream of a run is one attempt, in order, with what was learned from the others.
StreamOK == StreamTypeOK /\ AnswerIsOneAttempt /\ WireIsOrdered /\ LearnedOnce
=============================================================================
