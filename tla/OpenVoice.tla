----------------------------- MODULE OpenVoice -----------------------------
(***************************************************************************)
(* The bridge's second workload (workloads/openvoice.py) under the same    *)
(* manager: a worker process that speaks and clones voices.  Start, stop,  *)
(* state field and idle loop are those of Workloads, with these            *)
(* differences:                                                            *)
(*   - a start that never becomes ready leaves its worker running and the  *)
(*     state at "error", which only a stop request ends;                   *)
(*   - soft idle stops the worker, since its models cannot be unloaded;    *)
(*   - a job that finds the workload stopped when its turn has come starts *)
(*     it once more by itself;                                             *)
(*   - voices are registered without waiting for a start and without       *)
(*     calling the workload busy.                                          *)
(* The worker keeps its voices in memory and their embeddings in a         *)
(* directory it never reads back (the clips beside them are used once, and *)
(* left out).  A voice is named by the call that registers it, a worker by *)
(* the call that spawned it.                                               *)
(***************************************************************************)
EXTENDS Workloads

CONSTANT
    VoiceCalls  \* the jobs that register a voice; the others want speech

ASSUME VoiceCallsAssumption == VoiceCalls \subseteq Jobs

VARIABLES
    hosted,     \* which of the two workloads this behaviour is about
    asked,      \* registrations on their way to the worker
    voices,     \* each worker's registry
    embeddings  \* voices whose speaker embedding is on disk

voiceVars == <<hosted, asked, voices, embeddings>>
hostVars  == <<vars, voiceVars>>

HostInit ==
    /\ Init
    /\ hosted \in {"comfyui", "openvoice"}
    /\ asked = {}
    /\ voices = [w \in Jobs |-> {}]
    /\ embeddings = {}

-----------------------------------------------------------------------------
(* A call, up to its request to the worker.                                *)

StartsWorker(j) == state' = "starting" /\ Goto(j, "spawn") /\ UNCHANGED <<idle, asked>>

\* What a call does in state s, once it need not wait: the workload's own
\* check for a stopped worker, ensure_ready, and the request.
Admit(j, s) ==
    CASE s = "stopped"       -> StartsWorker(j)
      [] s = "error"         -> state' = s /\ Goto(j, "over") /\ UNCHANGED <<idle, asked>>
      [] j \in VoiceCalls    -> /\ state' = s
                                /\ Goto(j, "registering")
                                /\ idle' = "recent"
                                /\ asked' = asked \cup {j}
      [] OTHER               -> /\ state' = "busy"
                                /\ Goto(j, "running")
                                /\ idle' = "recent"
                                /\ UNCHANGED asked

CallUnchanged == UNCHANGED <<procVars, target, due, overlapped, hosted, voices, embeddings>>

\* Speech goes through the manager, which waits for a start under way.
SpeechRequest(j) ==
    /\ pc[j] = "new"
    /\ j \notin VoiceCalls
    /\ IF state = "starting"
       THEN Goto(j, "waiting") /\ UNCHANGED <<state, idle, asked>>
       ELSE Admit(j, state)
    /\ CallUnchanged

\* A registration goes straight to the workload.
VoiceRegistration(j) ==
    /\ pc[j] = "new"
    /\ j \in VoiceCalls
    /\ Admit(j, state)
    /\ CallUnchanged

SpeechWaitOver(j) ==
    /\ pc[j] = "waiting"
    /\ state # "starting"
    /\ Admit(j, state)
    /\ CallUnchanged

WorkerSpawned(j) == Spawned(j) /\ UNCHANGED voiceVars

WorkerSpawnFails(j) ==
    /\ pc[j] = "spawn"
    /\ Admit(j, "error")
    /\ CallUnchanged

\* Past start() and, for speech, past the workload's own check as well.
WorkerStartBreaksOff(j) == StartBreaksOff(j) /\ UNCHANGED voiceVars

WorkerReady(j) ==
    /\ pc[j] = "polling"
    /\ alive # {}
    /\ Admit(j, "ready")
    /\ CallUnchanged

\* Nothing cleans up: the worker runs on, unknown to the state field.
WorkerNeverReady(j) ==
    /\ pc[j] = "polling"
    /\ Admit(j, "error")
    /\ CallUnchanged

\* The job posts JSON where the worker declares form fields: it is refused,
\* or the worker is not reached.  Either way the workload is called ready.
SpeechEnds(j) == JobEnds(j) /\ UNCHANGED voiceVars

-----------------------------------------------------------------------------
(* The worker, which handles one request at a time.                        *)

Answered(j) == pc' = [pc EXCEPT ![j] = IF @ = "registering" THEN "over" ELSE @]

WorkerUnchanged == UNCHANGED <<state, procVars, target, timeVars, overlapped, hosted>>

\* Mutant: the voice enters the registry before its embedding is extracted.
RegistersFirst(w, j) ==
    /\ w \in alive
    /\ j \in asked
    /\ asked' = asked \ {j}
    /\ \/ UNCHANGED <<voices, embeddings>>
       \/ /\ voices' = [voices EXCEPT ![w] = @ \cup {j}]
          /\ embeddings' \in {embeddings, embeddings \cup {j}}
    /\ Answered(j)
    /\ WorkerUnchanged

\* The models are missing, the clip is empty or no embedding can be extracted
\* from it; or the voice is registered.
Registers(w, j) ==
    /\ w \in alive
    /\ j \in asked
    /\ asked' = asked \ {j}
    /\ \/ UNCHANGED <<voices, embeddings>>
       \/ /\ embeddings' = embeddings \cup {j}
          /\ voices' = [voices EXCEPT ![w] = @ \cup {j}]
    /\ Answered(j)
    /\ WorkerUnchanged

\* After 60 seconds without an answer, or without a connection.
GivesUp(j) ==
    /\ pc[j] = "registering"
    /\ Goto(j, "over")
    /\ asked' \in IF alive = {} THEN {asked \ {j}} ELSE {asked, asked \ {j}}
    /\ WorkerUnchanged
    /\ UNCHANGED <<voices, embeddings>>

\* The entry is popped first; its file may resist.
DeletesVoice(w, v) ==
    /\ w \in alive
    /\ v \in voices[w]
    /\ voices' = [voices EXCEPT ![w] = @ \ {v}]
    /\ embeddings' \in {embeddings, embeddings \ {v}}
    /\ WorkerUnchanged
    /\ UNCHANGED <<pc, asked>>

\* The registry is gone with the worker, and so are the requests it had.  One
\* of them may have got as far as its embedding.
LosesVoices(w) ==
    /\ voices' = [voices EXCEPT ![w] = {}]
    /\ asked' = IF alive' = {} THEN {} ELSE asked
    /\ embeddings' \in {embeddings} \cup {embeddings \cup {j} : j \in asked}
    /\ UNCHANGED hosted

WorkerExits(w)   == ProcessExits(w) /\ LosesVoices(w)
WorkerCrashes(w) == ProcessCrashes(w) /\ LosesVoices(w)

-----------------------------------------------------------------------------
(* The idle loop.  A request lasts less than the soft limit, so the clock   *)
(* cannot reach it while one is under way.                                 *)

VoiceTimePasses ==
    /\ \A j \in Jobs : pc[j] \notin {"running", "registering"}
    /\ TimePasses
    /\ UNCHANGED voiceVars

\* Soft or hard, the worker is stopped; soft idle then counts as a use.
VoiceIdleCheck ==
    /\ pc[IdleLoop] = "sleep"
    /\ due
    /\ due' = FALSE
    /\ IF state \notin {"ready", "busy"} \/ idle = "recent"
       THEN UNCHANGED <<state, procVars, pc, target, idle, overlapped>>
       ELSE BeginStop(IdleLoop) /\ idle' = IF idle = "soft" THEN "recent" ELSE idle
    /\ UNCHANGED voiceVars

-----------------------------------------------------------------------------
(* Either workload.                                                        *)

Comfy(A) == hosted = "comfyui" /\ A /\ UNCHANGED voiceVars
Voice(A) == hosted = "openvoice" /\ A

CallGoesOn(j) ==
    \/ Comfy(Job(j))
    \/ Voice(\/ SpeechWaitOver(j) \/ WorkerSpawned(j) \/ WorkerSpawnFails(j)
             \/ WorkerStartBreaksOff(j) \/ WorkerReady(j) \/ WorkerNeverReady(j) \/ SpeechEnds(j) \/ GivesUp(j))

ImageRequest(j) == Comfy(Request(j))
StopWorkload(s) == StopRequest(s) /\ UNCHANGED voiceVars

GpuProcessExits(p) == Comfy(ProcessExits(p)) \/ Voice(WorkerExits(p))
TimeGoesOn         == Comfy(TimePasses) \/ Voice(VoiceTimePasses)
IdleLoopGoesOn     == Comfy(IdleCheck) \/ Comfy(Freed) \/ Voice(VoiceIdleCheck)
StopGoesOn(t)      == KillAfterTimeout(t) /\ UNCHANGED voiceVars

HostNext ==
    \/ \E j \in Jobs :
          \/ ImageRequest(j) \/ Voice(SpeechRequest(j)) \/ Voice(VoiceRegistration(j))
          \/ CallGoesOn(j)
          \/ GpuProcessExits(j)
          \/ Comfy(ProcessCrashes(j)) \/ Voice(WorkerCrashes(j))
    \/ \E w, j \in Jobs : Registers(w, j) \/ DeletesVoice(w, j)
    \/ \E s \in Stops : StopWorkload(s)
    \/ \E t \in Tasks : StopGoesOn(t)
    \/ TimeGoesOn
    \/ IdleLoopGoesOn

\* The loop runs every task on, spawns, polls and requests are bounded by
\* timeouts, a terminated process exits, and time passes.
HostSpec ==
    /\ HostInit
    /\ [][HostNext]_hostVars
    /\ \A j \in Jobs : WF_hostVars(CallGoesOn(j)) /\ WF_hostVars(GpuProcessExits(j))
    /\ \A t \in Tasks : WF_hostVars(StopGoesOn(t))
    /\ WF_hostVars(TimeGoesOn)
    /\ WF_hostVars(IdleLoopGoesOn)

-----------------------------------------------------------------------------
(* Properties.                                                             *)

\* A voice that is listed is listed by a living worker and has its speaker
\* embedding on disk, whatever registrations failed half-way, were given up by
\* their caller or were cut off by a crash (worker, register_voice).  It says
\* nothing of voices that are listed no more: a stop, soft idle included, ends
\* the worker and with it the only list.
VoicesHaveFiles ==
    \A w \in Jobs : voices[w] # {} => w \in alive /\ voices[w] \subseteq embeddings
=============================================================================
