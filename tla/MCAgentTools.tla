---------------------------- MODULE MCAgentTools ----------------------------
(* The tools of the agent, the stream of a run, the workers of one batch   *)
(* and the role calls, which share no state in the models: a behaviour     *)
(* explores one of these parts, and the others stay as they are.           *)
EXTENDS TLC, TodoPlans, GoalContracts, Memories, Knowledge, Artifacts, Listings, WorkFiles,
        SkillStore, GitTools, ToolProcesses, RunStream, MaxWorkers, Roles

CONSTANTS caller1, caller2, name1, name2, data1, data2, trash1, trash2, branch1, branch2,
          run1, run2, call1

VARIABLE part

storeVars == <<planVars, goalVars, memoryVars, knowledgeVars, artifactVars, listingVars>>
diskVars  == <<fileVars, skillVars, gitVars, processVars>>
modelVars == <<streamVars, batchVars, roleVars>>

Parts == {"plans", "goals", "memories", "knowledge", "artifacts", "listings", "files",
          "skills", "git", "processes", "stream", "workers", "roles"}

\* The batch is over, unless it is the part that is explored.
NoBatch ==
    /\ gated = {} /\ reasked = {} /\ onUi = {}
    /\ pace = [w \in Subproblems |-> "complete"]
    /\ doing = [w \in Subproblems |-> "nothing"]
    /\ toolCalls = [w \in Subproblems |-> 0]
    /\ told = [w \in Subproblems |-> "none"]
    /\ cancelEvent = FALSE /\ nowEvent = FALSE /\ denying = FALSE

\* Where a part may begin in several states, the other parts see one of them, and of
\* states that differ in the names of files, contents or runs it begins in one.
AgentToolsInit ==
    /\ part \in Parts
    /\ TodoInit /\ GoalInit /\ MemoryInit /\ KnowledgeInit /\ ArtifactsInit
    /\ part # "listings" => table = "trash" /\ rows = [k \in ListKeys |-> Absent]
    /\ ListingsInit
    /\ FilesInit
    /\ (file # [n \in FileNames |-> Absent]) => (part = "files" /\ file[name1] = data1)
    /\ SkillsInit /\ GitInit
    /\ part # "processes" => windows = FALSE
    /\ ProcessInit
    /\ part # "stream" => \E o \in Modes : o.known /\ mode = [r \in StreamRuns |-> o]
    /\ StreamInit
    /\ mode[run2].known => mode[run1].known
    /\ IF part = "workers" THEN BatchInit ELSE NoBatch
    /\ part # "roles" => specialists = 0 /\ accumulates = FALSE
    /\ RolesInit

\* The callers differ in nothing, so the second begins only while the first has begun.
InTurn(call) == call[caller2] = Idle /\ call'[caller2] # Idle => call[caller1] # Idle

\* Of plans, those created empty, with one step, or with all steps, each after the one
\* before it; every other graph comes from revisions.
PlansExplored ==
    plan = Absent => \E n \in {0, 1, Cardinality(Steps)} : \A s \in Steps :
        /\ (step'[s] = Absent) = (s > n)
        /\ needs'[s] = {s - 1} \cap 1 .. (n - 1)

StoreMoves ==
    \/ /\ part = "plans" /\ TodoNext /\ PlansExplored /\ InTurn(planCall)
       /\ UNCHANGED <<goalVars, memoryVars, knowledgeVars, artifactVars, listingVars>>
    \/ /\ part = "goals" /\ GoalNext
       /\ UNCHANGED <<planVars, memoryVars, knowledgeVars, artifactVars, listingVars>>
    \/ /\ part = "memories" /\ MemoryNext /\ InTurn(memoryCall)
       /\ UNCHANGED <<planVars, goalVars, knowledgeVars, artifactVars, listingVars>>
    \/ /\ part = "knowledge" /\ KnowledgeNext
       /\ UNCHANGED <<planVars, goalVars, memoryVars, artifactVars, listingVars>>
    \/ /\ part = "artifacts" /\ ArtifactsNext
       /\ UNCHANGED <<planVars, goalVars, memoryVars, knowledgeVars, listingVars>>
    \/ /\ part = "listings" /\ ListingsNext
       /\ UNCHANGED <<planVars, goalVars, memoryVars, knowledgeVars, artifactVars>>

DiskMoves ==
    \/ part = "files" /\ FilesNext /\ UNCHANGED <<skillVars, gitVars, processVars>>
    \/ part = "skills" /\ SkillsNext /\ UNCHANGED <<fileVars, gitVars, processVars>>
    \/ part = "git" /\ GitNext /\ UNCHANGED <<fileVars, skillVars, processVars>>
    \/ part = "processes" /\ ProcessNext /\ UNCHANGED <<fileVars, skillVars, gitVars>>

\* One of the streams is long enough for a tool call with its prompt, its result and
\* text behind it, the other one for what it does with the cache.
StreamExplored == sequence'[run2] <= 2

ModelMoves ==
    \/ part = "stream" /\ StreamNext /\ StreamExplored /\ UNCHANGED <<batchVars, roleVars>>
    \/ part = "workers" /\ BatchNext /\ UNCHANGED <<streamVars, roleVars>>
    \/ part = "roles" /\ RolesNext /\ UNCHANGED <<streamVars, batchVars>>

AgentToolsNext ==
    /\ \/ StoreMoves /\ UNCHANGED <<diskVars, modelVars>>
       \/ DiskMoves /\ UNCHANGED <<storeVars, modelVars>>
       \/ ModelMoves /\ UNCHANGED <<storeVars, diskVars>>
    /\ UNCHANGED part

AgentToolsSpec ==
    /\ AgentToolsInit
    /\ [][AgentToolsNext]_<<part, storeVars, diskVars, modelVars>>
    /\ BatchFairness

-----------------------------------------------------------------------------
(* Values for the constants                                                *)

MCDeps == {{}, {1}, {2, Unknown}}
MCRank == ("conversation" :> 1) @@ ("user" :> 4)
MCScopes == [conversation |-> 0, global |-> 2]
MCOrder == <<"user", "global">>
MCModes == {[thinking |-> "off", override |-> Absent, known |-> TRUE],
            [thinking |-> "high", override |-> "own", known |-> FALSE]}
=============================================================================
