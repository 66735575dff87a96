------------------------------ MODULE SkillStore ------------------------------
(***************************************************************************)
(* The skills of the agent (src/tools/skills/tool.py): a folder of files   *)
(* per skill is the truth, and the database mirrors it (table skills) and  *)
(* keeps what was enabled (table skill_settings).                          *)
(*                                                                         *)
(* A call looks at the folder, then copies or removes it file by file,     *)
(* then commits its rows; it may overlap with another call and may fail or *)
(* die at each step.  A folder without a readable skill.json is no skill.  *)
(*                                                                         *)
(* Left out: what a manifest says (but for built-in skills and             *)
(* default_enabled), the search, the dependencies, the scope_id.           *)
(* Bound: MaxSkillCalls.                                                   *)
(***************************************************************************)
EXTENDS Naturals, FiniteSets, ToolCalls

CONSTANTS
    Skills,
    BuiltIn,            \* the skills of publisher "Native GPT"
    DefaultEnabled,     \* the skills whose manifest says default_enabled
    ScopeOrder,         \* SCOPE_PRECEDENCE, the strongest first
    MaxSkillCalls       \* bound: calls that may begin

VARIABLES
    folder,             \* "none", "partial" or "whole"
    readable,           \* whether the folder holds its skill.json
    registry,           \* ids with a row in skills
    setting,            \* per skill: the scopes with a row in skill_settings -> enabled
    skillCall,          \* what each caller has checked and is doing, or Idle
    skillCalls,         \* number of calls that have begun
    troubled            \* history: skills for which calls overlapped or one failed midway

skillVars == <<folder, readable, registry, setting, skillCall, skillCalls, troubled>>

\* calls that copy or remove a folder step by step
FolderSteps == {"checked", "copying", "copied", "removing", "removed"}
FolderCalls == [op : {"install", "uninstall"}, on : SUBSET Skills, step : FolderSteps]

ASSUME SkillAssumption == BuiltIn \subseteq Skills /\ Idle \notin FolderCalls

SkillScopes == {ScopeOrder[i] : i \in DOMAIN ScopeOrder}
NoSettings == [g \in {} |-> TRUE]

SkillsInit ==
    /\ folder = [s \in Skills |-> IF s \in BuiltIn THEN "whole" ELSE "none"]
    /\ readable = BuiltIn
    /\ registry = {}
    /\ setting = [s \in Skills |-> NoSettings]
    /\ skillCall = [c \in Callers |-> Idle]
    /\ skillCalls = 0
    /\ troubled = {}

\* _find_skill() finds it, _discover() lists it
Found(s) == folder[s] # "none" /\ s \in readable

BusyWith(s) == {c \in Callers : skillCall[c] # Idle /\ s \in skillCall[c].on}

BeginSkillCall(c, call) ==
    /\ skillCall[c] = Idle
    /\ skillCalls < MaxSkillCalls
    /\ skillCalls' = skillCalls + 1
    /\ skillCall' = [skillCall EXCEPT ![c] = call]
    /\ troubled' = troubled \cup {s \in call.on : BusyWith(s) # {}}
    /\ UNCHANGED <<folder, readable, registry, setting>>

\* install(): the source is valid and the target is not there
BeginInstall(c) ==
    \E s \in Skills \ BuiltIn :
        /\ folder[s] = "none"
        /\ BeginSkillCall(c, [op |-> "install", on |-> {s}, step |-> "checked"])

\* copytree() makes the folder, which must not exist, and copies the files in the
\* order of the directory; what another call removes it does not copy again.
MakeFolder(c) ==
    \E s \in skillCall[c].on :
        /\ skillCall[c].step = "checked"
        /\ folder[s] = "none"
        /\ folder' = [folder EXCEPT ![s] = "partial"]
        /\ readable' \in {readable, readable \cup {s}}
        /\ skillCall' = [skillCall EXCEPT ![c].step = "copying"]
        /\ UNCHANGED <<registry, setting, skillCalls, troubled>>
CopyRest(c) ==
    \E s \in skillCall[c].on :
        /\ skillCall[c].step = "copying"
        /\ folder[s] = "partial"
        /\ folder' = [folder EXCEPT ![s] = "whole"]
        /\ readable' = readable \cup {s}
        /\ skillCall' = [skillCall EXCEPT ![c].step = "copied"]
        /\ UNCHANGED <<registry, setting, skillCalls, troubled>>

\* uninstall(): not of a built-in skill
BeginUninstall(c) ==
    \E s \in Skills \ BuiltIn :
        /\ Found(s)
        /\ BeginSkillCall(c, [op |-> "uninstall", on |-> {s}, step |-> "checked"])

\* rmtree() removes the files one by one
RemoveSome(c) ==
    \E s \in skillCall[c].on :
        /\ skillCall[c].step = "checked"
        /\ folder[s] # "none"
        /\ folder' = [folder EXCEPT ![s] = "partial"]
        /\ readable' \in {readable, readable \ {s}}
        /\ skillCall' = [skillCall EXCEPT ![c].step = "removing"]
        /\ UNCHANGED <<registry, setting, skillCalls, troubled>>
RemoveRest(c) ==
    \E s \in skillCall[c].on :
        /\ skillCall[c].step = "removing"
        /\ folder' = [folder EXCEPT ![s] = "none"]
        /\ readable' = readable \ {s}
        /\ skillCall' = [skillCall EXCEPT ![c].step = "removed"]
        /\ UNCHANGED <<registry, setting, skillCalls, troubled>>

\* set_enabled() of a skill that is there
BeginSetEnabled(c) ==
    \E s \in Skills, g \in SkillScopes, on \in BOOLEAN :
        /\ Found(s)
        /\ BeginSkillCall(c, [op |-> "set", on |-> {s}, step |-> "found",
                              scope |-> g, enabled |-> on])

\* list_skills(): the rows of what _discover() finds
BeginList(c) ==
    BeginSkillCall(c, [op |-> "list", on |-> {s \in Skills : Found(s)}, step |-> "found"])

------------------------------------------------------------------------------
(* The rows of a call, in one transaction                                  *)

\* _sync_registry(): inserts and updates, never deletes
SyncRegistry(c) == /\ registry' = registry \cup skillCall[c].on
                   /\ UNCHANGED setting

\* Mutant: the settings of an uninstalled skill stay.
DeleteRegistryRow(c) == /\ registry' = registry \ skillCall[c].on
                        /\ UNCHANGED setting

DeleteRows(c) == /\ registry' = registry \ skillCall[c].on
                 /\ setting' = [s \in Skills |-> IF s \in skillCall[c].on THEN NoSettings
                                                 ELSE setting[s]]
UpsertSetting(c) ==
    /\ setting' = [s \in Skills |->
           IF s \notin skillCall[c].on THEN setting[s]
           ELSE [g \in DOMAIN setting[s] \cup {skillCall[c].scope} |->
                    IF g = skillCall[c].scope THEN skillCall[c].enabled ELSE setting[s][g]]]
    /\ UNCHANGED registry

CommitSkillCall(c) ==
    /\ skillCall[c] # Idle
    /\ \/ skillCall[c].step = "copied" /\ SyncRegistry(c)
       \/ skillCall[c].op = "list" /\ SyncRegistry(c)
       \/ skillCall[c].step = "removed" /\ DeleteRows(c)
       \/ skillCall[c].op = "set" /\ UpsertSetting(c)
    /\ skillCall' = [skillCall EXCEPT ![c] = Idle]
    /\ UNCHANGED <<folder, readable, skillCalls, troubled>>

\* an error, or the process died
SkillCallEnds(c) ==
    /\ skillCall[c] # Idle
    /\ troubled' = IF skillCall[c].step \in {"checked", "found"} THEN troubled
                   ELSE troubled \cup skillCall[c].on
    /\ skillCall' = [skillCall EXCEPT ![c] = Idle]
    /\ UNCHANGED <<folder, readable, registry, setting, skillCalls>>

\* the folder is there, but neither install() nor uninstall() accepts it
Stuck(s) == folder[s] # "none" /\ ~Found(s)

\* _effective_enabled(): the strongest scope with a row, else the manifest
Enabled(s) ==
    LET ranked == {i \in DOMAIN ScopeOrder : ScopeOrder[i] \in DOMAIN setting[s]}
    IN  IF ranked = {} THEN s \in DefaultEnabled
        ELSE setting[s][ScopeOrder[CHOOSE i \in ranked : \A j \in ranked : i <= j]]

SkillsNext ==
    \E c \in Callers :
        \/ BeginInstall(c)
        \/ BeginUninstall(c)
        \/ BeginSetEnabled(c)
        \/ BeginList(c)
        \/ skillCall[c] # Idle /\ skillCall[c].op = "install" /\ (MakeFolder(c) \/ CopyRest(c))
        \/ skillCall[c] # Idle /\ skillCall[c].op = "uninstall" /\ (RemoveSome(c) \/ RemoveRest(c))
        \/ CommitSkillCall(c)
        \/ SkillCallEnds(c)

SkillsSpec == SkillsInit /\ [][SkillsNext]_skillVars

------------------------------------------------------------------------------
(* Properties                                                              *)

SkillsTypeOK ==
    /\ \A s \in Skills : folder[s] \in {"none", "partial", "whole"}
    /\ readable \subseteq Skills
    /\ \A s \in Skills : DOMAIN setting[s] \subseteq SkillScopes

\* When no call is at work on a skill, its folder is whole or gone, and one that is
\* gone has left no row in the registry and no setting behind that a later
\* installation would inherit ("settings_removed", skills/tool.py:605), unless
\* two calls on this skill overlapped or one stopped between its steps.
RowsFollowFolder ==
    \A s \in Skills \ troubled :
        BusyWith(s) = {} =>
            /\ ~Stuck(s) /\ folder[s] # "partial"
            /\ folder[s] = "none" => s \notin registry /\ Enabled(s) = (s \in DefaultEnabled)

\* Folders, registry and settings belong together.
SkillsOK == SkillsTypeOK /\ RowsFollowFolder
=============================================================================
