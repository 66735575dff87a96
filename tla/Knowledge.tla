------------------------------ MODULE Knowledge ------------------------------
(***************************************************************************)
(* The knowledge base: the tools of src/tools/knowledge/tool.py and the    *)
(* host's own ingest, delete and prompt search                             *)
(* (crates/server/src/knowledge.rs), which share its tables.               *)
(*                                                                         *)
(* As in TodoPlans a tool call reads first (Begin...) and writes in a      *)
(* transaction later (Commit...).  Sources are named by the order of their *)
(* insertion; the chunks of a source are the text they were cut from and   *)
(* who embedded them, since vectors of the two embedders do not compare.   *)
(*                                                                         *)
(* Left out: ranking, titles, tags, domains, quality, provenance, texts    *)
(* refused as secrets, artifacts a text is read from, paging.              *)
(* Bounds: MaxSources, MaxKnowledgeCalls.                                  *)
(***************************************************************************)
EXTENDS Naturals, Sequences, FiniteSets, ToolCalls

CONSTANTS
    ScopeRank,          \* SCOPE_RANK: scope -> rank, one project and one conversation
    Unprojected,        \* the scopes whose rows have no project_id
    Contents,           \* canonical texts
    MaxSources,         \* bound: rows of knowledge_sources that are not from a merge
    MaxKnowledgeCalls   \* bound: calls and requests that may begin

VARIABLES
    source,             \* knowledge_sources with their chunks: 1 .. n -> record or Absent
    knowledgeProposal,  \* the row of knowledge_proposals, or Absent
    knowledgeCall,      \* what each caller read and is about to write, or Idle
    knowledgeCalls,     \* calls and requests to the host that have begun
    cited,              \* knowledge_citations: the sources they name
    torn                \* history: sources last written by a call that overlapped with
                        \* another write of the same source

knowledgeVars == <<source, knowledgeProposal, knowledgeCall, knowledgeCalls, cited, torn>>

Scopes == DOMAIN ScopeRank
Versions == {"python", "rust"}
SourceRows ==
    [scope : Scopes, content : Contents, deleted : BOOLEAN, sha : Contents \cup {Absent},
     version : Versions, chunks : [of : Contents, by : Versions]]

\* A row is told from the absence of one.
ASSUME AbsentIsNoSource == Absent \notin SourceRows

Sources == {s \in DOMAIN source : source[s] # Absent}
ActiveSources == {s \in Sources : ~source[s].deleted}

KnowledgeInit ==
    /\ source = <<>>
    /\ knowledgeProposal = Absent
    /\ knowledgeCall = [c \in Callers |-> Idle]
    /\ knowledgeCalls = 0
    /\ cited = {}
    /\ torn = {}

\* A row with its chunks.
SourceRow(scope, text, deleted, sha, version, chunks) ==
    [scope |-> scope, content |-> text, deleted |-> deleted, sha |-> sha,
     version |-> version, chunks |-> chunks]

\* A new row.  The host stores no hash and no version.
NewSource(scope, text, by) ==
    SourceRow(scope, text, FALSE, IF by = "python" THEN text ELSE Absent, by,
              [of |-> text, by |-> by])

------------------------------------------------------------------------------
(* The host                                                                *)

HostIngests ==
    /\ knowledgeCalls < MaxKnowledgeCalls
    /\ knowledgeCalls' = knowledgeCalls + 1
    /\ Len(source) < MaxSources
    /\ \E scope \in Scopes \ {"conversation"}, text \in Contents :
        source' = Append(source, NewSource(scope, text, "rust"))
    /\ UNCHANGED <<knowledgeProposal, knowledgeCall, cited, torn>>

\* Calls that have read a source of ss and have not yet written it.
Cross(calls, ss) ==
    [c \in Callers |-> IF calls[c] # Idle /\ calls[c].at \in ss
                       THEN [calls[c] EXCEPT !.crossed = TRUE] ELSE calls[c]]

\* delete_source(): the row with its chunks and citations
HostDeletes ==
    /\ knowledgeCalls < MaxKnowledgeCalls
    /\ knowledgeCalls' = knowledgeCalls + 1
    /\ \E s \in Sources :
        /\ source' = [source EXCEPT ![s] = Absent]
        /\ cited' = cited \ {s}
        /\ torn' = torn \ {s}
        /\ knowledgeCall' = Cross(knowledgeCall, {s})
    /\ UNCHANGED knowledgeProposal

\* list_knowledge_chunks(): what search_db() and context_for_prompt() choose from
\* for a conversation in the project or outside of it
HostSearch(inProject) ==
    {s \in Sources : source[s].scope \in Unprojected \/ inProject}

------------------------------------------------------------------------------
(* What a call reads, checks and will write                                *)

BeginKnowledge(c, call) ==
    /\ knowledgeCall[c] = Idle
    /\ knowledgeCalls < MaxKnowledgeCalls
    /\ knowledgeCalls' = knowledgeCalls + 1
    /\ knowledgeCall' = [knowledgeCall EXCEPT ![c] = call]
    /\ UNCHANGED <<source, knowledgeProposal, cited, torn>>

\* _find_duplicate(): an active source of the scope with the same hash; the hash of
\* a row of the host is computed.
SourceHash(s) == IF source[s].sha = Absent THEN source[s].content ELSE source[s].sha
SameContent(scope, text) ==
    {s \in ActiveSources : source[s].scope = scope /\ SourceHash(s) = text}

\* _ingest() of a text in a scope: the row to insert, none if there is a duplicate.
Ingestion(op, scope, text, merged) ==
    [op |-> op, at |-> 0, crossed |-> FALSE, merged |-> merged,
     row |-> IF SameContent(scope, text) # {} THEN Absent
             ELSE NewSource(scope, text, "python")]

\* ingest_knowledge(); with a duplicate there is nothing to write.
BeginIngest(c) ==
    \E scope \in Scopes, text \in Contents :
        /\ SameContent(scope, text) = {}
        /\ BeginKnowledge(c, Ingestion("ingest", scope, text, {}))

\* propose_knowledge(): a single insert
ProposeKnowledge ==
    /\ knowledgeProposal = Absent
    /\ \E scope \in Scopes, text \in Contents :
        knowledgeProposal' = [status |-> "pending", scope |-> scope, content |-> text]
    /\ UNCHANGED <<source, knowledgeCall, knowledgeCalls, cited, torn>>

\* save_knowledge(): a duplicate approves the proposal all the same.
BeginSave(c) ==
    /\ knowledgeProposal # Absent
    /\ knowledgeProposal.status = "pending"
    /\ BeginKnowledge(c, Ingestion("save", knowledgeProposal.scope,
                                   knowledgeProposal.content, {}))

\* merge_knowledge(): the text of the sources together is a text of its own.
BeginMergeSources(c) ==
    \E ss \in SUBSET ActiveSources, scope \in Scopes :
        /\ Cardinality(ss) > 1
        /\ \E text \in Contents \ {source[s].content : s \in ss} :
            BeginKnowledge(c, Ingestion("merge", scope, text, ss))

OfSource(op, s, row) ==
    [op |-> op, at |-> s, crossed |-> FALSE, merged |-> {}, row |-> row]

\* update_knowledge(): text, hash and version are written as they were read, with
\* the changes; the chunks only if the text that was read changes.
BeginUpdateSource(c) ==
    \E s \in ActiveSources, scope \in Scopes, text \in Contents :
        LET old == source[s]
        IN  BeginKnowledge(c,
                IF text = old.content
                THEN OfSource("update", s, [old EXCEPT !.scope = scope])
                ELSE OfSource("rewrite", s, NewSource(scope, text, "python")))

\* promote_knowledge(): only towards a broader scope
BeginPromoteSource(c) ==
    \E s \in ActiveSources, scope \in Scopes :
        /\ ScopeRank[scope] > ScopeRank[source[s].scope]
        /\ BeginKnowledge(c, OfSource("promote", s, [source[s] EXCEPT !.scope = scope]))

\* reindex_knowledge(): the chunks, hash and version of the text that was read
BeginReindex(c) ==
    \E s \in ActiveSources :
        BeginKnowledge(c, OfSource("reindex", s,
            NewSource(source[s].scope, source[s].content, "python")))

\* delete_knowledge() of a source that is not deleted yet
BeginDeleteSource(c) ==
    \E s \in ActiveSources : BeginKnowledge(c, OfSource("delete", s, source[s]))

\* search_knowledge(): the sources its answer may cite
Visible(scopes) == {s \in ActiveSources : source[s].scope \in scopes}
BeginSearch(c) ==
    \E scopes \in SUBSET Scopes : \E s \in Visible(scopes) :
        BeginKnowledge(c, OfSource("search", s, source[s]))

------------------------------------------------------------------------------
(* Writing                                                                 *)

\* the new row, then what it was made from is soft-deleted
CommitIngestion(c) ==
    LET w    == knowledgeCall[c]
        rest == [s \in DOMAIN source |->
                    IF s \in w.merged \cap Sources
                    THEN [source[s] EXCEPT !.deleted = TRUE] ELSE source[s]]
    IN  /\ w.op \in {"ingest", "save", "merge"}
        /\ Len(source) < MaxSources \/ w.op = "merge"
        /\ source' = IF w.row = Absent THEN rest ELSE Append(rest, w.row)
        /\ knowledgeProposal' = IF w.op = "save"
                                THEN [knowledgeProposal EXCEPT !.status = "approved"]
                                ELSE knowledgeProposal
        /\ knowledgeCall' = [Cross(knowledgeCall, w.merged) EXCEPT ![c] = Idle]
        /\ UNCHANGED <<knowledgeCalls, cited, torn>>

Rewritten(w, r, chunks) ==
    SourceRow(w.row.scope, w.row.content, r.deleted, w.row.sha, w.row.version, chunks)
Reindexed(w, r) ==
    SourceRow(r.scope, r.content, r.deleted, w.row.sha, w.row.version, w.row.chunks)

\* Mutant: a new text is stored and its chunks are left as they were.
RewrittenUnindexed(w, r) ==
    CASE w.op \in {"update", "rewrite"} -> Rewritten(w, r, r.chunks)
      [] w.op = "promote" -> [r EXCEPT !.scope = w.row.scope]
      [] w.op = "reindex" -> Reindexed(w, r)
      [] w.op = "delete"  -> [r EXCEPT !.deleted = TRUE]
      [] OTHER            -> r

\* the columns each call writes; the others stay as they are
SourceWritten(w, r) ==
    CASE w.op = "update"  -> Rewritten(w, r, r.chunks)
      [] w.op = "rewrite" -> Rewritten(w, r, w.row.chunks)
      [] w.op = "promote" -> [r EXCEPT !.scope = w.row.scope]
      [] w.op = "reindex" -> Reindexed(w, r)
      [] w.op = "delete"  -> [r EXCEPT !.deleted = TRUE]
      [] OTHER            -> r

CommitOfSource(c) ==
    LET w == knowledgeCall[c]
        s == w.at
    IN  /\ w.op \notin {"ingest", "save", "merge"}
        /\ source[s] # Absent
        /\ source' = [source EXCEPT ![s] = SourceWritten(w, @)]
        /\ cited' = IF w.op = "search" THEN cited \cup {s} ELSE cited
        /\ torn' = IF w.op \notin {"update", "rewrite", "reindex"} THEN torn
                   ELSE IF w.crossed THEN torn \cup {s}
                   ELSE IF w.op = "update" THEN torn ELSE torn \ {s}
        /\ knowledgeCall' = [Cross(knowledgeCall, IF w.op = "search" THEN {} ELSE {s})
                                 EXCEPT ![c] = Idle]
        /\ UNCHANGED <<knowledgeProposal, knowledgeCalls>>

CommitKnowledgeCall(c) ==
    /\ knowledgeCall[c] # Idle
    /\ CommitIngestion(c) \/ CommitOfSource(c)

\* An error before the commit, such as a chunk or a citation of a row that the host
\* has deleted: rollback.
KnowledgeCallFails(c) ==
    /\ knowledgeCall[c] # Idle
    /\ knowledgeCall' = [knowledgeCall EXCEPT ![c] = Idle]
    /\ UNCHANGED <<source, knowledgeProposal, knowledgeCalls, cited, torn>>

KnowledgeNext ==
    \/ HostIngests
    \/ HostDeletes
    \/ ProposeKnowledge
    \/ \E c \in Callers :
        \/ BeginIngest(c)
        \/ BeginSave(c)
        \/ BeginMergeSources(c)
        \/ BeginUpdateSource(c)
        \/ BeginPromoteSource(c)
        \/ BeginReindex(c)
        \/ BeginDeleteSource(c)
        \/ BeginSearch(c)
        \/ CommitKnowledgeCall(c)
        \/ KnowledgeCallFails(c)

KnowledgeSpec == KnowledgeInit /\ [][KnowledgeNext]_knowledgeVars

------------------------------------------------------------------------------
(* Properties                                                              *)

KnowledgeTypeOK ==
    /\ \A s \in Sources : /\ source[s].scope \in Scopes /\ source[s].content \in Contents
                          /\ source[s].version \in Versions
    /\ cited \subseteq Sources

\* Vectors are only compared with vectors of the same embedder (tool.py:34-38): a
\* source that says its chunks were embedded in Python has such chunks, whatever
\* updates, reindexing and the host did to it at the same time.
VectorsCompare ==
    \A s \in Sources : source[s].version = "python" => source[s].chunks.by = "python"

\* A search finds a source by the text it has: chunks and hash are those of its
\* content, unless two writes of the source overlapped; a rewrite or a reindex with
\* nothing in between puts it right again.
ChunksAreOfContent ==
    \A s \in Sources \ torn :
        /\ source[s].chunks.of = source[s].content
        /\ SourceHash(s) = source[s].content

\* Sources, chunks and hashes belong together.
KnowledgeOK == KnowledgeTypeOK /\ VectorsCompare /\ ChunksAreOfContent

\* A deleted source is "excluded from all search" (tool.py:1843), so no prompt is
\* given its text either.
DeletedIsNotFound ==
    \A s \in Sources \ ActiveSources :
        \A inProject \in BOOLEAN : s \notin HostSearch(inProject)
=============================================================================
