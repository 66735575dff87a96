------------------------------- MODULE Memories -------------------------------
(***************************************************************************)
(* The assistant memory (src/tools/memory/tool.py): rows that replace one  *)
(* another, and proposals that become rows when they are approved.         *)
(*                                                                         *)
(* A call reads first (Begin...) and writes in a transaction later         *)
(* (CommitMemoryCall), see TodoPlans.  Rows are named by the order of      *)
(* their insertion.  A place is a scope with its scope_id.                 *)
(*                                                                         *)
(* Left out: ranking, embeddings, tags, importance, confidence,            *)
(* sensitivity, pinning, expiry, access counts, texts refused as secrets;  *)
(* two texts that compare as duplicates are the same text.                 *)
(* Bounds: MaxRows, MaxMemoryCalls.                                        *)
(***************************************************************************)
EXTENDS Naturals, FiniteSets, ToolCalls

CONSTANTS
    Places,             \* scopes with their scope_id
    Global,             \* the places of user and profile scope: direct writes need review
    Rank,               \* SCOPE_RANK of each place
    Keys, Texts,        \* memory keys and contents
    MaxRows,            \* bound: rows of the table
    MaxMemoryCalls      \* bound: calls that may begin

ASSUME MemoryAssumption == MaxRows \in Nat

VARIABLES
    memory,             \* the rows: 1 .. n -> record
    proposal,           \* a row of memory_proposals, or Absent: one is explored
    memoryCall,         \* what each caller read and is about to write, or Idle
    memoryCalls,        \* number of calls that have begun
    erased,             \* history: rows that delete_memory() deleted
    strayed             \* history: rows that came to their key or place by a move, or
                        \* whose writer overlapped with another commit, or replaced such a row

memoryVars == <<memory, proposal, memoryCall, memoryCalls, erased, strayed>>

MemoryRows == DOMAIN memory
ActiveRows == {m \in MemoryRows : ~memory[m].deleted}

MemoryInit ==
    /\ memory = [m \in {} |-> Absent]
    /\ proposal = Absent
    /\ memoryCall = [c \in Callers |-> Idle]
    /\ memoryCalls = 0
    /\ erased = {}
    /\ strayed = {}

BeginMemory(c, call) ==
    /\ memoryCall[c] = Idle
    /\ memoryCalls < MaxMemoryCalls
    /\ memoryCalls' = memoryCalls + 1
    /\ memoryCall' = [memoryCall EXCEPT ![c] = call]
    /\ UNCHANGED <<memory, proposal, erased, strayed>>

\* A new row that replaces old ones, and a change of row m.
Insertion(old, row, proposed) ==
    [op |-> "insert", at |-> 0, old |-> old, row |-> row, proposed |-> proposed,
     crossed |-> FALSE]
OfRow(op, m, row) ==
    [op |-> op, at |-> m, old |-> {}, row |-> row, proposed |-> FALSE, crossed |-> FALSE]

NewestRow(S) == {m \in S : \A n \in S : n <= m}

\* _find_keyed(): the newest active row with the key; _find_duplicate(): an active
\* row of the place with the same text.
KeyedRow(place, key) ==
    NewestRow({m \in ActiveRows : memory[m].place = place /\ memory[m].key = key})
DuplicateRows(place, text) ==
    {m \in ActiveRows : memory[m].place = place /\ memory[m].text = text}

\* Mutant: a row with the same text is preferred to the one with the key.
DuplicateReplaced(place, key, text) ==
    IF DuplicateRows(place, text) # {} THEN DuplicateRows(place, text)
    ELSE IF key # Absent THEN KeyedRow(place, key) ELSE {}

\* The row that a new one replaces, if any: the one with the key, else a duplicate.
RowReplaced(place, key, text) ==
    IF key # Absent /\ KeyedRow(place, key) # {} THEN KeyedRow(place, key)
    ELSE DuplicateRows(place, text)

MemoryRow(place, key, text, approved) ==
    [place |-> place, key |-> key, text |-> text, approved |-> approved,
     deleted |-> FALSE, next |-> 0]

\* the row of write_memory(), with what it takes over from the one it replaces
RowWritten(place, key, text, approved, old) ==
    MemoryRow(place, key, text, approved \/ \E m \in old : memory[m].approved)

\* write_memory() of a new text; only the narrow scopes need no review
BeginWrite(c) ==
    \E place \in Places, key \in Keys \cup {Absent}, text \in Texts :
        LET found == RowReplaced(place, key, text)
        IN  \E old \in IF found = {} THEN {{}} ELSE {{m} : m \in found} :
                BeginMemory(c, Insertion(old,
                    RowWritten(place, key, text, place \notin Global, old), FALSE))

\* propose_memory(): a single insert
Propose ==
    /\ proposal = Absent
    /\ \E place \in Places, key \in Keys \cup {Absent}, text \in Texts :
        proposal' = [status |-> "pending", place |-> place, key |-> key, text |-> text]
    /\ UNCHANGED <<memory, memoryCall, memoryCalls, erased, strayed>>

\* write_memory() of a proposal that is pending: this is its approval.  The proposal's key
\* is looked up as that of a direct write is.
BeginApprove(c) ==
    /\ proposal # Absent
    /\ proposal.status = "pending"
    /\ LET found == RowReplaced(proposal.place, proposal.key, proposal.text)
       IN  \E old \in IF found = {} THEN {{}} ELSE {{m} : m \in found} :
               BeginMemory(c, Insertion(old,
                   RowWritten(proposal.place, proposal.key, proposal.text, TRUE, old), TRUE))

\* update_memory(): the whole row is written as it was read, with the changes.  A
\* new scope moves it, in whichever direction.
BeginUpdate(c) ==
    \E m \in ActiveRows, place \in Places, text \in Texts :
    \E key \in Keys \cup {memory[m].key} :
        BeginMemory(c, OfRow("update", m, MemoryRow(place, key, text, memory[m].approved)))

\* promote_memory(): only towards a broader scope
BeginPromote(c) ==
    \E m \in ActiveRows, place \in Places :
        /\ Rank[place] > Rank[memory[m].place]
        /\ BeginMemory(c, OfRow("promote", m, [memory[m] EXCEPT !.place = place]))

\* delete_memory() of a row that is not deleted yet
BeginDelete(c) == \E m \in ActiveRows : BeginMemory(c, OfRow("delete", m, memory[m]))

\* merge_memories(): one row without a key at the broadest place of the sources,
\* or at another place of theirs (or the user's) that the caller names
BeginMerge(c) ==
    \E ms \in SUBSET ActiveRows, place \in Places, text \in Texts :
        /\ Cardinality(ms) > 1
        /\ place \in {memory[m].place : m \in ms} \cup Global
        /\ BeginMemory(c, Insertion(ms,
               MemoryRow(place, Absent, text,
                         place \notin Global \/ \A m \in ms : memory[m].approved), FALSE))

------------------------------------------------------------------------------
(* Writing                                                                 *)

\* _supersede(), and the columns of update_memory(): the others stay as they are
Superseded(r, n) ==
    [place |-> r.place, key |-> r.key, text |-> r.text, approved |-> r.approved,
     deleted |-> TRUE, next |-> n]
Updated(r, new) ==
    [place |-> new.place, key |-> new.key, text |-> new.text, approved |-> r.approved,
     deleted |-> r.deleted, next |-> r.next]

\* _insert_memory() and _supersede() of each row it replaces, and the proposal
CommitInsert(c) ==
    LET w == memoryCall[c]
        n == Cardinality(MemoryRows) + 1
    IN  /\ n <= MaxRows
        /\ memory' = [m \in MemoryRows \cup {n} |->
               IF m = n THEN w.row
               ELSE IF m \in w.old THEN Superseded(memory[m], n)
               ELSE memory[m]]
        /\ proposal' = IF w.proposed THEN [proposal EXCEPT !.status = "approved"] ELSE proposal
        /\ strayed' = IF w.crossed \/ w.old \cap strayed # {} THEN strayed \cup {n} ELSE strayed
        /\ UNCHANGED erased

CommitUpdate(c) ==
    LET w == memoryCall[c]
        r == memory[w.at]
    IN  /\ memory' = [memory EXCEPT ![w.at] = Updated(r, w.row)]
        /\ strayed' = IF w.row.place # r.place \/ w.row.key # r.key
                      THEN strayed \cup {w.at} ELSE strayed
        /\ UNCHANGED <<proposal, erased>>

CommitPromote(c) ==
    /\ memory' = [memory EXCEPT ![memoryCall[c].at] =
                      [@ EXCEPT !.place = memoryCall[c].row.place]]
    /\ strayed' = strayed \cup {memoryCall[c].at}
    /\ UNCHANGED <<proposal, erased>>

CommitDelete(c) ==
    /\ memory' = [memory EXCEPT ![memoryCall[c].at] = [@ EXCEPT !.deleted = TRUE]]
    /\ erased' = erased \cup {memoryCall[c].at}
    /\ UNCHANGED <<proposal, strayed>>

CommitMemoryCall(c) ==
    /\ memoryCall[c] # Idle
    /\ CASE memoryCall[c].op = "insert"  -> CommitInsert(c)
         [] memoryCall[c].op = "update"  -> CommitUpdate(c)
         [] memoryCall[c].op = "promote" -> CommitPromote(c)
         [] memoryCall[c].op = "delete"  -> CommitDelete(c)
    /\ memoryCall' = [d \in Callers |->
           IF d = c \/ memoryCall[d] = Idle THEN Idle
           ELSE [memoryCall[d] EXCEPT !.crossed = TRUE]]
    /\ UNCHANGED memoryCalls

\* an error before the commit: rollback
MemoryCallFails(c) ==
    /\ memoryCall[c] # Idle
    /\ memoryCall' = [memoryCall EXCEPT ![c] = Idle]
    /\ UNCHANGED <<memory, proposal, memoryCalls, erased, strayed>>

MemoryNext ==
    \/ Propose
    \/ \E c \in Callers :
        \/ BeginWrite(c)
        \/ BeginApprove(c)
        \/ BeginUpdate(c)
        \/ BeginPromote(c)
        \/ BeginDelete(c)
        \/ BeginMerge(c)
        \/ CommitMemoryCall(c)
        \/ MemoryCallFails(c)

MemorySpec == MemoryInit /\ [][MemoryNext]_memoryVars

------------------------------------------------------------------------------
(* Properties                                                              *)

MemoryTypeOK ==
    /\ MemoryRows = 1 .. Cardinality(MemoryRows)
    /\ \A m \in MemoryRows : /\ memory[m].place \in Places
                       /\ memory[m].next \in 0 .. MaxRows
                       /\ memory[m].approved \in BOOLEAN

\* What was remembered is found again: a row that is gone was deleted by a call
\* that asked for it, or leads to a newer row that took its place, and so on to one
\* that is there or was deleted ("Keep history", tool.py:706).
HistoryLeadsOn ==
    \A m \in MemoryRows \ ActiveRows :
        \/ memory[m].next \in MemoryRows /\ memory[m].next > m
        \/ memory[m].next = 0 /\ m \in erased

\* A key has one value in a place ("Keyed upsert", tool.py:781), unless one of
\* two rows was moved there or was written by a call that overlapped with another:
\* the row to replace is looked up before the transaction begins.
KeyHasOneValue ==
    \A m, n \in ActiveRows \ strayed :
        m # n /\ memory[m].key # Absent /\ memory[m].key = memory[n].key =>
            memory[m].place # memory[n].place

\* What was remembered is there, once for a key, or leads to what took its place.
MemoriesOK == MemoryTypeOK /\ HistoryLeadsOn /\ KeyHasOneValue
=============================================================================
