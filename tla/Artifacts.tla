------------------------------ MODULE Artifacts ------------------------------
(***************************************************************************)
(* The artifact store and the attachments built on it                      *)
(* (src/tools/artifacts/tool.py, src/tools/attachments/tool.py): files by  *)
(* content hash and the rows that name them.                               *)
(*                                                                         *)
(* A call stores its blob first and inserts its rows later, in one         *)
(* transaction; it may fail or the process may die in between.  The paged  *)
(* listing of the rows is in Listings.                                     *)
(*                                                                         *)
(* Left out: names, MIME types, sizes, owners, what a window of a text     *)
(* contains, the copy of a blob to a project file.                         *)
(* Bounds: ArtifactKeys, MaxArtifactCalls.                                 *)
(***************************************************************************)
EXTENDS Naturals, ToolCalls

CONSTANTS
    ArtifactKeys,       \* the ids of rows of artifacts and of attachments
    Blobs,              \* contents, named by their hash
    MaxArtifactCalls    \* bound: calls that may begin

VARIABLES
    artifact,           \* rows of artifacts by key, or Absent
    attachment,         \* rows of attachments by key, or Absent
    blobs,              \* the files under blobs/
    artifactCall,       \* what each caller is about to write, or Idle
    artifactCalls       \* number of calls that have begun

artifactVars == <<artifact, attachment, blobs, artifactCall, artifactCalls>>

ArtifactRows == [blob : Blobs, by : {"agent", "attachments"}, deleted : BOOLEAN]
AttachmentRows == [of : ArtifactKeys, deleted : BOOLEAN]

ASSUME AbsentIsNoRow == Absent \notin ArtifactRows /\ Absent \notin AttachmentRows

Artifacts == {a \in ArtifactKeys : artifact[a] # Absent}
LiveArtifacts == {a \in Artifacts : ~artifact[a].deleted}
Attachments == {t \in ArtifactKeys : attachment[t] # Absent}
LiveAttachments == {t \in Attachments : ~attachment[t].deleted}

ArtifactsInit ==
    /\ artifact = [a \in ArtifactKeys |-> Absent]
    /\ attachment = [t \in ArtifactKeys |-> Absent]
    /\ blobs = {}
    /\ artifactCall = [c \in Callers |-> Idle]
    /\ artifactCalls = 0

BeginArtifact(c, call) ==
    /\ artifactCall[c] = Idle
    /\ artifactCalls < MaxArtifactCalls
    /\ artifactCalls' = artifactCalls + 1
    /\ artifactCall' = [artifactCall EXCEPT ![c] = call]
    /\ UNCHANGED <<artifact, attachment, blobs>>

\* create() and attach() of a file: the bytes are staged in tmp/.
BeginCreate(c) ==
    \E b \in Blobs, op \in {"create", "import"} :
        BeginArtifact(c, [op |-> op, blob |-> b, stored |-> FALSE])

\* _store_blob(): the staged file is moved to its name unless that is there already.
StoreBlob(c) ==
    /\ artifactCall[c] # Idle
    /\ artifactCall[c].op \in {"create", "import"} /\ ~artifactCall[c].stored
    /\ blobs' = blobs \cup {artifactCall[c].blob}
    /\ artifactCall' = [artifactCall EXCEPT ![c].stored = TRUE]
    /\ UNCHANGED <<artifact, attachment, artifactCalls>>

NewArtifact(b, by) == [blob |-> b, by |-> by, deleted |-> FALSE]
NewAttachment(a) == [of |-> a, deleted |-> FALSE]

\* the row of create(), on a connection of its own
CommitCreate(c) ==
    \E a \in ArtifactKeys \ Artifacts :
        /\ artifact' = [artifact EXCEPT ![a] = NewArtifact(artifactCall[c].blob, "agent")]
        /\ UNCHANGED attachment

\* Mutant: the row of the artifact is committed before the one of the attachment.
CommitImportAlone(c) ==
    \E a \in ArtifactKeys \ Artifacts :
        /\ artifact' = [artifact EXCEPT ![a] = NewArtifact(artifactCall[c].blob, "attachments")]
        /\ UNCHANGED attachment

\* attach() of a file: create() uses its connection, both rows are one transaction.
CommitImport(c) ==
    \E a \in ArtifactKeys \ Artifacts, t \in ArtifactKeys \ Attachments :
        /\ artifact' = [artifact EXCEPT ![a] = NewArtifact(artifactCall[c].blob, "attachments")]
        /\ attachment' = [attachment EXCEPT ![t] = NewAttachment(a)]

\* attach() of an artifact that is there
BeginAttach(c) ==
    \E a \in LiveArtifacts : BeginArtifact(c, [op |-> "attach", at |-> a])
CommitAttach(c) ==
    \E t \in ArtifactKeys \ Attachments :
        /\ attachment' = [attachment EXCEPT ![t] = NewAttachment(artifactCall[c].at)]
        /\ UNCHANGED artifact

\* soft_delete(): the blob is kept
BeginSoftDelete(c) ==
    \E a \in LiveArtifacts : BeginArtifact(c, [op |-> "delete", at |-> a])
CommitSoftDelete(c) ==
    /\ artifact' = [artifact EXCEPT ![artifactCall[c].at].deleted = TRUE]
    /\ UNCHANGED attachment

\* remove(): the artifact is kept
BeginRemove(c) ==
    \E t \in LiveAttachments : BeginArtifact(c, [op |-> "remove", at |-> t])
CommitRemove(c) ==
    /\ attachment' = [attachment EXCEPT ![artifactCall[c].at].deleted = TRUE]
    /\ UNCHANGED artifact

CommitArtifactCall(c) ==
    /\ artifactCall[c] # Idle
    /\ CASE artifactCall[c].op = "create" -> artifactCall[c].stored /\ CommitCreate(c)
         [] artifactCall[c].op = "import" -> artifactCall[c].stored /\ CommitImport(c)
         [] artifactCall[c].op = "attach" -> CommitAttach(c)
         [] artifactCall[c].op = "delete" -> CommitSoftDelete(c)
         [] artifactCall[c].op = "remove" -> CommitRemove(c)
    /\ artifactCall' = [artifactCall EXCEPT ![c] = Idle]
    /\ UNCHANGED <<blobs, artifactCalls>>

\* an error: rollback, the blob stays
ArtifactCallFails(c) ==
    /\ artifactCall[c] # Idle
    /\ artifactCall' = [artifactCall EXCEPT ![c] = Idle]
    /\ UNCHANGED <<artifact, attachment, blobs, artifactCalls>>

\* the sidecar dies with all its threads
StoreProcessDies ==
    /\ artifactCall' = [c \in Callers |-> Idle]
    /\ UNCHANGED <<artifact, attachment, blobs, artifactCalls>>

\* what read() of an attachment needs: the link, the artifact and its blob
Readable(t) == /\ t \in LiveAttachments
               /\ attachment[t].of \in LiveArtifacts
               /\ artifact[attachment[t].of].blob \in blobs

ArtifactsNext ==
    \/ StoreProcessDies
    \/ \E c \in Callers :
        \/ BeginCreate(c)
        \/ StoreBlob(c)
        \/ BeginAttach(c)
        \/ BeginSoftDelete(c)
        \/ BeginRemove(c)
        \/ CommitArtifactCall(c)
        \/ ArtifactCallFails(c)

ArtifactsSpec == ArtifactsInit /\ [][ArtifactsNext]_artifactVars

------------------------------------------------------------------------------
(* Properties                                                              *)

ArtifactsTypeOK ==
    /\ artifact \in [ArtifactKeys -> ArtifactRows \cup {Absent}]
    /\ attachment \in [ArtifactKeys -> AttachmentRows \cup {Absent}]
    /\ blobs \subseteq Blobs

\* Whatever fails or dies in between, a row never names a blob that is not there,
\* also when several rows share it and one is deleted ("KEEPS the blob",
\* artifacts/tool.py:19), and a file that was imported is attached.
StoreIsWhole ==
    /\ \A a \in Artifacts :
        /\ artifact[a].blob \in blobs
        /\ artifact[a].by = "attachments" => \E t \in Attachments : attachment[t].of = a
    /\ \A t \in LiveAttachments : attachment[t].of \in LiveArtifacts => Readable(t)

\* Rows, blobs and attachments belong together.
ArtifactsOK == ArtifactsTypeOK /\ StoreIsWhole
=============================================================================
