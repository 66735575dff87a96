------------------------------ MODULE WorkFiles ------------------------------
(***************************************************************************)
(* The files of the agent: write-file, apply-patch, move-file, delete-file *)
(* and src/tools/fs-extensions/tool.py with its trash, whose manifest.json *)
(* is read, changed and written back as a whole.                           *)
(*                                                                         *)
(* Nothing is locked: a call checks the paths it was given (Begin...) and  *)
(* acts on them later, whatever has happened to them in between.  Renames  *)
(* and replacements are atomic and replace what is there, even what the    *)
(* call has never seen.                                                    *)
(*                                                                         *)
(* Left out: directories, what is read only, hashes that a caller expects, *)
(* a file cut short when writing it fails, moves between devices.          *)
(* Bounds: TrashIds, MaxFileCalls.                                         *)
(***************************************************************************)
EXTENDS Naturals, ToolCalls

CONSTANTS
    FileNames, FileContents,
    TrashIds,           \* bound: files that may be trashed
    MaxFileCalls        \* bound: calls that may begin

VARIABLES
    file,               \* content of each name, or Absent
    trashed,            \* content of trash/blobs/<id>, or Absent
    manifest,           \* ids that have a record
    fileCall,           \* what each caller checked and is about to do, or Idle
    fileCalls,          \* number of calls that have begun
    due,                \* history: contents that nobody has asked to destroy
    overwritten,        \* history: contents lost to a call that was not asked to destroy
                        \* them: they came to the name after it had looked
    unlisted            \* history: ids that lost their record to a call that overlapped
                        \* with another, could not read the manifest, or ended too early

fileVars == <<file, trashed, manifest, fileCall, fileCalls, due, overwritten, unlisted>>

FileCalls ==
    [op : {"patch", "copy", "move", "unpack", "trash", "restore", "purge"},
     step : {"checked", "moved", "loaded"}, from : FileNames \cup {Absent},
     to : SUBSET FileNames, meant : SUBSET FileContents, text : FileContents \cup {Absent},
     id : TrashIds \cup {Absent}, read : SUBSET TrashIds, crossed : BOOLEAN]

ASSUME FilesAssumption == Absent \notin FileContents \cup TrashIds /\ Idle \notin FileCalls

Files == {p \in FileNames : file[p] # Absent}

FilesInit ==
    /\ file \in [FileNames -> FileContents \cup {Absent}]
    /\ trashed = [i \in TrashIds |-> Absent]
    /\ manifest = {}
    /\ fileCall = [c \in Callers |-> Idle]
    /\ fileCalls = 0
    /\ due = {file[p] : p \in Files}
    /\ overwritten = {}
    /\ unlisted = {}

\* A call on the working tree: the names it reads from and writes to, the contents that
\* its caller means to destroy there, and the one it brings.
OnTree(op, from, to, meant, text) ==
    [op |-> op, step |-> "checked", from |-> from, to |-> to, meant |-> meant, text |-> text,
     id |-> Absent, read |-> {}, crossed |-> FALSE]
\* to replace whatever there is, or nothing
Meant(overwrite) == IF overwrite THEN FileContents ELSE {}
\* A call on the trash: the records it read, and whether they are no longer those there are.
OnTrash(op, step, id, from, to, read, crossed) ==
    [op |-> op, step |-> step, from |-> from, to |-> to, meant |-> {}, text |-> Absent,
     id |-> id, read |-> read, crossed |-> crossed]
HasRead(w) == w.op \in {"restore", "purge"} \/ w.step = "loaded"

BeginFileCall(c, call) ==
    /\ fileCall[c] = Idle
    /\ fileCalls < MaxFileCalls
    /\ fileCalls' = fileCalls + 1
    /\ fileCall' = [fileCall EXCEPT ![c] = call]
    /\ UNCHANGED <<file, trashed, manifest, due, overwritten, unlisted>>

Doing(c, op, step) ==
    fileCall[c] # Idle /\ fileCall[c].op = op /\ fileCall[c].step = step

\* What is lost at name p, where x comes, when the contents in meant may go.
Lose(p, x, meant) ==
    /\ due' = (due \ ({file[p]} \cap meant)) \cup {x}
    /\ overwritten' = (overwritten \cup ({file[p]} \ (meant \cup {Absent}))) \ {x}
Replace(p, x, meant) ==
    /\ file' = [file EXCEPT ![p] = x]
    /\ Lose(p, x, meant)

------------------------------------------------------------------------------
(* The files in the working tree                                           *)

\* a call that does all it does at once
AtOnce ==
    /\ fileCalls < MaxFileCalls
    /\ fileCalls' = fileCalls + 1
    /\ UNCHANGED <<trashed, manifest, fileCall, unlisted>>

\* write_file(): a temporary file that replaces the name
WriteFile ==
    /\ AtOnce
    /\ \E p \in FileNames, x \in FileContents : Replace(p, x, FileContents)

\* delete_file(), and permanently_delete_file() of a name
DeleteFile ==
    /\ AtOnce
    /\ \E p \in Files : /\ file' = [file EXCEPT ![p] = Absent]
                       /\ due' = due \ {file[p]}
                       /\ UNCHANGED overwritten

\* apply_patch(): the file is read, and later replaced as a whole by what was made of the
\* text read, whatever another call has written there in between
BeginPatch(c) ==
    \E p \in Files : \E x \in FileContents \ {file[p]} :
        BeginFileCall(c, OnTree("patch", p, {p}, {file[p]}, x))
ReplacePatched(c) ==
    /\ Doing(c, "patch", "checked")
    /\ \E p \in fileCall[c].to : Replace(p, fileCall[c].text, fileCall[c].meant)
    /\ fileCall' = [fileCall EXCEPT ![c] = Idle]
    /\ UNCHANGED <<trashed, manifest, fileCalls, unlisted>>

\* copy_file() and move_file(): an existing destination only with overwrite
BeginTransfer(c) ==
    \E op \in {"copy", "move"}, p \in Files, q \in FileNames, overwrite \in BOOLEAN :
        /\ p # q
        /\ q \in Files => overwrite
        /\ BeginFileCall(c, OnTree(op, p, {q}, Meant(overwrite), Absent))
Transfer(c) ==
    LET w == fileCall[c]
        x == file[w.from]
    IN  /\ Doing(c, "copy", "checked") \/ Doing(c, "move", "checked")
        /\ x # Absent
        /\ \E q \in w.to :
            /\ file' = [p \in FileNames |-> IF p = q THEN x
                                           ELSE IF p = w.from /\ w.op = "move" THEN Absent
                                           ELSE file[p]]
            /\ Lose(q, x, w.meant)
        /\ fileCall' = [fileCall EXCEPT ![c] = Idle]
        /\ UNCHANGED <<trashed, manifest, fileCalls, unlisted>>

\* create_archive(): one file, at a name that was free
BeginPack(c) ==
    \E p \in FileNames \ Files, x \in FileContents :
        BeginFileCall(c, OnTree("unpack", Absent, {p}, Meant(FALSE), x))
\* extract_archive() checks all the members before it writes the first one.
BeginUnpack(c) ==
    \E ps \in SUBSET FileNames \ {{}}, x \in FileContents, overwrite \in BOOLEAN :
        /\ overwrite \/ ps \cap Files = {}
        /\ BeginFileCall(c, OnTree("unpack", Absent, ps, Meant(overwrite), x))
WriteMember(c) ==
    LET w == fileCall[c]
    IN  /\ Doing(c, "unpack", "checked")
        /\ \E p \in w.to :
            /\ Replace(p, w.text, w.meant)
            /\ fileCall' = [fileCall EXCEPT ![c] = IF w.to = {p} THEN Idle
                                                   ELSE [w EXCEPT !.to = w.to \ {p}]]
        /\ UNCHANGED <<trashed, manifest, fileCalls, unlisted>>

------------------------------------------------------------------------------
(* The trash                                                               *)

\* an id of uuid4(): nobody has used it
FreshId(i) ==
    /\ trashed[i] = Absent /\ i \notin manifest
    /\ \A c \in Callers : fileCall[c] # Idle => i # fileCall[c].id /\ i \notin fileCall[c].read

\* trash_file(): the file is moved, then the manifest loaded, then saved.
BeginTrash(c) ==
    \E p \in Files, i \in TrashIds :
        /\ FreshId(i)
        /\ BeginFileCall(c, OnTrash("trash", "checked", i, p, {}, {}, FALSE))
MoveToTrash(c) ==
    /\ Doing(c, "trash", "checked")
    /\ LET p == fileCall[c].from IN
        /\ p \in Files
        /\ trashed' = [trashed EXCEPT ![fileCall[c].id] = file[p]]
        /\ file' = [file EXCEPT ![p] = Absent]
    /\ fileCall' = [fileCall EXCEPT ![c] = [@ EXCEPT !.step = "moved"]]
    /\ UNCHANGED <<manifest, fileCalls, due, overwritten, unlisted>>
\* _load_manifest(): an unreadable manifest is an empty one.
LoadToRecord(c) ==
    /\ Doing(c, "trash", "moved")
    /\ \E read \in {manifest, {}} :
        fileCall' = [fileCall EXCEPT ![c] =
            OnTrash("trash", "loaded", @.id, @.from, {}, read, read # manifest)]
    /\ UNCHANGED <<file, trashed, manifest, fileCalls, due, overwritten, unlisted>>

\* restore_trashed_file() with its checks, and the move back
BeginRestore(c) ==
    \E i \in manifest, p \in FileNames \ Files :
        /\ trashed[i] # Absent
        /\ BeginFileCall(c, OnTrash("restore", "checked", i, Absent, {p}, manifest, FALSE))
MoveBack(c) ==
    /\ Doing(c, "restore", "checked")
    /\ LET i == fileCall[c].id IN
        /\ trashed[i] # Absent
        /\ \E p \in fileCall[c].to : Replace(p, trashed[i], {})
        /\ trashed' = [trashed EXCEPT ![i] = Absent]
    /\ fileCall' = [fileCall EXCEPT ![c] = [@ EXCEPT !.step = "loaded"]]
    /\ UNCHANGED <<manifest, fileCalls, unlisted>>

\* permanently_delete_file() of a trashed file, whose blob may be missing
BeginPurge(c) ==
    \E i \in manifest :
        BeginFileCall(c, OnTrash("purge", "checked", i, Absent, {}, manifest, FALSE))
UnlinkBlob(c) ==
    /\ Doing(c, "purge", "checked")
    /\ LET i == fileCall[c].id IN
        /\ trashed' = [trashed EXCEPT ![i] = Absent]
        /\ due' = due \ {trashed[i]}
        /\ UNCHANGED overwritten
    /\ fileCall' = [fileCall EXCEPT ![c] = [@ EXCEPT !.step = "loaded"]]
    /\ UNCHANGED <<file, manifest, fileCalls, unlisted>>

\* Mutant: the manifest of the last trashed file replaces the whole.
RecordsReplaced(w) == IF w.op = "trash" THEN {w.id} ELSE w.read \ {w.id}

\* the records that a call saves
RecordsSaved(w) == IF w.op = "trash" THEN w.read \cup {w.id} ELSE w.read \ {w.id}

\* _save_manifest(): the file replaces the manifest, with what has become of it
SaveManifest(c) ==
    LET w == fileCall[c]
    IN  /\ \E op \in {"trash", "restore", "purge"} : Doing(c, op, "loaded")
        /\ manifest' = RecordsSaved(w)
        /\ unlisted' = IF w.crossed THEN unlisted \cup (manifest \ manifest') ELSE unlisted
        /\ fileCall' = [d \in Callers |->
               IF d = c \/ fileCall[d] = Idle THEN Idle
               ELSE [fileCall[d] EXCEPT !.crossed = @ \/ HasRead(fileCall[d])]]
        /\ UNCHANGED <<file, trashed, fileCalls, due, overwritten>>

\* an error, or the process died: what was done stays done
FileCallEnds(c) ==
    /\ fileCall[c] # Idle
    /\ unlisted' = IF fileCall[c].op = "trash" /\ fileCall[c].step # "checked"
                   THEN unlisted \cup {fileCall[c].id} ELSE unlisted
    /\ fileCall' = [fileCall EXCEPT ![c] = Idle]
    /\ UNCHANGED <<file, trashed, manifest, fileCalls, due, overwritten>>

FilesNext ==
    \/ WriteFile
    \/ DeleteFile
    \/ \E c \in Callers :
        \/ BeginPatch(c)
        \/ ReplacePatched(c)
        \/ BeginTransfer(c)
        \/ Transfer(c)
        \/ BeginPack(c)
        \/ BeginUnpack(c)
        \/ WriteMember(c)
        \/ BeginTrash(c)
        \/ MoveToTrash(c)
        \/ LoadToRecord(c)
        \/ BeginRestore(c)
        \/ MoveBack(c)
        \/ BeginPurge(c)
        \/ UnlinkBlob(c)
        \/ SaveManifest(c)
        \/ FileCallEnds(c)

FilesSpec == FilesInit /\ [][FilesNext]_fileVars

------------------------------------------------------------------------------
(* Properties                                                              *)

FilesTypeOK ==
    /\ \A p \in FileNames : file[p] \in FileContents \cup {Absent}
    /\ \A i \in TrashIds : trashed[i] \in FileContents \cup {Absent}
    /\ manifest \subseteq TrashIds
    /\ \A c \in Callers : fileCall[c] \in FileCalls \cup {Idle}

\* a trashed file that restore_trashed_file() finds, or is about to
Restorable(i) ==
    \/ i \in manifest \cup unlisted
    \/ \E c \in Callers : \/ Doing(c, "trash", "moved") /\ fileCall[c].id = i
                          \/ Doing(c, "trash", "loaded") /\ fileCall[c].id = i

\* What nobody asked to destroy is at some name, or in the trash with a record
\* ("reversible", fs-extensions/tool.py:299).  The code does not keep this promise in two
\* cases.  A trashed file has no record (unlisted) where a call on the manifest overlapped
\* with another one, read nothing from it, or ended between the move and the record.  And
\* a content is overwritten that came to a name between the look of a call and its
\* replacement: what apply_patch() has not read (apply-patch/tool.py:115-136: a lost
\* update), or at a name that was free when it was checked (fs-extensions/tool.py).
NothingVanishes ==
    \A x \in due : \/ \E p \in FileNames : file[p] = x
                   \/ \E i \in TrashIds : trashed[i] = x /\ Restorable(i)
                   \/ x \in overwritten

\* Files, trash and manifest lose nothing.
FilesOK == FilesTypeOK /\ NothingVanishes
=============================================================================
