------------------------------ MODULE Listings ------------------------------
(***************************************************************************)
(* Reading a table page by page while other calls change it: the list      *)
(* functions of the tools, and the notifications table, which is all the   *)
(* notifications tool has.                                                 *)
(*                                                                         *)
(* Six tables are listed by key, newest first: a page begins below the     *)
(* last row of the page before.  The key of a row is its place in the      *)
(* order of created_at and id, which never change; the time is taken       *)
(* before the insert and the id is random, so a new row may come anywhere. *)
(* The trash is listed by offset into its records.                         *)
(*                                                                         *)
(* A row is two flags: live (not deleted, not dismissed), and marked, what *)
(* a filter of the listing looks at (read, pinned, a status).  Left out:   *)
(* the other columns and filters on what cannot change.                    *)
(* Bounds: ListKeys, MaxChanges.                                           *)
(***************************************************************************)
EXTENDS Naturals, FiniteSets, ToolCalls

CONSTANTS
    ListKeys,           \* 1 .. n: keys, the greater the newer
    PageSize,           \* limit
    MaxChanges          \* bound: changes to the table

\* _normalize_limit() and its like refuse a limit under 1.
ASSUME ListingsAssumption ==
    /\ IsFiniteSet(ListKeys) /\ ListKeys = 1 .. Cardinality(ListKeys)
    /\ PageSize \in Nat \ {0}

VARIABLES
    table,              \* the table and filter of this behaviour
    rows,               \* flags of each row by key, or Absent
    changes,            \* number of changes so far
    listing             \* the listing, or Absent

listingVars == <<table, rows, changes, listing>>

\* unreadOnly of list_notifications() is a table of its own here.
Tables == {"notifications", "unread", "attachments", "artifacts", "plans", "memories",
           "sources", "trash"}

\* what the WHERE clause of each list function keeps
ListNotifications(r) == r.live /\ (table = "unread" => ~r.marked)
ListAttachments(r) == r.live
ListArtifacts(r) == r.live
\* the plans of one status
ListPlans(r) == ~r.marked
\* with pinned = False
ListMemories(r) == r.live /\ ~r.marked
ListSources(r) == r.live

Matches(r) ==
    CASE table \in {"notifications", "unread"} -> ListNotifications(r)
      [] table = "attachments"                 -> ListAttachments(r)
      [] table = "artifacts"                   -> ListArtifacts(r)
      [] table = "plans"                       -> ListPlans(r)
      [] table = "memories"                    -> ListMemories(r)
      [] table = "sources"                     -> ListSources(r)
      [] OTHER                                 -> TRUE
Listed(rs) == {k \in ListKeys : rs[k] # Absent /\ Matches(rs[k])}

ListingsInit ==
    /\ table \in Tables
    /\ rows \in [ListKeys -> [live : BOOLEAN, marked : BOOLEAN] \cup {Absent}]
    /\ changes = 0
    /\ listing = Absent

------------------------------------------------------------------------------
(* The table changes, one transaction or one saved manifest at a time      *)

\* `steady' are the rows that have matched since the listing began.
Change(k, row) ==
    /\ changes < MaxChanges
    /\ changes' = changes + 1
    /\ rows' = [rows EXCEPT ![k] = row]
    /\ listing' = IF listing = Absent THEN Absent
                  ELSE [at |-> listing.at, shown |-> listing.shown, done |-> listing.done,
                        steady |-> listing.steady \cap Listed(rows'),
                        came |-> listing.came \/ rows[k] = Absent,
                        left |-> listing.left \/ row = Absent]
    /\ UNCHANGED table

\* send(), and an insert into another table; a file is trashed after the others
Send(k) ==
    /\ rows[k] = Absent
    /\ table = "trash" => \A l \in ListKeys : l > k => rows[l] = Absent
    /\ Change(k, [live |-> TRUE, marked |-> FALSE])

\* mark_read(); a plan changes its status, a memory is pinned
MarkRead(k) ==
    /\ table \in {"notifications", "unread", "plans", "memories"}
    /\ rows[k] # Absent
    /\ Change(k, [rows[k] EXCEPT !.marked = TRUE])
\* the way back, which a notification that was read has not
Unmark(k) ==
    /\ table \in {"plans", "memories"}
    /\ rows[k] # Absent
    /\ Change(k, [rows[k] EXCEPT !.marked = FALSE])

\* dismiss(), and the deletions that keep the row
Dismiss(k) ==
    /\ table \notin {"plans", "trash"}
    /\ rows[k] # Absent
    /\ Change(k, [rows[k] EXCEPT !.live = FALSE])

\* a file is restored, or deleted for good: its record goes
RecordGoes(k) == table = "trash" /\ rows[k] # Absent /\ Change(k, Absent)

------------------------------------------------------------------------------
(* The listing                                                             *)

StartListing ==
    /\ listing = Absent
    /\ listing' = [at |-> IF table = "trash" THEN 0 ELSE Cardinality(ListKeys) + 1,
                   steady |-> Listed(rows), shown |-> [k \in ListKeys |-> 0],
                   came |-> FALSE, left |-> FALSE, done |-> FALSE]
    /\ UNCHANGED <<table, rows, changes>>

Show(page, at, done) ==
    /\ listing' = [at |-> at, done |-> done, steady |-> listing.steady,
                   shown |-> [k \in ListKeys |-> IF k \in page THEN listing.shown[k] + 1
                                                 ELSE listing.shown[k]],
                   came |-> listing.came, left |-> listing.left]
    /\ UNCHANGED <<table, rows, changes>>

Newer(k, ks) == {l \in ks : l > k}

\* Mutant: the cursor's own row is on the next page once more.
PageFrom(below) ==
    LET left == {k \in Listed(rows) : k <= below}
    IN  {k \in left : Cardinality(Newer(k, left)) < PageSize}
\* the first rows below the cursor
PageBelow(below) ==
    LET left == {k \in Listed(rows) : k < below}
    IN  {k \in left : Cardinality(Newer(k, left)) < PageSize}

\* a page shorter than the limit has no next cursor
NextPage ==
    /\ table # "trash"
    /\ listing # Absent /\ ~listing.done
    /\ LET page == PageBelow(listing.at)
           full == Cardinality(page) = PageSize
       IN  Show(page, IF full THEN CHOOSE k \in page : \A l \in page : k <= l ELSE listing.at,
                ~full)

\* list_trashed_files(): the records from the offset on
NextTrashPage ==
    /\ table = "trash"
    /\ listing # Absent /\ ~listing.done
    /\ LET records == Listed(rows)
       IN  Show({k \in records : Cardinality(Newer(k, records))
                                   \in listing.at .. listing.at + PageSize - 1},
                listing.at + PageSize, listing.at + PageSize >= Cardinality(records))

ListingsNext ==
    \/ \E k \in ListKeys : Send(k) \/ MarkRead(k) \/ Unmark(k) \/ Dismiss(k) \/ RecordGoes(k)
    \/ StartListing
    \/ NextPage
    \/ NextTrashPage

ListingsSpec == ListingsInit /\ [][ListingsNext]_listingVars

------------------------------------------------------------------------------
(* Properties                                                              *)

\* A listing by key that has come to its end showed every row that matched from its
\* start to its end, and none twice, although rows came, went and changed their flags
\* between its pages.  The listing of the trash promises less: a file trashed
\* meanwhile may make it repeat a record, and one restored or deleted may make it
\* skip another.
ListingIsComplete ==
    listing # Absent =>
        /\ \/ table = "trash" /\ listing.came
           \/ \A k \in ListKeys : listing.shown[k] <= 1
        /\ listing.done =>
              \/ table = "trash" /\ listing.left
              \/ \A k \in listing.steady : listing.shown[k] >= 1
=============================================================================
