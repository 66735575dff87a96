--------------------------- MODULE AtMostOnceCall ---------------------------
(***************************************************************************)
(* What Supervisor::request promises its callers (the documentation of     *)
(* request, crates/supervisor/src/lib.rs:221-225, and of round_trip's      *)
(* outcomes), without saying how: a request is executed at most once, an   *)
(* answer is only given for an executed request, and each request has one  *)
(* outcome.  A failed request may or may not have been executed, and may   *)
(* still be executed later.                                                *)
(***************************************************************************)
CONSTANT Requests

VARIABLES
    client,   \* what the caller knows of each request
    executed  \* requests the remote side has executed

vars == <<client, executed>>

Init ==
    /\ client = [r \in Requests |-> "new"]
    /\ executed = {}

Issue(r) ==
    /\ client[r] = "new"
    /\ client' = [client EXCEPT ![r] = "open"]
    /\ UNCHANGED executed

Execute(r) ==
    /\ client[r] # "new"
    /\ r \notin executed
    /\ executed' = executed \cup {r}
    /\ UNCHANGED client

Answer(r) ==
    /\ client[r] = "open"
    /\ r \in executed
    /\ client' = [client EXCEPT ![r] = "answered"]
    /\ UNCHANGED executed

Fail(r) ==
    /\ client[r] = "open"
    /\ client' = [client EXCEPT ![r] = "failed"]
    /\ UNCHANGED executed

Next == \E r \in Requests : Issue(r) \/ Execute(r) \/ Answer(r) \/ Fail(r)

Spec == Init /\ [][Next]_vars
=============================================================================
