------------------------------ MODULE ToolCalls ------------------------------
(***************************************************************************)
(* What the models of the agent's tools share.  Several runs, and the      *)
(* parallel workers of a max-mode run, call tools at the same time and     *)
(* share one database and one working tree.  A caller is a thread of the   *)
(* sidecar that may be inside a tool; whether the calls of one message     *)
(* overlap as well is up to the agent library.                             *)
(***************************************************************************)
CONSTANTS
    Callers,    \* the threads that may be inside a tool at the same time
    Idle,       \* a caller that is inside no tool
    Absent      \* no row, no file, no value
=============================================================================
