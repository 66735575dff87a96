----------------------------- MODULE MCBrowser -----------------------------
(* The host's browser manager, in two parts, of which a behaviour has one:  *)
(*   process  three calls of start(), so that two can race and a third one  *)
(*            finds what they left, and a stop by the idle timer, which can *)
(*            do all that a stop by request does;                           *)
(*   tasks    two tasks, enough to share every slot, by a race of two calls *)
(*            or by a new task after a crash that left the runner of the    *)
(*            old one behind.                                               *)
EXTENDS BrowserProcess, BrowserTasks

CONSTANTS c1, c2, c3, i1, t1, t2

ThreeCallers == {c1, c2, c3}
IdleStop     == {i1}
TwoTasks     == {t1, t2}
OneTask      == {t1}

VARIABLE part

BrowserInit == part \in {"process", "tasks"} /\ Init /\ TasksInit

BrowserNext ==
    /\ \/ part = "process" /\ Next /\ UNCHANGED taskVars
       \/ part = "tasks" /\ TasksNext /\ UNCHANGED vars
    /\ UNCHANGED part

WatcherGoesOn(g) == part = "process" /\ Watcher(g) /\ UNCHANGED <<taskVars, part>>

BrowserSpec ==
    /\ BrowserInit
    /\ [][BrowserNext]_<<part, vars, taskVars>>
    /\ \A g \in Launches : WF_<<part, vars, taskVars>>(WatcherGoesOn(g))
=============================================================================
