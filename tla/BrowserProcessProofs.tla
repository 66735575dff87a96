------------------------ MODULE BrowserProcessProofs ------------------------
(***************************************************************************)
(* For any calls of start() and stop() and any number of launches: the     *)
(* types, that no Chromium is lost, and that a stopped browser can be      *)
(* started again unless something cut into a start or a stop.              *)
(*                                                                         *)
(* What holds the lock or the connection is tracked from hand to hand: the *)
(* starter that has launched, the running browser, the watcher of a dead   *)
(* one, the stop that is about to clear (HeldBySomebody).  Only a starter  *)
(* that nobody cut into is sure to hand over to a running browser          *)
(* (StarterAlone); one whose Chromium crashed under its hands hands over   *)
(* nothing (Released).  That "stopped" is not written over a watched       *)
(* Chromium needs the same: while it is watched it is called running, or   *)
(* its start is at its last write, or a stop has yet to tell its watcher   *)
(* (WatchedIsReachable).                                                   *)
(***************************************************************************)
EXTENDS BrowserProcess, TLAPS

\* Callers past their mark, and those of them that have launched.
Active   == {c \in Callers : call[c] \in StartPcs \ {"mark"}}
Carrying == {c \in Callers : call[c] \in {"connect", "watch", "touch"}}
\* Stops past their mark.
Clearing == {s \in Stoppers : stop[s] \in StopPcs \ {"mark"}}

\* The profile lock is carried exactly between launch and connection.
LockCarried == \A c \in Callers : lock = c <=> call[c] = "connect"
\* A connection comes with the stored lock.
ConnectionLocked == cdp # 0 => lock = Slot

\* The processes that run under a watcher that was not told to end them.
Watched == {g \in live : watcher[g] = "watching"}

\* Nothing of a Chromium is left but what its watcher is about to clear.
Released == Watched = {} /\ (lock = Free \/ \E g \in Launches : watcher[g] = "row")

\* Its Chromium is the one the lock, the connection and the status are about.
Sole(c) == Starting = {c} /\ status = "starting"
Doomed(c) == call[c] = "touch" /\ status = "crashed" /\ Released

StarterAlone ==
    /\ \A c \in Active : Active = {c} /\ Clearing = {} /\ (Sole(c) \/ Doomed(c))
    /\ \A c \in Callers : call[c] = "mark" => status # "running" \/ Released

HeldBySomebody ==
    lock # Free =>
        \/ Carrying # {} \/ Clearing # {} \/ status = "running"
        \/ \E g \in Launches : watcher[g] = "row"

WatchedIsReachable ==
    /\ Watched # {} =>
           \/ status = "running"
           \/ status = "stopping" /\ \E s \in Stoppers : stop[s] \in {"close", "tell"}
           \/ \E c \in Callers : call[c] = "touch"
    /\ Clearing # {} => status \in {"stopping", "stopped"}
    /\ \A s \in Stoppers : stop[s] = "clear" => Watched = {}

\* Before its watcher starts, a process has none; the current channel is that of
\* the only watcher that was not told.
OwnIsFresh ==
    /\ \A c \in Callers : call[c] \in {"new", "mark", "launch"} => own[c] = 0
    /\ \A g \in Launches : launched < g => watcher[g] = "none"
    /\ \A g \in Launches : watcher[g] = "watching" => shutdown = g
OwnIsUnwatched ==
    \A c \in Active : call[c] # "touch" => \A g \in Launches : own[c] = g => watcher[g] = "none"

Uncut == StarterAlone /\ HeldBySomebody /\ WatchedIsReachable /\ OwnIsUnwatched

IInv ==
    /\ TypeOK
    /\ LockCarried
    /\ ConnectionLocked
    /\ OwnIsFresh
    /\ ~cut => Uncut

-----------------------------------------------------------------------------
(* Types.                                                                  *)

LEMMA InitTyped == Init => TypeOK
<1> SUFFICES ASSUME Init PROVE TypeOK
  OBVIOUS
<1>1. /\ status \in ProcessStatuses /\ busy \in BOOLEAN /\ cut \in BOOLEAN
      /\ missed \in BOOLEAN /\ lock \in Callers \cup {Free, Slot}
  BY DEF Init, ProcessStatuses
<1>2. launched = 0 /\ launched \in 0 .. MaxLaunches
  BY BoundsAssumption DEF Init
<1>3. live \subseteq 1 .. launched /\ cdp \in 0 .. launched /\ shutdown \in 0 .. launched
  BY <1>2 DEF Init
<1>4. watcher \in [Launches -> WatcherStates]
  BY DEF Init, WatcherStates
<1>5. call \in [Callers -> StartPcs \cup {"new", "returned"}] /\ own \in [Callers -> 0 .. launched]
  BY <1>2 DEF Init
<1>6. stop \in [Stoppers -> StopPcs \cup {"new", "returned"}]
  BY DEF Init
<1> QED BY <1>1, <1>2, <1>3, <1>4, <1>5, <1>6 DEF TypeOK

LEMMA TellTyped ==
    ASSUME TypeOK, NEW g
    PROVE  Tell(g) \in [Launches -> WatcherStates]
BY DEF TypeOK, Tell, WatcherStates

LEMMA TypeStep == ASSUME TypeOK, [Next]_vars PROVE TypeOK'
<1> USE DEF innerVars, chromeVars, callVars, history, StartPcs, StopPcs, ProcessStatuses
<1>1. ASSUME NEW c \in Callers, StartCheck(c) PROVE TypeOK'
  BY <1>1 DEF StartCheck, At, TypeOK
<1>2. ASSUME NEW c \in Callers, StartMark(c) PROVE TypeOK'
  BY <1>2 DEF StartMark, At, TypeOK
<1>3. ASSUME NEW c \in Callers, Launch(c) PROVE TypeOK'
  <2>1. /\ launched' \in 0 .. MaxLaunches /\ launched' = launched + 1 /\ launched \in Nat
    BY <1>3, BoundsAssumption DEF Launch, TypeOK
  <2>2. live' \subseteq 1 .. launched' /\ cdp' \in 0 .. launched' /\ shutdown' \in 0 .. launched'
    BY <1>3, <2>1 DEF Launch, TypeOK
  <2>3. own' \in [Callers -> 0 .. launched']
    BY <1>3, <2>1 DEF Launch, TypeOK
  <2> QED BY <1>3, <2>1, <2>2, <2>3 DEF Launch, At, TypeOK
<1>4. ASSUME NEW c \in Callers, LaunchFails(c) PROVE TypeOK'
  BY <1>4 DEF LaunchFails, At, TypeOK
<1>5. ASSUME NEW c \in Callers, Connect(c) PROVE TypeOK'
  BY <1>5 DEF Connect, At, TypeOK
<1>6. ASSUME NEW c \in Callers, ConnectFails(c) PROVE TypeOK'
  BY <1>6 DEF ConnectFails, At, TypeOK
<1>7. ASSUME NEW c \in Callers, Watch(c) PROVE TypeOK'
  <2>1. watcher' \in [Launches -> WatcherStates]
    BY <1>7, TellTyped DEF Watch, WatcherStates
  <2> QED BY <1>7, <2>1 DEF Watch, At, TypeOK
<1>8. ASSUME NEW c \in Callers, Touch(c) PROVE TypeOK'
  BY <1>8 DEF Touch, At, TypeOK
<1>9. ASSUME NEW c \in Callers, TouchFails(c) PROVE TypeOK'
  BY <1>9 DEF TouchFails, At, TypeOK
<1>10. ASSUME NEW c \in Callers, StartFailed(c) PROVE TypeOK'
  BY <1>10 DEF StartFailed, At, TypeOK
<1>11. ASSUME NEW c \in Callers, Abandon(c) PROVE TypeOK'
  BY <1>11 DEF Abandon, TypeOK
<1>12. ASSUME NEW g \in Launches, WatchExit(g) PROVE TypeOK'
  BY <1>12 DEF WatchExit, NoticeCrash, WatcherStates, TypeOK
<1>13. ASSUME NEW g \in Launches, CrashClears(g) PROVE TypeOK'
  BY <1>13 DEF CrashClears, WatcherStates, TypeOK
<1>14. ASSUME NEW g \in Launches, HearsShutdown(g) \/ Closes(g) PROVE TypeOK'
  BY <1>14 DEF HearsShutdown, Closes, WatcherStates, TypeOK
<1>15. ASSUME NEW g \in Launches, ProcessDies(g) PROVE TypeOK'
  BY <1>15 DEF ProcessDies, TypeOK
<1>16. ASSUME NEW s \in Stoppers, StopCheck(s) PROVE TypeOK'
  BY <1>16 DEF StopCheck, StopAt, TypeOK
<1>17. ASSUME NEW s \in Stoppers, StopMark(s) PROVE TypeOK'
  BY <1>17 DEF StopMark, StopAt, TypeOK
<1>18. ASSUME NEW s \in Stoppers, StopClose(s) PROVE TypeOK'
  BY <1>18 DEF StopClose, StopAt, TypeOK
<1>19. ASSUME NEW s \in Stoppers, StopTell(s) PROVE TypeOK'
  <2>1. watcher' \in [Launches -> WatcherStates]
    BY <1>19, TellTyped DEF StopTell
  <2> QED BY <1>19, <2>1 DEF StopTell, StopAt, TypeOK
<1>20. ASSUME NEW s \in Stoppers, StopClear(s) PROVE TypeOK'
  BY <1>20 DEF StopClear, StopAt, TypeOK
<1>21. ASSUME NEW s \in Stoppers, StopAborted(s) PROVE TypeOK'
  BY <1>21 DEF StopAborted, TypeOK
<1>22. ASSUME TaskChanges PROVE TypeOK'
  BY <1>22 DEF TaskChanges, TypeOK
<1>23. ASSUME UNCHANGED vars PROVE TypeOK'
  BY <1>23 DEF vars, TypeOK
<1> QED
  BY <1>1, <1>2, <1>3, <1>4, <1>5, <1>6, <1>7, <1>8, <1>9, <1>10, <1>11, <1>12, <1>13,
     <1>14, <1>15, <1>16, <1>17, <1>18, <1>19, <1>20, <1>21, <1>22, <1>23
     DEF Next, Caller, Watcher, Stopper

-----------------------------------------------------------------------------
(* No Chromium is lost.                                                    *)

KeptByCaller(g)  == \E c \in Callers : own[c] = g /\ call[c] \in {"connect", "watch"}
KeptByWatcher(g) == watcher[g] \in {"told", "closing"} \/ (watcher[g] = "watching" /\ shutdown = g)

EveryoneKept == \A g \in live : KeptByCaller(g) \/ KeptByWatcher(g)

\* Telling the current watcher, whoever becomes the current one, keeps what watchers keep.
LEMMA TellKeeps ==
    ASSUME TypeOK, NEW g \in Launches, KeptByWatcher(g)
    PROVE  Tell(shutdown)[g] \in {"told", "closing"}
BY DEF TypeOK, Tell, KeptByWatcher

LEMMA KeeperStep == ASSUME TypeOK, EveryoneKept, [Next]_vars PROVE EveryoneKept'
<1> DEFINE Kept(g) == KeptByCaller(g) \/ KeptByWatcher(g)
<1> USE DEF innerVars, chromeVars, callVars, history
<1>a. EveryoneKept <=> \A g \in live : Kept(g)
  BY DEF EveryoneKept
<1>b. EveryoneKept' <=> \A g \in live' : Kept(g)'
  BY DEF EveryoneKept
<1>c. live \subseteq Launches
  BY BoundsAssumption DEF TypeOK, Launches
\* Most steps touch neither the processes nor their keepers.
<1>d. ASSUME UNCHANGED <<own, shutdown, watcher>>, live' \subseteq live,
             \A c \in Callers : call[c] \in {"connect", "watch"} => call'[c] \in {"connect", "watch"}
      PROVE  EveryoneKept'
  BY <1>a, <1>b, <1>d DEF KeptByCaller, KeptByWatcher
<1>1. ASSUME NEW c \in Callers, StartCheck(c) PROVE EveryoneKept'
  BY <1>1, <1>d DEF StartCheck, At, TypeOK
<1>2. ASSUME NEW c \in Callers, StartMark(c) PROVE EveryoneKept'
  BY <1>2, <1>d DEF StartMark, At, TypeOK
<1>3. ASSUME NEW c \in Callers, Launch(c) PROVE EveryoneKept'
  <2>1. \A g \in live : Kept(g)'
    BY <1>3, <1>a DEF Launch, At, TypeOK, KeptByCaller, KeptByWatcher
  <2>2. own'[c] = launched + 1 /\ call'[c] = "connect"
    BY <1>3 DEF Launch, At, TypeOK
  <2> QED BY <1>3, <1>b, <2>1, <2>2 DEF Launch, KeptByCaller
<1>4. ASSUME NEW c \in Callers, LaunchFails(c) PROVE EveryoneKept'
  BY <1>4, <1>d DEF LaunchFails, At, TypeOK
<1>5. ASSUME NEW c \in Callers, Connect(c) PROVE EveryoneKept'
  BY <1>5, <1>d DEF Connect, At, TypeOK
<1>6. ASSUME NEW c \in Callers, ConnectFails(c) PROVE EveryoneKept'
  <2>1. \A g \in live' : Kept(g)'
    BY <1>6, <1>a DEF ConnectFails, At, TypeOK, KeptByCaller, KeptByWatcher
  <2> QED BY <1>b, <2>1
<1>7. ASSUME NEW c \in Callers, Watch(c) PROVE EveryoneKept'
  <2>1. ASSUME NEW g \in live', g = own[c] PROVE Kept(g)'
    <3>1. g \in Launches
      BY <1>7, <1>c, <2>1 DEF Watch
    <3>2. watcher'[g] = "watching" /\ shutdown' = g
      BY <1>7, <2>1, <3>1, TellTyped DEF Watch
    <3> QED BY <3>2 DEF KeptByWatcher
  <2>2. ASSUME NEW g \in live', g # own[c] PROVE Kept(g)'
    <3>1. g \in Launches /\ g \in live
      BY <1>7, <1>c, <2>2 DEF Watch
    <3>2. CASE KeptByWatcher(g)
      <4>1. watcher'[g] \in {"told", "closing"}
        BY <1>7, <2>2, <3>1, <3>2, TellKeeps, TellTyped DEF Watch
      <4> QED BY <4>1 DEF KeptByWatcher
    <3>3. CASE KeptByCaller(g)
      BY <1>7, <2>2, <3>3 DEF Watch, At, TypeOK, KeptByCaller
    <3> QED BY <1>a, <3>1, <3>2, <3>3
  <2> QED BY <1>b, <2>1, <2>2
<1>8. ASSUME NEW c \in Callers, Touch(c) PROVE EveryoneKept'
  BY <1>8, <1>d DEF Touch, At, TypeOK
<1>9. ASSUME NEW c \in Callers, TouchFails(c) PROVE EveryoneKept'
  BY <1>9, <1>d DEF TouchFails, At, TypeOK
<1>10. ASSUME NEW c \in Callers, StartFailed(c) PROVE EveryoneKept'
  BY <1>10, <1>d DEF StartFailed, At, TypeOK
<1>11. ASSUME NEW c \in Callers, Abandon(c) PROVE EveryoneKept'
  <2>1. \A g \in live' : Kept(g)'
    BY <1>11, <1>a DEF Abandon, TypeOK, KeptByCaller, KeptByWatcher
  <2> QED BY <1>b, <2>1
<1>12. ASSUME NEW g \in Launches, WatchExit(g) PROVE EveryoneKept'
  <2>1. \A h \in live' : Kept(h)'
    BY <1>12, <1>a, <1>c DEF WatchExit, SeesExit, NoticeCrash, TypeOK, KeptByCaller, KeptByWatcher
  <2> QED BY <1>b, <2>1
<1>13. ASSUME NEW g \in Launches, CrashClears(g) PROVE EveryoneKept'
  <2>1. \A h \in live' : Kept(h)'
    BY <1>13, <1>a, <1>c DEF CrashClears, TypeOK, KeptByCaller, KeptByWatcher
  <2> QED BY <1>b, <2>1
<1>14. ASSUME NEW g \in Launches, HearsShutdown(g) \/ Closes(g) PROVE EveryoneKept'
  <2>1. \A h \in live' : Kept(h)'
    <3>1. CASE HearsShutdown(g)
      BY <3>1, <1>a, <1>c DEF HearsShutdown, TypeOK, KeptByCaller, KeptByWatcher
    <3>2. CASE Closes(g)
      BY <3>2, <1>a, <1>c DEF Closes, TypeOK, KeptByCaller, KeptByWatcher
    <3> QED BY <1>14, <3>1, <3>2
  <2> QED BY <1>b, <2>1
<1>15. ASSUME NEW g \in Launches, ProcessDies(g) PROVE EveryoneKept'
  BY <1>15, <1>d DEF ProcessDies
<1>16. ASSUME NEW s \in Stoppers, StopCheck(s) PROVE EveryoneKept'
  BY <1>16, <1>d DEF StopCheck
<1>17. ASSUME NEW s \in Stoppers, StopMark(s) PROVE EveryoneKept'
  BY <1>17, <1>d DEF StopMark
<1>18. ASSUME NEW s \in Stoppers, StopClose(s) PROVE EveryoneKept'
  BY <1>18, <1>d DEF StopClose
<1>19. ASSUME NEW s \in Stoppers, StopTell(s) PROVE EveryoneKept'
  <2>1. ASSUME NEW g \in live' PROVE Kept(g)'
    <3>1. g \in Launches /\ g \in live
      BY <1>19, <1>c, <2>1 DEF StopTell
    <3>2. CASE KeptByWatcher(g)
      BY <1>19, <3>1, <3>2, TellKeeps DEF StopTell, KeptByWatcher
    <3>3. CASE KeptByCaller(g)
      BY <1>19, <3>3 DEF StopTell, KeptByCaller
    <3> QED BY <1>a, <3>1, <3>2, <3>3
  <2> QED BY <1>b, <2>1
<1>20. ASSUME NEW s \in Stoppers, StopClear(s) PROVE EveryoneKept'
  BY <1>20, <1>d DEF StopClear
<1>21. ASSUME NEW s \in Stoppers, StopAborted(s) PROVE EveryoneKept'
  BY <1>21, <1>d DEF StopAborted
<1>22. ASSUME TaskChanges PROVE EveryoneKept'
  BY <1>22, <1>d DEF TaskChanges
<1>23. ASSUME UNCHANGED vars PROVE EveryoneKept'
  BY <1>23, <1>d DEF vars
<1> QED
  BY <1>1, <1>2, <1>3, <1>4, <1>5, <1>6, <1>7, <1>8, <1>9, <1>10, <1>11, <1>12, <1>13,
     <1>14, <1>15, <1>16, <1>17, <1>18, <1>19, <1>20, <1>21, <1>22, <1>23
     DEF Next, Caller, Watcher, Stopper

-----------------------------------------------------------------------------
(* The profile lock.                                                       *)

LEMMA LockStep ==
    ASSUME TypeOK, LockCarried, ConnectionLocked, [Next]_vars
    PROVE  LockCarried' /\ ConnectionLocked'
<1> USE NamesAssumption DEF innerVars, chromeVars, callVars, history, LockCarried, ConnectionLocked, TypeOK
<1>a. Free # Slot /\ Free \notin Callers /\ Slot \notin Callers
  BY DEF Free, Slot
\* Most steps leave the lock, the connection and the two places of its carrier alone.
<1>d. ASSUME UNCHANGED <<cdp, lock>>,
             \A c \in Callers : call'[c] = "connect" <=> call[c] = "connect"
      PROVE  LockCarried' /\ ConnectionLocked'
  BY <1>d
\* Whoever frees the stored lock, or finds it gone, has no carrier to look after.
<1>e. ASSUME cdp' = 0, lock' = IF lock = Slot THEN Free ELSE lock, UNCHANGED call
      PROVE  LockCarried' /\ ConnectionLocked'
  BY <1>a, <1>e
<1>1. ASSUME NEW c \in Callers, StartCheck(c) PROVE LockCarried' /\ ConnectionLocked'
  BY <1>1, <1>d DEF StartCheck, At
<1>2. ASSUME NEW c \in Callers, StartMark(c) PROVE LockCarried' /\ ConnectionLocked'
  BY <1>2, <1>d DEF StartMark, At
<1>3. ASSUME NEW c \in Callers, Launch(c) PROVE LockCarried' /\ ConnectionLocked'
  BY <1>3, <1>a DEF Launch, At
<1>4. ASSUME NEW c \in Callers, LaunchFails(c) PROVE LockCarried' /\ ConnectionLocked'
  BY <1>4, <1>d DEF LaunchFails, At
<1>5. ASSUME NEW c \in Callers, Connect(c) PROVE LockCarried' /\ ConnectionLocked'
  BY <1>5, <1>a DEF Connect, At
<1>6. ASSUME NEW c \in Callers, ConnectFails(c) PROVE LockCarried' /\ ConnectionLocked'
  BY <1>6, <1>a DEF ConnectFails, At
<1>7. ASSUME NEW c \in Callers, Watch(c) PROVE LockCarried' /\ ConnectionLocked'
  BY <1>7, <1>d DEF Watch, At
<1>8. ASSUME NEW c \in Callers, Touch(c) PROVE LockCarried' /\ ConnectionLocked'
  BY <1>8, <1>d DEF Touch, At
<1>9. ASSUME NEW c \in Callers, TouchFails(c) PROVE LockCarried' /\ ConnectionLocked'
  BY <1>9, <1>d DEF TouchFails, At
<1>10. ASSUME NEW c \in Callers, StartFailed(c) PROVE LockCarried' /\ ConnectionLocked'
  BY <1>10, <1>d DEF StartFailed, At
<1>11. ASSUME NEW c \in Callers, Abandon(c) PROVE LockCarried' /\ ConnectionLocked'
  BY <1>11, <1>a DEF Abandon
<1>12. ASSUME NEW g \in Launches, WatchExit(g) PROVE LockCarried' /\ ConnectionLocked'
  BY <1>12, <1>d DEF WatchExit
<1>13. ASSUME NEW g \in Launches, CrashClears(g) PROVE LockCarried' /\ ConnectionLocked'
  BY <1>13, <1>e DEF CrashClears
<1>14. ASSUME NEW g \in Launches, HearsShutdown(g) \/ Closes(g) PROVE LockCarried' /\ ConnectionLocked'
  BY <1>14, <1>d DEF HearsShutdown, Closes
<1>15. ASSUME NEW g \in Launches, ProcessDies(g) PROVE LockCarried' /\ ConnectionLocked'
  BY <1>15, <1>d DEF ProcessDies
<1>16. ASSUME NEW s \in Stoppers, StopCheck(s) PROVE LockCarried' /\ ConnectionLocked'
  BY <1>16, <1>d DEF StopCheck
<1>17. ASSUME NEW s \in Stoppers, StopMark(s) PROVE LockCarried' /\ ConnectionLocked'
  BY <1>17, <1>d DEF StopMark
<1>18. ASSUME NEW s \in Stoppers, StopClose(s) PROVE LockCarried' /\ ConnectionLocked'
  BY <1>18, <1>d DEF StopClose
<1>19. ASSUME NEW s \in Stoppers, StopTell(s) PROVE LockCarried' /\ ConnectionLocked'
  BY <1>19, <1>d DEF StopTell
<1>20. ASSUME NEW s \in Stoppers, StopClear(s) PROVE LockCarried' /\ ConnectionLocked'
  BY <1>20, <1>e DEF StopClear
<1>21. ASSUME NEW s \in Stoppers, StopAborted(s) PROVE LockCarried' /\ ConnectionLocked'
  BY <1>21, <1>d DEF StopAborted
<1>22. ASSUME TaskChanges PROVE LockCarried' /\ ConnectionLocked'
  BY <1>22, <1>d DEF TaskChanges
<1>23. ASSUME UNCHANGED vars PROVE LockCarried' /\ ConnectionLocked'
  BY <1>23, <1>d DEF vars
<1> QED
  BY <1>1, <1>2, <1>3, <1>4, <1>5, <1>6, <1>7, <1>8, <1>9, <1>10, <1>11, <1>12, <1>13,
     <1>14, <1>15, <1>16, <1>17, <1>18, <1>19, <1>20, <1>21, <1>22, <1>23
     DEF Next, Caller, Watcher, Stopper

-----------------------------------------------------------------------------
(* Starts and stops that nothing cut into.                                 *)

LEMMA FreshStep ==
    ASSUME TypeOK, OwnIsFresh, [Next]_vars
    PROVE  OwnIsFresh'
<1> USE BoundsAssumption DEF innerVars, chromeVars, callVars, history, OwnIsFresh, TypeOK, Launches, WatcherStates
<1>1. ASSUME NEW c \in Callers, StartCheck(c) PROVE OwnIsFresh'
  BY <1>1 DEF StartCheck, At
<1>2. ASSUME NEW c \in Callers, StartMark(c) PROVE OwnIsFresh'
  BY <1>2 DEF StartMark, At
<1>3. ASSUME NEW c \in Callers, Launch(c) PROVE OwnIsFresh'
  BY <1>3 DEF Launch, At
<1>4. ASSUME NEW c \in Callers, LaunchFails(c) PROVE OwnIsFresh'
  BY <1>4 DEF LaunchFails, At
<1>5. ASSUME NEW c \in Callers, Connect(c) PROVE OwnIsFresh'
  BY <1>5 DEF Connect, At
<1>6. ASSUME NEW c \in Callers, ConnectFails(c) PROVE OwnIsFresh'
  BY <1>6 DEF ConnectFails, At
<1>7. ASSUME NEW c \in Callers, Watch(c) PROVE OwnIsFresh'
  <2>1. /\ call[c] = "watch" /\ call' = [call EXCEPT ![c] = "touch"] /\ UNCHANGED <<own, launched>>
        /\ shutdown' = own[c] /\ watcher' = [Tell(shutdown) EXCEPT ![own[c]] = "watching"]
    BY <1>7 DEF Watch, At
  <2>2. \A h \in Launches : Tell(shutdown)[h] # "watching" /\ (watcher[h] = "none" => Tell(shutdown)[h] = "none")
    BY DEF Tell
  <2>3. \A h \in Launches : watcher'[h] = IF h = own[c] THEN "watching" ELSE Tell(shutdown)[h]
    BY <2>1 DEF Tell
  <2>4. own[c] \in 0 .. launched /\ launched \in 0 .. MaxLaunches
    OBVIOUS
  <2>5. \A d \in Callers : call'[d] \in {"new", "mark", "launch"} => own'[d] = 0
    BY <2>1
  <2>6. \A h \in Launches : launched' < h => watcher'[h] = "none"
    BY <2>1, <2>2, <2>3, <2>4
  <2>7. \A h \in Launches : watcher'[h] = "watching" => shutdown' = h
    BY <2>1, <2>2, <2>3
  <2> QED BY <2>5, <2>6, <2>7
<1>8. ASSUME NEW c \in Callers, Touch(c) PROVE OwnIsFresh'
  BY <1>8 DEF Touch, At
<1>9. ASSUME NEW c \in Callers, TouchFails(c) PROVE OwnIsFresh'
  BY <1>9 DEF TouchFails, At
<1>10. ASSUME NEW c \in Callers, StartFailed(c) PROVE OwnIsFresh'
  BY <1>10 DEF StartFailed, At
<1>11. ASSUME NEW c \in Callers, Abandon(c) PROVE OwnIsFresh'
  BY <1>11 DEF Abandon
<1>12. ASSUME NEW g \in Launches, WatchExit(g) PROVE OwnIsFresh'
  BY <1>12 DEF WatchExit, SeesExit, NoticeCrash
<1>13. ASSUME NEW g \in Launches, CrashClears(g) PROVE OwnIsFresh'
  BY <1>13 DEF CrashClears
<1>14. ASSUME NEW g \in Launches, HearsShutdown(g) \/ Closes(g) PROVE OwnIsFresh'
  BY <1>14 DEF HearsShutdown, Closes
<1>15. ASSUME NEW g \in Launches, ProcessDies(g) PROVE OwnIsFresh'
  BY <1>15 DEF ProcessDies
<1>16. ASSUME NEW s \in Stoppers, StopCheck(s) PROVE OwnIsFresh'
  BY <1>16 DEF StopCheck, StopAt
<1>17. ASSUME NEW s \in Stoppers, StopMark(s) PROVE OwnIsFresh'
  BY <1>17 DEF StopMark, StopAt
<1>18. ASSUME NEW s \in Stoppers, StopClose(s) PROVE OwnIsFresh'
  BY <1>18 DEF StopClose, StopAt
<1>19. ASSUME NEW s \in Stoppers, StopTell(s) PROVE OwnIsFresh'
  BY <1>19 DEF StopTell, StopAt, Tell
<1>20. ASSUME NEW s \in Stoppers, StopClear(s) PROVE OwnIsFresh'
  BY <1>20 DEF StopClear, StopAt
<1>21. ASSUME NEW s \in Stoppers, StopAborted(s) PROVE OwnIsFresh'
  BY <1>21 DEF StopAborted
<1>22. ASSUME TaskChanges PROVE OwnIsFresh'
  BY <1>22 DEF TaskChanges
<1>23. ASSUME UNCHANGED vars PROVE OwnIsFresh'
  BY <1>23 DEF vars
<1> QED
  BY <1>1, <1>2, <1>3, <1>4, <1>5, <1>6, <1>7, <1>8, <1>9, <1>10, <1>11, <1>12, <1>13,
     <1>14, <1>15, <1>16, <1>17, <1>18, <1>19, <1>20, <1>21, <1>22, <1>23
     DEF Next, Caller, Watcher, Stopper

LEMMA UncutStep ==
    ASSUME IInv, [Next]_vars, ~cut'
    PROVE  StarterAlone' /\ HeldBySomebody'
<1> USE NamesAssumption DEF innerVars, chromeVars, callVars, history, StarterAlone, HeldBySomebody, Sole, Doomed,
        Released, Watched, Active, Carrying, Clearing, Starting, Stopping, StartPcs, StopPcs
<1>a. Free # Slot /\ Free \notin Callers /\ Slot \notin Callers
  BY DEF Free, Slot
<1>b. TypeOK /\ LockCarried /\ ConnectionLocked
  BY DEF IInv
<1>c. live \subseteq Launches /\ live' \subseteq Launches
  BY <1>b, TypeStep, BoundsAssumption DEF TypeOK, Launches, IInv
\* Watchers and stops that go on without starting, ending or noticing anything.
<1>d. ASSUME UNCHANGED <<status, lock, call>>, ~cut, Clearing' = Clearing, Watched' \subseteq Watched,
             \A g \in Launches : watcher[g] = "row" <=> watcher'[g] = "row"
      PROVE  StarterAlone' /\ HeldBySomebody'
  <2>1. (Released => Released') /\ Active' = Active /\ Carrying' = Carrying /\ Starting' = Starting
    BY <1>d
  <2>2. StarterAlone /\ HeldBySomebody
    BY <1>d DEF IInv, Uncut
  <2>3. StarterAlone'
    BY <1>d, <2>1, <2>2
  <2>4. HeldBySomebody'
    BY <1>d, <2>1, <2>2
  <2> QED BY <2>3, <2>4
<1>1. ASSUME NEW c \in Callers, StartCheck(c) PROVE StarterAlone' /\ HeldBySomebody'
  BY <1>1, <1>b DEF StartCheck, At, TypeOK, Uncut, IInv, LockCarried
<1>2. ASSUME NEW c \in Callers, StartMark(c) PROVE StarterAlone' /\ HeldBySomebody'
  <2>1. Starting = {c} /\ Stopping = {} /\ ~cut
    BY <1>2 DEF StartMark
  <2>2. call' = [call EXCEPT ![c] = "launch"] /\ status' = "starting" /\ call[c] = "mark"
    BY <1>2 DEF StartMark, At
  <2>3. \A d \in Callers : d # c => call[d] \notin StartPcs /\ call'[d] = call[d]
    BY <1>b, <2>1, <2>2 DEF TypeOK
  <2>4. Starting' = {c} /\ Active' = {c} /\ Clearing' = {}
    BY <1>2, <1>b, <2>1, <2>2, <2>3 DEF StartMark, TypeOK
  <2>5. StarterAlone'
    BY <1>b, <2>2, <2>3, <2>4 DEF TypeOK
  <2>6. Carrying = {} /\ Clearing = {} /\ (status # "running" \/ Released)
    BY <1>b, <2>1, <2>2, <2>3 DEF IInv, Uncut
  <2>7. HeldBySomebody'
    BY <1>2, <1>b, <2>1, <2>6 DEF StartMark, IInv, Uncut
  <2> QED BY <2>5, <2>7
<1>3. ASSUME NEW c \in Callers, Launch(c) PROVE StarterAlone' /\ HeldBySomebody'
  BY <1>3, <1>b DEF Launch, At, TypeOK, Uncut, IInv, LockCarried
<1>4. ASSUME NEW c \in Callers, LaunchFails(c) PROVE StarterAlone' /\ HeldBySomebody'
  BY <1>4, <1>b DEF LaunchFails, At, TypeOK, Uncut, IInv, LockCarried
<1>5. ASSUME NEW c \in Callers, Connect(c) PROVE StarterAlone' /\ HeldBySomebody'
  BY <1>5, <1>b DEF Connect, At, TypeOK, Uncut, IInv, LockCarried
<1>6. ASSUME NEW c \in Callers, ConnectFails(c) PROVE StarterAlone' /\ HeldBySomebody'
  BY <1>6, <1>b DEF ConnectFails, At, TypeOK, Uncut, IInv, LockCarried
<1>7. ASSUME NEW c \in Callers, Watch(c) PROVE StarterAlone' /\ HeldBySomebody'
  BY <1>7, <1>b DEF Watch, At, Tell, TypeOK, Uncut, IInv, LockCarried
<1>8. ASSUME NEW c \in Callers, Touch(c) PROVE StarterAlone' /\ HeldBySomebody'
  BY <1>8, <1>b DEF Touch, At, TypeOK, Uncut, IInv, LockCarried
<1>9. ASSUME NEW c \in Callers, TouchFails(c) PROVE FALSE
  BY <1>9 DEF TouchFails, At
<1>10. ASSUME NEW c \in Callers, StartFailed(c) PROVE StarterAlone' /\ HeldBySomebody'
  BY <1>10, <1>b DEF StartFailed, At, TypeOK, Uncut, IInv, LockCarried
<1>11. ASSUME NEW c \in Callers, Abandon(c) PROVE FALSE
  BY <1>11 DEF Abandon
<1>12. ASSUME NEW g \in Launches, WatchExit(g) PROVE StarterAlone' /\ HeldBySomebody'
  <2>1. /\ watcher[g] \in {"watching", "told"} /\ g \notin live /\ ~cut
        /\ UNCHANGED <<lock, live, call, stop>>
    BY <1>12 DEF WatchExit, SeesExit, NoticeCrash
  <2>2. StarterAlone /\ HeldBySomebody /\ OwnIsUnwatched
    BY <2>1 DEF IInv, Uncut
  <2>3. CASE status \in {"running", "starting"}
    <3>1. /\ status' = "crashed" /\ watcher' = [watcher EXCEPT ![g] = "row"] /\ watcher[g] = "watching"
          /\ \A c \in Starting : own[c] = g
      BY <1>12, <2>1, <2>3 DEF WatchExit, NoticeCrash
    <3>2. watcher'[g] = "row"
      BY <1>b, <3>1 DEF TypeOK
    <3>3. \A h \in Launches : h # g => watcher[h] # "watching" /\ watcher'[h] = watcher[h]
      BY <1>b, <3>1 DEF IInv, OwnIsFresh, TypeOK
    <3>4. Watched' = {}
      BY <1>c, <2>1, <3>2, <3>3
    <3>5. Released' /\ Active' = Active /\ Clearing' = Clearing
      BY <2>1, <3>2, <3>4
    <3>6. \A c \in Active : call[c] = "touch"
      <4>1. \A c \in Active : c \in Starting
        OBVIOUS
      <4> QED BY <2>2, <3>1, <4>1 DEF OwnIsUnwatched
    <3>7. StarterAlone'
      BY <2>1, <2>2, <3>1, <3>5, <3>6
    <3> QED BY <3>2, <3>7
  <2>4. CASE status \notin {"running", "starting"}
    <3>1. watcher' = [watcher EXCEPT ![g] = "over"] /\ status' = status
      BY <1>12, <2>4 DEF WatchExit
    <3> QED BY <1>b, <1>c, <1>d, <2>1, <3>1 DEF TypeOK
  <2> QED BY <2>3, <2>4
<1>13. ASSUME NEW g \in Launches, CrashClears(g) PROVE StarterAlone' /\ HeldBySomebody'
  BY <1>13, <1>b DEF CrashClears, TypeOK, Uncut, IInv, LockCarried
<1>14. ASSUME NEW g \in Launches, HearsShutdown(g) \/ Closes(g) PROVE StarterAlone' /\ HeldBySomebody'
  <2>1. \E w \in {"closing", "over"} : watcher' = [watcher EXCEPT ![g] = w] /\ watcher[g] \in {"told", "closing"}
    BY <1>14 DEF HearsShutdown, Closes
  <2>2. Watched' \subseteq Watched /\ \A h \in Launches : watcher[h] = "row" <=> watcher'[h] = "row"
    BY <1>14, <1>b, <1>c, <2>1 DEF HearsShutdown, Closes, TypeOK
  <2> QED BY <1>14, <1>d, <2>2 DEF HearsShutdown, Closes
<1>15. ASSUME NEW g \in Launches, ProcessDies(g) PROVE StarterAlone' /\ HeldBySomebody'
  <2>1. Watched' \subseteq Watched
    BY <1>15 DEF ProcessDies
  <2> QED BY <1>15, <1>d, <2>1 DEF ProcessDies
<1>16. ASSUME NEW s \in Stoppers, StopCheck(s) PROVE StarterAlone' /\ HeldBySomebody'
  BY <1>16, <1>b DEF StopCheck, StopAt, TypeOK, Uncut, IInv, LockCarried
<1>17. ASSUME NEW s \in Stoppers, StopMark(s) PROVE StarterAlone' /\ HeldBySomebody'
  BY <1>17, <1>b DEF StopMark, StopAt, TypeOK, Uncut, IInv, LockCarried
<1>18. ASSUME NEW s \in Stoppers, StopClose(s) PROVE StarterAlone' /\ HeldBySomebody'
  BY <1>18, <1>b DEF StopClose, StopAt, TypeOK, Uncut, IInv, LockCarried
<1>19. ASSUME NEW s \in Stoppers, StopTell(s) PROVE StarterAlone' /\ HeldBySomebody'
  <2>1. \A h \in Launches : watcher'[h] = IF h = shutdown /\ watcher[h] = "watching" THEN "told" ELSE watcher[h]
    BY <1>19 DEF StopTell, Tell
  <2>2. Watched' \subseteq Watched /\ \A h \in Launches : watcher[h] = "row" <=> watcher'[h] = "row"
    BY <1>19, <1>c, <2>1 DEF StopTell
  <2>3. Clearing' = Clearing
    BY <1>19, <1>b DEF StopTell, StopAt, TypeOK
  <2> QED BY <1>19, <1>d, <2>2, <2>3 DEF StopTell
<1>20. ASSUME NEW s \in Stoppers, StopClear(s) PROVE StarterAlone' /\ HeldBySomebody'
  BY <1>20, <1>b DEF StopClear, StopAt, TypeOK, Uncut, IInv, LockCarried
<1>21. ASSUME NEW s \in Stoppers, StopAborted(s) PROVE FALSE
  BY <1>21 DEF StopAborted
<1>22. ASSUME TaskChanges PROVE StarterAlone' /\ HeldBySomebody'
  BY <1>22, <1>b DEF TaskChanges, TypeOK, Uncut, IInv, LockCarried
<1>23. ASSUME UNCHANGED vars PROVE StarterAlone' /\ HeldBySomebody'
  BY <1>23, <1>b DEF vars, TypeOK, Uncut, IInv, LockCarried
<1> QED
  BY <1>1, <1>2, <1>3, <1>4, <1>5, <1>6, <1>7, <1>8, <1>9, <1>10, <1>11, <1>12, <1>13,
     <1>14, <1>15, <1>16, <1>17, <1>18, <1>19, <1>20, <1>21, <1>22, <1>23
     DEF Next, Caller, Watcher, Stopper

LEMMA ReachStep ==
    ASSUME IInv, [Next]_vars, ~cut'
    PROVE  WatchedIsReachable' /\ OwnIsUnwatched'
<1> USE DEF innerVars, chromeVars, callVars, history, StarterAlone, WatchedIsReachable, OwnIsUnwatched,
        Sole, Doomed, Released, Watched, Active, Clearing, Starting, Stopping, StartPcs, StopPcs
<1>a. TypeOK /\ OwnIsFresh /\ live \subseteq Launches /\ live' \subseteq Launches
  BY TypeStep, BoundsAssumption DEF TypeOK, Launches, IInv
<1>b. ASSUME ~cut PROVE WatchedIsReachable /\ OwnIsUnwatched /\ StarterAlone
  BY <1>b DEF IInv, Uncut
\* Watchers that go on without starting or noticing anything.
<1>d. ASSUME UNCHANGED <<status, call, stop, own>>, ~cut, Watched' \subseteq Watched,
             \A h \in Launches : watcher[h] = "none" => watcher'[h] = "none"
      PROVE  WatchedIsReachable' /\ OwnIsUnwatched'
  BY <1>b, <1>d
<1>1. ASSUME NEW c \in Callers, StartCheck(c) PROVE WatchedIsReachable' /\ OwnIsUnwatched'
  BY <1>1 DEF StartCheck, At, TypeOK, Uncut, IInv, OwnIsFresh
<1>2. ASSUME NEW c \in Callers, StartMark(c) PROVE WatchedIsReachable' /\ OwnIsUnwatched'
  <2>1. Starting = {c} /\ Stopping = {} /\ ~cut
    BY <1>2 DEF StartMark
  <2>2. call' = [call EXCEPT ![c] = "launch"] /\ call[c] = "mark" /\ UNCHANGED <<live, watcher, own, stop>>
    BY <1>2 DEF StartMark, At
  <2>3. \A d \in Callers : d # c => call[d] \notin StartPcs /\ call'[d] = call[d]
    BY <1>a, <2>1, <2>2 DEF TypeOK
  <2>4. \A s \in Stoppers : stop[s] \notin StopPcs
    BY <2>1
  <2>5. Watched = {}
    BY <1>b, <2>1, <2>2, <2>3, <2>4
  <2>6. own[c] = 0
    BY <1>a, <2>2 DEF OwnIsFresh
  <2>7. OwnIsUnwatched'
    BY <1>a, <2>2, <2>3, <2>6 DEF Launches
  <2> QED BY <2>2, <2>4, <2>5, <2>7
<1>3. ASSUME NEW c \in Callers, Launch(c) PROVE WatchedIsReachable' /\ OwnIsUnwatched'
  <2>1. /\ call[c] = "launch" /\ call' = [call EXCEPT ![c] = "connect"] /\ ~cut
        /\ own' = [own EXCEPT ![c] = launched + 1] /\ live' = live \cup {launched + 1}
        /\ UNCHANGED <<status, watcher, stop>>
    BY <1>3 DEF Launch, At
  <2>2. launched + 1 \in Launches /\ launched < launched + 1
    BY <1>3, <1>a, BoundsAssumption DEF Launch, TypeOK, Launches
  <2>3. watcher[launched + 1] = "none"
    BY <1>a, <2>2 DEF OwnIsFresh
  <2>4. Watched' = Watched
    BY <2>1, <2>3
  <2>5. WatchedIsReachable'
    BY <1>a, <1>b, <2>1, <2>4 DEF TypeOK
  <2>6. OwnIsUnwatched'
    BY <1>a, <1>b, <2>1, <2>3 DEF TypeOK
  <2> QED BY <2>5, <2>6
<1>4. ASSUME NEW c \in Callers, LaunchFails(c) PROVE WatchedIsReachable' /\ OwnIsUnwatched'
  BY <1>4 DEF LaunchFails, At, TypeOK, Uncut, IInv, OwnIsFresh
<1>5. ASSUME NEW c \in Callers, Connect(c) PROVE WatchedIsReachable' /\ OwnIsUnwatched'
  BY <1>5 DEF Connect, At, TypeOK, Uncut, IInv, OwnIsFresh
<1>6. ASSUME NEW c \in Callers, ConnectFails(c) PROVE WatchedIsReachable' /\ OwnIsUnwatched'
  BY <1>6 DEF ConnectFails, At, TypeOK, Uncut, IInv, OwnIsFresh
<1>7. ASSUME NEW c \in Callers, Watch(c) PROVE WatchedIsReachable' /\ OwnIsUnwatched'
  BY <1>7 DEF Watch, At, Tell, TypeOK, Uncut, IInv, OwnIsFresh
<1>8. ASSUME NEW c \in Callers, Touch(c) PROVE WatchedIsReachable' /\ OwnIsUnwatched'
  BY <1>8 DEF Touch, At, TypeOK, Uncut, IInv, OwnIsFresh
<1>9. ASSUME NEW c \in Callers, TouchFails(c) PROVE FALSE
  BY <1>9 DEF TouchFails, At
<1>10. ASSUME NEW c \in Callers, StartFailed(c) PROVE WatchedIsReachable' /\ OwnIsUnwatched'
  BY <1>10 DEF StartFailed, At, TypeOK, Uncut, IInv, OwnIsFresh
<1>11. ASSUME NEW c \in Callers, Abandon(c) PROVE FALSE
  BY <1>11 DEF Abandon
<1>12. ASSUME NEW g \in Launches, WatchExit(g) PROVE WatchedIsReachable' /\ OwnIsUnwatched'
  <2>1. /\ watcher[g] \in {"watching", "told"} /\ g \notin live /\ ~cut
        /\ UNCHANGED <<live, call, own, stop>>
    BY <1>12 DEF WatchExit, SeesExit, NoticeCrash
  <2>2. CASE status \in {"running", "starting"}
    <3>1. /\ status' = "crashed" /\ watcher' = [watcher EXCEPT ![g] = "row"] /\ watcher[g] = "watching"
      BY <1>12, <2>1, <2>2 DEF WatchExit, NoticeCrash
    <3>2. \A h \in Launches : h # g => watcher[h] # "watching" /\ watcher'[h] = watcher[h]
      BY <1>a, <3>1 DEF OwnIsFresh, TypeOK
    <3>3. Watched' = {}
      BY <1>a, <2>1, <3>2
    <3>4. Clearing = {}
      BY <1>b, <2>1, <2>2
    <3>5. OwnIsUnwatched'
      BY <1>a, <1>b, <2>1, <3>1, <3>2
    <3> QED BY <2>1, <3>3, <3>4, <3>5
  <2>3. CASE status \notin {"running", "starting"}
    <3>1. watcher' = [watcher EXCEPT ![g] = "over"] /\ status' = status
      BY <1>12, <2>3 DEF WatchExit
    <3> QED BY <1>a, <1>d, <2>1, <3>1 DEF TypeOK
  <2> QED BY <2>2, <2>3
<1>13. ASSUME NEW g \in Launches, CrashClears(g) PROVE WatchedIsReachable' /\ OwnIsUnwatched'
  BY <1>13 DEF CrashClears, TypeOK, Uncut, IInv, OwnIsFresh
<1>14. ASSUME NEW g \in Launches, HearsShutdown(g) \/ Closes(g) PROVE WatchedIsReachable' /\ OwnIsUnwatched'
  <2>1. \E w \in {"closing", "over"} : watcher' = [watcher EXCEPT ![g] = w] /\ watcher[g] \in {"told", "closing"}
    BY <1>14 DEF HearsShutdown, Closes
  <2>2. Watched' \subseteq Watched /\ \A h \in Launches : watcher[h] = "none" => watcher'[h] = "none"
    BY <1>14, <1>a, <2>1 DEF HearsShutdown, Closes, TypeOK
  <2> QED BY <1>14, <1>d, <2>2 DEF HearsShutdown, Closes
<1>15. ASSUME NEW g \in Launches, ProcessDies(g) PROVE WatchedIsReachable' /\ OwnIsUnwatched'
  BY <1>15 DEF ProcessDies, TypeOK, Uncut, IInv, OwnIsFresh
<1>16. ASSUME NEW s \in Stoppers, StopCheck(s) PROVE WatchedIsReachable' /\ OwnIsUnwatched'
  BY <1>16 DEF StopCheck, StopAt, TypeOK, Uncut, IInv, OwnIsFresh
<1>17. ASSUME NEW s \in Stoppers, StopMark(s) PROVE WatchedIsReachable' /\ OwnIsUnwatched'
  BY <1>17 DEF StopMark, StopAt, TypeOK, Uncut, IInv, OwnIsFresh
<1>18. ASSUME NEW s \in Stoppers, StopClose(s) PROVE WatchedIsReachable' /\ OwnIsUnwatched'
  BY <1>18 DEF StopClose, StopAt, TypeOK, Uncut, IInv, OwnIsFresh
<1>19. ASSUME NEW s \in Stoppers, StopTell(s) PROVE WatchedIsReachable' /\ OwnIsUnwatched'
  <2>1. \A h \in Launches : watcher'[h] = IF h = shutdown /\ watcher[h] = "watching" THEN "told" ELSE watcher[h]
    BY <1>19 DEF StopTell, Tell
  <2>2. Watched' = {}
    BY <1>19, <1>a, <2>1 DEF StopTell, OwnIsFresh
  <2>3. Clearing' = Clearing
    BY <1>19, <1>a DEF StopTell, StopAt, TypeOK
  <2>4. OwnIsUnwatched'
    BY <1>19, <1>b, <2>1 DEF StopTell
  <2> QED BY <1>19, <1>b, <2>2, <2>3, <2>4 DEF StopTell
<1>20. ASSUME NEW s \in Stoppers, StopClear(s) PROVE WatchedIsReachable' /\ OwnIsUnwatched'
  BY <1>20 DEF StopClear, StopAt, TypeOK, Uncut, IInv, OwnIsFresh
<1>21. ASSUME NEW s \in Stoppers, StopAborted(s) PROVE FALSE
  BY <1>21 DEF StopAborted
<1>22. ASSUME TaskChanges PROVE WatchedIsReachable' /\ OwnIsUnwatched'
  BY <1>22 DEF TaskChanges, TypeOK, Uncut, IInv, OwnIsFresh
<1>23. ASSUME UNCHANGED vars PROVE WatchedIsReachable' /\ OwnIsUnwatched'
  BY <1>23 DEF vars, TypeOK, Uncut, IInv, OwnIsFresh
<1> QED
  BY <1>1, <1>2, <1>3, <1>4, <1>5, <1>6, <1>7, <1>8, <1>9, <1>10, <1>11, <1>12, <1>13,
     <1>14, <1>15, <1>16, <1>17, <1>18, <1>19, <1>20, <1>21, <1>22, <1>23
     DEF Next, Caller, Watcher, Stopper

-----------------------------------------------------------------------------
(* The theorems.                                                           *)

\* The variables keep their types, whatever start(), stop(), viewers and crashes do.
THEOREM BrowserTyped == Spec => []TypeOK
<1>1. Init => TypeOK
  BY InitTyped
<1>2. TypeOK /\ [Next]_vars => TypeOK'
  BY TypeStep
<1> QED BY <1>1, <1>2, PTL DEF Spec

\* The strengthening: the lock's carrier, and who holds lock and connection between
\* a start and a stop that nothing cut into.
THEOREM BrowserInv == Spec => []IInv
<1>1. Init => IInv
  <2>1. Init => TypeOK
    BY InitTyped
  <2>2. Init => LockCarried /\ ConnectionLocked
    BY NamesAssumption DEF Init, LockCarried, ConnectionLocked
  <2>3. Init => OwnIsFresh
    BY DEF Init, OwnIsFresh
  <2>4. Init => Uncut
    BY DEF Init, Uncut, StarterAlone, HeldBySomebody, WatchedIsReachable, OwnIsUnwatched,
       Watched, Active, Clearing, StartPcs, StopPcs
  <2> QED BY <2>1, <2>2, <2>3, <2>4 DEF IInv
<1>2. IInv /\ [Next]_vars => IInv'
  <2> SUFFICES ASSUME IInv, [Next]_vars PROVE IInv'
    OBVIOUS
  <2>1. TypeOK' /\ LockCarried' /\ ConnectionLocked' /\ OwnIsFresh'
    BY TypeStep, LockStep, FreshStep DEF IInv
  <2>2. ~cut' => Uncut'
    BY UncutStep, ReachStep DEF Uncut
  <2> QED BY <2>1, <2>2 DEF IInv
<1> QED BY <1>1, <1>2, PTL DEF Spec

\* No Chromium is lost by start(), stop() and the crash watchers, however many race:
\* it has its launcher, a watcher that ends it, or one that holds the current channel;
\* and without a cut the status lets stop() use it.
THEOREM ChromiumAlwaysKept == Spec => []ChromiumHasKeeper
<1>1. Init => EveryoneKept
  BY DEF Init, EveryoneKept
<1>2. TypeOK /\ EveryoneKept /\ [Next]_vars => EveryoneKept'
  BY KeeperStep
<1>3. EveryoneKept /\ IInv => ChromiumHasKeeper
  <2> SUFFICES ASSUME EveryoneKept, IInv, NEW g \in live PROVE
               \/ KeptByCaller(g) \/ watcher[g] \in {"told", "closing"}
               \/ watcher[g] = "watching" /\ shutdown = g /\ (status # "stopped" \/ cut)
    BY DEF ChromiumHasKeeper, KeptByCaller
  <2>1. KeptByCaller(g) \/ KeptByWatcher(g)
    BY DEF EveryoneKept
  <2>2. CASE ~cut /\ watcher[g] = "watching"
    <3>1. Watched # {} /\ StarterAlone /\ WatchedIsReachable
      BY <2>2 DEF IInv, Uncut, Watched
    <3>2. ASSUME status = "stopped" PROVE FALSE
      <4>1. PICK c \in Callers : call[c] = "touch"
        BY <3>1, <3>2 DEF WatchedIsReachable
      <4>2. c \in Active
        BY <4>1 DEF Active, StartPcs
      <4> QED BY <3>1, <3>2, <4>2 DEF StarterAlone, Sole, Doomed
    <3> QED BY <2>1, <3>2 DEF KeptByWatcher
  <2> QED BY <2>1, <2>2 DEF KeptByWatcher
<1> QED BY <1>1, <1>2, <1>3, BrowserTyped, BrowserInv, PTL DEF Spec

\* A stopped browser holds neither the profile lock nor a connection, unless
\* something cut into a start or a stop.
THEOREM StoppedIsAlwaysStartable == Spec => []StoppedIsStartable
<1>1. IInv => StoppedIsStartable
  BY DEF IInv, Uncut, StoppedIsStartable, Settled, HeldBySomebody, ConnectionLocked, Starting,
         Stopping, Carrying, Clearing, StartPcs, StopPcs, Free, Slot
<1> QED BY <1>1, BrowserInv, PTL

=============================================================================
