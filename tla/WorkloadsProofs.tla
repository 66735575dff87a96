-------------------------- MODULE WorkloadsProofs --------------------------
(***************************************************************************)
(* For any jobs and stop requests: the types, and that a start is          *)
(* single-flight and a stopped workload holds no process unless a stop cut *)
(* into a start; and that each voice listed by the second workload has its *)
(* file.                                                                   *)
(*                                                                         *)
(* OneProcess and StoppedHoldsNothing need each other: a start begins only *)
(* in a stopped workload, which holds no process (StoppedHoldsNothing), so *)
(* the process it spawns is the only one (SpawnsFirst); and a workload is  *)
(* called stopped only when the process it knew has gone, which was the    *)
(* only one (OneProcess).  In between nobody else may start (OneStarter),  *)
(* because a workload is not called stopped while somebody starts it or    *)
(* waits for its process to exit (StartersAlone, WaitsForDying).           *)
(***************************************************************************)
EXTENDS OpenVoice, TLAPS

Starters == {j \in Jobs : pc[j] \in {"spawn", "polling"}}
Waiting  == {t \in Tasks : pc[t] = "stopwait"}

\* A stop waits for a process that was told to terminate and has not exited.
WaitsForDying == \A t \in Waiting : target[t] \in dying

OneStarter == \A i, j \in Starters : i = j

\* While a start is under way the workload is not called stopped and no stop
\* waits, or the start was cut into.
StartersAlone == Starters # {} => state # "stopped" /\ Waiting = {}

SpawnsFirst == \A j \in Jobs : pc[j] = "spawn" => alive = {}

SingleFlight ==
    /\ alive \subseteq {proc}
    /\ state = "stopped" => alive = {}
    /\ OneStarter
    /\ StartersAlone
    /\ SpawnsFirst

IInv ==
    /\ TypeOK
    /\ WaitsForDying
    /\ ~overlapped => SingleFlight

-----------------------------------------------------------------------------
(* Types.                                                                  *)

\* Where a task may rest, and where jobs may be.
LEMMA PcFacts ==
    /\ \A t \in Tasks : Rest(t) \in Pcs(t) /\ "stopwait" \in Pcs(t)
    /\ \A j \in Jobs : {"waiting", "spawn", "polling", "running", "over"} \subseteq Pcs(j)
    /\ \A t \in Tasks : Rest(t) \in {"sleep", "over"}
    /\ {"sleep", "freeing"} \subseteq Pcs(IdleLoop)
    /\ Jobs \subseteq Tasks /\ Stops \subseteq Tasks /\ IdleLoop \in Tasks
BY TasksAssumption DEF Rest, Pcs, Tasks

\* What TypeOK says of the program counters and targets.
TasksTyped ==
    /\ pc \in [Tasks -> UNION {Pcs(t) : t \in Tasks}]
    /\ \A t \in Tasks : pc[t] \in Pcs(t)
    /\ target \in [Tasks -> Jobs \cup {NoProc}]
    /\ \A t \in Tasks : pc[t] = "stopwait" <=> target[t] # NoProc

\* A task that goes on without a stop keeps the tasks typed.
LEMMA GotoTyped ==
    ASSUME TypeOK, NEW t \in Tasks, NEW w \in Pcs(t), pc[t] # "stopwait", w # "stopwait",
           Goto(t, w), UNCHANGED target
    PROVE  TasksTyped'
<1>1. pc' = [pc EXCEPT ![t] = w]
  BY DEF Goto
<1>2. w \in UNION {Pcs(u) : u \in Tasks}
  OBVIOUS
<1>3. pc' \in [Tasks -> UNION {Pcs(u) : u \in Tasks}]
  BY <1>1, <1>2 DEF TypeOK
<1>4. \A u \in Tasks : pc'[u] = IF u = t THEN w ELSE pc[u]
  BY <1>1 DEF TypeOK
<1> QED BY <1>3, <1>4 DEF TasksTyped, TypeOK

\* A task that enters the wait for a process, or leaves it.
LEMMA WaitTyped ==
    ASSUME TypeOK, NEW t \in Tasks, NEW w \in Pcs(t), NEW p \in Jobs \cup {NoProc},
           w = "stopwait" <=> p # NoProc,
           pc' = [pc EXCEPT ![t] = w], target' = [target EXCEPT ![t] = p]
    PROVE  TasksTyped'
<1>1. w \in UNION {Pcs(u) : u \in Tasks}
  OBVIOUS
<1>2. pc' \in [Tasks -> UNION {Pcs(u) : u \in Tasks}]
  BY <1>1 DEF TypeOK
<1>3. \A u \in Tasks : /\ pc'[u] = IF u = t THEN w ELSE pc[u]
                       /\ target'[u] = IF u = t THEN p ELSE target[u]
  BY DEF TypeOK
<1>4. target' \in [Tasks -> Jobs \cup {NoProc}]
  BY DEF TypeOK
<1> QED BY <1>2, <1>3, <1>4 DEF TasksTyped, TypeOK

LEMMA AcceptTyped ==
    ASSUME TypeOK, NEW j \in Jobs, NEW s \in WorkloadStates, pc[j] # "stopwait",
           Accept(j, s), UNCHANGED target
    PROVE  TasksTyped' /\ state' \in WorkloadStates /\ idle' \in {"recent", "soft", "hard"}
<1>1. TasksTyped'
  BY PcFacts, GotoTyped DEF Accept
<1>2. state' \in WorkloadStates /\ idle' \in {"recent", "soft", "hard"}
  BY DEF Accept, WorkloadStates, TypeOK
<1> QED BY <1>1, <1>2

LEMMA StopTyped ==
    ASSUME TypeOK, NEW t \in Tasks, pc[t] # "stopwait", BeginStop(t)
    PROVE  /\ state' \in WorkloadStates /\ TasksTyped' /\ overlapped' \in BOOLEAN
           /\ proc' \in Jobs \cup {NoProc} /\ alive' \subseteq Jobs /\ dying' \subseteq alive'
<1>1. overlapped' \in BOOLEAN
  BY DEF BeginStop, TypeOK
<1>2. CASE proc \in alive
  <2>1. /\ state' = "stopping" /\ proc' = proc /\ alive' = alive /\ dying' = dying \cup {proc}
        /\ pc' = [pc EXCEPT ![t] = "stopwait"] /\ target' = [target EXCEPT ![t] = proc]
    BY <1>2 DEF BeginStop, Goto
  <2>2. proc \in Jobs /\ proc # NoProc
    BY <1>2, TasksAssumption DEF TypeOK
  <2>3. TasksTyped'
    BY <2>1, <2>2, PcFacts, WaitTyped
  <2> QED BY <1>1, <1>2, <2>1, <2>3 DEF TypeOK, WorkloadStates
<1>3. CASE proc \notin alive
  <2>1. StopNow(t)
    BY <1>3 DEF BeginStop
  <2>2. TasksTyped'
    BY <2>1, PcFacts, GotoTyped DEF StopNow
  <2> QED BY <1>1, <2>1, <2>2 DEF StopNow, TypeOK, WorkloadStates
<1> QED BY <1>2, <1>3

LEMMA BeginStopTyped ==
    ASSUME TypeOK, NEW t \in Tasks, pc[t] # "stopwait", BeginStop(t), UNCHANGED timeVars
    PROVE  TypeOK'
BY StopTyped DEF TypeOK, TasksTyped, timeVars

LEMMA TypeStep == ASSUME TypeOK, [Next]_vars PROVE TypeOK'
<1> USE PcFacts DEF procVars, timeVars
<1>1. ASSUME NEW j \in Jobs, Request(j) PROVE TypeOK'
  <2>1. TasksTyped' /\ state' \in WorkloadStates /\ idle' \in {"recent", "soft", "hard"}
    <3>1. CASE state = "stopped"
      BY <1>1, <3>1, GotoTyped DEF Request, TypeOK, WorkloadStates
    <3>2. CASE state = "starting"
      BY <1>1, <3>2, GotoTyped DEF Request, TypeOK, WorkloadStates
    <3>3. CASE state \notin {"stopped", "starting"}
      <4>1. Accept(j, state) /\ UNCHANGED target /\ pc[j] # "stopwait"
        BY <1>1, <3>3 DEF Request
      <4> QED BY <4>1, AcceptTyped DEF TypeOK
    <3> QED BY <3>1, <3>2, <3>3
  <2> QED BY <1>1, <2>1 DEF Request, TypeOK, TasksTyped
<1>2. ASSUME NEW j \in Jobs, WaitOver(j) PROVE TypeOK'
  <2>1. TasksTyped' /\ state' \in WorkloadStates /\ idle' \in {"recent", "soft", "hard"}
    BY <1>2, AcceptTyped DEF WaitOver, TypeOK
  <2> QED BY <1>2, <2>1 DEF WaitOver, TypeOK, TasksTyped
<1>3. ASSUME NEW j \in Jobs, Spawned(j) PROVE TypeOK'
  <2>1. TasksTyped'
    BY <1>3, GotoTyped DEF Spawned
  <2> QED BY <1>3, <2>1 DEF Spawned, TypeOK, TasksTyped
<1>4. ASSUME NEW j \in Jobs, SpawnFails(j) PROVE TypeOK'
  <2>1. TasksTyped' /\ state' \in WorkloadStates /\ idle' \in {"recent", "soft", "hard"}
    BY <1>4, AcceptTyped DEF SpawnFails, WorkloadStates
  <2> QED BY <1>4, <2>1 DEF SpawnFails, TypeOK, TasksTyped
<1>5. ASSUME NEW j \in Jobs, BecomesReady(j) PROVE TypeOK'
  <2>1. TasksTyped' /\ state' \in WorkloadStates /\ idle' \in {"recent", "soft", "hard"}
    BY <1>5, AcceptTyped DEF BecomesReady, WorkloadStates
  <2> QED BY <1>5, <2>1 DEF BecomesReady, TypeOK, TasksTyped
<1>6. ASSUME NEW j \in Jobs, NeverReady(j) PROVE TypeOK'
  BY <1>6, BeginStopTyped DEF NeverReady
<1>7. ASSUME NEW j \in Jobs, JobEnds(j) PROVE TypeOK'
  <2>1. TasksTyped'
    BY <1>7, GotoTyped DEF JobEnds
  <2> QED BY <1>7, <2>1 DEF JobEnds, TypeOK, TasksTyped, WorkloadStates
<1>8. ASSUME NEW p \in Jobs, ProcessExits(p) PROVE TypeOK'
  <2> DEFINE W == {t \in Tasks : pc[t] = "stopwait" /\ target[t] = p}
  <2>1. CASE W = {}
    BY <1>8, <2>1 DEF ProcessExits, TypeOK
  <2>2. CASE W # {}
    <3>1. /\ state' = "stopped" /\ proc' = NoProc
          /\ pc' = [t \in Tasks |-> IF t \in W THEN Rest(t) ELSE pc[t]]
          /\ target' = [t \in Tasks |-> IF t \in W THEN NoProc ELSE target[t]]
      BY <1>8, <2>2 DEF ProcessExits
    <3>2. \A t \in Tasks : pc'[t] \in Pcs(t) /\ (pc'[t] = "stopwait" <=> target'[t] # NoProc)
      BY <3>1 DEF TypeOK
    <3>3. pc' \in [Tasks -> UNION {Pcs(t) : t \in Tasks}]
      BY <3>1, <3>2
    <3>4. target' \in [Tasks -> Jobs \cup {NoProc}]
      BY <3>1 DEF TypeOK
    <3> QED BY <1>8, <3>1, <3>2, <3>3, <3>4 DEF ProcessExits, TypeOK, WorkloadStates
  <2> QED BY <2>1, <2>2
<1>9. ASSUME NEW p \in Jobs, ProcessCrashes(p) PROVE TypeOK'
  BY <1>9 DEF ProcessCrashes, TypeOK
<1>10. ASSUME NEW s \in Stops, StopRequest(s) PROVE TypeOK'
  BY <1>10, BeginStopTyped DEF StopRequest
<1>11. ASSUME NEW t \in Tasks, KillAfterTimeout(t) PROVE TypeOK'
  <2>1. CASE proc \notin alive
    <3>1. TasksTyped'
      BY <1>11, <2>1, WaitTyped DEF KillAfterTimeout, Goto
    <3> QED BY <1>11, <2>1, <3>1 DEF KillAfterTimeout, TypeOK, TasksTyped
  <2>2. CASE proc \in alive
    <3>1. proc \in Jobs /\ proc # NoProc
      BY <2>2, TasksAssumption DEF TypeOK
    <3>2. pc' = [pc EXCEPT ![t] = "stopwait"]
      BY <1>11, <2>2 DEF KillAfterTimeout, TypeOK
    <3>3. target' = [target EXCEPT ![t] = proc]
      BY <1>11, <2>2 DEF KillAfterTimeout
    <3>4. TasksTyped'
      BY <3>1, <3>2, <3>3, WaitTyped
    <3> QED BY <1>11, <2>2, <3>4 DEF KillAfterTimeout, TypeOK, TasksTyped
  <2> QED BY <2>1, <2>2
<1>12. CASE TimePasses
  BY <1>12 DEF TimePasses, TypeOK
<1>13. CASE IdleCheck
  <2>1. CASE UNCHANGED <<state, procVars, pc, target, overlapped>>
    BY <1>13, <2>1 DEF IdleCheck, TypeOK
  <2>2. CASE BeginStop(IdleLoop)
    <3>1. due' \in BOOLEAN /\ idle' = idle /\ pc[IdleLoop] # "stopwait"
      BY <1>13 DEF IdleCheck
    <3>2. /\ state' \in WorkloadStates /\ TasksTyped' /\ overlapped' \in BOOLEAN
          /\ proc' \in Jobs \cup {NoProc} /\ alive' \subseteq Jobs /\ dying' \subseteq alive'
      BY <2>2, <3>1, StopTyped
    <3> QED BY <3>1, <3>2 DEF TypeOK, TasksTyped
  <2>3. CASE /\ Goto(IdleLoop, "freeing")
             /\ UNCHANGED <<state, procVars, target, overlapped>>
    <3>1. TasksTyped'
      BY <1>13, <2>3, GotoTyped DEF IdleCheck
    <3> QED BY <1>13, <2>3, <3>1 DEF IdleCheck, TypeOK, TasksTyped
  <2> QED BY <1>13, <2>1, <2>2, <2>3 DEF IdleCheck
<1>14. CASE Freed
  <2>1. TasksTyped'
    BY <1>14, GotoTyped DEF Freed
  <2> QED BY <1>14, <2>1 DEF Freed, TypeOK, TasksTyped
<1>15. ASSUME NEW j \in Jobs, StartBreaksOff(j) PROVE TypeOK'
  <2>1. TasksTyped'
    BY <1>15, GotoTyped DEF StartBreaksOff
  <2> QED BY <1>15, <2>1 DEF StartBreaksOff, TypeOK, TasksTyped
<1>16. CASE UNCHANGED vars
  BY <1>16 DEF vars, TypeOK
<1> QED BY <1>1, <1>2, <1>3, <1>4, <1>5, <1>6, <1>7, <1>8, <1>9, <1>10, <1>11, <1>12,
           <1>13, <1>14, <1>15, <1>16 DEF Next, Job

LEMMA TypeInit == Init => TypeOK
<1> SUFFICES ASSUME Init PROVE TypeOK
  OBVIOUS
<1>1. \A t \in Tasks : pc[t] \in Pcs(t) /\ target[t] = NoProc /\ pc[t] # "stopwait"
  BY DEF Init, Pcs
<1>2. pc \in [Tasks -> UNION {Pcs(t) : t \in Tasks}]
  BY <1>1 DEF Init
<1> QED BY <1>1, <1>2 DEF Init, TypeOK, WorkloadStates

\* The types of a workload and of its tasks, for any jobs and stops.
THEOREM WorkloadsTyped == Spec => []TypeOK
BY TypeInit, TypeStep, PTL DEF Spec

-----------------------------------------------------------------------------
(* The inductive invariant.                                                *)

Kept == WaitsForDying /\ (~overlapped => SingleFlight)

LEMMA PcAfter ==
    ASSUME TypeOK, NEW t \in Tasks, NEW w, Goto(t, w)
    PROVE  \A u \in Tasks : pc'[u] = IF u = t THEN w ELSE pc[u]
BY DEF Goto, TypeOK

\* A step that only moves a task out of a start, or elsewhere but into one.
LEMMA MoveKeeps ==
    ASSUME IInv, NEW t \in Tasks, NEW w, w \notin {"spawn", "polling", "stopwait"},
           pc[t] # "stopwait", Goto(t, w), UNCHANGED <<procVars, target, overlapped>>,
           state' = "stopped" => state = "stopped"
    PROVE  Kept'
<1>1. \A u \in Tasks : pc'[u] = IF u = t THEN w ELSE pc[u]
  BY PcAfter DEF IInv
<1>2. Starters' \subseteq Starters /\ Waiting' = Waiting
  BY <1>1, PcFacts DEF Starters, Waiting
<1>3. WaitsForDying'
  BY <1>2 DEF IInv, WaitsForDying, procVars
<1>4. ASSUME ~overlapped PROVE SingleFlight'
  <2>1. OneStarter' /\ StartersAlone'
    BY <1>2, <1>4 DEF IInv, SingleFlight, OneStarter, StartersAlone
  <2>2. SpawnsFirst'
    BY <1>1, <1>4, PcFacts DEF IInv, SingleFlight, SpawnsFirst, procVars
  <2> QED BY <1>4, <2>1, <2>2 DEF IInv, SingleFlight, procVars
<1> QED BY <1>3, <1>4 DEF Kept

LEMMA AcceptKeeps ==
    ASSUME IInv, NEW j \in Jobs, NEW s, pc[j] # "stopwait", Accept(j, s),
           s = "stopped" => state = "stopped", UNCHANGED <<procVars, target, overlapped>>
    PROVE  Kept'
BY MoveKeeps, PcFacts DEF Accept

\* stop() waits for the only process, or finds that there is none; it leaves
\* no start under way that it does not record.
LEMMA StopKeeps ==
    ASSUME IInv, NEW t \in Tasks, pc[t] # "stopwait", BeginStop(t)
    PROVE  Kept'
<1>0. overlapped' = (overlapped \/ \E j \in Jobs \ {t} : pc[j] \in {"spawn", "polling"})
  BY DEF BeginStop
<1>1. CASE proc \in alive
  <2>1. /\ state' = "stopping" /\ proc' = proc /\ alive' = alive /\ dying' = dying \cup {proc}
        /\ Goto(t, "stopwait") /\ target' = [target EXCEPT ![t] = proc]
    BY <1>1 DEF BeginStop
  <2>2. \A u \in Tasks : pc'[u] = IF u = t THEN "stopwait" ELSE pc[u]
    BY <2>1, PcAfter DEF IInv
  <2>3. \A u \in Tasks : target'[u] = IF u = t THEN proc ELSE target[u]
    BY <2>1 DEF IInv, TypeOK
  <2>4. WaitsForDying'
    BY <2>1, <2>2, <2>3 DEF IInv, WaitsForDying, Waiting
  <2>5. ASSUME ~overlapped' PROVE SingleFlight'
    <3>1. Starters' = {}
      BY <1>0, <2>2, <2>5, PcFacts DEF Starters
    <3> QED BY <1>0, <2>1, <2>5, <3>1
            DEF IInv, SingleFlight, OneStarter, StartersAlone, SpawnsFirst, Starters
  <2> QED BY <2>4, <2>5 DEF Kept
<1>2. CASE proc \notin alive
  <2>1. StopNow(t)
    BY <1>2 DEF BeginStop
  <2>2. \A u \in Tasks : pc'[u] = IF u = t THEN Rest(t) ELSE pc[u]
    BY <2>1, PcAfter DEF StopNow, IInv
  <2>3. WaitsForDying'
    <3>1. Waiting' \subseteq Waiting
      BY <2>2, PcFacts DEF Waiting
    <3> QED BY <2>1, <3>1 DEF StopNow, IInv, WaitsForDying
  <2>4. ASSUME ~overlapped' PROVE SingleFlight'
    <3>1. Starters' = {}
      BY <1>0, <2>2, <2>4, PcFacts DEF Starters
    <3>2. alive' = {}
      BY <1>0, <1>2, <2>1, <2>4 DEF StopNow, IInv, SingleFlight
    <3> QED BY <3>1, <3>2 DEF SingleFlight, OneStarter, StartersAlone, SpawnsFirst
  <2> QED BY <2>3, <2>4 DEF Kept
<1> QED BY <1>1, <1>2

LEMMA RequestKeeps == ASSUME IInv, NEW j \in Jobs, Request(j) PROVE Kept'
<1>1. CASE state = "stopped"
  <2>1. /\ state' = "starting" /\ UNCHANGED <<procVars, target, overlapped>>
        /\ Goto(j, "spawn") /\ pc[j] = "new"
    BY <1>1 DEF Request
  <2>2. \A u \in Tasks : pc'[u] = IF u = j THEN "spawn" ELSE pc[u]
    BY <2>1, PcAfter, PcFacts DEF IInv
  <2>3. Waiting' = Waiting
    BY <2>1, <2>2 DEF Waiting
  <2>4. WaitsForDying'
    BY <2>1, <2>3 DEF IInv, WaitsForDying, procVars
  <2>5. ASSUME ~overlapped PROVE SingleFlight'
    <3>1. alive = {} /\ Starters = {}
      BY <1>1, <2>5 DEF IInv, SingleFlight, StartersAlone
    <3>2. Starters' = {j}
      BY <2>2, <3>1, PcFacts DEF Starters
    <3>3. Waiting = {}
      BY <3>1 DEF IInv, TypeOK, WaitsForDying
    <3> QED BY <2>1, <2>3, <3>1, <3>2, <3>3
            DEF SingleFlight, OneStarter, StartersAlone, SpawnsFirst, procVars
  <2> QED BY <2>1, <2>4, <2>5 DEF Kept
<1>2. CASE state = "starting"
  BY <1>2, MoveKeeps, PcFacts DEF Request
<1>3. CASE state \notin {"stopped", "starting"}
  <2>1. Accept(j, state) /\ pc[j] # "stopwait" /\ UNCHANGED <<procVars, target, overlapped>>
    BY <1>3 DEF Request
  <2> QED BY <2>1, AcceptKeeps
<1> QED BY <1>1, <1>2, <1>3

\* The process of a start is the first one, because its workload was stopped.
LEMMA SpawnedKeeps == ASSUME IInv, NEW j \in Jobs, Spawned(j) PROVE Kept'
<1>1. \A u \in Tasks : pc'[u] = IF u = j THEN "polling" ELSE pc[u]
  BY PcAfter, PcFacts DEF IInv, Spawned
<1>2. Starters' = Starters /\ Waiting' = Waiting /\ j \in Starters
  BY <1>1, PcFacts DEF Spawned, Starters, Waiting
<1>3. WaitsForDying'
  BY <1>2 DEF IInv, WaitsForDying, Spawned
<1>4. ASSUME ~overlapped PROVE SingleFlight'
  <2>1. alive' = {j} /\ proc' = j
    BY <1>4 DEF IInv, SingleFlight, SpawnsFirst, Spawned
  <2>2. state' # "stopped" /\ Waiting' = {}
    BY <1>2, <1>4 DEF IInv, SingleFlight, StartersAlone, Spawned
  <2>3. SpawnsFirst'
    <3>1. \A i \in Jobs : pc'[i] # "spawn"
      BY <1>1, <1>2, <1>4, PcFacts DEF IInv, SingleFlight, OneStarter, Starters
    <3> QED BY <3>1 DEF SpawnsFirst
  <2> QED BY <1>2, <1>4, <2>1, <2>2, <2>3
          DEF IInv, SingleFlight, OneStarter, StartersAlone
<1> QED BY <1>3, <1>4 DEF Kept, Spawned

LEMMA ExitKeeps == ASSUME IInv, NEW p \in Jobs, ProcessExits(p) PROVE Kept'
<1> DEFINE W == {t \in Tasks : pc[t] = "stopwait" /\ target[t] = p}
<1>1. alive' = alive \ {p} /\ dying' = dying \ {p} /\ p \in alive /\ overlapped' = overlapped
  BY DEF ProcessExits, IInv, TypeOK
<1>2. \A t \in Tasks : /\ pc'[t] = IF t \in W THEN Rest(t) ELSE pc[t]
                       /\ t \notin W => target'[t] = target[t]
  BY DEF ProcessExits
<1>3. Waiting' = Waiting \ W /\ Starters' = Starters
  BY <1>2, PcFacts DEF Waiting, Starters
<1>4. WaitsForDying'
  BY <1>1, <1>2, <1>3 DEF IInv, WaitsForDying, Waiting
<1>5. ASSUME ~overlapped PROVE SingleFlight'
  <2>1. alive' = {}
    BY <1>1, <1>5 DEF IInv, SingleFlight
  <2>2. StartersAlone'
    <3>1. Starters # {} => W = {}
      BY <1>5 DEF IInv, SingleFlight, StartersAlone, Waiting
    <3>2. W = {} => state' = state
      BY DEF ProcessExits
    <3> QED BY <1>3, <1>5, <3>1, <3>2 DEF IInv, SingleFlight, StartersAlone
  <2> QED BY <1>3, <1>5, <2>1, <2>2 DEF IInv, SingleFlight, OneStarter, SpawnsFirst
<1> QED BY <1>1, <1>4, <1>5 DEF Kept

LEMMA KillKeeps == ASSUME IInv, NEW t \in Tasks, KillAfterTimeout(t) PROVE Kept'
<1>1. UNCHANGED <<state, proc, alive, overlapped>> /\ dying \subseteq dying' /\ pc[t] = "stopwait"
  BY DEF KillAfterTimeout
<1>2. /\ \A u \in Tasks : pc'[u] = pc[u] \/ (u = t /\ pc'[u] = Rest(t))
      /\ \A u \in Waiting' : target'[u] = target[u] \/ target'[u] \in dying'
  <2>1. CASE proc \notin alive
    <3>1. \A u \in Tasks : /\ pc'[u] = IF u = t THEN Rest(t) ELSE pc[u]
                           /\ target'[u] = IF u = t THEN NoProc ELSE target[u]
      BY <2>1 DEF KillAfterTimeout, Goto, IInv, TypeOK
    <3> QED BY <3>1, PcFacts DEF Waiting
  <2>2. CASE proc \in alive
    <3>1. pc' = pc /\ dying' = dying \cup {proc}
      BY <2>2 DEF KillAfterTimeout
    <3>2. \A u \in Tasks : target'[u] = IF u = t THEN proc ELSE target[u]
      BY <2>2 DEF KillAfterTimeout, IInv, TypeOK
    <3> QED BY <3>1, <3>2 DEF Waiting
  <2> QED BY <2>1, <2>2
<1>3. Waiting' \subseteq Waiting /\ Starters' = Starters
  BY <1>1, <1>2, PcFacts DEF Waiting, Starters
<1>4. WaitsForDying'
  BY <1>1, <1>2, <1>3 DEF IInv, WaitsForDying
<1>5. ASSUME ~overlapped PROVE SingleFlight'
  <2>1. SpawnsFirst'
    BY <1>1, <1>2, <1>5, PcFacts DEF IInv, SingleFlight, SpawnsFirst
  <2> QED BY <1>1, <1>3, <1>5, <2>1 DEF IInv, SingleFlight, OneStarter, StartersAlone
<1> QED BY <1>1, <1>4, <1>5 DEF Kept

LEMMA KeptStep == ASSUME IInv, [Next]_vars PROVE Kept'
<1>1. ASSUME NEW j \in Jobs, Request(j) PROVE Kept'
  BY <1>1, RequestKeeps
<1>2. ASSUME NEW j \in Jobs, Job(j) PROVE Kept'
  <2>1. CASE WaitOver(j)
    BY <2>1, AcceptKeeps DEF WaitOver
  <2>2. CASE Spawned(j)
    BY <2>2, SpawnedKeeps
  <2>3. CASE SpawnFails(j)
    BY <2>3, AcceptKeeps DEF SpawnFails
  <2>7. CASE StartBreaksOff(j)
    BY <2>7, MoveKeeps, PcFacts DEF StartBreaksOff
  <2>4. CASE BecomesReady(j)
    BY <2>4, AcceptKeeps DEF BecomesReady
  <2>5. CASE NeverReady(j)
    BY <2>5, StopKeeps, PcFacts DEF NeverReady
  <2>6. CASE JobEnds(j)
    BY <2>6, MoveKeeps, PcFacts DEF JobEnds
  <2> QED BY <1>2, <2>1, <2>2, <2>3, <2>4, <2>5, <2>6, <2>7 DEF Job
<1>3. ASSUME NEW p \in Jobs, ProcessExits(p) PROVE Kept'
  BY <1>3, ExitKeeps
<1>4. ASSUME NEW p \in Jobs, ProcessCrashes(p) PROVE Kept'
  BY <1>4 DEF ProcessCrashes, IInv, Kept, WaitsForDying, SingleFlight, OneStarter,
     StartersAlone, SpawnsFirst, Starters, Waiting
<1>5. ASSUME NEW s \in Stops, StopRequest(s) PROVE Kept'
  BY <1>5, StopKeeps, PcFacts DEF StopRequest
<1>6. ASSUME NEW t \in Tasks, KillAfterTimeout(t) PROVE Kept'
  BY <1>6, KillKeeps
<1>7. CASE UNCHANGED <<state, procVars, pc, target, overlapped>>
  BY <1>7 DEF procVars, IInv, Kept, WaitsForDying, SingleFlight, OneStarter,
     StartersAlone, SpawnsFirst, Starters, Waiting
<1>8. CASE IdleCheck
  <2>1. CASE BeginStop(IdleLoop)
    BY <1>8, <2>1, StopKeeps, PcFacts DEF IdleCheck
  <2>2. CASE Goto(IdleLoop, "freeing") /\ UNCHANGED <<state, procVars, target, overlapped>>
    BY <1>8, <2>2, MoveKeeps, PcFacts DEF IdleCheck
  <2> QED BY <1>7, <1>8, <2>1, <2>2 DEF IdleCheck
<1>9. CASE Freed
  BY <1>9, MoveKeeps, PcFacts DEF Freed
<1> QED BY <1>1, <1>2, <1>3, <1>4, <1>5, <1>6, <1>7, <1>8, <1>9
        DEF Next, TimePasses, vars, timeVars

LEMMA InvInit == Init => IInv
<1> SUFFICES ASSUME Init PROVE IInv
  OBVIOUS
<1>1. Starters = {} /\ Waiting = {}
  BY PcFacts DEF Init, Starters, Waiting
<1>2. SpawnsFirst
  BY DEF Init, SpawnsFirst
<1> QED BY <1>1, <1>2, TypeInit DEF IInv, WaitsForDying, SingleFlight, OneStarter, StartersAlone, Init

\* The inductive invariant of a workload.
THEOREM WorkloadsInv == Spec => []IInv
<1>1. IInv /\ [Next]_vars => IInv'
  BY TypeStep, KeptStep DEF IInv, Kept
<1> QED BY <1>1, InvInit, PTL DEF Spec

\* ensure_started (manager.py) starts a stopped workload only, so that there is
\* one process, and the workload holds its handle; a stop that cut into a start
\* is excepted.
THEOREM OneProcessAlways == Spec => []OneProcess
<1>1. IInv => OneProcess
  BY DEF IInv, SingleFlight, OneProcess
<1> QED BY <1>1, WorkloadsInv, PTL

\* base.py:115-117: a stopped workload holds no process, with that exception.
THEOREM StoppedHoldsNothingAlways == Spec => []StoppedHoldsNothing
<1>1. IInv => StoppedHoldsNothing
  BY DEF IInv, SingleFlight, StoppedHoldsNothing
<1> QED BY <1>1, WorkloadsInv, PTL
-----------------------------------------------------------------------------
(* The voices of the second workload.                                      *)

\* A registration that reached the worker, or is over.
Sent == {"registering", "over"}

TasksMapped == pc = [t \in Tasks |-> pc[t]] /\ voices \in [Jobs -> SUBSET Jobs] /\ asked \subseteq Jobs

\* Only the second workload has voices.
VoicesHosted == hosted = "openvoice" \/ (asked = {} /\ \A w \in Jobs : voices[w] = {})

\* A voice is registered once: it is asked for or registered, and by one worker.
VoicesOnce ==
    /\ \A j \in asked : pc[j] \in Sent
    /\ \A w \in Jobs : \A v \in voices[w] :
           pc[v] \in Sent /\ v \notin asked /\ \A u \in Jobs : v \in voices[u] => u = w

VoiceInv == TasksMapped /\ VoicesHosted /\ VoicesOnce /\ VoicesHaveFiles

\* pc' is pc, but for calls that are not sent yet and stops that wait.
PcGoesOn ==
    /\ pc' = [t \in Tasks |-> pc'[t]]
    /\ \A j \in Jobs : pc[j] \in Sent => pc'[j] \in Sent

LEMMA GotoGoesOn ==
    ASSUME TasksMapped, NEW t, NEW where, Goto(t, where),
           t \in Jobs => pc[t] \notin Sent \/ where \in Sent
    PROVE  PcGoesOn
<1>1. Jobs \subseteq Tasks
  BY DEF Tasks
<1> QED BY <1>1 DEF Goto, TasksMapped, PcGoesOn

\* Steps of tasks and processes that do not reach the worker's voices.
LEMMA VoicesStay ==
    ASSUME VoiceInv, PcGoesOn, UNCHANGED voiceVars, hosted = "comfyui" \/ alive \subseteq alive'
    PROVE  VoiceInv'
<1>1. TasksMapped'
  BY DEF VoiceInv, TasksMapped, PcGoesOn, voiceVars
<1>2. VoicesHosted'
  BY DEF VoiceInv, VoicesHosted, voiceVars
<1>3. VoicesOnce'
  BY DEF VoiceInv, VoicesOnce, TasksMapped, PcGoesOn, voiceVars
<1>4. VoicesHaveFiles'
  BY DEF VoiceInv, VoicesHosted, VoicesHaveFiles, voiceVars
<1> QED BY <1>1, <1>2, <1>3, <1>4 DEF VoiceInv

\* A call is admitted: a registration is asked for once.
LEMMA AdmitKeepsVoices ==
    ASSUME VoiceInv, hosted = "openvoice", NEW j \in Jobs, NEW s, Admit(j, s), pc[j] \notin Sent,
           UNCHANGED <<alive, hosted, voices, embeddings>>
    PROVE  VoiceInv'
<1>0. TasksMapped /\ VoicesOnce /\ VoicesHaveFiles /\ Jobs \subseteq Tasks
  BY DEF VoiceInv, Tasks
<1>1. \/ asked' = asked /\ \E where : Goto(j, where)
      \/ asked' = asked \cup {j} /\ Goto(j, "registering")
  BY DEF Admit, StartsWorker
<1>2. PcGoesOn
  BY <1>1, <1>0, GotoGoesOn
<1>3. TasksMapped'
  BY <1>0, <1>1, <1>2 DEF TasksMapped, PcGoesOn
<1>4. VoicesOnce'
  <2>1. ASSUME NEW i \in asked' PROVE pc'[i] \in Sent
    <3>1. CASE i \in asked
      BY <1>0, <1>2, <3>1 DEF VoicesOnce, TasksMapped, PcGoesOn
    <3>2. CASE i \notin asked
      <4>1. i = j /\ Goto(j, "registering")
        BY <1>1, <2>1, <3>2
      <4>2. pc'[j] = "registering"
        BY <1>0, <4>1 DEF Goto, TasksMapped
      <4> QED BY <4>1, <4>2 DEF Sent
    <3> QED BY <3>1, <3>2
  <2>2. ASSUME NEW w \in Jobs, NEW v \in voices'[w]
        PROVE  pc'[v] \in Sent /\ v \notin asked' /\ \A u \in Jobs : v \in voices'[u] => u = w
    <3>1. v \in voices[w] /\ v \in Jobs /\ pc[v] \in Sent /\ v \notin asked /\ v # j
      BY <1>0, <2>2 DEF VoicesOnce, TasksMapped
    <3> QED BY <1>0, <1>1, <1>2, <3>1 DEF VoicesOnce, PcGoesOn
  <2> QED BY <2>1, <2>2 DEF VoicesOnce
<1> QED BY <1>0, <1>3, <1>4 DEF VoiceInv, VoicesHosted, VoicesHaveFiles

\* A request leaves the worker's queue, and its voice may be registered.
LEMMA RegistersKeepsVoices ==
    ASSUME VoiceInv, NEW w \in Jobs, NEW j \in Jobs, Registers(w, j)
    PROVE  VoiceInv'
<1>0. TasksMapped /\ VoicesOnce /\ VoicesHaveFiles /\ Jobs \subseteq Tasks
  BY DEF VoiceInv, Tasks
<1>1. w \in alive /\ j \in asked /\ asked' = asked \ {j} /\ UNCHANGED <<alive, hosted>>
  BY DEF Registers, WorkerUnchanged, procVars
<1>2. PcGoesOn
  BY <1>0 DEF Registers, Answered, PcGoesOn, TasksMapped, Sent
<1>3. \/ UNCHANGED <<voices, embeddings>>
      \/ embeddings' = embeddings \cup {j} /\ voices' = [voices EXCEPT ![w] = @ \cup {j}]
  BY DEF Registers
<1>4. TasksMapped' /\ VoicesHosted'
  BY <1>0, <1>1, <1>2, <1>3 DEF VoiceInv, TasksMapped, PcGoesOn, VoicesHosted
<1>5. \A u \in Jobs : \A v \in voices'[u] : v \in voices[u] \/ (u = w /\ v = j)
  BY <1>0, <1>3 DEF TasksMapped
<1>6. VoicesOnce'
  <2>1. ASSUME NEW i \in asked' PROVE pc'[i] \in Sent
    BY <1>0, <1>1, <1>2, <2>1 DEF VoicesOnce, TasksMapped, PcGoesOn
  <2>2. ASSUME NEW u \in Jobs, NEW v \in voices'[u]
        PROVE  pc'[v] \in Sent /\ v \notin asked' /\ \A x \in Jobs : v \in voices'[x] => x = u
    <3>1. v \in Jobs /\ pc[v] \in Sent /\ v \notin asked'
      BY <1>0, <1>1, <1>5, <2>2 DEF VoicesOnce, TasksMapped
    <3>2. \A x \in Jobs : v \in voices'[x] => x = u
      BY <1>0, <1>1, <1>5, <2>2 DEF VoicesOnce
    <3> QED BY <1>2, <3>1, <3>2 DEF PcGoesOn
  <2> QED BY <2>1, <2>2 DEF VoicesOnce
<1>7. VoicesHaveFiles'
  <2> SUFFICES ASSUME NEW u \in Jobs, NEW v \in voices'[u] PROVE u \in alive /\ v \in embeddings'
    BY <1>1 DEF VoicesHaveFiles
  <2> QED BY <1>0, <1>1, <1>3, <1>5 DEF VoicesHaveFiles, TasksMapped
<1> QED BY <1>4, <1>6, <1>7 DEF VoiceInv

LEMMA DeletesKeepsVoices ==
    ASSUME VoiceInv, NEW w \in Jobs, NEW v \in Jobs, DeletesVoice(w, v)
    PROVE  VoiceInv'
<1>0. TasksMapped /\ VoicesOnce /\ VoicesHaveFiles /\ VoicesHosted
  BY DEF VoiceInv
<1>1. /\ v \in voices[w] /\ voices' = [voices EXCEPT ![w] = @ \ {v}]
      /\ embeddings \ {v} \subseteq embeddings'
      /\ UNCHANGED <<alive, hosted, pc, asked>>
  BY DEF DeletesVoice, WorkerUnchanged, procVars
<1>2. \A u \in Jobs : voices'[u] \subseteq voices[u] /\ (u = w => v \notin voices'[u])
  BY <1>0, <1>1 DEF TasksMapped
<1>3. TasksMapped' /\ VoicesHosted'
  BY <1>0, <1>1, <1>2 DEF TasksMapped, VoicesHosted
<1>4. VoicesOnce'
  BY <1>0, <1>1, <1>2 DEF VoicesOnce
<1>5. VoicesHaveFiles'
  <2> SUFFICES ASSUME NEW u \in Jobs, NEW x \in voices'[u] PROVE u \in alive /\ x \in embeddings'
    BY <1>1 DEF VoicesHaveFiles
  <2>1. x # v
    BY <1>0, <1>1, <1>2 DEF VoicesOnce
  <2> QED BY <1>0, <1>1, <1>2, <2>1 DEF VoicesHaveFiles
<1> QED BY <1>3, <1>4, <1>5 DEF VoiceInv

\* A worker that exits or crashes takes its voices with it.
LEMMA LosingKeepsVoices ==
    ASSUME VoiceInv, NEW w \in Jobs, LosesVoices(w), PcGoesOn, alive \ {w} \subseteq alive'
    PROVE  VoiceInv'
<1>0. TasksMapped /\ VoicesOnce /\ VoicesHaveFiles /\ VoicesHosted
  BY DEF VoiceInv
<1>1. /\ voices' = [voices EXCEPT ![w] = {}]
      /\ asked' \subseteq asked /\ embeddings \subseteq embeddings' /\ hosted' = hosted
  BY DEF LosesVoices
<1>2. \A u \in Jobs : voices'[u] \subseteq voices[u] /\ voices'[w] = {}
  BY <1>0, <1>1 DEF TasksMapped
<1>3. TasksMapped' /\ VoicesHosted'
  BY <1>0, <1>1, <1>2 DEF TasksMapped, VoicesHosted, PcGoesOn
<1>4. VoicesOnce'
  <2>1. \A j \in asked' : pc'[j] \in Sent
    BY <1>0, <1>1 DEF VoicesOnce, TasksMapped, PcGoesOn
  <2>2. ASSUME NEW u \in Jobs, NEW v \in voices'[u]
        PROVE  pc'[v] \in Sent /\ v \notin asked' /\ \A x \in Jobs : v \in voices'[x] => x = u
    BY <1>0, <1>1, <1>2, <2>2 DEF VoicesOnce, TasksMapped, PcGoesOn
  <2> QED BY <2>1, <2>2 DEF VoicesOnce
<1>5. VoicesHaveFiles'
  BY <1>0, <1>1, <1>2 DEF VoicesHaveFiles
<1> QED BY <1>3, <1>4, <1>5 DEF VoiceInv

LEMMA GivingUpKeepsVoices == ASSUME VoiceInv, NEW j \in Jobs, GivesUp(j) PROVE VoiceInv'
<1>0. TasksMapped /\ VoicesOnce /\ VoicesHaveFiles /\ VoicesHosted
  BY DEF VoiceInv
<1>1. asked' \subseteq asked /\ UNCHANGED <<alive, hosted, voices, embeddings>>
  BY DEF GivesUp, WorkerUnchanged, procVars
<1>2. PcGoesOn
  BY <1>0, GotoGoesOn DEF GivesUp, Sent
<1>3. TasksMapped' /\ VoicesHosted'
  BY <1>0, <1>1, <1>2 DEF TasksMapped, VoicesHosted, PcGoesOn
<1>4. VoicesOnce'
  BY <1>0, <1>1, <1>2 DEF VoicesOnce, TasksMapped, PcGoesOn
<1> QED BY <1>0, <1>1, <1>3, <1>4 DEF VoiceInv, VoicesHaveFiles

-----------------------------------------------------------------------------
(* The tasks that both workloads share.                                    *)

LEMMA StopGoesOnVoices ==
    ASSUME VoiceInv, NEW t \in Tasks, t \in Jobs => pc[t] \notin Sent, BeginStop(t)
    PROVE  PcGoesOn /\ alive' = alive
<1>1. alive' = alive /\ \E where : Goto(t, where)
  BY DEF BeginStop, StopNow
<1> QED BY <1>1, GotoGoesOn DEF VoiceInv

LEMMA KillGoesOnVoices ==
    ASSUME VoiceInv, NEW t \in Tasks, KillAfterTimeout(t)
    PROVE  PcGoesOn /\ alive' = alive
<1>1. pc[t] = "stopwait" /\ alive' = alive /\ (pc' = pc \/ \E where : Goto(t, where))
  BY DEF KillAfterTimeout
<1>2. CASE pc' = pc
  BY <1>1, <1>2 DEF PcGoesOn, VoiceInv, TasksMapped
<1>3. CASE \E where : Goto(t, where)
  BY <1>1, <1>3, GotoGoesOn DEF VoiceInv, Sent
<1> QED BY <1>1, <1>2, <1>3

LEMMA ExitGoesOnVoices ==
    ASSUME VoiceInv, NEW p \in Jobs, ProcessExits(p) \/ ProcessCrashes(p)
    PROVE  PcGoesOn /\ alive' = alive \ {p}
<1>1. alive' = alive \ {p}
  BY DEF ProcessExits, ProcessCrashes
<1>2. pc' = pc \/ \E gone : pc' = [t \in Tasks |-> IF pc[t] = "stopwait" /\ t \in gone THEN Rest(t) ELSE pc[t]]
  <2>1. CASE pc' = pc
    BY <2>1
  <2>2. CASE pc' # pc
    <3> DEFINE gone == {t \in Tasks : pc[t] = "stopwait" /\ target[t] = p}
    <3>1. pc' = [t \in Tasks |-> IF t \in gone THEN Rest(t) ELSE pc[t]]
      BY <2>2 DEF ProcessExits, ProcessCrashes
    <3>2. pc' = [t \in Tasks |-> IF pc[t] = "stopwait" /\ t \in gone THEN Rest(t) ELSE pc[t]]
      BY <3>1
    <3> HIDE DEF gone
    <3> QED BY <3>2
  <2> QED BY <2>1, <2>2
<1>3. CASE pc' = pc
  BY <1>1, <1>3 DEF PcGoesOn, VoiceInv, TasksMapped
<1>4. ASSUME NEW gone,
             pc' = [t \in Tasks |-> IF pc[t] = "stopwait" /\ t \in gone THEN Rest(t) ELSE pc[t]]
      PROVE  PcGoesOn
  BY <1>4 DEF PcGoesOn, Sent, Tasks
<1> QED BY <1>1, <1>2, <1>3, <1>4

LEMMA ImageJobGoesOn ==
    ASSUME VoiceInv, NEW j \in Jobs, Request(j) \/ Job(j)
    PROVE  PcGoesOn /\ alive \subseteq alive'
<1>1. CASE Request(j)
  <2>1. alive' = alive /\ pc[j] \notin Sent /\ \E where : Goto(j, where)
    BY <1>1 DEF Request, Accept, procVars, Sent
  <2> QED BY <2>1, GotoGoesOn DEF VoiceInv
<1>2. CASE WaitOver(j) \/ SpawnFails(j) \/ StartBreaksOff(j) \/ BecomesReady(j) \/ JobEnds(j) \/ Spawned(j)
  <2>1. alive \subseteq alive' /\ pc[j] \notin Sent /\ \E where : Goto(j, where)
    BY <1>2 DEF WaitOver, SpawnFails, StartBreaksOff, BecomesReady, JobEnds, Spawned, Accept, procVars, Sent
  <2> QED BY <2>1, GotoGoesOn DEF VoiceInv
<1>3. CASE NeverReady(j)
  BY <1>3, StopGoesOnVoices DEF NeverReady, Sent, Tasks
<1> QED BY <1>1, <1>2, <1>3 DEF Job

LEMMA IdleLoopGoesOnVoices ==
    ASSUME VoiceInv, TimePasses \/ IdleCheck \/ Freed \/ (VoiceIdleCheck /\ hosted = "openvoice")
    PROVE  PcGoesOn /\ alive' = alive
<1>0. IdleLoop \in Tasks /\ IdleLoop \notin Jobs /\ TasksMapped
  BY TasksAssumption DEF Tasks, VoiceInv
<1>1. CASE BeginStop(IdleLoop)
  BY <1>0, <1>1, StopGoesOnVoices
<1>2. CASE alive' = alive /\ (pc' = pc \/ \E where : Goto(IdleLoop, where))
  <2>1. CASE pc' = pc
    BY <1>0, <1>2, <2>1 DEF PcGoesOn, TasksMapped
  <2>2. CASE \E where : Goto(IdleLoop, where)
    BY <1>0, <1>2, <2>2, GotoGoesOn
  <2> QED BY <1>2, <2>1, <2>2
<1> QED BY <1>1, <1>2 DEF TimePasses, IdleCheck, Freed, VoiceIdleCheck, procVars

LEMMA VoiceInvInit == HostInit => VoiceInv
<1> SUFFICES ASSUME HostInit PROVE VoiceInv
  OBVIOUS
<1>1. TasksMapped
  BY DEF HostInit, Init, TasksMapped
<1> QED BY <1>1 DEF HostInit, VoiceInv, VoicesHosted, VoicesOnce, VoicesHaveFiles

LEMMA VoiceInvStep == VoiceInv /\ [HostNext]_hostVars => VoiceInv'
<1> SUFFICES ASSUME VoiceInv, [HostNext]_hostVars PROVE VoiceInv'
  OBVIOUS
<1>0. Jobs \subseteq Tasks /\ Stops \subseteq Tasks
  BY DEF Tasks
<1>1. ASSUME NEW j \in Jobs, Voice(SpeechRequest(j)) \/ Voice(VoiceRegistration(j)) PROVE VoiceInv'
  <2>0. hosted = "openvoice" /\ pc[j] \notin Sent /\ UNCHANGED <<alive, hosted, voices, embeddings>>
    BY <1>1 DEF Voice, SpeechRequest, VoiceRegistration, CallUnchanged, procVars, Sent
  <2>1. CASE Admit(j, state)
    BY <2>0, <2>1, AdmitKeepsVoices
  <2>2. CASE Goto(j, "waiting") /\ asked' = asked
    BY <2>0, <2>2, GotoGoesOn, VoicesStay DEF VoiceInv, voiceVars
  <2> QED BY <1>1, <2>1, <2>2 DEF Voice, SpeechRequest, VoiceRegistration
<1>2. ASSUME NEW j \in Jobs,
             Voice(SpeechWaitOver(j) \/ WorkerSpawnFails(j) \/ WorkerReady(j) \/ WorkerNeverReady(j))
      PROVE  VoiceInv'
  <2>0. hosted = "openvoice" /\ pc[j] \notin Sent /\ UNCHANGED <<alive, hosted, voices, embeddings>>
    BY <1>2 DEF Voice, SpeechWaitOver, WorkerSpawnFails, WorkerReady, WorkerNeverReady, CallUnchanged, procVars, Sent
  <2>1. \E s : Admit(j, s)
    BY <1>2 DEF Voice, SpeechWaitOver, WorkerSpawnFails, WorkerReady, WorkerNeverReady
  <2> QED BY <2>0, <2>1, AdmitKeepsVoices
<1>3. ASSUME NEW j \in Jobs, Voice(WorkerSpawned(j) \/ WorkerStartBreaksOff(j) \/ SpeechEnds(j)) PROVE VoiceInv'
  BY <1>3, ImageJobGoesOn, VoicesStay DEF Voice, WorkerSpawned, WorkerStartBreaksOff, SpeechEnds, Job
<1>4. ASSUME NEW j \in Jobs, Comfy(Job(j)) \/ ImageRequest(j) PROVE VoiceInv'
  BY <1>4, ImageJobGoesOn, VoicesStay DEF Comfy, ImageRequest
<1>5. ASSUME NEW p \in Jobs, Comfy(ProcessExits(p)) \/ Comfy(ProcessCrashes(p)) PROVE VoiceInv'
  BY <1>5, ExitGoesOnVoices, VoicesStay DEF Comfy
<1>6. ASSUME NEW p \in Jobs, Voice(WorkerExits(p)) \/ Voice(WorkerCrashes(p)) PROVE VoiceInv'
  BY <1>6, ExitGoesOnVoices, LosingKeepsVoices DEF Voice, WorkerExits, WorkerCrashes
<1>7. ASSUME NEW s \in Stops, StopWorkload(s) PROVE VoiceInv'
  <2>1. s \in Tasks /\ s \notin Jobs /\ BeginStop(s) /\ UNCHANGED voiceVars
    BY <1>0, <1>7, TasksAssumption DEF StopWorkload, StopRequest
  <2> QED BY <2>1, StopGoesOnVoices, VoicesStay
<1>8. ASSUME NEW t \in Tasks, StopGoesOn(t) PROVE VoiceInv'
  BY <1>8, KillGoesOnVoices, VoicesStay DEF StopGoesOn
<1>9. CASE TimeGoesOn \/ IdleLoopGoesOn
  <2>1. UNCHANGED voiceVars
    BY <1>9 DEF TimeGoesOn, IdleLoopGoesOn, Comfy, Voice, VoiceTimePasses, VoiceIdleCheck
  <2>2. TimePasses \/ IdleCheck \/ Freed \/ (VoiceIdleCheck /\ hosted = "openvoice")
    BY <1>9 DEF TimeGoesOn, IdleLoopGoesOn, Comfy, Voice, VoiceTimePasses
  <2> QED BY <2>1, <2>2, IdleLoopGoesOnVoices, VoicesStay
<1>10. ASSUME NEW j \in Jobs, GivesUp(j) PROVE VoiceInv'
  BY <1>10, GivingUpKeepsVoices
<1>11. CASE UNCHANGED hostVars
  <2>1. PcGoesOn /\ alive' = alive /\ UNCHANGED voiceVars
    BY <1>11 DEF hostVars, vars, procVars, PcGoesOn, VoiceInv, TasksMapped
  <2> QED BY <2>1, VoicesStay
<1>12. ASSUME NEW w \in Jobs, NEW j \in Jobs, Registers(w, j) \/ DeletesVoice(w, j) PROVE VoiceInv'
  BY <1>12, RegistersKeepsVoices, DeletesKeepsVoices
<1> QED
  BY <1>1, <1>2, <1>3, <1>4, <1>5, <1>6, <1>7, <1>8, <1>9, <1>10, <1>11, <1>12
  DEF HostNext, CallGoesOn, GpuProcessExits, Voice

\* A voice that is listed has its embedding on the disk and its worker lives
\* (register_voice and delete_voice of the OpenVoice worker), however
\* registrations, deletions, stops and crashes interleave.
THEOREM VoicesAlwaysHaveFiles == HostSpec => []VoicesHaveFiles
<1>1. VoiceInv => VoicesHaveFiles
  BY DEF VoiceInv
<1> QED BY <1>1, VoiceInvInit, VoiceInvStep, PTL DEF HostSpec
=============================================================================
