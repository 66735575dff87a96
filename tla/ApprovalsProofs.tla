-------------------------- MODULE ApprovalsProofs --------------------------
(***************************************************************************)
(* For any runs, asks, owners and losses of the browser: a tool call gets  *)
(* the verdict the dispatcher confirmed, and no verdict without its cause. *)
(*                                                                         *)
(* A verdict travels from a click over a request on the wire, the registry *)
(* and a callback to the future.  The invariant follows it: what is on the *)
(* wire was clicked (ClicksOnWire), what is scheduled has a cause          *)
(* (ScheduledHasCause), and an ask is registered, scheduled or settled,    *)
(* one at a time (OneVerdict).                                             *)
(***************************************************************************)
EXTENDS Approvals, SequenceTheorems, TLAPS

VerdictOf(request) == IF request.yes THEN "approved" ELSE "denied"

\* A decision on its way to the dispatcher was taken by the user.
ClicksOnWire ==
    \A n \in 1 .. Len(inbox) : inbox[n].kind = "approve" =>
        VerdictOf(inbox[n]) \in clicked[inbox[n].ask]

Caused(a, v) ==
    /\ v = "approved" => "approved" \in clicked[a]
    /\ v = "denied" => "denied" \in clicked[a] \/ Owner[a] \in stopped

\* A verdict handed to the loop has a cause already.
ScheduledHasCause == \A a \in Asks : Caused(a, scheduled[a])

Unregistered(a) == a \notin pending /\ scheduled[a] = "none" /\ future[a] = "none" /\ accepted[a] = "none"
Registered(a)   == a \in pending /\ scheduled[a] = "none" /\ future[a] = "none" /\ accepted[a] = "none"
Scheduled(a)    == a \notin pending /\ scheduled[a] = accepted[a] /\ future[a] = "none" /\ accepted[a] # "none"
Settled(a)      == a \notin pending /\ scheduled[a] = "none" /\ future[a] = accepted[a] /\ accepted[a] # "none"

\* An ask is settled once: it leaves the registry when its verdict is scheduled, and the
\* callback finds a future without a result.
OneVerdict ==
    \A a \in Asks :
        \/ ask[a] \in {"idle", "acquire", "parked", "insert", "failed"} /\ Unregistered(a)
        \/ ask[a] = "await" /\ (Registered(a) \/ Scheduled(a) \/ Settled(a))
        \/ ask[a] = "done" /\ Settled(a)

IInv == TypeOK /\ ClicksOnWire /\ ScheduledHasCause /\ VerdictHasCause /\ OneVerdict

-----------------------------------------------------------------------------
(* Types.                                                                  *)

LEMMA InitInv == Init => IInv
<1> SUFFICES ASSUME Init PROVE IInv
  OBVIOUS
<1>1. TypeOK
  BY RunsAssumption, UiLossesAssumption DEF Init, TypeOK, AskPcs, Verdicts
<1>2. ClicksOnWire
  BY DEF Init, ClicksOnWire
<1>3. ScheduledHasCause /\ VerdictHasCause /\ OneVerdict
  BY DEF Init, ScheduledHasCause, Caused, VerdictHasCause, OneVerdict, Unregistered
<1> QED BY <1>1, <1>2, <1>3 DEF IInv

LEMMA TypeStep == ASSUME TypeOK, [Next]_vars PROVE TypeOK'
<1> USE RunsAssumption, UiLossesAssumption
    DEF TypeOK, lockVars, registryVars, runVars, uiVars, wireVars, histVars, AskPcs, Verdicts, Goto
<1>1. ASSUME NEW a \in Asks, Announce(a) PROVE TypeOK'
  <2>1. [kind |-> "needed", ask |-> a] \in UiEvents
    BY DEF UiEvents
  <2> QED BY <1>1, <2>1, AppendProperties DEF Announce
<1>2. ASSUME NEW a \in Asks, Acquire(a) PROVE TypeOK'
  <2>1. Owner[a] \in Runs /\ Append(waiters, a) \in Seq(Asks)
    BY AppendProperties
  <2> QED BY <1>2, <2>1 DEF Acquire
<1>3. ASSUME NEW a \in Asks, Unpark(a) PROVE TypeOK'
  <2>1. waiters' \in Seq(Asks)
    <3>1. PICK n \in DOMAIN waiters :
              waiters' = SubSeq(waiters, 1, n - 1) \o SubSeq(waiters, n + 1, Len(waiters))
      BY <1>3 DEF Unpark
    <3>2. Len(waiters) \in Nat /\ DOMAIN waiters = 1 .. Len(waiters)
          /\ \A i \in 1 .. Len(waiters) : waiters[i] \in Asks
      BY LenProperties, ElementOfSeq
    <3>3. SubSeq(waiters, 1, n - 1) \in Seq(Asks)
      BY <3>2, SubSeqProperties
    <3>4. SubSeq(waiters, n + 1, Len(waiters)) \in Seq(Asks)
      BY <3>2, SubSeqProperties
    <3> QED BY <3>1, <3>3, <3>4, ConcatProperties
  <2> QED BY <1>3, <2>1 DEF Unpark
<1>4. ASSUME NEW a \in Asks, Register(a) PROVE TypeOK'
  <2>1. waiters # << >> => Head(waiters) \in Asks
    BY HeadTailProperties
  <2> QED BY <1>4, <2>1 DEF Register
<1>5. ASSUME NEW a \in Asks, Settle(a) PROVE TypeOK'
  BY <1>5 DEF Settle
<1>6. ASSUME NEW a \in Asks, Resume(a) PROVE TypeOK'
  <2>1. [kind |-> "resolved", ask |-> a] \in UiEvents
    BY DEF UiEvents
  <2> QED BY <1>6, <2>1, AppendProperties DEF Resume
<1>7. ASSUME NEW r \in Runs, OtherWork(r) PROVE TypeOK'
  BY <1>7 DEF OtherWork
<1>8. ASSUME NEW r \in Runs, RunEnds(r) PROVE TypeOK'
  <2>1. [kind |-> "end", run |-> r] \in UiEvents
    BY DEF UiEvents
  <2> QED BY <1>8, <2>1, AppendProperties DEF RunEnds
<1>9. ASSUME NEW r \in Runs, NEW yes \in Answers, Decide(r, yes) PROVE TypeOK'
  <2>1. slot[r] \in Asks /\ yes \in BOOLEAN
    BY <1>9 DEF Decide
  <2>2. [kind |-> "approve", ask |-> slot[r], yes |-> yes] \in Requests
    BY <2>1 DEF Requests
  <2>3. inbox' \in Seq(Requests)
    <3>1. inbox' = inbox \/ inbox' = Append(inbox, [kind |-> "approve", ask |-> slot[r], yes |-> yes])
      BY <1>9 DEF Decide
    <3>2. inbox \in Seq(Requests)
      OBVIOUS
    <3> HIDE DEF TypeOK
    <3>3. Append(inbox, [kind |-> "approve", ask |-> slot[r], yes |-> yes]) \in Seq(Requests)
      BY <2>2, <3>2, AppendProperties
    <3> QED BY <3>1, <3>2, <3>3
  <2>4. losses' \in 0 .. UiLosses /\ stranded' \subseteq Asks
    BY <1>9, <2>1 DEF Decide, Strand
  <2>5. clicked' \in [Asks -> SUBSET {"approved", "denied"}]
    BY <1>9, <2>1 DEF Decide
  <2>6. slot' \in [Runs -> Asks \cup {NoAsk}]
    BY <1>9 DEF Decide, Empty
  <2> QED BY <1>9, <2>3, <2>4, <2>5, <2>6 DEF Decide
<1>10. ASSUME NEW r \in Runs, Stop(r) PROVE TypeOK'
  <2>1. [kind |-> "cancel", run |-> r] \in Requests
    BY DEF Requests
  <2> QED BY <1>10, <2>1, AppendProperties DEF Stop
<1>11. CASE Resolve
  <2>1. Head(inbox) \in Requests /\ Tail(inbox) \in Seq(Requests)
    BY <1>11, HeadTailProperties DEF Resolve
  <2>2. Head(inbox).ask \in Asks
    BY <1>11, <2>1 DEF Resolve, Requests
  <2> QED BY <1>11, <2>1, <2>2 DEF Resolve, Schedule
<1>12. CASE DenyRun
  <2>1. Head(inbox) \in Requests /\ Tail(inbox) \in Seq(Requests)
    BY <1>12, HeadTailProperties DEF DenyRun
  <2>2. Head(inbox).run \in Runs
    BY <1>12, <2>1 DEF DenyRun, Requests
  <2> QED BY <1>12, <2>1, <2>2 DEF DenyRun, Schedule, Denied
<1>13. CASE Show
  <2>1. Head(toUi) \in UiEvents /\ Tail(toUi) \in Seq(UiEvents)
    BY <1>13, HeadTailProperties DEF Show
  <2>2. slot' \in [Runs -> Asks \cup {NoAsk}]
    <3>1. CASE Head(toUi).kind = "needed"
      <4>1. Head(toUi).ask \in Asks
        BY <2>1, <3>1 DEF UiEvents
      <4> QED BY <1>13, <3>1, <4>1 DEF Show
    <3>2. CASE Head(toUi).kind = "resolved"
      BY <1>13, <3>2 DEF Show, Empty
    <3>3. CASE Head(toUi).kind = "end"
      BY <1>13, <3>3 DEF Show, Empty
    <3> QED BY <1>13, <3>1, <3>2, <3>3 DEF Show
  <2>3. stranded' \subseteq Asks
    <3>1. Head(toUi).kind = "needed" => Head(toUi).ask \in Asks
      BY <2>1 DEF UiEvents
    <3> QED BY <1>13, <3>1 DEF Show, Strand
  <2>4. shown' \subseteq Runs
    BY <1>13 DEF Show
  <2> QED BY <1>13, <2>1, <2>2, <2>3, <2>4 DEF Show
<1>14. CASE LoseUi
  <2>1. stranded' \subseteq Asks
    BY <1>14 DEF LoseUi, Strand
  <2>2. slot' \in [Runs -> Asks \cup {NoAsk}] /\ shown' \subseteq Runs
    BY <1>14 DEF LoseUi, Empty
  <2> QED BY <1>14, <2>1, <2>2 DEF LoseUi
<1>16. ASSUME NEW r \in Runs, StopShown(r) PROVE TypeOK'
  <2>1. slot' \in [Runs -> Asks \cup {NoAsk}] /\ stranded' \subseteq Asks
    BY <1>16 DEF StopShown, Empty, Strand
  <2> QED BY <1>16, <2>1 DEF StopShown
<1>15. CASE UNCHANGED vars
  BY <1>15 DEF vars
<1> QED
  BY <1>1, <1>2, <1>3, <1>4, <1>5, <1>6, <1>7, <1>8, <1>9, <1>10, <1>11, <1>12, <1>13, <1>14, <1>15, <1>16
     DEF Next, AskStep, Dispatch, DecideAny

-----------------------------------------------------------------------------
(* The way of a verdict.                                                   *)

LEMMA ClicksStep == ASSUME IInv, [Next]_vars PROVE ClicksOnWire'
<1> USE DEF IInv, TypeOK, ClicksOnWire, lockVars, registryVars, runVars, uiVars, wireVars, histVars, VerdictOf
<1>1. CASE UNCHANGED <<inbox, clicked>>
  BY <1>1
<1>2. ASSUME NEW r \in Runs, NEW yes \in Answers, Decide(r, yes) PROVE ClicksOnWire'
  <2> DEFINE q == [kind |-> "approve", ask |-> slot[r], yes |-> yes]
  <2>1. slot[r] \in Asks /\ yes \in BOOLEAN
    BY <1>2, RunsAssumption DEF Decide
  <2>2. q \in Requests
    BY <2>1 DEF Requests
  <2>3. \A a \in Asks : clicked[a] \subseteq clicked'[a]
    BY <1>2, <2>1 DEF Decide
  <2>4. VerdictOf(q) \in clicked'[slot[r]]
    BY <1>2, <2>1 DEF Decide
  <2>5. \A n \in 1 .. Len(inbox) : inbox[n].kind = "approve" => inbox[n].ask \in Asks
    BY ElementOfSeq DEF Requests
  <2>6. \A n \in 1 .. Len(inbox) : inbox[n].kind = "approve" => VerdictOf(inbox[n]) \in clicked'[inbox[n].ask]
    BY <2>3, <2>5
  <2>7. CASE inbox' = inbox
    BY <2>6, <2>7
  <2>8. CASE inbox' = Append(inbox, q)
    BY <2>2, <2>4, <2>6, <2>8, AppendProperties
  <2> QED BY <1>2, <2>7, <2>8 DEF Decide
<1>3. ASSUME NEW r \in Runs, Stop(r) PROVE ClicksOnWire'
  <2>1. [kind |-> "cancel", run |-> r] \in Requests
    BY DEF Requests
  <2>2. inbox' = Append(inbox, [kind |-> "cancel", run |-> r]) /\ clicked' = clicked
    BY <1>3 DEF Stop
  <2> QED BY <2>1, <2>2, AppendProperties
<1>4. CASE Resolve \/ DenyRun
  <2>1. inbox' = Tail(inbox) /\ clicked' = clicked /\ inbox # << >>
    BY <1>4 DEF Resolve, DenyRun
  <2>2. Len(inbox') = Len(inbox) - 1 /\ \A i \in 1 .. Len(inbox') : inbox'[i] = inbox[i + 1]
    BY <2>1, HeadTailProperties
  <2>3. Len(inbox) \in Nat
    BY LenProperties
  <2>4. \A i \in 1 .. Len(inbox') : i + 1 \in 1 .. Len(inbox) /\ inbox'[i] = inbox[i + 1]
    BY <2>2, <2>3
  <2> HIDE DEF TypeOK
  <2> QED BY <2>1, <2>4
<1>5. ASSUME NEW a \in Asks, Announce(a) \/ AskStep(a) PROVE UNCHANGED <<inbox, clicked>>
  BY <1>5 DEF Announce, AskStep, Acquire, Unpark, Register, Settle, Resume
<1>6. ASSUME NEW r \in Runs, OtherWork(r) \/ RunEnds(r) \/ StopShown(r) PROVE UNCHANGED <<inbox, clicked>>
  BY <1>6 DEF OtherWork, RunEnds, StopShown
<1>7. Show \/ LoseUi \/ UNCHANGED vars => UNCHANGED <<inbox, clicked>>
  BY DEF Show, LoseUi, vars
<1> QED BY <1>1, <1>2, <1>3, <1>4, <1>5, <1>6, <1>7 DEF Next, Dispatch, DecideAny

\* A click and a stop are never taken back.
LEMMA CausesGrow ==
    ASSUME TypeOK, [Next]_vars
    PROVE  stopped \subseteq stopped' /\ \A a \in Asks : clicked[a] \subseteq clicked'[a]
<1> USE DEF TypeOK, lockVars, registryVars, runVars, uiVars, wireVars, histVars
<1>1. ASSUME NEW a \in Asks, Announce(a) \/ AskStep(a) PROVE UNCHANGED <<stopped, clicked>>
  BY <1>1 DEF Announce, AskStep, Acquire, Unpark, Register, Settle, Resume
<1>2. ASSUME NEW r \in Runs, OtherWork(r) \/ RunEnds(r) \/ Stop(r) \/ StopShown(r)
      PROVE  UNCHANGED <<stopped, clicked>>
  BY <1>2 DEF OtherWork, RunEnds, Stop, StopShown
<1>3. Show \/ LoseUi \/ Resolve \/ UNCHANGED vars => UNCHANGED <<stopped, clicked>>
  BY DEF Show, LoseUi, Resolve, vars
<1>4. DenyRun => stopped \subseteq stopped' /\ UNCHANGED clicked
  BY DEF DenyRun
<1>5. ASSUME NEW r \in Runs, NEW yes \in Answers, Decide(r, yes)
      PROVE  stopped \subseteq stopped' /\ \A a \in Asks : clicked[a] \subseteq clicked'[a]
  BY <1>5 DEF Decide
<1> QED BY <1>1, <1>2, <1>3, <1>4, <1>5 DEF Next, Dispatch, DecideAny

LEMMA CauseStep == ASSUME IInv, [Next]_vars PROVE ScheduledHasCause' /\ VerdictHasCause'
<1> USE DEF lockVars, registryVars, runVars, uiVars, wireVars, histVars
<1>0. \A a \in Asks, v \in Verdicts : Caused(a, v) => Caused(a, v)'
  <2>1. TypeOK
    BY DEF IInv
  <2> QED BY <2>1, CausesGrow DEF Caused
<1>a. \A a \in Asks : /\ scheduled[a] \in Verdicts /\ future[a] \in Verdicts
                      /\ Caused(a, scheduled[a]) /\ Caused(a, future[a])
  BY DEF IInv, TypeOK, ScheduledHasCause, VerdictHasCause, Caused
<1>b. SUFFICES \A a \in Asks : Caused(a, scheduled[a])' /\ Caused(a, future[a])'
  BY DEF ScheduledHasCause, VerdictHasCause, Caused
<1>1. CASE UNCHANGED <<scheduled, future>>
  BY <1>1, <1>0, <1>a DEF Caused
<1>2. ASSUME NEW a \in Asks, Settle(a) PROVE \A b \in Asks : Caused(b, scheduled[b])' /\ Caused(b, future[b])'
  <2>1. \A b \in Asks : /\ scheduled'[b] \in {"none", scheduled[b]}
                        /\ future'[b] \in {future[b], scheduled[b]}
    BY <1>2 DEF Settle, IInv, TypeOK
  <2> QED BY <2>1, <1>0, <1>a DEF Caused
<1>3. CASE Resolve
  <2> DEFINE q == Head(inbox)
  <2>1. q \in Requests /\ q = inbox[1] /\ 1 \in 1 .. Len(inbox)
    BY <1>3, HeadTailProperties, LenProperties, EmptySeq DEF Resolve, IInv, TypeOK
  <2>2. q.kind = "approve" /\ q.ask \in Asks
    BY <1>3, <2>1 DEF Resolve, Requests
  <2>3. VerdictOf(q) \in clicked[q.ask]
    BY <2>1, <2>2 DEF IInv, ClicksOnWire
  <2>4. Caused(q.ask, VerdictOf(q)) /\ VerdictOf(q) \in Verdicts
    BY <2>3 DEF Caused, VerdictOf, Verdicts
  <2>5. \A b \in Asks : /\ scheduled'[b] = scheduled[b] \/ (b = q.ask /\ scheduled'[b] = VerdictOf(q))
                        /\ future'[b] = future[b]
    BY <1>3, <2>2 DEF Resolve, Schedule, VerdictOf
  <2> QED BY <2>4, <2>5, <1>0, <1>a DEF Caused
<1>4. CASE DenyRun
  <2> DEFINE r == Head(inbox).run
  <2>1. \A b \in Asks : /\ future'[b] = future[b]
                        /\ \/ scheduled'[b] = scheduled[b]
                           \/ scheduled'[b] = "denied" /\ Owner[b] = r /\ r \in stopped'
    BY <1>4 DEF DenyRun, Schedule, Denied, AsksOf, IInv, TypeOK
  <2> QED BY <2>1, <1>0, <1>a DEF Caused
<1>5. ASSUME NEW a \in Asks, \/ Announce(a) \/ Acquire(a) \/ Unpark(a) \/ Register(a) \/ Resume(a)
      PROVE  UNCHANGED <<scheduled, future>>
  BY <1>5 DEF Announce, Acquire, Unpark, Register, Resume
<1>6. ASSUME NEW r \in Runs, OtherWork(r) \/ RunEnds(r) \/ Stop(r) \/ StopShown(r) \/ DecideAny(r)
      PROVE  UNCHANGED <<scheduled, future>>
  BY <1>6 DEF OtherWork, RunEnds, Stop, StopShown, DecideAny, Decide
<1>7. Show \/ LoseUi \/ UNCHANGED vars => UNCHANGED <<scheduled, future>>
  BY DEF Show, LoseUi, vars
<1> QED BY <1>1, <1>2, <1>3, <1>4, <1>5, <1>6, <1>7 DEF Next, AskStep, Dispatch

LEMMA OneVerdictStep == ASSUME IInv, [Next]_vars PROVE OneVerdict'
<1> USE DEF IInv, TypeOK, OneVerdict, Unregistered, Registered, Scheduled, Settled, Goto,
            lockVars, registryVars, runVars, uiVars, wireVars, histVars
<1>1. CASE UNCHANGED <<ask, pending, scheduled, future, accepted>>
  BY <1>1
<1>2. ASSUME NEW a \in Asks, Announce(a) \/ Acquire(a) \/ Unpark(a) PROVE OneVerdict'
  BY <1>2 DEF Announce, Acquire, Unpark
<1>3. ASSUME NEW a \in Asks, Register(a) PROVE OneVerdict'
  BY <1>3 DEF Register
<1>4. ASSUME NEW a \in Asks, Settle(a) PROVE OneVerdict'
  BY <1>4 DEF Settle
<1>5. ASSUME NEW a \in Asks, Resume(a) PROVE OneVerdict'
  BY <1>5 DEF Resume
<1>6. CASE Resolve
  <2> DEFINE q == Head(inbox)
  <2>1. q \in Requests
    BY <1>6, HeadTailProperties DEF Resolve
  <2>2. q.ask \in Asks
    BY <1>6, <2>1 DEF Resolve, Requests
  <2> HIDE DEF q
  <2>3. CASE q.ask \in pending
    BY <1>6, <2>2, <2>3 DEF Resolve, Schedule, q
  <2>4. CASE q.ask \notin pending
    BY <1>1, <1>6, <2>4 DEF Resolve, q
  <2> QED BY <2>3, <2>4
<1>7. CASE DenyRun
  BY <1>7 DEF DenyRun, Schedule, Denied
<1>8. ASSUME NEW r \in Runs, OtherWork(r) \/ RunEnds(r) \/ Stop(r) \/ StopShown(r) \/ DecideAny(r)
      PROVE  UNCHANGED <<ask, pending, scheduled, future, accepted>>
  BY <1>8 DEF OtherWork, RunEnds, Stop, StopShown, DecideAny, Decide
<1>9. Show \/ LoseUi \/ UNCHANGED vars => UNCHANGED <<ask, pending, scheduled, future, accepted>>
  BY DEF Show, LoseUi, vars
<1> QED BY <1>1, <1>2, <1>3, <1>4, <1>5, <1>6, <1>7, <1>8, <1>9 DEF Next, AskStep, Dispatch

LEMMA StepInv == IInv /\ [Next]_vars => IInv'
BY TypeStep, ClicksStep, CauseStep, OneVerdictStep DEF IInv

-----------------------------------------------------------------------------
\* The inductive invariant: where a verdict is on its way from the click to the future.
THEOREM ApprovalsInv == Spec => []IInv
BY InitInv, StepInv, PTL DEF Spec

\* A tool runs only after its own prompt was approved, and is denied only by a user who
\* denied it or stopped its run, whatever prompts, stops and registrations cross.
THEOREM VerdictsAlwaysOK == Spec => []VerdictsOK
<1>1. IInv => VerdictsOK
  BY DEF IInv, VerdictsOK
<1> QED BY <1>1, ApprovalsInv, PTL

\* A tool call gets the verdict that the dispatcher confirmed (approvals.py: resolve pops
\* the future, so that a decision and a stop cannot both have it).
THEOREM AcceptedAlwaysHolds == Spec => []AcceptedDecisionHolds
<1>1. IInv => AcceptedDecisionHolds
  BY DEF IInv, OneVerdict, Settled, AcceptedDecisionHolds
<1> QED BY <1>1, ApprovalsInv, PTL
=============================================================================
