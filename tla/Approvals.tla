----------------------------- MODULE Approvals -----------------------------
(***************************************************************************)
(* Human approval of tool calls, from the tool to the user and back:       *)
(*   - the ask_ui coroutines of chat.py and of the max-mode workers in     *)
(*     orchestration/coordinator.py, each on the event loop of its run;    *)
(*   - the ApprovalRegistry of approvals.py they register a future with,   *)
(*     guarded by one asyncio.Lock that all the loops share;               *)
(*   - the dispatcher thread, which resolves an approval or denies those   *)
(*     of a run that is stopped;                                           *)
(*   - the UI's runStore.ts, which has one approval slot per conversation  *)
(*     and shows it only while it believes the run active.                 *)
(*                                                                         *)
(* Nothing on this path has a timeout: a tool call waits until somebody    *)
(* settles its future.  A coroutine runs until it awaits something that is *)
(* not ready, so two asks of one run interleave only there, while another  *)
(* run's loop and the dispatcher interleave anywhere.  A conversation has  *)
(* one run at a time and is named by it.                                   *)
(***************************************************************************)
EXTENDS Naturals, Sequences

CONSTANTS
    Runs,      \* active runs, each with an event loop and a thread
    MaxMode,   \* runs whose workers use tools in parallel
    Asks,      \* gated tool calls
    Owner,     \* the run of each ask
    Answers,   \* bound: decisions the user takes, a set of BOOLEANs
    Stoppable, \* bound: runs whose Stop button is pressed
    Ending,    \* bound: runs that come to their end
    UiLosses   \* bound: times the browser loses what it knows

ASSUME RunsAssumption ==
    /\ MaxMode \subseteq Runs
    /\ Stoppable \subseteq Runs
    /\ Ending \subseteq Runs
    /\ Answers \subseteq BOOLEAN
    /\ Owner \in [Asks -> Runs]
ASSUME UiLossesAssumption == UiLosses \in Nat

NoAsk == "no ask"
NoRun == "no run"
ASSUME SentinelsAssumption == NoAsk \notin Asks /\ NoRun \notin Runs

AsksOf(r) == {a \in Asks : Owner[a] = r}

\* "acquire": the prompt is on the wire and the registry is not yet entered.
AskPcs == {"idle", "acquire", "parked", "insert", "await", "done", "failed"}
Verdicts == {"none", "approved", "denied"}
UiEvents == [kind : {"needed", "resolved"}, ask : Asks]
            \cup [kind : {"end"}, run : Runs]
Requests == [kind : {"approve"}, ask : Asks, yes : BOOLEAN]
            \cup [kind : {"cancel"}, run : Runs]

VARIABLES
    ask,        \* where each ask_ui coroutine is
    holder,     \* the ask that holds the registry's lock, or none
    waiters,    \* asks parked on the lock, oldest first
    granted,    \* parked asks whose waiter future is set
    asleep,     \* granted asks whose own loop was not woken for it
    lockLoop,   \* the run whose loop the lock got bound to
    pending,    \* approvals in the registry
    scheduled,  \* verdict given to call_soon_threadsafe, per ask
    future,     \* result of each ask's future
    stopped,    \* runs whose cancelled event is set
    ended,      \* runs that are over
    toUi,       \* events on their way to the browser
    slot,       \* the approval each conversation shows
    shown,      \* runs that the page follows as active
    inbox,      \* requests on their way to the dispatcher
    stops,      \* runs the user stopped
    losses,     \* UI losses so far
    clicked,    \* history: verdicts the user chose, per ask
    accepted,   \* history: verdict the dispatcher confirmed as resolved
    stranded    \* history: asks no decision of the user can reach any more

lockVars     == <<holder, waiters, granted, asleep, lockLoop>>
registryVars == <<pending, scheduled, future>>
runVars      == <<stopped, ended>>
uiVars       == <<slot, shown, stops, losses, clicked>>
wireVars     == <<toUi, inbox>>
histVars     == <<accepted, stranded>>
vars == <<ask, lockVars, registryVars, runVars, uiVars, wireVars, histVars>>

TypeOK ==
    /\ ask \in [Asks -> AskPcs]
    /\ holder \in Asks \cup {NoAsk}
    /\ waiters \in Seq(Asks)
    /\ granted \subseteq Asks
    /\ asleep \subseteq granted
    /\ lockLoop \in Runs \cup {NoRun}
    /\ pending \subseteq Asks
    /\ scheduled \in [Asks -> Verdicts]
    /\ future \in [Asks -> Verdicts]
    /\ stopped \subseteq Runs
    /\ ended \subseteq Runs
    /\ toUi \in Seq(UiEvents)
    /\ slot \in [Runs -> Asks \cup {NoAsk}]
    /\ shown \subseteq Runs
    /\ inbox \in Seq(Requests)
    /\ stops \subseteq Runs
    /\ losses \in 0 .. UiLosses
    /\ clicked \in [Asks -> SUBSET {"approved", "denied"}]
    /\ accepted \in [Asks -> Verdicts]
    /\ stranded \subseteq Asks

Init ==
    /\ ask = [a \in Asks |-> "idle"]
    /\ holder = NoAsk
    /\ waiters = << >>
    /\ granted = {}
    /\ asleep = {}
    /\ lockLoop = NoRun
    /\ pending = {}
    /\ scheduled = [a \in Asks |-> "none"]
    /\ future = [a \in Asks |-> "none"]
    /\ stopped = {}
    /\ ended = {}
    /\ toUi = << >>
    /\ slot = [r \in Runs |-> NoAsk]
    /\ shown = Runs
    /\ inbox = << >>
    /\ stops = {}
    /\ losses = 0
    /\ clicked = [a \in Asks |-> {}]
    /\ accepted = [a \in Asks |-> "none"]
    /\ stranded = {}

Goto(a, pc) == ask' = [ask EXCEPT ![a] = pc]
Over(a)     == ask[a] \in {"done", "failed"}
Open(a)     == ask[a] # "idle" /\ ~Over(a)

\* The loop of a run is in the middle of no other coroutine.
LoopFree(a) ==
    \A b \in AsksOf(Owner[a]) \ {a} : ask[b] \notin {"acquire", "insert"}

-----------------------------------------------------------------------------
(* ask_ui, on the loop of its run.                                         *)

\* run.approval_needed is emitted before the approval is registered.  A chat
\* run calls its tools one after the other, a max-mode run in parallel.
Announce(a) ==
    /\ ask[a] = "idle"
    /\ Owner[a] \notin ended
    /\ LoopFree(a)
    /\ Owner[a] \in MaxMode \/ \A b \in AsksOf(Owner[a]) : ~Open(b)
    /\ Goto(a, "acquire")
    /\ toUi' = Append(toUi, [kind |-> "needed", ask |-> a])
    /\ UNCHANGED <<lockVars, registryVars, runVars, uiVars, inbox, histVars>>

\* asyncio.Lock.acquire: taken at once when free and not waited for;
\* otherwise the coroutine parks on its own loop, and the first park binds
\* the lock to that loop: on any other one it is a RuntimeError.
Acquire(a) ==
    /\ ask[a] = "acquire"
    /\ \/ /\ holder = NoAsk /\ waiters = << >>
          /\ holder' = a
          /\ Goto(a, "insert")
          /\ UNCHANGED <<waiters, lockLoop>>
       \/ /\ holder # NoAsk \/ waiters # << >>
          /\ lockLoop \in {NoRun, Owner[a]}
          /\ lockLoop' = Owner[a]
          /\ waiters' = Append(waiters, a)
          /\ Goto(a, "parked")
          /\ UNCHANGED holder
       \/ /\ holder # NoAsk \/ waiters # << >>
          /\ lockLoop \notin {NoRun, Owner[a]}
          /\ Goto(a, "failed")
          /\ UNCHANGED <<holder, waiters, lockLoop>>
    /\ UNCHANGED <<granted, asleep, registryVars, runVars, uiVars, wireVars,
                   histVars>>

\* The parked coroutine resumes when its loop looks at its ready queue.
Unpark(a) ==
    /\ ask[a] = "parked"
    /\ a \in granted \ asleep
    /\ LoopFree(a)
    /\ \E n \in DOMAIN waiters :
          /\ waiters[n] = a
          /\ waiters' = SubSeq(waiters, 1, n - 1) \o SubSeq(waiters, n + 1, Len(waiters))
    /\ granted' = granted \ {a}
    /\ holder' = a
    /\ Goto(a, "insert")
    /\ UNCHANGED <<asleep, lockLoop, registryVars, runVars, uiVars, wireVars,
                   histVars>>

\* The entry is made and the lock released: Lock.release sets the first
\* waiter's future from this thread, which wakes no other thread's loop.
Register(a) ==
    /\ ask[a] = "insert"
    /\ pending' = pending \cup {a}
    /\ holder' = NoAsk
    /\ Goto(a, "await")
    /\ IF waiters = << >> THEN UNCHANGED <<granted, asleep>>
       ELSE LET w == Head(waiters) IN
            /\ granted' = granted \cup {w}
            /\ asleep' = IF Owner[w] = Owner[a] \/ w \in granted
                         THEN asleep ELSE asleep \cup {w}
    /\ UNCHANGED <<waiters, lockLoop, scheduled, future, runVars, uiVars,
                   wireVars, histVars>>

\* The _settle callback of call_soon_threadsafe; anything that wakes a loop
\* makes it look at its whole ready queue.
Settle(a) ==
    /\ scheduled[a] # "none"
    /\ LoopFree(a)
    /\ scheduled' = [scheduled EXCEPT ![a] = "none"]
    /\ future' = [future EXCEPT ![a] = IF @ = "none" THEN scheduled[a] ELSE @]
    /\ asleep' = asleep \ AsksOf(Owner[a])
    /\ UNCHANGED <<ask, holder, waiters, granted, lockLoop, pending, runVars,
                   uiVars, wireVars, histVars>>

\* The other workers of a max-mode run keep its loop busy.
OtherWork(r) ==
    /\ r \in MaxMode
    /\ asleep \cap AsksOf(r) # {}
    /\ asleep' = asleep \ AsksOf(r)
    /\ UNCHANGED <<ask, holder, waiters, granted, lockLoop, registryVars,
                   runVars, uiVars, wireVars, histVars>>

\* The future has a result: run.approval_resolved, and the tool runs or not.
Resume(a) ==
    /\ ask[a] = "await"
    /\ future[a] # "none"
    /\ LoopFree(a)
    /\ Goto(a, "done")
    /\ toUi' = Append(toUi, [kind |-> "resolved", ask |-> a])
    /\ UNCHANGED <<lockVars, registryVars, runVars, uiVars, inbox, histVars>>

\* run.completed or run.failed, once no tool call is open.
RunEnds(r) ==
    /\ r \in Ending \ ended
    /\ \A a \in AsksOf(r) : ~Open(a)
    /\ ended' = ended \cup {r}
    /\ toUi' = Append(toUi, [kind |-> "end", run |-> r])
    /\ UNCHANGED <<ask, lockVars, registryVars, stopped, uiVars, inbox,
                   histVars>>

-----------------------------------------------------------------------------
(* The dispatcher thread.                                                  *)

\* call_soon_threadsafe for each of the asks.
Schedule(asks, verdict) ==
    scheduled' = [a \in Asks |-> IF a \in asks THEN verdict ELSE scheduled[a]]

\* Mutant: the approval is looked up and stays registered.
ResolveKeeping ==
    /\ inbox # << >>
    /\ Head(inbox).kind = "approve"
    /\ inbox' = Tail(inbox)
    /\ LET a == Head(inbox).ask
           v == IF Head(inbox).yes THEN "approved" ELSE "denied"
       IN  \/ /\ a \in pending
              /\ Schedule({a}, v)
              /\ accepted' = [accepted EXCEPT ![a] = v]
              /\ UNCHANGED stranded
           \/ /\ a \notin pending
              /\ stranded' = IF ask[a] \in {"acquire", "parked", "insert"}
                             THEN stranded \cup {a} ELSE stranded
              /\ UNCHANGED <<scheduled, accepted>>
    /\ UNCHANGED <<ask, lockVars, pending, future, runVars, uiVars, toUi>>

\* ApprovalRegistry.resolve: run.approve for an approval that is not
\* registered, or not yet, is answered resolved: false and has no effect.
Resolve ==
    /\ inbox # << >>
    /\ Head(inbox).kind = "approve"
    /\ inbox' = Tail(inbox)
    /\ LET a == Head(inbox).ask
           v == IF Head(inbox).yes THEN "approved" ELSE "denied"
       IN  \/ /\ a \in pending
              /\ pending' = pending \ {a}
              /\ Schedule({a}, v)
              /\ accepted' = [accepted EXCEPT ![a] = v]
              /\ UNCHANGED stranded
           \/ /\ a \notin pending
              /\ stranded' = IF ask[a] \in {"acquire", "parked", "insert"}
                             THEN stranded \cup {a} ELSE stranded
              /\ UNCHANGED <<pending, scheduled, accepted>>
    /\ UNCHANGED <<ask, lockVars, future, runVars, uiVars, toUi>>

\* Mutant: every approval of the registry is denied.
DeniedAll(r) == pending
Denied(r)    == pending \cap AsksOf(r)

\* Mutant: the callbacks share the loop variable, so one future is settled.
DenyRunLateBinding ==
    /\ inbox # << >>
    /\ Head(inbox).kind = "cancel"
    /\ inbox' = Tail(inbox)
    /\ LET r == Head(inbox).run
       IN  /\ r \notin ended
           /\ stopped' = stopped \cup {r}
           /\ pending' = pending \ Denied(r)
           /\ \/ Denied(r) = {} /\ UNCHANGED scheduled
              \/ \E a \in Denied(r) : Schedule({a}, "denied")
           /\ accepted' = [a \in Asks |-> IF a \in Denied(r) THEN "denied"
                                                            ELSE accepted[a]]
    /\ UNCHANGED <<ask, lockVars, future, ended, uiVars, toUi, stranded>>

\* ChatRuns.cancel and ApprovalRegistry.cancel_run: an active run is flagged
\* and its registered approvals are denied; one that is announced and not
\* yet registered is missed.
DenyRun ==
    /\ inbox # << >>
    /\ Head(inbox).kind = "cancel"
    /\ inbox' = Tail(inbox)
    /\ LET r == Head(inbox).run
       IN  \/ /\ r \notin ended
              /\ stopped' = stopped \cup {r}
              /\ pending' = pending \ Denied(r)
              /\ Schedule(Denied(r), "denied")
              /\ accepted' = [a \in Asks |-> IF a \in Denied(r) THEN "denied"
                                                               ELSE accepted[a]]
           \/ /\ r \in ended
              /\ UNCHANGED <<stopped, pending, scheduled, accepted>>
    /\ UNCHANGED <<ask, lockVars, future, ended, uiVars, toUi, stranded>>

-----------------------------------------------------------------------------
(* The browser and its user.                                               *)

\* No verdict is on its way to the ask, and the user gets no further chance.
Strand(asks) ==
    stranded' = stranded \cup {a \in asks : /\ Open(a)
                                           /\ scheduled[a] = "none"
                                           /\ future[a] = "none"}

Empty(runs) == slot' = [r \in Runs |-> IF r \in runs THEN NoAsk ELSE slot[r]]

\* runStore: a prompt goes into the conversation's one slot, over an earlier
\* one if need be; a resolution empties the slot if it is about its prompt.
\* The events of a run that the page does not follow are set aside.
Show ==
    /\ toUi # << >>
    /\ toUi' = Tail(toUi)
    /\ LET e == Head(toUi) IN
       \/ /\ e.kind = "needed" /\ Owner[e.ask] \in shown
          /\ slot' = [slot EXCEPT ![Owner[e.ask]] = e.ask]
          /\ Strand({slot[Owner[e.ask]]} \cap Asks)
          /\ UNCHANGED shown
       \/ /\ e.kind = "needed" /\ Owner[e.ask] \notin shown
          /\ Strand({e.ask})
          /\ UNCHANGED <<slot, shown>>
       \/ /\ e.kind = "resolved"
          /\ Empty({r \in shown : slot[r] = e.ask})
          /\ UNCHANGED <<shown, stranded>>
       \/ /\ e.kind = "end"
          /\ Empty({e.run})
          /\ shown' = shown \ {e.run}
          /\ UNCHANGED stranded
    /\ UNCHANGED <<ask, lockVars, registryVars, runVars, stops, losses, clicked,
                   inbox, accepted>>

\* decideApproval: the decision is sent and the prompt cleared at once, also
\* when the socket is closed and send() says false.
Decide(r, yes) ==
    /\ slot[r] # NoAsk
    /\ Empty({r})
    /\ LET a == slot[r] IN
       /\ clicked' = [clicked EXCEPT ![a] =
                         @ \cup {IF yes THEN "approved" ELSE "denied"}]
       /\ \/ /\ inbox' = Append(inbox, [kind |-> "approve", ask |-> a, yes |-> yes])
             /\ UNCHANGED <<losses, stranded>>
          \/ /\ losses < UiLosses
             /\ losses' = losses + 1
             /\ Strand({a})
             /\ UNCHANGED inbox
    /\ UNCHANGED <<ask, lockVars, registryVars, runVars, shown, stops, toUi, accepted>>

\* The Stop button, which an active run has.
Stop(r) ==
    /\ r \in (Stoppable \cap shown) \ stops
    /\ stops' = stops \cup {r}
    /\ inbox' = Append(inbox, [kind |-> "cancel", run |-> r])
    /\ UNCHANGED <<ask, lockVars, registryVars, runVars, slot, shown, losses,
                   clicked, toUi, histVars>>

\* stopRun, when the cancel call has succeeded: the page drops the run, the
\* prompt it shows with it, and routes no later event of the run.
StopShown(r) ==
    /\ r \in stops \cap shown
    /\ [kind |-> "cancel", run |-> r] \notin {inbox[n] : n \in DOMAIN inbox}
    /\ shown' = shown \ {r}
    /\ Empty({r})
    /\ Strand({slot[r]} \cap Asks)
    /\ UNCHANGED <<ask, lockVars, registryVars, runVars, stops, losses, clicked,
                   wireVars, accepted>>

\* The socket lags or reconnects, and the events on their way are gone; or
\* the page is reloaded, and follows no run that is active already.  Prompts
\* are not sent again.
LoseUi ==
    /\ losses < UiLosses
    /\ losses' = losses + 1
    /\ toUi' = << >>
    /\ LET onWire == {a \in Asks : [kind |-> "needed", ask |-> a] \in
                                      {toUi[n] : n \in DOMAIN toUi}} IN
       \/ /\ toUi # << >>
          /\ Strand(onWire)
          /\ UNCHANGED <<slot, shown>>
       \/ /\ shown # {}
          /\ Strand(onWire \cup ({slot[r] : r \in Runs} \cap Asks))
          /\ Empty(Runs)
          /\ shown' = {}
    /\ UNCHANGED <<ask, lockVars, registryVars, runVars, stops, clicked, inbox,
                   accepted>>

-----------------------------------------------------------------------------
AskStep(a) == \/ Acquire(a) \/ Unpark(a) \/ Register(a)
              \/ Settle(a) \/ Resume(a)
Dispatch   == Resolve \/ DenyRun
DecideAny(r) == \E yes \in Answers : Decide(r, yes)

Next ==
    \/ \E a \in Asks : Announce(a) \/ AskStep(a)
    \/ \E r \in Runs : OtherWork(r) \/ RunEnds(r) \/ DecideAny(r)
                       \/ Stop(r) \/ StopShown(r)
    \/ Dispatch
    \/ Show
    \/ LoseUi

Spec == Init /\ [][Next]_vars

\* Loops run what is ready, the dispatcher reads its stdin, the page handles
\* its events, and the user decides about every prompt that stays on screen.
Fairness ==
    /\ \A a \in Asks : WF_vars(AskStep(a))
    /\ \A r \in Runs : WF_vars(OtherWork(r)) /\ WF_vars(DecideAny(r))
    /\ WF_vars(Dispatch)
    /\ WF_vars(Show)

FairSpec == Spec /\ Fairness

-----------------------------------------------------------------------------
(* Properties.                                                             *)

\* A tool runs only after its own prompt was approved, and is denied only by
\* a user who denied that prompt or stopped that run: no verdict crosses over
\* to another ask, however prompts, stops and registrations interleave.
VerdictHasCause ==
    \A a \in Asks :
        /\ future[a] = "approved" => "approved" \in clicked[a]
        /\ future[a] = "denied" => \/ "denied" \in clicked[a]
                                   \/ Owner[a] \in stopped

\* No ask is in a state the code does not have, and none has a verdict without a cause.
VerdictsOK == TypeOK /\ VerdictHasCause

\* What the dispatcher confirmed as resolved, or denied for a stopped run, is
\* what the tool call gets, also when a decision and a stop race.
AcceptedDecisionHolds ==
    \A a \in Asks : ask[a] = "done" => future[a] = accepted[a]

\* Every announced tool call comes to an end if the user decides what is
\* shown; a Stop denies whatever is registered by then (chat.py:279, "so the
\* UI doesn't dangle after Stop").  `stranded` names the ways an ask loses its
\* user: the decision came before the registration, the prompt was
\* overwritten, the browser lost it, or it was registered only after a Stop
\* that took the run from the page; and a lock granted across event loops
\* sleeps until its own loop is woken.
EveryAskEnds ==
    \A a \in Asks : ask[a] = "acquire" ~>
        (Over(a) \/ a \in stranded \/ (ask[a] = "parked" /\ asleep # {}))
=============================================================================
