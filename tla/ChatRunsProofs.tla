--------------------------- MODULE ChatRunsProofs ---------------------------
(***************************************************************************)
(* For any runs, cancels, faults and capacity of the bus: a row and its    *)
(* messages agree, a completed row has the whole text, and a run that has  *)
(* ended stays ended, however stale copies, lags, deletions and deaths     *)
(* interleave.                                                             *)
(*                                                                         *)
(* The text is followed by numbering it: the deltas in a receiver are      *)
(* numbered upwards from what the persistence task has heard to what the   *)
(* run has said (Numbered), without a gap unless some were dropped.  So    *)
(* when the end of the run is at the head, everything was heard.           *)
(***************************************************************************)
EXTENDS ChatRuns, SequenceTheorems, FiniteSetTheorems, TLAPS

Text(r) == [run |-> r, kind |-> "text"]
End(r)  == [run |-> r, kind |-> "completed"]

\* The deltas of r in the receiver q are numbered upwards within lo + 1 .. hi, and all of
\* these numbers are there unless r is in the set dropped.
Numbered(r, q, lo, hi, dropped) ==
    \E f \in [1 .. Len(q) -> Nat] :
        /\ \A n \in 1 .. Len(q) : q[n] = Text(r) => lo < f[n] /\ f[n] <= hi
        /\ \A m, n \in 1 .. Len(q) : m < n /\ q[m] = Text(r) /\ q[n] = Text(r) => f[m] < f[n]
        /\ r \notin dropped => \A i \in lo + 1 .. hi : \E n \in 1 .. Len(q) : q[n] = Text(r) /\ f[n] = i

TextNumbered ==
    \A r \in subscribed : heard[r] <= said[r] /\ Numbered(r, queue[r], heard[r], said[r], gaps)

\* What has not begun.
NotBegun ==
    \A r \in Runs :
        /\ send[r] = "idle" => row[r] = NoRow
        /\ send[r] \in {"idle", "subscribe", "start"} =>
               /\ thread[r] = "none" /\ r \notin inbox \cup pending
               /\ said[r] = 0 /\ heard[r] = 0
        /\ r \in inbox => thread[r] = "none"
        /\ keeper[r] # "off" => send[r] = "done"

\* Receivers are open while somebody will listen, and empty when closed.
ReceiverOpen ==
    \A r \in Runs :
        /\ r \notin subscribed => queue[r] = << >>
        /\ send[r] \in {"start", "wait"} => r \in subscribed
        /\ keeper[r] # "off" => r \in subscribed

\* The first line of a thread has answered the request; a thread that closes has an outcome.
ThreadOrder ==
    \A r \in Runs :
        /\ thread[r] = "stream" => r \notin pending
        /\ thread[r] \in {"closing", "leaving"} => outcome[r] # NoOutcome

\* Copies of a row link no message that is not there, unless the row is deleted for good.
CopiesLink ==
    /\ \A r \in Runs : keeper[r] \in {"message", "save"} /\ copy[r].reply /\ row[r].status # "deleted" =>
           stored[r] # << >>
    /\ \A c \in Cancels : call[c] \in {"ask", "wait", "save"} =>
           /\ target[c] \in Runs
           /\ copy[c].reply /\ row[target[c]].status # "deleted" => stored[target[c]] # << >>

\* A message is stored once, by a persistence task on its way to save the row.
NotYetStored ==
    \A r \in Runs : send[r] # "done" \/ keeper[r] \in {"listen", "load", "message"} => stored[r] = << >>

Completed(r) == outcome[r] = "completed" /\ thread[r] \in {"leaving", "gone"}

\* A completion on the bus is that of the thread, and no text comes after it.
Quiet(q, r) == \A n \in 1 .. Len(q) : q[n] = End(r) => \A m \in n .. Len(q) : q[m] # Text(r)
EndsTell ==
    \A r \in Runs : /\ Quiet(queue[r], r)
                   /\ \A n \in 1 .. Len(queue[r]) : queue[r][n] = End(r) => Completed(r)

\* A persistence task that has heard the completion has heard the text.
HeardWhole ==
    \A r \in Runs : keeper[r] \in {"load", "message", "save"} /\ verdict[r] = "completed" =>
        Completed(r) /\ (r \in gaps \/ heard[r] = said[r])

HasReply(r) == \E n \in DOMAIN stored[r] : stored[r][n] = [text |-> said[r], status |-> "completed"]

\* The copy has the status of the terminal event, and is saved after the message.
CopyTells ==
    \A r \in Runs :
        /\ keeper[r] \in {"message", "save"} => copy[r].status = StatusOf(verdict[r])
        /\ keeper[r] = "save" /\ verdict[r] = "completed" =>
               r \in gaps \/ said[r] = 0 \/ row[r].status = "deleted" \/ HasReply(r)

\* A completed row is that of a completed thread, which says nothing more.
RowsTell == \A r \in Runs : row[r].status = "completed" =>
                Completed(r) /\ (r \in gaps \/ said[r] = 0 \/ HasReply(r))

IInv ==
    /\ TypeOK
    /\ NotBegun /\ ReceiverOpen /\ ThreadOrder
    /\ TextNumbered
    /\ LinkedReplyIsStored /\ OneReplyPerRun /\ CopiesLink /\ NotYetStored
    /\ EndsTell /\ HeardWhole /\ CopyTells /\ RowsTell

-----------------------------------------------------------------------------
(* Numbering.                                                              *)

LEMMA EmptyNumbered ==
    ASSUME NEW r, NEW lo \in Nat, NEW dropped
    PROVE  Numbered(r, << >>, lo, lo, dropped)
<1> DEFINE f == [n \in 1 .. Len(<< >>) |-> 0]
<1>1. f \in [1 .. Len(<< >>) -> Nat] /\ 1 .. Len(<< >>) = {} /\ lo + 1 .. lo = {}
  OBVIOUS
<1> HIDE DEF f
<1> QED BY <1>1 DEF Numbered

\* Events that are no text of r change nothing.
LEMMA OtherNumbered ==
    ASSUME NEW r \in Runs, NEW q \in Seq(Events), NEW es \in Seq(Events), NEW lo \in Nat, NEW hi \in Nat,
           NEW dropped, Numbered(r, q, lo, hi, dropped),
           \A n \in 1 .. Len(es) : es[n] # Text(r)
    PROVE  Numbered(r, q \o es, lo, hi, dropped)
<1> DEFINE p == q \o es
<1>1. PICK f \in [1 .. Len(q) -> Nat] :
        /\ \A n \in 1 .. Len(q) : q[n] = Text(r) => lo < f[n] /\ f[n] <= hi
        /\ \A m, n \in 1 .. Len(q) : m < n /\ q[m] = Text(r) /\ q[n] = Text(r) => f[m] < f[n]
        /\ r \notin dropped => \A i \in lo + 1 .. hi : \E n \in 1 .. Len(q) : q[n] = Text(r) /\ f[n] = i
  BY DEF Numbered
<1>2. /\ Len(p) = Len(q) + Len(es) /\ Len(q) \in Nat /\ Len(es) \in Nat
      /\ \A n \in 1 .. Len(p) : p[n] = IF n <= Len(q) THEN q[n] ELSE es[n - Len(q)]
  BY ConcatProperties, LenProperties
<1> DEFINE g == [n \in 1 .. Len(p) |-> IF n <= Len(q) THEN f[n] ELSE 0]
<1>3. g \in [1 .. Len(p) -> Nat]
  BY <1>2
<1>4. \A n \in 1 .. Len(p) : p[n] = Text(r) => n \in 1 .. Len(q) /\ q[n] = Text(r) /\ g[n] = f[n]
  BY <1>2
<1>5. \A n \in 1 .. Len(q) : n \in 1 .. Len(p) /\ p[n] = q[n] /\ g[n] = f[n]
  BY <1>2
<1> HIDE DEF p, g
<1>6. \A n \in 1 .. Len(p) : p[n] = Text(r) => lo < g[n] /\ g[n] <= hi
  BY <1>1, <1>4
<1>7. \A m, n \in 1 .. Len(p) : m < n /\ p[m] = Text(r) /\ p[n] = Text(r) => g[m] < g[n]
  BY <1>1, <1>4
<1>8. r \notin dropped => \A i \in lo + 1 .. hi : \E n \in 1 .. Len(p) : p[n] = Text(r) /\ g[n] = i
  BY <1>1, <1>5
<1> QED BY <1>3, <1>6, <1>7, <1>8 DEF Numbered, p

\* One more text has the next number.
LEMMA TextNumberedNext ==
    ASSUME NEW r \in Runs, NEW q \in Seq(Events), NEW lo \in Nat, NEW hi \in Nat, lo <= hi,
           NEW dropped, Numbered(r, q, lo, hi, dropped)
    PROVE  Numbered(r, q \o << Text(r) >>, lo, hi + 1, dropped)
<1> DEFINE p == q \o << Text(r) >>
<1>1. PICK f \in [1 .. Len(q) -> Nat] :
        /\ \A n \in 1 .. Len(q) : q[n] = Text(r) => lo < f[n] /\ f[n] <= hi
        /\ \A m, n \in 1 .. Len(q) : m < n /\ q[m] = Text(r) /\ q[n] = Text(r) => f[m] < f[n]
        /\ r \notin dropped => \A i \in lo + 1 .. hi : \E n \in 1 .. Len(q) : q[n] = Text(r) /\ f[n] = i
  BY DEF Numbered
<1>2. /\ Len(p) = Len(q) + 1 /\ Len(q) \in Nat
      /\ \A n \in 1 .. Len(p) : p[n] = IF n <= Len(q) THEN q[n] ELSE Text(r)
  <2>1. Text(r) \in Events
    BY DEF Text, Events, Kinds
  <2>2. << Text(r) >> \in Seq(Events) /\ Len(<< Text(r) >>) = 1 /\ << Text(r) >>[1] = Text(r)
    BY <2>1
  <2> HIDE DEF p
  <2>3. p = q \o << Text(r) >>
    BY DEF p
  <2>4. Len(q) \in Nat
    BY LenProperties
  <2>5. /\ Len(p) = Len(q) + 1
        /\ \A n \in 1 .. Len(q) + 1 : p[n] = IF n <= Len(q) THEN q[n] ELSE << Text(r) >>[n - Len(q)]
    BY <2>2, <2>3, ConcatProperties
  <2> QED BY <2>2, <2>4, <2>5
<1> DEFINE g == [n \in 1 .. Len(p) |-> IF n <= Len(q) THEN f[n] ELSE hi + 1]
<1>3. g \in [1 .. Len(p) -> Nat] /\ g[Len(p)] = hi + 1
  BY <1>2
<1>4. \A n \in 1 .. Len(p) : \/ n \in 1 .. Len(q) /\ p[n] = q[n] /\ g[n] = f[n]
                             \/ n = Len(p) /\ g[n] = hi + 1 /\ p[n] = Text(r)
  BY <1>2
<1>5. \A n \in 1 .. Len(q) : n \in 1 .. Len(p) /\ p[n] = q[n] /\ g[n] = f[n] /\ n < Len(p)
  BY <1>2
<1>6. Len(p) \in 1 .. Len(p) /\ p[Len(p)] = Text(r) /\ Len(p) \in Nat
  BY <1>2
<1> HIDE DEF p, g
<1>7. \A n \in 1 .. Len(p) : p[n] = Text(r) => lo < g[n] /\ g[n] <= hi + 1
  BY <1>1, <1>4, SMTT(30)
<1>8. ASSUME NEW m \in 1 .. Len(p), NEW n \in 1 .. Len(p), m < n, p[m] = Text(r), p[n] = Text(r)
      PROVE  g[m] < g[n]
  <2>1. m # Len(p)
    BY <1>6, <1>8
  <2>2. m \in 1 .. Len(q) /\ q[m] = Text(r) /\ g[m] = f[m]
    BY <1>4, <1>8, <2>1
  <2>3. CASE n = Len(p)
    <3>1. f[m] <= hi /\ f[m] \in Nat
      BY <1>1, <2>2
    <3> QED BY <1>3, <2>2, <2>3, <3>1
  <2>4. CASE n # Len(p)
    <3>1. n \in 1 .. Len(q) /\ q[n] = Text(r) /\ g[n] = f[n]
      BY <1>4, <1>8, <2>4
    <3> QED BY <1>1, <1>8, <2>2, <3>1
  <2> QED BY <2>3, <2>4
<1>9. ASSUME r \notin dropped, NEW i \in lo + 1 .. hi + 1
      PROVE  \E n \in 1 .. Len(p) : p[n] = Text(r) /\ g[n] = i
  <2>1. CASE i = hi + 1
    BY <2>1, <1>3, <1>6
  <2>2. CASE i # hi + 1
    <3>1. i \in lo + 1 .. hi
      BY <1>9, <2>2
    <3>2. PICK n \in 1 .. Len(q) : q[n] = Text(r) /\ f[n] = i
      BY <1>1, <1>9, <3>1
    <3> QED BY <1>5, <3>2
  <2> QED BY <2>1, <2>2
<1> QED BY <1>3, <1>7, <1>8, <1>9 DEF Numbered, p

\* p is q without its first k events; these are no text of r.
Suffix(p, q, k) ==
    k \in 0 .. Len(q) /\ Len(p) = Len(q) - k /\ \A n \in 1 .. Len(p) : p[n] = q[n + k]
NoTextIn(q, k, r) == \A n \in 1 .. k : q[n] # Text(r)

\* A suffix is numbered, exactly if no text was cut off.
LEMMA SuffixNumbered ==
    ASSUME NEW r, NEW q \in Seq(Events), NEW p \in Seq(Events), NEW k, Suffix(p, q, k),
           NEW lo \in Nat, NEW hi \in Nat, NEW before, NEW after, before \subseteq after,
           Numbered(r, q, lo, hi, before), r \notin after => NoTextIn(q, k, r)
    PROVE  Numbered(r, p, lo, hi, after)
<1>0. /\ k \in 0 .. Len(q) /\ Len(p) = Len(q) - k /\ \A n \in 1 .. Len(p) : p[n] = q[n + k]
      /\ r \notin after => \A n \in 1 .. k : q[n] # Text(r)
  BY DEF Suffix, NoTextIn
<1>1. PICK f \in [1 .. Len(q) -> Nat] :
        /\ \A n \in 1 .. Len(q) : q[n] = Text(r) => lo < f[n] /\ f[n] <= hi
        /\ \A m, n \in 1 .. Len(q) : m < n /\ q[m] = Text(r) /\ q[n] = Text(r) => f[m] < f[n]
        /\ r \notin before => \A i \in lo + 1 .. hi : \E n \in 1 .. Len(q) : q[n] = Text(r) /\ f[n] = i
  BY DEF Numbered
<1> DEFINE g == [n \in 1 .. Len(p) |-> f[n + k]]
<1>2. Len(q) \in Nat /\ Len(p) \in Nat /\ k \in Nat /\ Len(p) = Len(q) - k
  BY <1>0, LenProperties
<1>3. \A n \in 1 .. Len(p) : n + k \in 1 .. Len(q) /\ p[n] = q[n + k] /\ g[n] = f[n + k]
  BY <1>0, <1>2
<1>4. g \in [1 .. Len(p) -> Nat]
  BY <1>3
<1> HIDE DEF g
<1>5. \A n \in 1 .. Len(p) : p[n] = Text(r) => lo < g[n] /\ g[n] <= hi
  BY <1>1, <1>3
<1>6. ASSUME NEW m \in 1 .. Len(p), NEW n \in 1 .. Len(p), m < n, p[m] = Text(r), p[n] = Text(r)
      PROVE  g[m] < g[n]
  <2>1. m + k < n + k
    BY <1>6, <1>2
  <2>2. /\ m + k \in 1 .. Len(q) /\ q[m + k] = Text(r) /\ g[m] = f[m + k]
        /\ n + k \in 1 .. Len(q) /\ q[n + k] = Text(r) /\ g[n] = f[n + k]
    BY <1>3, <1>6
  <2>3. f[m + k] < f[n + k]
    BY <1>1, <2>1, <2>2
  <2> QED BY <2>2, <2>3
<1>7. ASSUME r \notin after, NEW i \in lo + 1 .. hi
      PROVE  \E n \in 1 .. Len(p) : p[n] = Text(r) /\ g[n] = i
  <2>1. PICK n \in 1 .. Len(q) : q[n] = Text(r) /\ f[n] = i
    BY <1>1, <1>7
  <2>2. n - k \in 1 .. Len(p)
    BY <1>0, <1>2, <1>7, <2>1
  <2>3. (n - k) + k = n
    BY <1>2
  <2> QED BY <1>3, <2>1, <2>2, <2>3
<1> QED BY <1>4, <1>5, <1>6, <1>7 DEF Numbered

\* The text at the head has the first number.
LEMMA HeadNumbered ==
    ASSUME NEW r, NEW q \in Seq(Events), q # << >>, Head(q) = Text(r), NEW lo \in Nat, NEW hi \in Nat,
           NEW dropped, Numbered(r, q, lo, hi, dropped)
    PROVE  lo + 1 <= hi /\ Numbered(r, Tail(q), lo + 1, hi, dropped)
<1> DEFINE p == Tail(q)
<1>1. PICK f \in [1 .. Len(q) -> Nat] :
        /\ \A n \in 1 .. Len(q) : q[n] = Text(r) => lo < f[n] /\ f[n] <= hi
        /\ \A m, n \in 1 .. Len(q) : m < n /\ q[m] = Text(r) /\ q[n] = Text(r) => f[m] < f[n]
        /\ r \notin dropped => \A i \in lo + 1 .. hi : \E n \in 1 .. Len(q) : q[n] = Text(r) /\ f[n] = i
  BY DEF Numbered
<1>2. /\ Len(q) \in Nat /\ Len(p) \in Nat /\ Len(p) = Len(q) - 1 /\ q[1] = Text(r) /\ 1 \in 1 .. Len(q)
      /\ \A n \in 1 .. Len(p) : p[n] = q[n + 1]
  BY HeadTailProperties, LenProperties
<1> DEFINE g == [n \in 1 .. Len(p) |-> f[n + 1]]
<1> HIDE DEF p
<1>3. \A n \in 1 .. Len(p) : n + 1 \in 1 .. Len(q) /\ p[n] = q[n + 1] /\ g[n] = f[n + 1] /\ 1 < n + 1
  BY <1>2
<1>4. g \in [1 .. Len(p) -> Nat]
  BY <1>3
<1> HIDE DEF g
<1>5. lo < f[1] /\ f[1] <= hi /\ f[1] \in Nat
  BY <1>1, <1>2
<1>6. \A n \in 1 .. Len(p) : p[n] = Text(r) => lo + 1 < g[n] /\ g[n] <= hi
  <2> SUFFICES ASSUME NEW n \in 1 .. Len(p), p[n] = Text(r) PROVE lo + 1 < g[n] /\ g[n] <= hi
    OBVIOUS
  <2>1. f[1] < f[n + 1] /\ f[n + 1] <= hi /\ f[n + 1] \in Nat
    BY <1>1, <1>2, <1>3
  <2> QED BY <1>3, <1>5, <2>1
<1>7. ASSUME NEW m \in 1 .. Len(p), NEW n \in 1 .. Len(p), m < n, p[m] = Text(r), p[n] = Text(r)
      PROVE  g[m] < g[n]
  <2>1. m + 1 < n + 1
    BY <1>7, <1>2
  <2>2. /\ m + 1 \in 1 .. Len(q) /\ q[m + 1] = Text(r) /\ g[m] = f[m + 1]
        /\ n + 1 \in 1 .. Len(q) /\ q[n + 1] = Text(r) /\ g[n] = f[n + 1]
    BY <1>3, <1>7
  <2>3. f[m + 1] < f[n + 1]
    BY <1>1, <2>1, <2>2
  <2> QED BY <2>2, <2>3
<1>8. ASSUME r \notin dropped, NEW i \in (lo + 1) + 1 .. hi
      PROVE  \E n \in 1 .. Len(p) : p[n] = Text(r) /\ g[n] = i
  <2>0. lo + 1 \in lo + 1 .. hi /\ i \in lo + 1 .. hi
    BY <1>5
  <2>1. PICK n \in 1 .. Len(q) : q[n] = Text(r) /\ f[n] = i
    BY <1>1, <1>8, <2>0
  <2>2. PICK m \in 1 .. Len(q) : q[m] = Text(r) /\ f[m] = lo + 1
    BY <1>1, <1>8, <2>0
  <2>3. n # 1
    <3>1. ASSUME n = 1 PROVE FALSE
      <4>1. m # 1
        BY <2>1, <2>2, <3>1
      <4>2. f[1] < f[m]
        BY <1>1, <1>2, <2>2, <4>1
      <4> QED BY <1>5, <2>2, <4>2
    <3> QED BY <3>1
  <2>4. n - 1 \in 1 .. Len(p) /\ (n - 1) + 1 = n
    BY <1>2, <2>3
  <2> QED BY <1>3, <2>1, <2>4
<1>9. Numbered(r, p, lo + 1, hi, dropped)
  BY <1>4, <1>6, <1>7, <1>8 DEF Numbered
<1> QED BY <1>5, <1>9 DEF p

-----------------------------------------------------------------------------
(* The bus.                                                                *)

LEMMA KeptIsSuffix ==
    ASSUME NEW q \in Seq(Events)
    PROVE  /\ Excess(q) \in 0 .. Len(q)
           /\ Kept(q) \in Seq(Events)
           /\ Len(Kept(q)) = Len(q) - Excess(q) /\ Len(Kept(q)) <= BusCap
           /\ \A n \in 1 .. Len(Kept(q)) : Kept(q)[n] = q[n + Excess(q)]
<1>1. Len(q) \in Nat /\ \A n \in 1 .. Len(q) : q[n] \in Events
  BY LenProperties, ElementOfSeq
<1>2. Excess(q) \in 0 .. Len(q) /\ Len(q) - Excess(q) <= BusCap
  BY <1>1, LimitsAssumption DEF Excess
<1> DEFINE k == Excess(q)
<1>3. k \in Nat
  BY <1>1, <1>2
<1> HIDE DEF k
<1>4. \A i \in k + 1 .. Len(q) : q[i] \in Events
  BY <1>1, <1>3
<1>5. /\ SubSeq(q, k + 1, Len(q)) \in Seq(Events)
      /\ Len(SubSeq(q, k + 1, Len(q))) = IF k + 1 <= Len(q) THEN Len(q) - (k + 1) + 1 ELSE 0
      /\ \A i \in 1 .. Len(q) - (k + 1) + 1 : SubSeq(q, k + 1, Len(q))[i] = q[(k + 1) + i - 1]
  BY <1>1, <1>3, <1>4, SubSeqProperties
<1>6. Kept(q) = SubSeq(q, k + 1, Len(q)) /\ k \in 0 .. Len(q)
  BY <1>2 DEF Kept, k
<1>7. Len(Kept(q)) = Len(q) - k
  BY <1>1, <1>5, <1>6
<1>8. ASSUME NEW n \in 1 .. Len(Kept(q)) PROVE Kept(q)[n] = q[n + k]
  <2>1. n \in 1 .. Len(q) - (k + 1) + 1 /\ (k + 1) + n - 1 = n + k
    BY <1>1, <1>3, <1>7
  <2> QED BY <1>5, <1>6, <2>1
<1> QED BY <1>2, <1>5, <1>6, <1>7, <1>8 DEF k

LEMMA BroadcastFeeds ==
    ASSUME TypeOK, NEW es \in Seq(Events), Broadcast(es)
    PROVE  /\ UNCHANGED subscribed
           /\ \A k \in Runs : k \notin subscribed => queue'[k] = queue[k]
           /\ \A k \in subscribed : queue[k] \o es \in Seq(Events) /\ queue'[k] = Kept(queue[k] \o es)
           /\ queue' \in [Runs -> Seq(Events)] /\ \A k \in Runs : Len(queue'[k]) <= BusCap
           /\ lost' \subseteq Runs /\ gaps' \subseteq Runs /\ gaps \subseteq gaps'
           /\ \A k \in subscribed \ gaps' : \A n \in 1 .. Excess(queue[k] \o es) :
                  (queue[k] \o es)[n] # Text(k)
<1>1. /\ queue \in [Runs -> Seq(Events)] /\ subscribed \subseteq Runs
      /\ \A k \in Runs : Len(queue[k]) <= BusCap
  BY DEF TypeOK
<1>2. \A k \in Runs : queue[k] \o es \in Seq(Events)
  BY <1>1, ConcatProperties
<1>3. \A k \in Runs : /\ k \in subscribed => queue'[k] = Kept(queue[k] \o es)
                      /\ k \notin subscribed => queue'[k] = queue[k]
  BY DEF Broadcast
<1>4. \A k \in Runs : queue'[k] \in Seq(Events) /\ Len(queue'[k]) <= BusCap
  BY <1>1, <1>2, <1>3, KeptIsSuffix
<1>5. queue' \in [Runs -> Seq(Events)]
  BY <1>4 DEF Broadcast
<1>6. UNCHANGED subscribed /\ lost' \subseteq Runs /\ gaps' \subseteq Runs /\ gaps \subseteq gaps'
  BY <1>1 DEF Broadcast, TypeOK
<1>7. ASSUME NEW k \in subscribed \ gaps', NEW n \in 1 .. Excess(queue[k] \o es)
      PROVE  (queue[k] \o es)[n] # Text(k)
  <2> DEFINE e == (queue[k] \o es)[n]
  <2>1. e \in Dropped(queue[k] \o es)
    BY DEF Dropped
  <2>2. ASSUME e.run = k, e.kind = "text" PROVE k \in gaps'
    BY <2>1, <2>2 DEF Broadcast
  <2>3. e = Text(k) => e.run = k /\ e.kind = "text"
    BY DEF Text
  <2> HIDE DEF e
  <2>4. e # Text(k)
    BY <2>2, <2>3, <1>7
  <2> QED BY <2>4 DEF e
<1> QED BY <1>1, <1>2, <1>3, <1>4, <1>5, <1>6, <1>7

LEMMA RouteRoutes ==
    ASSUME TypeOK, NEW r \in Runs, NEW kind \in Kinds, Route(r, kind)
    PROVE  /\ << [run |-> r, kind |-> kind] >> \in Seq(Events)
           /\ Len(<< [run |-> r, kind |-> kind] >>) = 1
           /\ << [run |-> r, kind |-> kind] >>[1] = [run |-> r, kind |-> kind]
           /\ \/ /\ r \in pending /\ pending' = pending \ {r}
                 /\ UNCHANGED <<queue, subscribed, gaps>>
              \/ /\ r \notin pending /\ UNCHANGED <<pending, answer>>
                 /\ Broadcast(<< [run |-> r, kind |-> kind] >>)
           /\ answer' \in [Runs -> {"none", "started", "error"}]
           /\ streams' \subseteq Runs /\ pending' \subseteq pending /\ r \notin pending'
           /\ lost' \subseteq Runs /\ gaps \subseteq gaps' /\ gaps' \subseteq Runs
           /\ queue' \in [Runs -> Seq(Events)] /\ \A k \in Runs : Len(queue'[k]) <= BusCap
           /\ UNCHANGED subscribed
<1>1. [run |-> r, kind |-> kind] \in Events
  BY DEF Events
<1>2. << [run |-> r, kind |-> kind] >> \in Seq(Events)
  BY <1>1
<1>3. CASE r \in pending
  BY <1>2, <1>3 DEF Route, busVars, TypeOK
<1>4. CASE r \notin pending
  <2>1. /\ Broadcast(<< [run |-> r, kind |-> kind] >>) /\ UNCHANGED <<pending, answer>>
        /\ streams' \subseteq Runs
    BY <1>4 DEF Route, TypeOK
  <2> QED BY <1>2, <1>4, <2>1, BroadcastFeeds DEF TypeOK
<1> QED BY <1>3, <1>4

LEMMA SyntheticTyped ==
    ASSUME TypeOK, NEW code \in {"sidecar_crashed", "sidecar_shutdown"}, NEW es \in SyntheticEnds(code)
    PROVE  es \in Seq(Events) /\ \A n \in 1 .. Len(es) : es[n].kind = code
<1> DEFINE k == Cardinality(streams)
<1>1. k \in Nat
  BY TasksAssumption, FS_Subset, FS_CardinalityType DEF TypeOK
<1> HIDE DEF k
<1>2. PICK order \in [1 .. k -> streams] : es = [n \in DOMAIN order |-> [run |-> order[n], kind |-> code]]
  BY DEF SyntheticEnds, k
<1>3. es = [n \in 1 .. k |-> [run |-> order[n], kind |-> code]]
  BY <1>2
<1>4. code \in Kinds /\ streams \subseteq Runs
  BY DEF Kinds, Outcomes, TypeOK
<1>5. \A n \in 1 .. k : es[n] \in Events /\ es[n].kind = code
  BY <1>2, <1>3, <1>4 DEF Events
<1>6. es \in [1 .. k -> Events]
  BY <1>3, <1>5
<1>7. es \in Seq(Events)
  BY <1>1, <1>6, SeqDef
<1>8. Len(es) = k
  BY <1>1, <1>6
<1> QED BY <1>5, <1>7, <1>8

-----------------------------------------------------------------------------
(* Types.                                                                  *)

LEMMA InitInv == Init => IInv
<1> SUFFICES ASSUME Init PROVE IInv
  OBVIOUS
<1>1. TypeOK
  <2>1. << >> \in Seq([text : 0 .. MaxText, status : Terminal]) /\ << >> \in Seq(Events) /\ Len(<< >>) = 0
    OBVIOUS
  <2>2. 0 \in 0 .. MaxText /\ 0 \in 0 .. MaxStops /\ 0 <= BusCap
    BY LimitsAssumption
  <2> QED BY <2>1, <2>2 DEF Init, TypeOK, NoRow, RunRows, RunStatuses, SendPcs, KeeperPcs, CancelPcs, ThreadPcs
<1>2. NotBegun /\ ReceiverOpen /\ ThreadOrder /\ CopiesLink /\ NotYetStored
  BY DEF Init, NotBegun, ReceiverOpen, ThreadOrder, CopiesLink, NotYetStored
<1>3. TextNumbered
  BY DEF Init, TextNumbered
<1>4. LinkedReplyIsStored /\ OneReplyPerRun
  BY DEF Init, LinkedReplyIsStored, OneReplyPerRun, NoRow
<1>5. EndsTell /\ HeardWhole /\ CopyTells /\ RowsTell
  BY DEF Init, EndsTell, Quiet, HeardWhole, CopyTells, RowsTell, NoRow
<1> QED BY <1>1, <1>2, <1>3, <1>4, <1>5 DEF IInv

LEMMA ClosedTyped ==
    ASSUME TypeOK, NEW gone, Receivers(gone)
    PROVE  /\ queue' \in [Runs -> Seq(Events)] /\ \A k \in Runs : Len(queue'[k]) <= BusCap
           /\ \A k \in Runs : queue'[k] = IF k \in gone THEN << >> ELSE queue[k]
           /\ subscribed' = subscribed \ gone /\ subscribed' \subseteq Runs
<1>1. << >> \in Seq(Events) /\ Len(<< >>) = 0 /\ 0 <= BusCap
  BY LimitsAssumption
<1>2. queue \in [Runs -> Seq(Events)] /\ \A k \in Runs : Len(queue[k]) <= BusCap
  BY DEF TypeOK
<1>3. queue' = [k \in Runs |-> IF k \in gone THEN << >> ELSE queue[k]]
  BY DEF Receivers
<1>4. \A k \in Runs : queue'[k] = IF k \in gone THEN << >> ELSE queue[k]
  BY <1>3
<1>5. \A k \in Runs : queue'[k] \in Seq(Events) /\ Len(queue'[k]) <= BusCap
  <2> TAKE k \in Runs
  <2>1. CASE k \in gone
    BY <1>1, <1>4, <2>1
  <2>2. CASE k \notin gone
    BY <1>2, <1>4, <2>2
  <2> QED BY <2>1, <2>2
<1>6. queue' \in [Runs -> Seq(Events)]
  BY <1>3, <1>5
<1> QED BY <1>4, <1>5, <1>6 DEF Receivers, TypeOK

\* The whole row is overwritten, unless there is none.
LEMMA RowWritten ==
    ASSUME TypeOK, NEW r \in Runs, NEW status \in RunStatuses, NEW reply \in BOOLEAN,
           UpdateRun(r, status, reply)
    PROVE  /\ row' \in [Runs -> RunRows]
           /\ \A k \in Runs : k # r => row'[k] = row[k]
           /\ Exists(r) => row'[r] = [status |-> status, reply |-> reply]
           /\ ~Exists(r) => row'[r] = row[r]
<1>1. row \in [Runs -> RunRows] /\ [status |-> status, reply |-> reply] \in RunRows
  BY DEF TypeOK, RunRows
<1>2. CASE Exists(r)
  BY <1>1, <1>2 DEF UpdateRun
<1>3. CASE ~Exists(r)
  BY <1>1, <1>3 DEF UpdateRun
<1> QED BY <1>2, <1>3

LEMMA RowTyped ==
    ASSUME TypeOK
    PROVE  /\ \A r \in Runs : row[r].status \in RunStatuses /\ row[r].reply \in BOOLEAN /\ row[r] \in RunRows
           /\ \A r \in Runs : copy[r].status \in RunStatuses /\ copy[r].reply \in BOOLEAN
           /\ \A c \in Cancels : copy[c].status \in RunStatuses /\ copy[c].reply \in BOOLEAN
           /\ NoRow \in RunRows /\ NoRow.status = "absent" /\ NoRow.reply = FALSE
BY DEF TypeOK, RunRows, RunStatuses, NoRow

\* A changed row is a row.
LEMMA RowChanged ==
    ASSUME NEW e \in RunRows, NEW s \in RunStatuses
    PROVE  /\ [e EXCEPT !.status = s] \in RunRows
           /\ [e EXCEPT !.status = s].status = s /\ [e EXCEPT !.status = s].reply = e.reply
           /\ [e EXCEPT !.reply = TRUE] \in RunRows
           /\ [e EXCEPT !.reply = TRUE].status = e.status /\ [e EXCEPT !.reply = TRUE].reply
BY DEF RunRows

LEMMA SendTypes ==
    ASSUME IInv, NEW r \in Runs, SendStep(r) \/ DropSend(r) \/ StartRefused(r) \/ StartTimesOut(r) \/ InsertRun(r)
    PROVE  TypeOK'
<1> USE DEF IInv, TypeOK, SendPcs, KeeperPcs, dbVars, sendVars, keeperVars, cancelVars, busVars, mapVars,
            sidecarVars, histVars
<1>0. << >> \in Seq(Events) /\ Len(<< >>) = 0 /\ 0 <= BusCap
  BY LimitsAssumption
<1>1. CASE Subscribe(r)
  BY <1>1 DEF Subscribe
<1>2. CASE StartRun(r)
  BY <1>2 DEF StartRun
<1>3. CASE StartAnswered(r)
  BY <1>3 DEF StartAnswered
<1>4. CASE RejectMessage(r)
  <2>1. "failed" \in RunStatuses /\ Receivers({r}) /\ (UpdateRun(r, "failed", FALSE) \/ row' = row)
    BY <1>4 DEF RejectMessage, RunStatuses
  <2>2. row' \in [Runs -> RunRows]
    BY <1>0, <2>1, RowWritten
  <2>3. lost' \subseteq Runs /\ send' \in [Runs -> SendPcs]
    BY <1>4 DEF RejectMessage
  <2>4. /\ queue' \in [Runs -> Seq(Events)] /\ \A k \in Runs : Len(queue'[k]) <= BusCap
        /\ subscribed' \subseteq Runs
    BY <2>1, ClosedTyped
  <2> QED BY <1>4, <2>2, <2>3, <2>4 DEF RejectMessage
<1>5. CASE DropSend(r)
  BY <1>0, <1>5 DEF DropSend, Receivers
<1>6. CASE StartRefused(r)
  BY <1>6 DEF StartRefused
<1>7. CASE StartTimesOut(r)
  BY <1>7 DEF StartTimesOut
<1>8. CASE InsertRun(r)
  BY <1>8 DEF InsertRun, RunRows, RunStatuses
<1> QED BY <1>1, <1>2, <1>3, <1>4, <1>5, <1>6, <1>7, <1>8 DEF SendStep

\* What was heard was said.
LEMMA ListenHears ==
    ASSUME IInv, NEW r \in Runs, Listen(r)
    PROVE  /\ r \in subscribed /\ queue[r] # << >> /\ Head(queue[r]) \in Events
           /\ queue' = [queue EXCEPT ![r] = Tail(@)] /\ Tail(queue[r]) \in Seq(Events)
           /\ Len(queue[r]) \in Nat /\ Len(Tail(queue[r])) = Len(queue[r]) - 1
           /\ \A n \in 1 .. Len(Tail(queue[r])) : Tail(queue[r])[n] = queue[r][n + 1]
           /\ Head(queue[r]) = queue[r][1] /\ 1 \in 1 .. Len(queue[r])
           /\ heard'[r] <= said[r] /\ heard'[r] \in 0 .. MaxText
           /\ Numbered(r, Tail(queue[r]), heard'[r], said[r], gaps)
           /\ \/ Head(queue[r]) = Text(r) /\ heard' = [heard EXCEPT ![r] = @ + 1]
              \/ Head(queue[r]) # Text(r) /\ heard' = heard
<1>1. r \in subscribed /\ queue[r] # << >> /\ queue[r] \in Seq(Events)
  BY DEF Listen, IInv, ReceiverOpen, TypeOK
<1>2. queue' = [queue EXCEPT ![r] = Tail(@)]
  BY DEF Listen
<1>3. /\ Head(queue[r]) \in Events /\ Tail(queue[r]) \in Seq(Events)
      /\ Len(Tail(queue[r])) = Len(queue[r]) - 1 /\ Len(queue[r]) \in Nat \ {0}
      /\ \A n \in 1 .. Len(Tail(queue[r])) : Tail(queue[r])[n] = queue[r][n + 1]
  BY <1>1, HeadTailProperties, EmptySeq, LenProperties
<1>4. Head(queue[r]) = queue[r][1] /\ 1 \in 1 .. Len(queue[r])
  BY <1>1, <1>3
<1>5. /\ heard[r] \in Nat /\ said[r] \in Nat /\ said[r] <= MaxText /\ heard[r] <= said[r]
      /\ Numbered(r, queue[r], heard[r], said[r], gaps) /\ heard \in [Runs -> 0 .. MaxText]
  BY <1>1, LimitsAssumption DEF IInv, TypeOK, TextNumbered
<1>6. CASE Head(queue[r]) = Text(r)
  <2>1. heard' = [heard EXCEPT ![r] = @ + 1]
    <3>1. Head(queue[r]).run = r /\ Head(queue[r]).kind = "text"
      BY <1>6 DEF Text
    <3> QED BY <3>1 DEF Listen, IsEnd, Outcomes
  <2>2. heard'[r] = heard[r] + 1
    BY <1>5, <2>1
  <2>3. heard[r] + 1 <= said[r] /\ Numbered(r, Tail(queue[r]), heard[r] + 1, said[r], gaps)
    BY <1>1, <1>5, <1>6, HeadNumbered
  <2>4. heard[r] + 1 \in 0 .. MaxText
    BY <1>5, <2>3, LimitsAssumption
  <2> QED BY <1>1, <1>2, <1>3, <1>4, <1>6, <2>1, <2>2, <2>3, <2>4
<1>7. CASE Head(queue[r]) # Text(r)
  <2>1. heard' = heard
    <3>1. ~(Head(queue[r]).run = r /\ Head(queue[r]).kind = "text")
      BY <1>3, <1>7 DEF Text, Events
    <3> QED BY <3>1 DEF Listen, keeperVars
  <2>2. Numbered(r, Tail(queue[r]), heard[r], said[r], gaps)
    <3>1. NoTextIn(queue[r], 1, r) /\ gaps \subseteq gaps
      BY <1>4, <1>7 DEF NoTextIn
    <3> HIDE DEF Numbered
    <3> DEFINE p == Tail(queue[r])
    <3>2. p \in Seq(Events) /\ Suffix(p, queue[r], 1)
      BY <1>3, <1>4 DEF Suffix
    <3> HIDE DEF p
    <3>3. Numbered(r, p, heard[r], said[r], gaps)
      BY <1>1, <1>5, <3>1, <3>2, SuffixNumbered
    <3> QED BY <3>3 DEF p
  <2> QED BY <1>1, <1>2, <1>3, <1>4, <1>5, <1>7, <2>1, <2>2
<1> QED BY <1>6, <1>7

LEMMA StatusOfIsTerminal ==
    ASSUME NEW k
    PROVE  /\ StatusOf(k) \in Terminal /\ StatusOf(k) \in RunStatuses
           /\ StatusOf(k) = "completed" <=> k = "completed"
BY DEF StatusOf, Terminal, RunStatuses

LEMMA KeeperTypes == ASSUME IInv, NEW r \in Runs, KeeperStep(r) PROVE TypeOK'
<1> USE DEF dbVars, sendVars, cancelVars, busVars, mapVars, sidecarVars, histVars, KeeperGoto
<1>0. << >> \in Seq(Events) /\ Len(<< >>) = 0 /\ 0 <= BusCap /\ TypeOK
  BY LimitsAssumption DEF IInv
<1>1. CASE Listen(r)
  <2>1. /\ heard' \in [Runs -> 0 .. MaxText]
        /\ queue' \in [Runs -> Seq(Events)] /\ \A k \in Runs : Len(queue'[k]) <= BusCap
    <3>1. \A k \in Runs : Len(queue[k]) <= BusCap
      BY <1>0 DEF TypeOK
    <3>2. Len(Tail(queue[r])) <= BusCap
      BY <1>1, <3>1, ListenHears, LimitsAssumption
    <3>3. queue \in [Runs -> Seq(Events)] /\ heard \in [Runs -> 0 .. MaxText]
      BY <1>0 DEF TypeOK
    <3>4. queue' \in [Runs -> Seq(Events)] /\ \A k \in Runs : Len(queue'[k]) <= BusCap
      <4>1. queue' = [queue EXCEPT ![r] = Tail(queue[r])] /\ Tail(queue[r]) \in Seq(Events)
        BY <1>1, ListenHears
      <4> QED BY <3>1, <3>2, <3>3, <4>1
    <3>5. heard' \in [Runs -> 0 .. MaxText]
      <4>1. heard'[r] \in 0 .. MaxText /\ (heard' = [heard EXCEPT ![r] = @ + 1] \/ heard' = heard)
        BY <1>1, ListenHears
      <4> QED BY <3>3, <4>1
    <3> QED BY <3>4, <3>5
  <2>2. keeper' \in [Runs -> KeeperPcs] /\ verdict' \in [Runs -> Outcomes \cup {NoOutcome}]
    BY <1>0, <1>1 DEF Listen, TypeOK, keeperVars, IsEnd, KeeperPcs
  <2> QED BY <1>0, <1>1, <2>1, <2>2 DEF Listen, TypeOK
<1>2. CASE LoadRun(r)
  <2>1. keeper' \in [Runs -> KeeperPcs]
    BY <1>0, <1>2 DEF LoadRun, TypeOK, KeeperPcs
  <2>2. copy' \in [Runs \cup Cancels -> RunRows]
    <3>1. StatusOf(verdict[r]) \in RunStatuses /\ row[r] \in RunRows
      BY <1>0, StatusOfIsTerminal DEF TypeOK
    <3>2. [row[r] EXCEPT !.status = StatusOf(verdict[r])] \in RunRows
      BY <3>1, RowChanged
    <3>3. copy' = copy \/ copy' = [copy EXCEPT ![r] = [row[r] EXCEPT !.status = StatusOf(verdict[r])]]
      BY <1>2 DEF LoadRun
    <3> HIDE DEF RunRows
    <3>4. copy \in [Runs \cup Cancels -> RunRows]
      BY <1>0 DEF TypeOK
    <3> DEFINE e == [row[r] EXCEPT !.status = StatusOf(verdict[r])]
    <3>5. e \in RunRows /\ (copy' = copy \/ copy' = [copy EXCEPT ![r] = e])
      BY <3>2, <3>3
    <3> HIDE DEF e
    <3> QED BY <3>4, <3>5
  <2>3. /\ queue' \in [Runs -> Seq(Events)] /\ \A k \in Runs : Len(queue'[k]) <= BusCap
        /\ subscribed' \subseteq Runs /\ lost' \subseteq Runs
    <3>1. lost' \subseteq Runs
      BY <1>0, <1>2 DEF LoadRun, TypeOK
    <3>2. UNCHANGED <<queue, subscribed>> \/ Receivers({r})
      BY <1>2 DEF LoadRun
    <3>3. CASE UNCHANGED <<queue, subscribed>>
      BY <1>0, <3>1, <3>3 DEF TypeOK
    <3> QED BY <1>0, <3>1, <3>2, <3>3, ClosedTyped
  <2> QED BY <1>0, <1>2, <2>1, <2>2, <2>3 DEF LoadRun, TypeOK
<1>3. CASE SaveMessage(r)
  <2>1. [text |-> heard[r], status |-> copy[r].status] \in [text : 0 .. MaxText, status : Terminal]
    BY <1>3, StatusOfIsTerminal DEF SaveMessage, IInv, TypeOK, CopyTells
  <2>2. stored' \in [Runs -> Seq([text : 0 .. MaxText, status : Terminal])]
    <3>1. Append(stored[r], [text |-> heard[r], status |-> copy[r].status]) \in
              Seq([text : 0 .. MaxText, status : Terminal])
      BY <1>0, <2>1, AppendProperties, ZenonT(40) DEF TypeOK
    <3> QED BY <1>0, <1>3, <3>1 DEF SaveMessage, TypeOK
  <2>3. copy' \in [Runs \cup Cancels -> RunRows]
    <3>1. copy[r] \in RunRows /\ copy \in [Runs \cup Cancels -> RunRows]
      BY <1>0 DEF TypeOK
    <3>2. [copy[r] EXCEPT !.reply = TRUE] \in RunRows
      BY <3>1, RowChanged DEF RunStatuses
    <3>3. copy' = copy \/ copy' = [copy EXCEPT ![r] = [copy[r] EXCEPT !.reply = TRUE]]
      BY <1>3, <3>1 DEF SaveMessage
    <3> DEFINE e == [copy[r] EXCEPT !.reply = TRUE]
    <3>4. e \in RunRows /\ (copy' = copy \/ copy' = [copy EXCEPT ![r] = e])
      BY <3>2, <3>3
    <3> HIDE DEF e
    <3> QED BY <3>1, <3>4
  <2> QED BY <1>0, <1>3, <2>2, <2>3 DEF SaveMessage, TypeOK, KeeperPcs
<1>4. CASE SaveRun(r)
  <2>1. row' \in [Runs -> RunRows]
    <3>1. UpdateRun(r, copy[r].status, copy[r].reply) \/ row' = row
      BY <1>4 DEF SaveRun
    <3>2. copy[r].status \in RunStatuses /\ copy[r].reply \in BOOLEAN
      BY <1>0, RowTyped
    <3>3. row \in [Runs -> RunRows]
      BY <1>0 DEF TypeOK
    <3> QED BY <1>0, <3>1, <3>2, <3>3, RowWritten
  <2>2. /\ queue' \in [Runs -> Seq(Events)] /\ \A k \in Runs : Len(queue'[k]) <= BusCap
        /\ subscribed' \subseteq Runs
    BY <1>0, <1>4, ClosedTyped DEF SaveRun
  <2>3. lost' \subseteq Runs /\ keeper' \in [Runs -> KeeperPcs]
    BY <1>0, <1>4 DEF SaveRun, TypeOK, KeeperPcs
  <2> QED BY <1>0, <1>4, <2>1, <2>2, <2>3 DEF SaveRun, TypeOK
<1> QED BY <1>1, <1>2, <1>3, <1>4 DEF KeeperStep

LEMMA CancelTypes ==
    ASSUME IInv, NEW c \in Cancels,
           \/ CancelStep(c) \/ GiveUpCancel(c) \/ DispatchCancel(c) \/ \E r \in Runs : LoadForCancel(c, r)
    PROVE  TypeOK'
<1> USE DEF dbVars, sendVars, keeperVars, busVars, mapVars, sidecarVars, histVars, CallGoto, CancelPcs
<1>0. TypeOK
  BY DEF IInv
<1>1. CASE AskCancel(c)
  BY <1>0, <1>1 DEF AskCancel, TypeOK
<1>2. CASE SaveCancelled(c)
  <2>1. row' \in [Runs -> RunRows]
    <3>1. target[c] \in Runs /\ copy[c].reply \in BOOLEAN /\ "interrupted" \in RunStatuses
      BY <1>0, <1>2, RowTyped DEF SaveCancelled, IInv, CopiesLink, RunStatuses
    <3>2. UpdateRun(target[c], "interrupted", copy[c].reply)
      BY <1>2 DEF SaveCancelled
    <3> QED BY <1>0, <3>1, <3>2, RowWritten
  <2> QED BY <1>0, <1>2, <2>1 DEF SaveCancelled, TypeOK
<1>3. CASE GiveUpCancel(c)
  BY <1>0, <1>3 DEF GiveUpCancel, TypeOK
<1>4. CASE DispatchCancel(c)
  <2>1. call[c] \in {"idle", "ask", "wait", "save", "done", "failed"}
    BY <1>0 DEF TypeOK
  <2>2. call' \in [Cancels -> {"idle", "ask", "wait", "save", "done", "failed"}]
    BY <1>0, <1>4, <2>1 DEF DispatchCancel, TypeOK
  <2>3. cancelled' \subseteq Runs
    BY <1>0, <1>4 DEF DispatchCancel, TypeOK, Active
  <2> QED BY <1>0, <1>4, <2>2, <2>3 DEF DispatchCancel, TypeOK
<1>5. ASSUME NEW r \in Runs, LoadForCancel(c, r) PROVE TypeOK'
  <2>1. row[r] \in RunRows /\ copy \in [Runs \cup Cancels -> RunRows]
    BY <1>0 DEF TypeOK
  <2>2. copy' = copy \/ copy' = [copy EXCEPT ![c] = row[r]]
    BY <1>5 DEF LoadForCancel
  <2>3. copy' \in [Runs \cup Cancels -> RunRows]
    BY <2>1, <2>2
  <2>4. target' \in [Cancels -> Runs \cup {NoRun}] /\ call' \in [Cancels -> CancelPcs]
    BY <1>0, <1>5 DEF LoadForCancel, TypeOK
  <2> QED BY <1>0, <1>5, <2>3, <2>4 DEF LoadForCancel, TypeOK
<1> QED BY <1>1, <1>2, <1>3, <1>4, <1>5 DEF CancelStep

LEMMA ThreadTypes ==
    ASSUME IInv, NEW r \in Runs, ThreadStep(r) \/ DispatchStart(r) \/ WriteAck(r) \/ DeleteConversation(r)
    PROVE  TypeOK'
<1> USE DEF dbVars, sendVars, keeperVars, cancelVars, busVars, mapVars, sidecarVars, histVars, ThreadGoto,
            ThreadPcs
<1>0. TypeOK
  BY DEF IInv
<1>1. CASE EmitActivity(r)
  <2>1. "activity" \in Kinds /\ Route(r, "activity")
    BY <1>1 DEF EmitActivity, Kinds
  <2> QED BY <1>0, <1>1, <2>1, RouteRoutes DEF EmitActivity, TypeOK
<1>2. CASE EmitText(r)
  <2>1. "text" \in Kinds /\ Route(r, "text")
    BY <1>2 DEF EmitText, Kinds
  <2>2. said' \in [Runs -> 0 .. MaxText]
    BY <1>0, <1>2, LimitsAssumption DEF EmitText, TypeOK
  <2> QED BY <1>0, <1>2, <2>1, <2>2, RouteRoutes DEF EmitText, TypeOK
<1>3. CASE Conclude(r)
  BY <1>0, <1>3 DEF Conclude, TypeOK, Outcomes
<1>4. CASE EmitEnd(r)
  <2>1. outcome[r] \in Kinds /\ Route(r, outcome[r])
    BY <1>0, <1>4 DEF EmitEnd, IInv, ThreadOrder, TypeOK, Kinds
  <2> QED BY <1>0, <1>4, <2>1, RouteRoutes DEF EmitEnd, TypeOK
<1>5. CASE LeaveRuns(r)
  BY <1>0, <1>5 DEF LeaveRuns, TypeOK
<1>6. CASE DispatchStart(r)
  BY <1>0, <1>6 DEF DispatchStart, TypeOK
<1>7. CASE WriteAck(r)
  <2>1. "started" \in Kinds /\ Route(r, "started")
    BY <1>7 DEF WriteAck, Kinds
  <2> QED BY <1>0, <1>7, <2>1, RouteRoutes DEF WriteAck, TypeOK
<1>8. CASE DeleteConversation(r)
  <2>1. << >> \in Seq([text : 0 .. MaxText, status : Terminal])
    OBVIOUS
  <2> QED BY <1>0, <1>8, <2>1 DEF DeleteConversation, TypeOK, RunRows, RunStatuses
<1> QED BY <1>1, <1>2, <1>3, <1>4, <1>5, <1>6, <1>7, <1>8 DEF ThreadStep

LEMMA ExitTypes ==
    ASSUME IInv, SidecarCrashes \/ SidecarShutDown \/ HostDies \/ HostStarts
    PROVE  TypeOK'
<1> USE DEF dbVars, sendVars, keeperVars, cancelVars, busVars, mapVars, histVars
<1>0. TypeOK
  BY DEF IInv
<1>1. ASSUME NEW code \in {"sidecar_crashed", "sidecar_shutdown"}, SidecarExits(code) PROVE TypeOK'
  <2>1. PICK es \in SyntheticEnds(code) : Broadcast(es)
    BY <1>1 DEF SidecarExits
  <2>2. es \in Seq(Events)
    BY <1>0, SyntheticTyped
  <2>3. stops' \in 0 .. MaxStops
    BY <1>0, <1>1, LimitsAssumption DEF SidecarExits, TypeOK
  <2>4. thread' \in [Runs -> ThreadPcs]
    BY <1>0, <1>1 DEF SidecarExits, SidecarGone, TypeOK, ThreadPcs
  <2>5. answer' \in [Runs -> {"none", "started", "error"}] /\ call' \in [Cancels -> CancelPcs]
    BY <1>0, <1>1 DEF SidecarExits, TypeOK, CancelPcs
  <2> QED BY <1>0, <1>1, <2>1, <2>2, <2>3, <2>4, <2>5, BroadcastFeeds DEF SidecarExits, SidecarGone, TypeOK
<1>2. CASE HostDies
  <2>1. << >> \in Seq(Events) /\ Len(<< >>) = 0 /\ 0 <= BusCap
    BY LimitsAssumption
  <2>2. stops' \in 0 .. MaxStops
    BY <1>0, <1>2, LimitsAssumption DEF HostDies, TypeOK
  <2>3. thread' \in [Runs -> ThreadPcs]
    BY <1>0, <1>2 DEF HostDies, SidecarGone, TypeOK, ThreadPcs
  <2>4. send' \in [Runs -> SendPcs] /\ keeper' \in [Runs -> KeeperPcs] /\ call' \in [Cancels -> CancelPcs]
    BY <1>0, <1>2 DEF HostDies, TypeOK, SendPcs, KeeperPcs, CancelPcs
  <2>5. queue' \in [Runs -> Seq(Events)] /\ \A k \in Runs : Len(queue'[k]) <= BusCap
    BY <1>0, <1>2, ClosedTyped DEF HostDies
  <2> QED BY <1>0, <1>2, <2>2, <2>3, <2>4, <2>5 DEF HostDies, SidecarGone, Receivers, TypeOK
<1>3. CASE HostStarts
  <2>1. row' \in [Runs -> RunRows]
    <3>1. \A k \in Runs : row[k] \in RunRows /\ "interrupted" \in RunStatuses
      BY <1>0 DEF TypeOK, RunStatuses
    <3>2. \A k \in Runs : [row[k] EXCEPT !.status = "interrupted"] \in RunRows
      BY <3>1, RowChanged
    <3>3. row' = [k \in Runs |-> IF row[k].status = "running"
                                 THEN [row[k] EXCEPT !.status = "interrupted"] ELSE row[k]]
      BY <1>3 DEF HostStarts
    <3> QED BY <3>1, <3>2, <3>3
  <2> QED BY <1>0, <1>3, <2>1 DEF HostStarts, TypeOK, sidecarVars
<1> QED BY <1>1, <1>2, <1>3 DEF SidecarCrashes, SidecarShutDown

LEMMA TypeStep == ASSUME IInv, [Next]_vars PROVE TypeOK'
<1>1. CASE UNCHANGED vars
  BY <1>1 DEF vars, dbVars, sendVars, keeperVars, cancelVars, busVars, mapVars, sidecarVars, histVars,
              IInv, TypeOK
<1> QED BY <1>1, SendTypes, KeeperTypes, CancelTypes, ThreadTypes, ExitTypes DEF Next, Dispatch, Environment
-----------------------------------------------------------------------------
(* Who writes what.                                                        *)

Exits == \E code \in {"sidecar_crashed", "sidecar_shutdown"} : SidecarExits(code)

LEMMA WhoWritesRows ==
    ASSUME Next
    PROVE  /\ \/ row' = row
              \/ \E r \in Runs : \/ InsertRun(r) \/ RejectMessage(r) \/ SaveRun(r) \/ DeleteConversation(r)
              \/ \E c \in Cancels : SaveCancelled(c)
              \/ HostStarts
           /\ stored' = stored \/ \E r \in Runs : SaveMessage(r) \/ DeleteConversation(r)
           /\ \/ copy' = copy
              \/ \E r \in Runs : LoadRun(r) \/ SaveMessage(r)
              \/ \E c \in Cancels, r \in Runs : LoadForCancel(c, r)
<1> USE DEF dbVars, Receivers
<1>1. ASSUME NEW r \in Runs, SendStep(r) \/ DropSend(r) \/ StartRefused(r) \/ StartTimesOut(r)
      PROVE  (row' = row \/ RejectMessage(r)) /\ UNCHANGED <<stored, copy>>
  BY <1>1 DEF SendStep, Subscribe, StartRun, StartAnswered, RejectMessage, DropSend, StartRefused, StartTimesOut
<1>2. ASSUME NEW r \in Runs, KeeperStep(r)
      PROVE  /\ row' = row \/ SaveRun(r)
             /\ stored' = stored \/ SaveMessage(r)
             /\ copy' = copy \/ LoadRun(r) \/ SaveMessage(r)
  BY <1>2 DEF KeeperStep, Listen, LoadRun, SaveMessage, SaveRun
<1>3. ASSUME NEW r \in Runs, ThreadStep(r) \/ DispatchStart(r) \/ WriteAck(r)
      PROVE  UNCHANGED <<row, stored, copy>>
  BY <1>3 DEF ThreadStep, EmitActivity, EmitText, Conclude, EmitEnd, LeaveRuns, DispatchStart, WriteAck
<1>4. ASSUME NEW c \in Cancels, CancelStep(c) \/ DispatchCancel(c) \/ GiveUpCancel(c)
      PROVE  (row' = row \/ SaveCancelled(c)) /\ UNCHANGED <<stored, copy>>
  BY <1>4 DEF CancelStep, AskCancel, SaveCancelled, DispatchCancel, GiveUpCancel
<1>5. ASSUME NEW c \in Cancels, NEW r \in Runs, LoadForCancel(c, r) PROVE UNCHANGED <<row, stored>>
  BY <1>5 DEF LoadForCancel
<1>6. ASSUME NEW r \in Runs, InsertRun(r) \/ DeleteConversation(r)
      PROVE  (stored' = stored \/ DeleteConversation(r)) /\ UNCHANGED copy
  BY <1>6 DEF InsertRun, DeleteConversation
<1>7. ASSUME Exits \/ HostDies \/ HostStarts
      PROVE  (row' = row \/ HostStarts) /\ UNCHANGED <<stored, copy>>
  BY <1>7 DEF Exits, SidecarExits, HostDies, HostStarts
<1>8. SidecarCrashes \/ SidecarShutDown => Exits
  BY DEF SidecarCrashes, SidecarShutDown, Exits
<1> QED BY <1>1, <1>2, <1>3, <1>4, <1>5, <1>6, <1>7, <1>8 DEF Next, Dispatch, Environment

LEMMA WhoWritesTasks ==
    ASSUME Next
    PROVE  /\ \/ UNCHANGED send
              \/ \E r \in Runs : \/ SendStep(r) \/ DropSend(r) \/ StartRefused(r) \/ StartTimesOut(r)
                                 \/ InsertRun(r)
              \/ HostDies
           /\ UNCHANGED keeper \/ HostDies \/ \E r \in Runs : StartAnswered(r) \/ KeeperStep(r)
           /\ UNCHANGED <<heard, verdict>> \/ \E r \in Runs : Listen(r)
           /\ \/ UNCHANGED <<call, target>> \/ Exits \/ HostDies
              \/ \E c \in Cancels : \/ CancelStep(c) \/ GiveUpCancel(c) \/ DispatchCancel(c)
                                    \/ \E r \in Runs : LoadForCancel(c, r)
<1> USE DEF sendVars, keeperVars, cancelVars
<1>1. ASSUME NEW r \in Runs, \/ SendStep(r) \/ DropSend(r) \/ StartRefused(r) \/ StartTimesOut(r) \/ InsertRun(r)
                             \/ DeleteConversation(r)
      PROVE  /\ UNCHANGED keeper \/ StartAnswered(r)
             /\ UNCHANGED <<heard, verdict, call, target>>
             /\ UNCHANGED send \/ SendStep(r) \/ DropSend(r) \/ StartRefused(r) \/ StartTimesOut(r) \/ InsertRun(r)
  BY <1>1 DEF SendStep, Subscribe, StartRun, StartAnswered, RejectMessage, DropSend, StartRefused, StartTimesOut,
              InsertRun, DeleteConversation
<1>2. ASSUME NEW r \in Runs, KeeperStep(r)
      PROVE  UNCHANGED <<send, call, target>> /\ (UNCHANGED <<heard, verdict>> \/ Listen(r))
  BY <1>2 DEF KeeperStep, Listen, LoadRun, SaveMessage, SaveRun
<1>3. ASSUME NEW r \in Runs, ThreadStep(r) \/ DispatchStart(r) \/ WriteAck(r)
      PROVE  UNCHANGED <<send, keeper, heard, verdict, call, target>>
  BY <1>3 DEF ThreadStep, EmitActivity, EmitText, Conclude, EmitEnd, LeaveRuns, DispatchStart, WriteAck
<1>4. ASSUME NEW c \in Cancels, \/ CancelStep(c) \/ DispatchCancel(c) \/ GiveUpCancel(c)
                                \/ \E r \in Runs : LoadForCancel(c, r)
      PROVE  UNCHANGED <<send, keeper, heard, verdict>>
  BY <1>4 DEF CancelStep, AskCancel, SaveCancelled, DispatchCancel, GiveUpCancel, LoadForCancel
<1>5. ASSUME Exits \/ HostStarts
      PROVE  UNCHANGED <<send, keeper, heard, verdict>> /\ (UNCHANGED <<call, target>> \/ Exits)
  BY <1>5 DEF Exits, SidecarExits, HostStarts
<1>6. HostDies => UNCHANGED <<heard, verdict>>
  BY DEF HostDies
<1>7. SidecarCrashes \/ SidecarShutDown => Exits
  BY DEF SidecarCrashes, SidecarShutDown, Exits
<1> QED BY <1>1, <1>2, <1>3, <1>4, <1>5, <1>6, <1>7 DEF Next, Dispatch, Environment

LEMMA WhoWritesThreads ==
    ASSUME Next
    PROVE  /\ UNCHANGED thread \/ Exits \/ HostDies \/ \E r \in Runs : DispatchStart(r) \/ ThreadStep(r)
           /\ UNCHANGED outcome \/ \E r \in Runs : Conclude(r)
           /\ UNCHANGED said \/ \E r \in Runs : EmitText(r)
           /\ \/ UNCHANGED inbox \/ Exits \/ HostDies \/ \E r \in Runs : StartRun(r) \/ DispatchStart(r)
              \/ \E c \in Cancels : AskCancel(c) \/ DispatchCancel(c)
           /\ \/ UNCHANGED pending \/ Exits \/ HostDies
              \/ \E r \in Runs : StartRun(r) \/ StartTimesOut(r) \/ WriteAck(r) \/ ThreadStep(r)
<1> USE DEF sidecarVars, mapVars
<1>1. ASSUME NEW r \in Runs, \/ SendStep(r) \/ DropSend(r) \/ StartRefused(r) \/ StartTimesOut(r) \/ InsertRun(r)
                             \/ DeleteConversation(r)
      PROVE  /\ UNCHANGED <<thread, outcome, said>>
             /\ UNCHANGED inbox \/ StartRun(r)
             /\ UNCHANGED pending \/ StartRun(r) \/ StartTimesOut(r)
  BY <1>1 DEF SendStep, Subscribe, StartRun, StartAnswered, RejectMessage, DropSend, StartRefused, StartTimesOut,
              InsertRun, DeleteConversation
<1>2. ASSUME NEW r \in Runs, KeeperStep(r)
      PROVE  UNCHANGED <<thread, outcome, said, inbox, pending>>
  BY <1>2 DEF KeeperStep, Listen, LoadRun, SaveMessage, SaveRun
<1>3. ASSUME NEW r \in Runs, ThreadStep(r) \/ DispatchStart(r) \/ WriteAck(r)
      PROVE  /\ UNCHANGED thread \/ DispatchStart(r) \/ ThreadStep(r)
             /\ UNCHANGED outcome \/ Conclude(r)
             /\ UNCHANGED said \/ EmitText(r)
             /\ UNCHANGED inbox \/ DispatchStart(r)
             /\ UNCHANGED pending \/ WriteAck(r) \/ ThreadStep(r)
  BY <1>3 DEF ThreadStep, EmitActivity, EmitText, Conclude, EmitEnd, LeaveRuns, DispatchStart, WriteAck
<1>4. ASSUME NEW c \in Cancels, \/ CancelStep(c) \/ DispatchCancel(c) \/ GiveUpCancel(c)
                                \/ \E r \in Runs : LoadForCancel(c, r)
      PROVE  /\ UNCHANGED <<thread, outcome, said, pending>>
             /\ UNCHANGED inbox \/ AskCancel(c) \/ DispatchCancel(c)
  BY <1>4 DEF CancelStep, AskCancel, SaveCancelled, DispatchCancel, GiveUpCancel, LoadForCancel
<1>5. ASSUME Exits \/ HostDies PROVE UNCHANGED <<outcome, said>>
  BY <1>5 DEF Exits, SidecarExits, HostDies, SidecarGone
<1>6. ASSUME HostStarts PROVE UNCHANGED <<thread, outcome, said, inbox, pending>>
  BY <1>6 DEF HostStarts
<1>7. SidecarCrashes \/ SidecarShutDown => Exits
  BY DEF SidecarCrashes, SidecarShutDown, Exits
<1> QED BY <1>1, <1>2, <1>3, <1>4, <1>5, <1>6, <1>7 DEF Next, Dispatch, Environment

\* What reaches the receivers: at most one event of a run, or synthetic ends of runs.
Told(r, kind) == Broadcast(<< [run |-> r, kind |-> kind] >>)

LEMMA WhoWritesBus ==
    ASSUME IInv, Next
    PROVE  /\ \/ UNCHANGED <<queue, subscribed, gaps>>
              \/ \E r \in Runs : \/ Receivers({r}) /\ UNCHANGED gaps
                                 \/ Subscribe(r) \/ Listen(r) \/ SaveMessage(r)
                                 \/ WriteAck(r) \/ EmitActivity(r) \/ EmitText(r) \/ EmitEnd(r)
              \/ Exits
              \/ HostDies
           /\ gaps \subseteq gaps'
<1> USE DEF busVars, histVars, Receivers
<1>1. ASSUME NEW r \in Runs, \/ SendStep(r) \/ DropSend(r) \/ StartRefused(r) \/ StartTimesOut(r) \/ InsertRun(r)
                             \/ DeleteConversation(r)
      PROVE  /\ UNCHANGED gaps
             /\ UNCHANGED <<queue, subscribed>> \/ Subscribe(r) \/ Receivers({r})
  BY <1>1 DEF SendStep, Subscribe, StartRun, StartAnswered, RejectMessage, DropSend, StartRefused, StartTimesOut,
              InsertRun, DeleteConversation
<1>2. ASSUME NEW r \in Runs, KeeperStep(r)
      PROVE  /\ UNCHANGED <<queue, subscribed, gaps>> \/ (Receivers({r}) /\ UNCHANGED gaps) \/ Listen(r) \/ SaveMessage(r)
             /\ gaps \subseteq gaps'
  BY <1>2 DEF KeeperStep, Listen, LoadRun, SaveMessage, SaveRun
<1>3. ASSUME NEW r \in Runs, ThreadStep(r) \/ DispatchStart(r) \/ WriteAck(r)
      PROVE  /\ \/ UNCHANGED <<queue, subscribed, gaps>>
                \/ WriteAck(r) \/ EmitActivity(r) \/ EmitText(r) \/ EmitEnd(r)
             /\ gaps \subseteq gaps'
  BY <1>3 DEF ThreadStep, EmitActivity, EmitText, Conclude, EmitEnd, LeaveRuns, DispatchStart, WriteAck, Route,
              Broadcast
<1>4. ASSUME NEW c \in Cancels, \/ CancelStep(c) \/ DispatchCancel(c) \/ GiveUpCancel(c)
                                \/ \E r \in Runs : LoadForCancel(c, r)
      PROVE  UNCHANGED <<queue, subscribed, gaps>>
  BY <1>4 DEF CancelStep, AskCancel, SaveCancelled, DispatchCancel, GiveUpCancel, LoadForCancel
<1>5. ASSUME Exits \/ HostDies \/ HostStarts
      PROVE  gaps \subseteq gaps' /\ (UNCHANGED <<queue, subscribed, gaps>> \/ Exits \/ HostDies)
  BY <1>5 DEF Exits, SidecarExits, Broadcast, HostDies, HostStarts
<1>6. SidecarCrashes \/ SidecarShutDown => Exits
  BY DEF SidecarCrashes, SidecarShutDown, Exits
<1> QED BY <1>1, <1>2, <1>3, <1>4, <1>5, <1>6 DEF Next, Dispatch, Environment
-----------------------------------------------------------------------------
(* The order of a run's tasks.                                             *)

\* What a step can make of a row: it is inserted once, and only a row that exists is
\* overwritten or deleted.
LEMMA RowSteps ==
    ASSUME IInv, Next, NEW k \in Runs, row'[k] # row[k]
    PROVE  \/ /\ InsertRun(k)
              /\ row'[k].status = "running" /\ row'[k].reply = FALSE
           \/ /\ Exists(k)
              /\ \/ RejectMessage(k) /\ row'[k].status = "failed" /\ row'[k].reply = FALSE
                 \/ SaveRun(k) /\ row'[k].status = copy[k].status /\ row'[k].reply = copy[k].reply
                 \/ DeleteConversation(k) /\ row'[k].status = "deleted" /\ row'[k].reply = FALSE
                 \/ \E c \in Cancels : /\ SaveCancelled(c) /\ target[c] = k
                                       /\ row'[k].status = "interrupted" /\ row'[k].reply = copy[c].reply
                 \/ HostStarts /\ row'[k].status = "interrupted" /\ row'[k].reply = row[k].reply
<1>0. TypeOK /\ row \in [Runs -> RunRows]
  BY DEF IInv, TypeOK
<1>1. ASSUME NEW r \in Runs, InsertRun(r)
      PROVE  k = r /\ row'[k].status = "running" /\ row'[k].reply = FALSE
  <2>1. k = r /\ row'[k] = [status |-> "running", reply |-> FALSE]
    BY <1>0, <1>1 DEF InsertRun
  <2> QED BY <2>1
<1>2. ASSUME NEW r \in Runs, RejectMessage(r)
      PROVE  k = r /\ Exists(k) /\ row'[k].status = "failed" /\ row'[k].reply = FALSE
  <2>1. UpdateRun(r, "failed", FALSE)
    BY <1>2 DEF RejectMessage
  <2>2. "failed" \in RunStatuses
    BY DEF RunStatuses
  <2>3. k = r /\ Exists(k) /\ row'[k] = [status |-> "failed", reply |-> FALSE]
    BY <1>0, <2>1, <2>2, RowWritten
  <2> QED BY <2>3
<1>3. ASSUME NEW r \in Runs, SaveRun(r)
      PROVE  k = r /\ Exists(k) /\ row'[k].status = copy[k].status /\ row'[k].reply = copy[k].reply
  <2>1. UpdateRun(r, copy[r].status, copy[r].reply)
    BY <1>3 DEF SaveRun
  <2>2. copy[r].status \in RunStatuses /\ copy[r].reply \in BOOLEAN
    BY <1>0, RowTyped
  <2>3. k = r /\ Exists(k) /\ row'[k] = [status |-> copy[k].status, reply |-> copy[k].reply]
    BY <1>0, <2>1, <2>2, RowWritten
  <2> QED BY <2>3
<1>4. ASSUME NEW r \in Runs, DeleteConversation(r)
      PROVE  k = r /\ Exists(k) /\ row'[k].status = "deleted" /\ row'[k].reply = FALSE
  <2>1. k = r /\ Exists(k) /\ row'[k] = [status |-> "deleted", reply |-> FALSE]
    BY <1>0, <1>4 DEF DeleteConversation
  <2> QED BY <2>1
<1>5. ASSUME NEW c \in Cancels, SaveCancelled(c)
      PROVE  target[c] = k /\ Exists(k) /\ row'[k].status = "interrupted" /\ row'[k].reply = copy[c].reply
  <2>1. UpdateRun(target[c], "interrupted", copy[c].reply)
    BY <1>5 DEF SaveCancelled
  <2>2. target[c] \in Runs /\ copy[c].reply \in BOOLEAN /\ "interrupted" \in RunStatuses
    BY <1>0, <1>5, RowTyped DEF SaveCancelled, IInv, CopiesLink, RunStatuses
  <2>3. target[c] = k /\ Exists(k) /\ row'[k] = [status |-> "interrupted", reply |-> copy[c].reply]
    BY <1>0, <2>1, <2>2, RowWritten
  <2> QED BY <2>3
<1>6. ASSUME HostStarts
      PROVE  Exists(k) /\ row'[k].status = "interrupted" /\ row'[k].reply = row[k].reply
  <2>1. row'[k] = IF row[k].status = "running" THEN [row[k] EXCEPT !.status = "interrupted"] ELSE row[k]
    BY <1>6 DEF HostStarts
  <2>2. row[k].status = "running" /\ row[k] \in RunRows /\ "interrupted" \in RunStatuses
    BY <1>0, <2>1 DEF RunStatuses
  <2>3. row'[k] = [row[k] EXCEPT !.status = "interrupted"]
    BY <2>1, <2>2
  <2> QED BY <2>2, <2>3, RowChanged DEF Exists
<1> QED BY <1>1, <1>2, <1>3, <1>4, <1>5, <1>6, WhoWritesRows

\* A thread that has completed stays so, and says nothing more.
LEMMA CompletedStays ==
    ASSUME IInv, Next, NEW k \in Runs
    PROVE  /\ Completed(k) => Completed(k)' /\ said'[k] = said[k]
           /\ said[k] <= said'[k] /\ (said'[k] # said[k] => EmitText(k) /\ said'[k] = said[k] + 1)
<1>0. /\ said \in [Runs -> 0 .. MaxText] /\ thread \in [Runs -> ThreadPcs] /\ outcome \in [Runs -> Outcomes \cup {NoOutcome}]
      /\ \A r \in Runs : said[r] \in Nat
  BY LimitsAssumption DEF IInv, TypeOK
<1>1. ASSUME NEW r \in Runs, EmitText(r), said'[k] # said[k]
      PROVE  k = r /\ said'[k] = said[k] + 1 /\ ~Completed(k)
  BY <1>0, <1>1 DEF EmitText, Completed
<1>2. said'[k] # said[k] => EmitText(k) /\ said'[k] = said[k] + 1 /\ ~Completed(k)
  BY <1>1, WhoWritesThreads
<1>3. ASSUME Completed(k) PROVE outcome'[k] = "completed"
  BY <1>0, <1>3, WhoWritesThreads DEF Completed, Conclude
<1>4. ASSUME Completed(k) PROVE thread'[k] \in {"leaving", "gone"}
  <2>1. CASE Exits \/ HostDies
    BY <2>1, <1>4 DEF Exits, HostDies, SidecarExits, SidecarGone, Completed
  <2>2. ASSUME NEW r \in Runs, DispatchStart(r) PROVE thread'[k] \in {"leaving", "gone"}
    BY <1>0, <1>4, <2>2 DEF DispatchStart, Completed, IInv, NotBegun, ThreadGoto
  <2>3. ASSUME NEW r \in Runs, ThreadStep(r) PROVE thread'[k] \in {"leaving", "gone"}
    BY <1>0, <1>4, <2>3 DEF ThreadStep, EmitActivity, EmitText, Conclude, EmitEnd, LeaveRuns, ThreadGoto, Completed
  <2>4. CASE UNCHANGED thread
    BY <1>4, <2>4 DEF Completed
  <2> QED BY <2>1, <2>2, <2>3, <2>4, WhoWritesThreads
<1> QED BY <1>0, <1>2, <1>3, <1>4 DEF Completed

LEMMA SendMoves ==
    ASSUME IInv, Next, NEW k \in Runs, send'[k] # send[k]
    PROVE  \/ InsertRun(k) /\ send[k] = "idle" /\ send'[k] = "subscribe"
           \/ Subscribe(k) /\ send[k] = "subscribe" /\ send'[k] = "start"
           \/ StartRun(k) /\ send[k] = "start" /\ send'[k] = "wait"
           \/ send[k] \in {"start", "wait"} /\ send'[k] = "reject"
           \/ send[k] # "idle" /\ send'[k] = "done"
<1>0. TypeOK
  BY DEF IInv
<1>1. ASSUME NEW r \in Runs, SendStep(r) \/ DropSend(r) \/ StartRefused(r) \/ StartTimesOut(r) \/ InsertRun(r)
      PROVE  k = r /\ \/ InsertRun(k) /\ send[k] = "idle" /\ send'[k] = "subscribe"
                      \/ Subscribe(k) /\ send[k] = "subscribe" /\ send'[k] = "start"
                      \/ StartRun(k) /\ send[k] = "start" /\ send'[k] = "wait"
                      \/ send[k] \in {"start", "wait"} /\ send'[k] = "reject"
                      \/ send[k] # "idle" /\ send'[k] = "done"
  BY <1>0, <1>1 DEF TypeOK, SendStep, Subscribe, StartRun, StartAnswered, RejectMessage, DropSend, StartRefused,
                    StartTimesOut, InsertRun
<1>2. HostDies => send[k] # "idle" /\ send'[k] = "done"
  BY DEF HostDies
<1> QED BY <1>1, <1>2, WhoWritesTasks

LEMMA KeeperMoves ==
    ASSUME IInv, Next, NEW k \in Runs, keeper'[k] # keeper[k]
    PROVE  \/ StartAnswered(k) /\ send[k] = "wait" /\ send'[k] = "done" /\ keeper'[k] = "listen"
           \/ Listen(k) /\ keeper[k] = "listen" /\ keeper'[k] = "load"
           \/ LoadRun(k) /\ keeper[k] = "load" /\ keeper'[k] \in {"message", "save"}
           \/ SaveMessage(k) /\ keeper[k] = "message" /\ keeper'[k] = "save"
           \/ keeper'[k] = "off"
<1>0. TypeOK
  BY DEF IInv
<1>1. ASSUME NEW r \in Runs, StartAnswered(r)
      PROVE  k = r /\ StartAnswered(k) /\ send[k] = "wait" /\ send'[k] = "done" /\ keeper'[k] = "listen"
  BY <1>0, <1>1 DEF TypeOK, StartAnswered
<1>2. ASSUME NEW r \in Runs, KeeperStep(r)
      PROVE  k = r /\ \/ Listen(k) /\ keeper[k] = "listen" /\ keeper'[k] = "load"
                      \/ LoadRun(k) /\ keeper[k] = "load" /\ keeper'[k] \in {"message", "save"}
                      \/ SaveMessage(k) /\ keeper[k] = "message" /\ keeper'[k] = "save"
                      \/ keeper'[k] = "off"
  BY <1>0, <1>2 DEF TypeOK, KeeperStep, Listen, LoadRun, SaveMessage, SaveRun, KeeperGoto, keeperVars
<1>3. HostDies => keeper'[k] = "off"
  BY DEF HostDies
<1> QED BY <1>1, <1>2, <1>3, WhoWritesTasks

LEMMA NotBegunStep == ASSUME IInv, Next PROVE NotBegun'
<1>0. TypeOK /\ NotBegun
  BY DEF IInv
<1>1. ASSUME NEW k \in Runs PROVE (send[k] = "idle" => row[k] = NoRow)'
  <2>1. send'[k] = "idle" => send[k] = "idle"
    BY SendMoves
  <2>2. InsertRun(k) => send'[k] # "idle"
    BY <1>0 DEF InsertRun, TypeOK
  <2>3. send[k] = "idle" => ~Exists(k) /\ row[k] = NoRow
    BY <1>0 DEF NotBegun, Exists, NoRow
  <2> QED BY <2>1, <2>2, <2>3, RowSteps
<1>2. ASSUME NEW k \in Runs
      PROVE  /\ (send[k] \in {"idle", "subscribe", "start"} => thread[k] = "none" /\ k \notin inbox)'
             /\ (k \in inbox => thread[k] = "none")'
  <2> USE DEF TypeOK, NotBegun
  <2>1. send'[k] \in {"idle", "subscribe", "start"} => send[k] \in {"idle", "subscribe", "start"}
    BY SendMoves
  <2>2. thread'[k] # "none" => thread[k] # "none" \/ DispatchStart(k)
    <3>1. ASSUME NEW r \in Runs, DispatchStart(r) PROVE thread'[k] # "none" => thread[k] # "none" \/ k = r
      BY <1>0, <3>1 DEF DispatchStart, ThreadGoto
    <3>2. ASSUME NEW r \in Runs, ThreadStep(r) PROVE thread'[k] # "none" => thread[k] # "none"
      BY <1>0, <3>2 DEF ThreadStep, EmitActivity, EmitText, Conclude, EmitEnd, LeaveRuns, ThreadGoto
    <3>3. Exits \/ HostDies => (thread'[k] # "none" => thread[k] # "none")
      BY DEF Exits, HostDies, SidecarExits, SidecarGone, Active
    <3> QED BY <3>1, <3>2, <3>3, WhoWritesThreads
  <2>3. k \in inbox' => k \in inbox \/ StartRun(k)
    <3>1. ASSUME NEW r \in Runs, StartRun(r) \/ DispatchStart(r) PROVE k \in inbox' => k \in inbox \/ StartRun(k)
      BY <3>1 DEF StartRun, DispatchStart
    <3>2. ASSUME NEW c \in Cancels, AskCancel(c) \/ DispatchCancel(c) PROVE k \in inbox' => k \in inbox
      BY <3>2, TasksAssumption DEF AskCancel, DispatchCancel
    <3>3. Exits \/ HostDies => inbox' = {}
      BY DEF Exits, HostDies, SidecarExits, SidecarGone
    <3> QED BY <3>1, <3>2, <3>3, WhoWritesThreads
  <2>4. StartRun(k) => send'[k] = "wait" /\ send[k] = "start" /\ thread' = thread
    BY <1>0 DEF StartRun
  <2>5. DispatchStart(k) => k \in inbox /\ k \notin inbox'
    BY DEF DispatchStart
  <2> QED BY <1>0, <2>1, <2>2, <2>3, <2>4, <2>5
<1>3. ASSUME NEW k \in Runs
      PROVE  (send[k] \in {"idle", "subscribe", "start"} => k \notin pending /\ said[k] = 0 /\ heard[k] = 0)'
  <2>1. send'[k] \in {"idle", "subscribe", "start"} =>
            send[k] \in {"idle", "subscribe", "start"} /\ ~StartRun(k)
    <3>1. StartRun(k) => send'[k] = "wait"
      BY <1>0 DEF StartRun, TypeOK
    <3> QED BY <3>1, SendMoves
  <2>2. k \in pending' => k \in pending \/ StartRun(k)
    <3>1. ASSUME NEW r \in Runs, StartRun(r) \/ StartTimesOut(r) PROVE k \in pending' => k \in pending \/ StartRun(k)
      BY <3>1 DEF StartRun, StartTimesOut
    <3>2. ASSUME NEW r \in Runs, WriteAck(r) \/ ThreadStep(r) PROVE k \in pending' => k \in pending
      BY <3>2 DEF WriteAck, ThreadStep, EmitActivity, EmitText, Conclude, EmitEnd, LeaveRuns, Route, mapVars
    <3>3. Exits \/ HostDies => pending' = {}
      BY DEF Exits, HostDies, SidecarExits
    <3> QED BY <3>1, <3>2, <3>3, WhoWritesThreads
  <2>3. send[k] \in {"idle", "subscribe", "start"} => said'[k] = said[k]
    BY <1>0, CompletedStays DEF EmitText, NotBegun
  <2>4. send[k] # "done" => heard'[k] = heard[k]
    <3>1. ASSUME NEW r \in Runs, Listen(r), send[k] # "done" PROVE heard'[k] = heard[k]
      <4>1. k # r
        BY <1>0, <3>1 DEF Listen, NotBegun
      <4> QED BY <1>0, <3>1, <4>1 DEF Listen, TypeOK, keeperVars
    <3> QED BY <3>1, WhoWritesTasks
  <2> QED BY <1>0, <2>1, <2>2, <2>3, <2>4 DEF NotBegun
<1>4. ASSUME NEW k \in Runs PROVE (keeper[k] # "off" => send[k] = "done")'
  BY <1>0, SendMoves, KeeperMoves DEF NotBegun
<1> QED BY <1>1, <1>2, <1>3, <1>4 DEF NotBegun
LEMMA ReceiverOpenStep == ASSUME IInv, Next PROVE ReceiverOpen'
<1>0. TypeOK /\ NotBegun /\ ReceiverOpen
  BY DEF IInv
<1>1. ASSUME NEW k \in Runs PROVE (k \notin subscribed => queue[k] = << >>)'
  <2> USE DEF TypeOK, ReceiverOpen
  <2>1. ASSUME NEW r \in Runs, Receivers({r}) \/ Subscribe(r) \/ Listen(r) \/ SaveMessage(r)
        PROVE  k \notin subscribed' => queue'[k] = << >>
    BY <1>0, <2>1 DEF Receivers, Subscribe, Listen, SaveMessage, busVars
  <2>2. ASSUME NEW r \in Runs, WriteAck(r) \/ EmitActivity(r) \/ EmitText(r) \/ EmitEnd(r)
        PROVE  k \notin subscribed' => queue'[k] = << >>
    BY <1>0, <2>2 DEF WriteAck, EmitActivity, EmitText, EmitEnd, Route, Broadcast, busVars
  <2>3. Exits \/ HostDies => (k \notin subscribed' => queue'[k] = << >>)
    BY <1>0 DEF Exits, SidecarExits, Broadcast, HostDies, Receivers
  <2> QED BY <1>0, <2>1, <2>2, <2>3, WhoWritesBus
<1>2. ASSUME NEW k \in Runs, k \in subscribed, k \notin subscribed'
      PROVE  send'[k] \notin {"start", "wait"} /\ keeper'[k] = "off"
  <2>1. ASSUME NEW r \in Runs, SendStep(r) \/ DropSend(r) \/ StartRefused(r) \/ StartTimesOut(r)
        PROVE  send'[k] \notin {"start", "wait"} /\ keeper'[k] = "off"
    BY <1>0, <1>2, <2>1 DEF TypeOK, NotBegun, SendStep, Subscribe, StartRun, StartAnswered, RejectMessage, DropSend,
                            StartRefused, StartTimesOut, Receivers, busVars, keeperVars
  <2>2. ASSUME NEW r \in Runs, KeeperStep(r)
        PROVE  send'[k] \notin {"start", "wait"} /\ keeper'[k] = "off"
    BY <1>0, <1>2, <2>2 DEF TypeOK, NotBegun, KeeperStep, Listen, LoadRun, SaveMessage, SaveRun, KeeperGoto,
                            Receivers, busVars, sendVars
  <2>3. HostDies => send'[k] \notin {"start", "wait"} /\ keeper'[k] = "off"
    BY DEF HostDies
  <2>4. ASSUME NEW r \in Runs, \/ WriteAck(r) \/ ThreadStep(r) \/ DispatchStart(r) \/ InsertRun(r)
                               \/ DeleteConversation(r)
        PROVE  FALSE
    BY <1>2, <2>4 DEF WriteAck, ThreadStep, EmitActivity, EmitText, Conclude, EmitEnd, LeaveRuns, DispatchStart,
                      InsertRun, DeleteConversation, Route, Broadcast, busVars
  <2>5. ASSUME NEW c \in Cancels, \/ CancelStep(c) \/ DispatchCancel(c) \/ GiveUpCancel(c)
                                  \/ \E r \in Runs : LoadForCancel(c, r)
        PROVE  FALSE
    BY <1>2, <2>5 DEF CancelStep, AskCancel, SaveCancelled, DispatchCancel, GiveUpCancel, LoadForCancel, busVars
  <2>6. SidecarCrashes \/ SidecarShutDown \/ HostStarts => UNCHANGED subscribed
    BY DEF SidecarCrashes, SidecarShutDown, SidecarExits, Broadcast, HostStarts, busVars
  <2> QED BY <1>2, <2>1, <2>2, <2>3, <2>4, <2>5, <2>6 DEF Next, Dispatch, Environment
<1>3. ASSUME NEW k \in Runs
      PROVE  (send[k] \in {"start", "wait"} => k \in subscribed)' /\ (keeper[k] # "off" => k \in subscribed)'
  <2>1. Subscribe(k) => k \in subscribed'
    BY DEF Subscribe
  <2>2. send'[k] \in {"start", "wait"} => k \in subscribed \/ Subscribe(k)
    BY <1>0, SendMoves DEF ReceiverOpen
  <2>3. keeper'[k] # "off" => k \in subscribed
    BY <1>0, KeeperMoves DEF ReceiverOpen
  <2> QED BY <1>2, <2>1, <2>2, <2>3
<1> QED BY <1>1, <1>3 DEF ReceiverOpen

LEMMA ThreadOrderStep == ASSUME IInv, Next PROVE ThreadOrder'
<1>0. TypeOK /\ NotBegun /\ ThreadOrder
  BY DEF IInv
<1>1. ASSUME NEW k \in Runs, thread'[k] = "stream" PROVE k \notin pending'
  <2>1. thread[k] = "stream" \/ (EmitActivity(k) /\ thread[k] = "begin")
    <3>1. ASSUME NEW r \in Runs, DispatchStart(r) \/ ThreadStep(r)
          PROVE  thread[k] = "stream" \/ (EmitActivity(k) /\ thread[k] = "begin")
      BY <1>0, <1>1, <3>1 DEF TypeOK, DispatchStart, ThreadStep, EmitActivity, EmitText, Conclude, EmitEnd, LeaveRuns,
                              ThreadGoto
    <3>2. Exits \/ HostDies => thread[k] = "stream"
      BY <1>1 DEF Exits, SidecarExits, HostDies, SidecarGone
    <3> QED BY <1>1, <3>1, <3>2, WhoWritesThreads
  <2>2. EmitActivity(k) => k \notin pending'
    BY DEF EmitActivity, Route
  <2>3. thread[k] = "stream" => k \notin pending /\ send[k] # "start"
    BY <1>0 DEF ThreadOrder, NotBegun
  <2>4. k \notin pending /\ send[k] # "start" => k \notin pending'
    <3>1. ASSUME NEW r \in Runs, StartRun(r) \/ StartTimesOut(r), k \notin pending, send[k] # "start"
          PROVE  k \notin pending'
      BY <3>1 DEF StartRun, StartTimesOut
    <3>2. ASSUME NEW r \in Runs, WriteAck(r) \/ ThreadStep(r), k \notin pending PROVE k \notin pending'
      BY <3>2 DEF WriteAck, ThreadStep, EmitActivity, EmitText, Conclude, EmitEnd, LeaveRuns, Route, mapVars
    <3>3. Exits \/ HostDies => pending' = {}
      BY DEF Exits, HostDies, SidecarExits
    <3> QED BY <3>1, <3>2, <3>3, WhoWritesThreads
  <2> QED BY <2>1, <2>2, <2>3, <2>4
<1>2. ASSUME NEW k \in Runs, thread'[k] \in {"closing", "leaving"} PROVE outcome'[k] # NoOutcome
  <2>1. (thread[k] \in {"closing", "leaving"} /\ outcome'[k] = outcome[k]) \/ Conclude(k)
    <3>1. ASSUME NEW r \in Runs, DispatchStart(r) \/ ThreadStep(r)
          PROVE  thread[k] \in {"closing", "leaving"} \/ Conclude(k)
      BY <1>0, <1>2, <3>1 DEF TypeOK, DispatchStart, ThreadStep, EmitActivity, EmitText, Conclude, EmitEnd, LeaveRuns,
                              ThreadGoto
    <3>2. Exits \/ HostDies => thread[k] \in {"closing", "leaving"}
      BY <1>2 DEF Exits, SidecarExits, HostDies, SidecarGone
    <3>3. thread[k] \in {"closing", "leaving"} \/ Conclude(k)
      BY <1>2, <3>1, <3>2, WhoWritesThreads
    <3>4. ASSUME NEW r \in Runs, Conclude(r), r # k PROVE outcome'[k] = outcome[k]
      BY <1>0, <3>4 DEF TypeOK, Conclude
    <3> QED BY <3>3, <3>4, WhoWritesThreads
  <2>2. Conclude(k) => outcome'[k] # NoOutcome
    BY <1>0 DEF Conclude, TypeOK, NoOutcome
  <2> QED BY <1>0, <2>1, <2>2 DEF ThreadOrder
<1> QED BY <1>1, <1>2 DEF ThreadOrder
-----------------------------------------------------------------------------
(* Rows, messages and copies.                                              *)

LEMMA StoredMoves ==
    ASSUME IInv, Next, NEW k \in Runs, stored'[k] # stored[k]
    PROVE  \/ DeleteConversation(k) /\ stored'[k] = << >> /\ row'[k].status = "deleted"
           \/ /\ SaveMessage(k) /\ Exists(k) /\ stored[k] = << >> /\ keeper[k] = "message"
              /\ Len(stored'[k]) = 1 /\ stored'[k] # << >> /\ 1 \in DOMAIN stored'[k]
              /\ stored'[k][1] = [text |-> heard[k], status |-> copy[k].status]
<1>0. TypeOK /\ NotYetStored
  BY DEF IInv
<1>1. ASSUME NEW r \in Runs, DeleteConversation(r)
      PROVE  k = r /\ stored'[k] = << >> /\ row'[k].status = "deleted"
  BY <1>0, <1>1 DEF TypeOK, DeleteConversation
<1>2. ASSUME NEW r \in Runs, SaveMessage(r)
      PROVE  /\ k = r /\ Exists(k) /\ stored[k] = << >> /\ keeper[k] = "message"
             /\ Len(stored'[k]) = 1 /\ stored'[k] # << >> /\ 1 \in DOMAIN stored'[k]
             /\ stored'[k][1] = [text |-> heard[k], status |-> copy[k].status]
  <2>1. k = r /\ Exists(k) /\ stored[k] = << >> /\ keeper[k] = "message"
    BY <1>0, <1>2 DEF TypeOK, SaveMessage, NotYetStored
  <2> DEFINE m == [text |-> heard[k], status |-> copy[k].status]
  <2>2. stored'[k] = Append(<< >>, m)
    BY <1>0, <1>2, <2>1 DEF TypeOK, SaveMessage
  <2> HIDE DEF m
  <2>3. stored'[k] = << m >>
    BY <2>2
  <2>4. Len(stored'[k]) = 1 /\ stored'[k] # << >> /\ 1 \in DOMAIN stored'[k] /\ stored'[k][1] = m
    BY <2>3
  <2> QED BY <2>1, <2>4 DEF m
<1> QED BY <1>1, <1>2, WhoWritesRows

\* What the persistence task takes along from the row.
LEMMA LoadedCopy ==
    ASSUME IInv, NEW k \in Runs, LoadRun(k), keeper'[k] # "off"
    PROVE  /\ Exists(k) /\ copy'[k].status = StatusOf(verdict[k]) /\ copy'[k].reply = row[k].reply
           /\ keeper'[k] = IF heard[k] > 0 THEN "message" ELSE "save"
<1>0. TypeOK
  BY DEF IInv
<1>1. Exists(k) /\ copy' = [copy EXCEPT ![k] = [row[k] EXCEPT !.status = StatusOf(verdict[k])]]
  BY <1>0 DEF LoadRun, KeeperGoto, TypeOK
<1>2. copy'[k] = [row[k] EXCEPT !.status = StatusOf(verdict[k])] /\ row[k] \in RunRows
  BY <1>0, <1>1 DEF TypeOK
<1>3. keeper'[k] = IF heard[k] > 0 THEN "message" ELSE "save"
  BY <1>0 DEF LoadRun, KeeperGoto, TypeOK
<1>4. StatusOf(verdict[k]) \in RunStatuses
  BY StatusOfIsTerminal
<1>5. copy'[k].status = StatusOf(verdict[k]) /\ copy'[k].reply = row[k].reply
  BY <1>2, <1>4, RowChanged
<1> QED BY <1>1, <1>3, <1>5

LEMMA CopyMoves ==
    ASSUME IInv, Next
    PROVE  /\ \A k \in Runs : copy'[k] # copy[k] =>
                  \/ /\ LoadRun(k) /\ keeper[k] = "load" /\ Exists(k)
                     /\ copy'[k].status = StatusOf(verdict[k]) /\ copy'[k].reply = row[k].reply
                  \/ /\ SaveMessage(k) /\ keeper[k] = "message" /\ Exists(k)
                     /\ copy'[k].status = copy[k].status
           /\ \A c \in Cancels : copy'[c] # copy[c] => \E r \in Runs : LoadForCancel(c, r)
<1>0. TypeOK /\ copy \in [Runs \cup Cancels -> RunRows] /\ row \in [Runs -> RunRows]
  BY DEF IInv, TypeOK
<1>1. ASSUME NEW k \in Runs, NEW r \in Runs, LoadRun(r), copy'[k] # copy[k]
      PROVE  /\ k = r /\ keeper[k] = "load" /\ Exists(k)
             /\ copy'[k].status = StatusOf(verdict[k]) /\ copy'[k].reply = row[k].reply
  <2>1. k = r /\ keeper[k] = "load" /\ Exists(k)
    BY <1>0, <1>1 DEF LoadRun
  <2>2. copy' = [copy EXCEPT ![k] = [row[k] EXCEPT !.status = StatusOf(verdict[k])]]
    BY <1>0, <1>1, <2>1 DEF LoadRun
  <2>3. copy'[k] = [row[k] EXCEPT !.status = StatusOf(verdict[k])]
    BY <1>0, <2>2
  <2>4. row[k] \in RunRows /\ StatusOf(verdict[k]) \in RunStatuses
    BY <1>0, StatusOfIsTerminal
  <2> QED BY <2>1, <2>3, <2>4, RowChanged
<1>2. ASSUME NEW k \in Runs, NEW r \in Runs, SaveMessage(r), copy'[k] # copy[k]
      PROVE  k = r /\ keeper[k] = "message" /\ Exists(k) /\ copy'[k].status = copy[k].status
  <2>1. k = r /\ keeper[k] = "message" /\ Exists(k)
    BY <1>0, <1>2 DEF SaveMessage
  <2>2. copy' = [copy EXCEPT ![k] = [copy[k] EXCEPT !.reply = TRUE]]
    BY <1>0, <1>2, <2>1 DEF SaveMessage
  <2>3. copy'[k] = [copy[k] EXCEPT !.reply = TRUE] /\ copy[k] \in RunRows
    BY <1>0, <2>2
  <2>4. "failed" \in RunStatuses
    BY DEF RunStatuses
  <2> QED BY <2>1, <2>3, <2>4, RowChanged
<1>3. ASSUME NEW c \in Cancels, NEW r \in Runs, LoadForCancel(c, r)
      PROVE  /\ \A k \in Runs : copy'[k] = copy[k]
             /\ \A d \in Cancels : d # c => copy'[d] = copy[d]
  BY <1>0, <1>3, TasksAssumption DEF LoadForCancel
<1>4. ASSUME NEW r \in Runs, LoadRun(r) \/ SaveMessage(r) PROVE \A c \in Cancels : copy'[c] = copy[c]
  BY <1>0, <1>4, TasksAssumption DEF LoadRun, SaveMessage
<1> QED BY <1>1, <1>2, <1>3, <1>4, WhoWritesRows

LEMMA CallMoves ==
    ASSUME IInv, Next, NEW c \in Cancels, call'[c] \in {"ask", "wait", "save"}
    PROVE  \/ call[c] \in {"ask", "wait", "save"} /\ target'[c] = target[c] /\ copy'[c] = copy[c]
           \/ \E r \in Runs : LoadForCancel(c, r) /\ target'[c] = r /\ copy'[c] = row[r]
<1>0. TypeOK /\ copy \in [Runs \cup Cancels -> RunRows] /\ call \in [Cancels -> CancelPcs]
  BY DEF IInv, TypeOK
<1>1. ASSUME NEW r \in Runs, LoadForCancel(c, r) PROVE target'[c] = r /\ copy'[c] = row[r]
  <2>1. row[r].status = "running"
    BY <1>0, <1>1 DEF LoadForCancel, CallGoto
  <2> QED BY <1>0, <1>1, <2>1 DEF LoadForCancel, TypeOK
<1>2. ASSUME NEW d \in Cancels, CancelStep(d) \/ GiveUpCancel(d) \/ DispatchCancel(d)
      PROVE  call[c] \in {"ask", "wait", "save"} /\ target'[c] = target[c]
  BY <1>0, <1>2 DEF CancelStep, AskCancel, SaveCancelled, GiveUpCancel, DispatchCancel, CallGoto
<1>3. ASSUME NEW d \in Cancels, NEW r \in Runs, LoadForCancel(d, r), d # c
      PROVE  call[c] \in {"ask", "wait", "save"} /\ target'[c] = target[c]
  BY <1>0, <1>3 DEF LoadForCancel, CallGoto, TypeOK
<1>4. Exits \/ HostDies => call[c] \in {"ask", "wait", "save"} /\ target'[c] = target[c]
  BY DEF Exits, SidecarExits, HostDies
<1>5. (call[c] \in {"ask", "wait", "save"} /\ target'[c] = target[c]) \/ \E r \in Runs : LoadForCancel(c, r)
  BY <1>2, <1>3, <1>4, WhoWritesTasks
<1> QED BY <1>1, <1>5, CopyMoves

\* What is deleted stays deleted, and a message in a row that is not stays.
LEMMA DeletedStays ==
    ASSUME IInv, Next, NEW k \in Runs, row'[k].status # "deleted"
    PROVE  row[k].status # "deleted" /\ (stored[k] # << >> => stored'[k] # << >>)
<1>1. row[k].status # "deleted"
  <2>1. InsertRun(k) => row[k].status # "deleted"
    BY DEF IInv, NotBegun, NoRow, InsertRun
  <2> QED BY <2>1, RowSteps DEF Exists
<1> QED BY <1>1, StoredMoves

LEMMA StoredStep == ASSUME IInv, Next PROVE NotYetStored' /\ OneReplyPerRun'
<1>0. TypeOK /\ NotYetStored /\ OneReplyPerRun /\ NotBegun
  BY DEF IInv
<1>1. ASSUME NEW k \in Runs, send'[k] # "done" \/ keeper'[k] \in {"listen", "load", "message"}
      PROVE  stored'[k] = << >>
  <2>1. send[k] # "done" \/ keeper[k] \in {"listen", "load", "message"}
    BY <1>1, SendMoves, KeeperMoves
  <2>2. stored[k] = << >>
    BY <1>0, <2>1 DEF NotYetStored
  <2>3. SaveMessage(k) => keeper'[k] = "save" /\ send'[k] = "done"
    BY <1>0 DEF SaveMessage, KeeperGoto, TypeOK, NotBegun, sendVars
  <2> QED BY <1>1, <2>2, <2>3, StoredMoves
<1>2. ASSUME NEW k \in Runs PROVE Len(stored'[k]) <= 1
  <2>1. Len(stored[k]) <= 1 /\ Len(<< >>) = 0
    BY <1>0 DEF OneReplyPerRun
  <2>2. stored'[k] = stored[k] \/ stored'[k] = << >> \/ Len(stored'[k]) = 1
    BY StoredMoves
  <2>3. CASE stored'[k] = << >>
    <3>1. Len(stored'[k]) = 0
      BY <2>1, <2>3
    <3> QED BY <3>1
  <2>4. CASE stored'[k] = stored[k]
    BY <2>1, <2>4
  <2>5. CASE Len(stored'[k]) = 1
    BY <2>5
  <2> QED BY <2>2, <2>3, <2>4, <2>5
<1> QED BY <1>1, <1>2 DEF NotYetStored, OneReplyPerRun

\* A link is set together with the message it leads to.
LEMMA LinkedWhenStored ==
    ASSUME IInv, Next, NEW k \in Runs, SaveMessage(k), copy'[k] # copy[k]
    PROVE  stored'[k] # << >>
<1>0. TypeOK /\ copy \in [Runs \cup Cancels -> RunRows]
  BY DEF IInv, TypeOK
<1> DEFINE m == [text |-> heard[k], status |-> copy[k].status]
<1>1. stored' = [stored EXCEPT ![k] = Append(@, m)]
  BY <1>0 DEF SaveMessage
<1> HIDE DEF m
<1>2. stored'[k] = Append(stored[k], m) /\ stored[k] = << >>
  BY <1>0, <1>1 DEF TypeOK, IInv, NotYetStored, SaveMessage
<1> QED BY <1>2

LEMMA CopiesLinkStep == ASSUME IInv, Next PROVE CopiesLink'
<1>0. TypeOK /\ CopiesLink /\ LinkedReplyIsStored /\ NotYetStored
  BY DEF IInv
<1>1. ASSUME NEW k \in Runs, keeper'[k] \in {"message", "save"}, copy'[k].reply, row'[k].status # "deleted"
      PROVE  stored'[k] # << >>
  <2>1. CASE copy'[k] = copy[k] /\ keeper[k] \in {"message", "save"}
    <3>1. stored[k] # << >>
      BY <1>0, <1>1, <2>1, DeletedStays DEF CopiesLink
    <3> QED BY <1>1, <3>1, DeletedStays
  <2>2. CASE copy'[k] # copy[k]
    <3>1. SaveMessage(k) => stored'[k] # << >>
      BY <2>2, LinkedWhenStored
    <3>2. LoadRun(k) /\ copy'[k].reply = row[k].reply => FALSE
      BY <1>0, <1>1 DEF LinkedReplyIsStored, NotYetStored, LoadRun
    <3> QED BY <2>2, <3>1, <3>2, CopyMoves
  <2>3. CASE copy'[k] = copy[k] /\ keeper[k] \notin {"message", "save"}
    <3>1. LoadRun(k) /\ keeper[k] = "load"
      BY <1>1, <2>3, KeeperMoves
    <3>2. copy'[k].reply = row[k].reply
      BY <1>1, <3>1, LoadedCopy
    <3> QED BY <1>0, <1>1, <3>1, <3>2 DEF LinkedReplyIsStored, NotYetStored
  <2> QED BY <2>1, <2>2, <2>3
<1>2. ASSUME NEW c \in Cancels, call'[c] \in {"ask", "wait", "save"}
      PROVE  /\ target'[c] \in Runs
             /\ copy'[c].reply /\ row'[target'[c]].status # "deleted" => stored'[target'[c]] # << >>
  <2>1. CASE call[c] \in {"ask", "wait", "save"} /\ target'[c] = target[c] /\ copy'[c] = copy[c]
    <3>1. /\ target[c] \in Runs
          /\ copy[c].reply /\ row[target[c]].status # "deleted" => stored[target[c]] # << >>
      BY <1>0, <2>1 DEF CopiesLink
    <3> QED BY <2>1, <3>1, DeletedStays
  <2>2. ASSUME NEW r \in Runs, LoadForCancel(c, r), target'[c] = r, copy'[c] = row[r]
        PROVE  target'[c] \in Runs /\ (copy'[c].reply => stored'[target'[c]] # << >>)
    BY <1>0, <2>2 DEF LinkedReplyIsStored, LoadForCancel, dbVars
  <2> QED BY <1>2, <2>1, <2>2, CallMoves
<1> QED BY <1>1, <1>2 DEF CopiesLink

LEMMA LinkedStep == ASSUME IInv, Next PROVE LinkedReplyIsStored'
<1>0. TypeOK /\ CopiesLink /\ LinkedReplyIsStored
  BY DEF IInv
<1> SUFFICES ASSUME NEW k \in Runs, row'[k].reply PROVE stored'[k] # << >>
  BY DEF LinkedReplyIsStored
<1>1. CASE DeleteConversation(k)
  <2>1. row'[k] = [status |-> "deleted", reply |-> FALSE]
    BY <1>0, <1>1 DEF DeleteConversation, TypeOK
  <2> QED BY <2>1
<1>2. CASE ~DeleteConversation(k)
  <2>1. stored[k] # << >>
    <3>1. CASE row'[k].reply = row[k].reply
      BY <1>0, <3>1 DEF LinkedReplyIsStored
    <3>2. CASE Exists(k) /\ SaveRun(k) /\ row'[k].reply = copy[k].reply
      BY <1>0, <3>2 DEF SaveRun, CopiesLink, Exists
    <3>3. ASSUME NEW c \in Cancels, Exists(k), SaveCancelled(c), target[c] = k, row'[k].reply = copy[c].reply
          PROVE  stored[k] # << >>
      BY <1>0, <3>3 DEF SaveCancelled, CopiesLink, Exists
    <3>4. row'[k] = row[k] => row'[k].reply = row[k].reply
      OBVIOUS
    <3> QED BY <1>2, <3>1, <3>2, <3>3, <3>4, RowSteps
  <2> QED BY <1>2, <2>1, StoredMoves
<1> QED BY <1>1, <1>2

-----------------------------------------------------------------------------
(* Text and ends on the bus.                                               *)

LEMMA NumberedMore ==
    ASSUME NEW r, NEW q \in Seq(Events), NEW lo \in Nat, NEW hi \in Nat, NEW before, NEW after,
           before \subseteq after, Numbered(r, q, lo, hi, before)
    PROVE  Numbered(r, q, lo, hi, after)
BY DEF Numbered

\* A receiver without text, and without a gap, has been heard out.
LEMMA SilentNumbered ==
    ASSUME NEW r, NEW q \in Seq(Events), NEW lo \in Nat, NEW hi \in Nat, NEW dropped, lo <= hi,
           Numbered(r, q, lo, hi, dropped), \A n \in 1 .. Len(q) : q[n] # Text(r)
    PROVE  r \in dropped \/ lo = hi
<1> SUFFICES ASSUME r \notin dropped, lo < hi PROVE FALSE
  OBVIOUS
<1>1. lo + 1 \in lo + 1 .. hi
  OBVIOUS
<1> QED BY <1>1 DEF Numbered

\* Broadcasting what is no text of k keeps k's numbers.
LEMMA BroadcastNumbers ==
    ASSUME IInv, NEW es \in Seq(Events), Broadcast(es), NEW k \in subscribed, NEW hi \in Nat,
           Numbered(k, queue[k] \o es, heard[k], hi, gaps)
    PROVE  Numbered(k, queue'[k], heard[k], hi, gaps')
<1>0. TypeOK /\ heard[k] \in Nat /\ k \in Runs
  <2>1. TypeOK
    BY DEF IInv
  <2>2. k \in Runs /\ heard \in [Runs -> 0 .. MaxText]
    BY <2>1 DEF TypeOK
  <2> QED BY <2>1, <2>2, LimitsAssumption
<1> DEFINE q == queue[k] \o es
<1>1. q \in Seq(Events) /\ queue'[k] = Kept(q) /\ gaps \subseteq gaps'
  BY <1>0, BroadcastFeeds
<1>2. k \notin gaps' => \A n \in 1 .. Excess(q) : q[n] # Text(k)
  BY <1>0, BroadcastFeeds
<1>3. Numbered(k, q, heard[k], hi, gaps)
  OBVIOUS
<1> HIDE DEF q
<1> DEFINE p == Kept(q)
<1>4. /\ Excess(q) \in 0 .. Len(q) /\ p \in Seq(Events) /\ Len(p) = Len(q) - Excess(q)
      /\ \A n \in 1 .. Len(p) : p[n] = q[n + Excess(q)]
  BY <1>1, KeptIsSuffix
<1> HIDE DEF p
<1>5. Suffix(p, q, Excess(q)) /\ (k \notin gaps' => NoTextIn(q, Excess(q), k))
  BY <1>2, <1>4 DEF Suffix, NoTextIn
<1>6. Numbered(k, p, heard[k], hi, gaps')
  BY <1>0, <1>1, <1>3, <1>4, <1>5, SuffixNumbered
<1> QED BY <1>1, <1>6 DEF p

\* Numbers after a line of r was routed which is no text.
LEMMA RouteNumbers ==
    ASSUME IInv, NEW r \in Runs, NEW kind \in Kinds, kind # "text", Route(r, kind), NEW k \in subscribed
    PROVE  Numbered(k, queue'[k], heard[k], said[k], gaps')
<1>0. /\ TypeOK /\ Numbered(k, queue[k], heard[k], said[k], gaps) /\ queue[k] \in Seq(Events)
      /\ k \in Runs /\ heard[k] \in Nat /\ said[k] \in Nat
  <2>1. TypeOK /\ TextNumbered
    BY DEF IInv
  <2>2. k \in Runs /\ heard \in [Runs -> 0 .. MaxText] /\ said \in [Runs -> 0 .. MaxText] /\ queue \in [Runs -> Seq(Events)]
    BY <2>1 DEF TypeOK
  <2> QED BY <2>1, <2>2, LimitsAssumption DEF TextNumbered
<1> DEFINE es == << [run |-> r, kind |-> kind] >>
<1>1. es \in Seq(Events) /\ Len(es) = 1 /\ es[1] = [run |-> r, kind |-> kind]
  BY <1>0, RouteRoutes
<1>2. UNCHANGED <<queue, gaps>> \/ Broadcast(es)
  BY <1>0, RouteRoutes
<1>3. \A n \in 1 .. Len(es) : es[n] # Text(k)
  <2>1. [run |-> r, kind |-> kind] # Text(k)
    BY DEF Text
  <2> QED BY <1>1, <2>1
<1> HIDE DEF es
<1>4. Numbered(k, queue[k] \o es, heard[k], said[k], gaps)
  BY <1>0, <1>1, <1>3, OtherNumbered
<1>5. CASE Broadcast(es)
  BY <1>0, <1>1, <1>4, <1>5, BroadcastNumbers
<1>6. CASE UNCHANGED <<queue, gaps>>
  BY <1>0, <1>6
<1> QED BY <1>2, <1>5, <1>6

LEMMA TextNumberedStep == ASSUME IInv, Next PROVE TextNumbered'
<1>0. /\ TypeOK /\ NotBegun /\ ReceiverOpen /\ ThreadOrder /\ TextNumbered
      /\ \A k \in Runs : heard[k] \in Nat /\ said[k] \in Nat /\ queue[k] \in Seq(Events)
      /\ subscribed \subseteq Runs /\ said \in [Runs -> 0 .. MaxText] /\ heard \in [Runs -> 0 .. MaxText]
      /\ queue \in [Runs -> Seq(Events)]
  <2>1. TypeOK /\ NotBegun /\ ReceiverOpen /\ ThreadOrder /\ TextNumbered
    BY DEF IInv
  <2>2. /\ said \in [Runs -> 0 .. MaxText] /\ heard \in [Runs -> 0 .. MaxText]
        /\ queue \in [Runs -> Seq(Events)] /\ subscribed \subseteq Runs
    BY <2>1 DEF TypeOK
  <2> QED BY <2>1, <2>2, LimitsAssumption
<1> SUFFICES ASSUME NEW k \in Runs, k \in subscribed'
             PROVE  heard'[k] <= said'[k] /\ Numbered(k, queue'[k], heard'[k], said'[k], gaps')
  <2>1. subscribed' \subseteq Runs
    BY TypeStep DEF TypeOK
  <2> QED BY <2>1 DEF TextNumbered
<1>1. ASSUME NEW r \in Runs, Listen(r) PROVE heard'[k] <= said'[k] /\ Numbered(k, queue'[k], heard'[k], said'[k], gaps')
  <2>1. UNCHANGED <<said, gaps, subscribed>>
    BY <1>1 DEF Listen, sidecarVars, histVars
  <2>2. CASE k = r
    <3>1. queue'[k] = Tail(queue[k])
      BY <1>0, <1>1, <2>2, ListenHears
    <3>2. heard'[k] <= said[k] /\ Numbered(k, Tail(queue[k]), heard'[k], said[k], gaps)
      BY <1>1, <2>2, ListenHears
    <3> QED BY <2>1, <3>1, <3>2
  <2>3. CASE k # r
    <3>1. queue'[k] = queue[k] /\ heard'[k] = heard[k]
      BY <1>0, <1>1, <2>3 DEF Listen, keeperVars
    <3> QED BY <1>0, <2>1, <3>1 DEF TextNumbered
  <2> QED BY <2>2, <2>3
<1>2. ASSUME NEW r \in Runs, EmitText(r)
      PROVE heard'[k] <= said'[k] /\ Numbered(k, queue'[k], heard'[k], said'[k], gaps')
  <2>1. /\ "text" \in Kinds /\ Route(r, "text") /\ r \notin pending /\ UNCHANGED heard /\ thread[r] = "stream"
        /\ said'[r] = said[r] + 1 /\ (k # r => said'[k] = said[k])
    BY <1>0, <1>2 DEF EmitText, Kinds, ThreadOrder, keeperVars
  <2> DEFINE es == << [run |-> r, kind |-> "text"] >>
  <2>2. es \in Seq(Events) /\ Len(es) = 1 /\ es[1] = Text(r) /\ Broadcast(es) /\ es = << Text(r) >>
    BY <1>0, <2>1, RouteRoutes DEF Text
  <2>3. k \in subscribed
    BY <2>2 DEF Broadcast
  <2> HIDE DEF es
  <2>4. heard[k] <= said[k] /\ Numbered(k, queue[k], heard[k], said[k], gaps)
    BY <1>0, <2>3 DEF TextNumbered
  <2>5. Numbered(k, queue[k] \o es, heard[k], said'[k], gaps) /\ said'[k] \in Nat /\ heard[k] <= said'[k]
    <3>1. CASE k = r
      <4>1. Numbered(k, queue[k] \o << Text(k) >>, heard[k], said[k] + 1, gaps)
        BY <1>0, <2>4, TextNumberedNext
      <4> QED BY <1>0, <2>1, <2>2, <2>4, <3>1, <4>1
    <3>2. CASE k # r
      <4>1. Text(r) # Text(k)
        BY <3>2 DEF Text
      <4>2. \A n \in 1 .. Len(es) : es[n] # Text(k)
        BY <2>2, <4>1
      <4>3. Numbered(k, queue[k] \o es, heard[k], said[k], gaps)
        BY <1>0, <2>2, <2>4, <4>2, OtherNumbered
      <4> QED BY <1>0, <2>1, <2>4, <3>2, <4>3
    <3> QED BY <3>1, <3>2
  <2>6. Numbered(k, queue'[k], heard[k], said'[k], gaps')
    BY <2>2, <2>3, <2>5, BroadcastNumbers
  <2> QED BY <2>1, <2>5, <2>6
<1>3. ASSUME ~\E r \in Runs : Listen(r) \/ EmitText(r)
      PROVE heard'[k] <= said'[k] /\ Numbered(k, queue'[k], heard'[k], said'[k], gaps')
  <2>1. UNCHANGED <<heard, said>>
    BY <1>3, WhoWritesTasks, WhoWritesThreads
  <2>2. CASE k \in subscribed
    <3>0. heard[k] <= said[k] /\ Numbered(k, queue[k], heard[k], said[k], gaps)
      BY <1>0, <2>2 DEF TextNumbered
    <3>1. ASSUME UNCHANGED queue PROVE Numbered(k, queue'[k], heard[k], said[k], gaps')
      BY <1>0, <3>0, <3>1, WhoWritesBus, NumberedMore
    <3>2. ASSUME NEW r \in Runs, Receivers({r}) PROVE queue'[k] = queue[k]
      BY <3>2 DEF Receivers
    <3>3. ASSUME queue'[k] = queue[k] PROVE Numbered(k, queue'[k], heard[k], said[k], gaps')
      BY <1>0, <3>0, <3>3, WhoWritesBus, NumberedMore
    <3>4. ASSUME NEW r \in Runs, Subscribe(r) \/ SaveMessage(r) PROVE queue'[k] = queue[k]
      BY <3>4 DEF Subscribe, SaveMessage, busVars
    <3>5. ASSUME NEW r \in Runs, WriteAck(r) \/ EmitActivity(r) \/ EmitEnd(r)
          PROVE  Numbered(k, queue'[k], heard[k], said[k], gaps')
      <4>1. PICK kind \in Kinds : kind # "text" /\ Route(r, kind)
        <5>1. outcome[r] # NoOutcome => outcome[r] \in Kinds /\ outcome[r] # "text"
          BY <1>0 DEF TypeOK, Kinds, Outcomes
        <5> QED BY <1>0, <3>5, <5>1 DEF WriteAck, EmitActivity, EmitEnd, ThreadOrder, Kinds
      <4> QED BY <2>2, <4>1, RouteNumbers
    <3>6. ASSUME Exits PROVE Numbered(k, queue'[k], heard[k], said[k], gaps')
      <4>1. PICK code \in {"sidecar_crashed", "sidecar_shutdown"} : SidecarExits(code)
        BY <3>6 DEF Exits
      <4>2. PICK es \in SyntheticEnds(code) : Broadcast(es)
        BY <4>1 DEF SidecarExits
      <4>3. es \in Seq(Events) /\ \A n \in 1 .. Len(es) : es[n].kind = code
        BY <1>0, <4>2, SyntheticTyped
      <4>4. Text(k).kind = "text" /\ code # "text"
        BY DEF Text
      <4>5. \A n \in 1 .. Len(es) : es[n] # Text(k)
        BY <4>3, <4>4
      <4>6. Numbered(k, queue[k] \o es, heard[k], said[k], gaps)
        BY <1>0, <3>0, <4>3, <4>5, OtherNumbered
      <4> QED BY <1>0, <2>2, <4>2, <4>3, <4>6, BroadcastNumbers
    <3>7. ~HostDies
      BY DEF HostDies, Receivers
    <3> QED BY <1>3, <2>1, <3>0, <3>1, <3>2, <3>3, <3>4, <3>5, <3>6, <3>7, WhoWritesBus
  <2>3. CASE k \notin subscribed
    <3>1. Subscribe(k)
      <4>1. ASSUME NEW r \in Runs, \/ Receivers({r}) \/ Subscribe(r) \/ SaveMessage(r) \/ WriteAck(r)
                                   \/ EmitActivity(r) \/ EmitEnd(r)
            PROVE  Subscribe(k)
        BY <2>3, <4>1 DEF Receivers, Subscribe, SaveMessage, WriteAck, EmitActivity, EmitEnd, Route, Broadcast, busVars
      <4>2. ~Exits /\ ~HostDies
        BY <2>3 DEF Exits, SidecarExits, Broadcast, HostDies, Receivers
      <4> QED BY <1>3, <2>3, <4>1, <4>2, WhoWritesBus
    <3>2. queue'[k] = << >> /\ heard[k] = 0 /\ said[k] = 0
      BY <1>0, <2>3, <3>1 DEF Subscribe, NotBegun, ReceiverOpen
    <3> QED BY <2>1, <3>2, EmptyNumbered
  <2> QED BY <2>2, <2>3
<1> QED BY <1>1, <1>2, <1>3
LEMMA SuffixQuiet ==
    ASSUME NEW r, NEW q \in Seq(Events), NEW p \in Seq(Events), NEW k, Suffix(p, q, k), Quiet(q, r)
    PROVE  Quiet(p, r) /\ \A n \in 1 .. Len(p) : \E m \in 1 .. Len(q) : q[m] = p[n]
<1>1. Len(q) \in Nat /\ Len(p) \in Nat /\ k \in Nat /\ Len(p) = Len(q) - k
  BY LenProperties DEF Suffix
<1>2. \A n \in 1 .. Len(p) : n + k \in 1 .. Len(q) /\ p[n] = q[n + k]
  BY <1>1 DEF Suffix
<1>3. ASSUME NEW n \in 1 .. Len(p), p[n] = End(r), NEW m \in n .. Len(p) PROVE p[m] # Text(r)
  <2>1. m \in 1 .. Len(p) /\ m + k \in n + k .. Len(q)
    BY <1>1, <1>2
  <2>2. q[n + k] = End(r) /\ n + k \in 1 .. Len(q)
    BY <1>2, <1>3
  <2>3. q[m + k] # Text(r)
    BY <2>1, <2>2 DEF Quiet
  <2> QED BY <1>2, <2>1, <2>3
<1> QED BY <1>2, <1>3 DEF Quiet

LEMMA ConcatQuiet ==
    ASSUME NEW r, NEW q \in Seq(Events), NEW es \in Seq(Events), Quiet(q, r),
           \/ NoTextIn(es, Len(es), r)
           \/ /\ \A n \in 1 .. Len(q) : q[n] # End(r)
              /\ \A n \in 1 .. Len(es) : es[n] # End(r)
    PROVE  /\ Quiet(q \o es, r)
           /\ \A n \in 1 .. Len(q \o es) : (q \o es)[n] = End(r) =>
                  (\E m \in 1 .. Len(q) : q[m] = End(r)) \/ (\E m \in 1 .. Len(es) : es[m] = End(r))
<1> DEFINE p == q \o es
<1>1. /\ Len(p) = Len(q) + Len(es) /\ Len(q) \in Nat /\ Len(es) \in Nat
      /\ \A n \in 1 .. Len(p) : p[n] = IF n <= Len(q) THEN q[n] ELSE es[n - Len(q)]
  BY ConcatProperties, LenProperties
<1>2. \A n \in 1 .. Len(p) : \/ n \in 1 .. Len(q) /\ p[n] = q[n]
                             \/ n > Len(q) /\ n - Len(q) \in 1 .. Len(es) /\ p[n] = es[n - Len(q)]
  BY <1>1
<1> HIDE DEF p
<1>3. \A n \in 1 .. Len(p) : p[n] = End(r) =>
          (\E m \in 1 .. Len(q) : q[m] = End(r)) \/ (\E m \in 1 .. Len(es) : es[m] = End(r))
  BY <1>2
<1>4. ASSUME NEW n \in 1 .. Len(p), p[n] = End(r), NEW m \in n .. Len(p) PROVE p[m] # Text(r)
  <2>1. NoTextIn(es, Len(es), r)
    BY <1>3, <1>4
  <2>2. m \in 1 .. Len(p)
    BY <1>1
  <2>3. CASE m \in 1 .. Len(q) /\ p[m] = q[m]
    <3>1. n \in 1 .. Len(q) /\ m \in n .. Len(q) /\ q[n] = End(r)
      BY <1>1, <1>2, <1>4, <2>3
    <3> QED BY <2>3, <3>1 DEF Quiet
  <2>4. CASE m - Len(q) \in 1 .. Len(es) /\ p[m] = es[m - Len(q)]
    BY <2>1, <2>4 DEF NoTextIn
  <2> QED BY <1>2, <2>2, <2>3, <2>4
<1>5. Quiet(p, r)
  BY <1>4 DEF Quiet
<1> QED BY <1>3, <1>5 DEF p


\* What a step does to a receiver.
LEMMA QueueMoves ==
    ASSUME IInv, Next, NEW k \in Runs, queue'[k] # queue[k]
    PROVE  \/ queue'[k] = << >>
           \/ Listen(k)
           \/ \E es \in Seq(Events) :
                  /\ k \in subscribed /\ Broadcast(es)
                  /\ \/ NoTextIn(es, Len(es), k)
                     \/ thread[k] = "stream" /\ \A n \in 1 .. Len(es) : es[n] # End(k)
                  /\ \/ \A n \in 1 .. Len(es) : es[n] # End(k)
                     \/ EmitEnd(k) /\ outcome[k] = "completed"
<1>0. TypeOK /\ ThreadOrder
  BY DEF IInv
<1>1. ASSUME NEW r \in Runs, Receivers({r}) \/ Subscribe(r) \/ Listen(r) \/ SaveMessage(r)
      PROVE  queue'[k] = << >> \/ Listen(k)
  BY <1>0, <1>1 DEF Receivers, Subscribe, Listen, SaveMessage, busVars, TypeOK
<1>2. HostDies => queue'[k] = << >>
  BY DEF HostDies, Receivers
<1>3. ASSUME NEW es \in Seq(Events), Broadcast(es) PROVE k \in subscribed
  BY <1>3 DEF Broadcast
<1>4. ASSUME Exits
      PROVE  \E es \in Seq(Events) : /\ Broadcast(es) /\ NoTextIn(es, Len(es), k)
                                     /\ \A n \in 1 .. Len(es) : es[n] # End(k)
  <2>1. PICK code \in {"sidecar_crashed", "sidecar_shutdown"} : SidecarExits(code)
    BY <1>4 DEF Exits
  <2>2. PICK es \in SyntheticEnds(code) : Broadcast(es)
    BY <2>1 DEF SidecarExits
  <2>3. es \in Seq(Events) /\ \A n \in 1 .. Len(es) : es[n].kind = code
    BY <1>0, <2>2, SyntheticTyped
  <2>4. Text(k).kind # code /\ End(k).kind # code
    BY DEF Text, End
  <2>5. NoTextIn(es, Len(es), k) /\ \A n \in 1 .. Len(es) : es[n] # End(k)
    BY <2>3, <2>4 DEF NoTextIn
  <2> QED BY <2>2, <2>3, <2>5
<1>5. ASSUME NEW r \in Runs, NEW kind \in Kinds, Route(r, kind)
      PROVE  \E es \in Seq(Events) : /\ Broadcast(es)
                                     /\ kind # "text" \/ r # k => NoTextIn(es, Len(es), k)
                                     /\ kind # "completed" \/ r # k => \A n \in 1 .. Len(es) : es[n] # End(k)
  <2> DEFINE e == [run |-> r, kind |-> kind]
             es == << e >>
  <2>1. es \in Seq(Events) /\ Len(es) = 1 /\ es[1] = e /\ (UNCHANGED queue \/ Broadcast(es))
    BY <1>0, <1>5, RouteRoutes
  <2>2. /\ kind # "text" \/ r # k => e # Text(k)
        /\ kind # "completed" \/ r # k => e # End(k)
    BY DEF Text, End
  <2> HIDE DEF es, e
  <2>3. /\ kind # "text" \/ r # k => NoTextIn(es, Len(es), k)
        /\ kind # "completed" \/ r # k => \A n \in 1 .. Len(es) : es[n] # End(k)
    BY <2>1, <2>2 DEF NoTextIn
  <2> QED BY <2>1, <2>3
<1>6. ASSUME NEW r \in Runs, WriteAck(r) \/ EmitActivity(r)
      PROVE  \E es \in Seq(Events) : /\ Broadcast(es) /\ NoTextIn(es, Len(es), k)
                                     /\ \A n \in 1 .. Len(es) : es[n] # End(k)
  <2>1. PICK kind \in {"started", "activity"} : Route(r, kind)
    BY <1>6 DEF WriteAck, EmitActivity
  <2>2. kind \in Kinds /\ kind # "text" /\ kind # "completed"
    BY DEF Kinds
  <2> QED BY <1>5, <2>1, <2>2
<1>7. ASSUME NEW r \in Runs, EmitText(r)
      PROVE  \E es \in Seq(Events) : /\ Broadcast(es)
                                     /\ NoTextIn(es, Len(es), k) \/ thread[k] = "stream"
                                     /\ \A n \in 1 .. Len(es) : es[n] # End(k)
  <2>1. Route(r, "text") /\ thread[r] = "stream" /\ "text" \in Kinds /\ "text" # "completed"
    BY <1>7 DEF EmitText, Kinds
  <2>2. PICK es \in Seq(Events) : /\ Broadcast(es)
                                  /\ r # k => NoTextIn(es, Len(es), k)
                                  /\ \A n \in 1 .. Len(es) : es[n] # End(k)
    BY <1>5, <2>1
  <2> QED BY <2>1, <2>2
<1>8. ASSUME NEW r \in Runs, EmitEnd(r)
      PROVE  \E es \in Seq(Events) : /\ Broadcast(es) /\ NoTextIn(es, Len(es), k)
                                     /\ \/ \A n \in 1 .. Len(es) : es[n] # End(k)
                                        \/ EmitEnd(k) /\ outcome[k] = "completed"
  <2>1. Route(r, outcome[r]) /\ outcome[r] \in Kinds /\ outcome[r] # "text"
    <3>1. outcome[r] \in Outcomes
      BY <1>0, <1>8 DEF EmitEnd, ThreadOrder, TypeOK
    <3>2. outcome[r] \in Kinds /\ outcome[r] # "text"
      BY <3>1 DEF Kinds, Outcomes
    <3> QED BY <1>8, <3>2 DEF EmitEnd
  <2>2. PICK es \in Seq(Events) : /\ Broadcast(es) /\ NoTextIn(es, Len(es), k)
                                  /\ outcome[r] # "completed" \/ r # k => \A n \in 1 .. Len(es) : es[n] # End(k)
    BY <1>5, <2>1
  <2> QED BY <1>8, <2>2
<1>9. CASE Exits
  BY <1>3, <1>4, <1>9
<1>10. CASE \E r \in Runs : WriteAck(r) \/ EmitActivity(r)
  BY <1>3, <1>6, <1>10
<1>11. CASE \E r \in Runs : EmitText(r)
  BY <1>3, <1>7, <1>11
<1>12. CASE \E r \in Runs : EmitEnd(r)
  BY <1>3, <1>8, <1>12
<1> QED BY <1>1, <1>2, <1>9, <1>10, <1>11, <1>12, WhoWritesBus

LEMMA EndsTellStep == ASSUME IInv, Next PROVE EndsTell'
<1>0. TypeOK /\ EndsTell /\ \A k \in Runs : queue[k] \in Seq(Events)
  BY DEF IInv, TypeOK
<1> SUFFICES ASSUME NEW k \in Runs
             PROVE  /\ Quiet(queue'[k], k)
                    /\ \A n \in 1 .. Len(queue'[k]) : queue'[k][n] = End(k) => Completed(k)'
  BY DEF EndsTell
<1>1. /\ Quiet(queue[k], k)
      /\ \A n \in 1 .. Len(queue[k]) : queue[k][n] = End(k) => Completed(k) /\ Completed(k)'
  BY <1>0, CompletedStays DEF EndsTell
<1>2. CASE queue'[k] = queue[k]
  BY <1>1, <1>2
<1>3. CASE queue'[k] = << >>
  <2>1. 1 .. Len(queue'[k]) = {}
    BY <1>3
  <2> QED BY <2>1 DEF Quiet
<1>4. CASE Listen(k)
  <2> DEFINE p == Tail(queue[k])
  <2>1. queue'[k] = p /\ p \in Seq(Events) /\ Suffix(p, queue[k], 1)
    BY <1>0, <1>4, ListenHears DEF Suffix, TypeOK
  <2> HIDE DEF p
  <2>2. Quiet(p, k) /\ \A n \in 1 .. Len(p) : \E m \in 1 .. Len(queue[k]) : queue[k][m] = p[n]
    BY <1>0, <1>1, <2>1, SuffixQuiet
  <2> QED BY <1>1, <2>1, <2>2
<1>5. ASSUME NEW es \in Seq(Events), k \in subscribed, Broadcast(es),
             \/ NoTextIn(es, Len(es), k)
             \/ thread[k] = "stream" /\ \A n \in 1 .. Len(es) : es[n] # End(k),
             \/ \A n \in 1 .. Len(es) : es[n] # End(k)
             \/ EmitEnd(k) /\ outcome[k] = "completed"
      PROVE  /\ Quiet(queue'[k], k)
             /\ \A n \in 1 .. Len(queue'[k]) : queue'[k][n] = End(k) => Completed(k)'
  <2> DEFINE q == queue[k] \o es
  <2>1. thread[k] = "stream" => \A n \in 1 .. Len(queue[k]) : queue[k][n] # End(k)
    BY <1>1 DEF Completed
  <2>2. /\ Quiet(q, k)
        /\ \A n \in 1 .. Len(q) : q[n] = End(k) =>
               (\E m \in 1 .. Len(queue[k]) : queue[k][m] = End(k)) \/ (\E m \in 1 .. Len(es) : es[m] = End(k))
    BY <1>0, <1>1, <1>5, <2>1, ConcatQuiet
  <2>3. EmitEnd(k) /\ outcome[k] = "completed" => Completed(k)'
    BY <1>0 DEF EmitEnd, Completed, ThreadGoto, TypeOK
  <2>4. q \in Seq(Events) /\ queue'[k] = Kept(q)
    BY <1>0, <1>5, BroadcastFeeds
  <2> HIDE DEF q
  <2>5. \A n \in 1 .. Len(q) : q[n] = End(k) => Completed(k)'
    BY <1>1, <1>5, <2>2, <2>3
  <2> DEFINE p == Kept(q)
  <2>6. p \in Seq(Events) /\ Suffix(p, q, Excess(q))
    BY <2>4, KeptIsSuffix DEF Suffix
  <2> HIDE DEF p
  <2>7. Quiet(p, k) /\ \A n \in 1 .. Len(p) : \E m \in 1 .. Len(q) : q[m] = p[n]
    BY <2>2, <2>4, <2>6, SuffixQuiet
  <2>8. queue'[k] = p
    BY <2>4 DEF p
  <2> QED BY <2>5, <2>7, <2>8
<1> QED BY <1>2, <1>3, <1>4, <1>5, QueueMoves
-----------------------------------------------------------------------------
(* What a completed row tells.                                             *)

LEMMA HeardWholeStep == ASSUME IInv, Next PROVE HeardWhole'
<1>0. TypeOK /\ EndsTell /\ HeardWhole /\ gaps \subseteq gaps'
  BY WhoWritesBus DEF IInv
<1> SUFFICES ASSUME NEW k \in Runs, keeper'[k] \in {"load", "message", "save"}, verdict'[k] = "completed"
             PROVE  Completed(k)' /\ (k \in gaps' \/ heard'[k] = said'[k])
  BY DEF HeardWhole
<1>1. CASE keeper[k] \in {"load", "message", "save"}
  <2>1. verdict'[k] = verdict[k] /\ heard'[k] = heard[k]
    <3>1. ASSUME NEW r \in Runs, Listen(r) PROVE verdict'[k] = verdict[k] /\ heard'[k] = heard[k]
      <4>1. k # r
        BY <1>1, <3>1 DEF Listen
      <4> QED BY <1>0, <3>1, <4>1 DEF Listen, TypeOK, keeperVars
    <3> QED BY <3>1, WhoWritesTasks
  <2>2. Completed(k) /\ (k \in gaps \/ heard[k] = said[k])
    BY <1>0, <1>1, <2>1 DEF HeardWhole
  <2> QED BY <1>0, <2>1, <2>2, CompletedStays
<1>2. CASE keeper[k] \notin {"load", "message", "save"}
  <2>1. Listen(k) /\ keeper[k] = "listen" /\ keeper'[k] = "load"
    BY <1>2, KeeperMoves
  <2>2. Head(queue[k]) = End(k) /\ UNCHANGED <<heard, said, gaps>>
    <3>1. /\ Head(queue[k]).run = k /\ Head(queue[k]).kind = "completed" /\ UNCHANGED <<heard, said, gaps>>
      BY <1>0, <2>1 DEF Listen, TypeOK, keeperVars, sidecarVars, histVars
    <3>2. Head(queue[k]) \in Events
      BY <2>1, ListenHears
    <3> QED BY <3>1, <3>2 DEF End, Events
  <2>3. queue[k][1] = End(k) /\ 1 \in 1 .. Len(queue[k])
    BY <2>1, <2>2, ListenHears
  <2>4. Completed(k) /\ \A m \in 1 .. Len(queue[k]) : queue[k][m] # Text(k)
    BY <1>0, <2>3 DEF EndsTell, Quiet
  <2>5. k \in gaps \/ heard[k] = said[k]
    <3>1. /\ heard[k] <= said[k] /\ Numbered(k, queue[k], heard[k], said[k], gaps) /\ queue[k] \in Seq(Events)
      BY <1>0, <2>1, ListenHears DEF IInv, TextNumbered, TypeOK
    <3>2. heard[k] \in Nat /\ said[k] \in Nat
      BY <1>0, LimitsAssumption DEF TypeOK
    <3> QED BY <2>4, <3>1, <3>2, SilentNumbered
  <2> QED BY <1>0, <2>2, <2>4, <2>5, CompletedStays
<1> QED BY <1>1, <1>2

\* The message has what was heard, or there is a gap.
LEMMA SavedMessage ==
    ASSUME IInv, Next, NEW k \in Runs, SaveMessage(k), verdict[k] = "completed"
    PROVE  k \in gaps' \/ said'[k] = 0 \/ HasReply(k)'
<1>0. TypeOK /\ NotYetStored /\ HeardWhole /\ CopyTells /\ keeper[k] = "message" /\ gaps \subseteq gaps'
  BY WhoWritesBus DEF IInv, SaveMessage
<1>1. Completed(k) /\ (k \in gaps \/ heard[k] = said[k]) /\ said'[k] = said[k]
  BY <1>0, CompletedStays DEF HeardWhole
<1>2. copy[k].status = "completed"
  BY <1>0, StatusOfIsTerminal DEF CopyTells
<1> SUFFICES ASSUME k \notin gaps' PROVE HasReply(k)'
  OBVIOUS
<1>3. stored'[k] # << >> /\ stored[k] = << >>
  <2> DEFINE m == [text |-> heard[k], status |-> copy[k].status]
  <2>1. stored' = [stored EXCEPT ![k] = Append(@, m)]
    BY DEF SaveMessage
  <2> HIDE DEF m
  <2>2. stored'[k] = Append(stored[k], m) /\ stored[k] = << >>
    BY <1>0, <2>1 DEF TypeOK, NotYetStored
  <2> QED BY <2>2
<1>4. 1 \in DOMAIN stored'[k] /\ stored'[k][1] = [text |-> heard[k], status |-> copy[k].status]
  BY <1>3, StoredMoves DEF SaveMessage, DeleteConversation
<1>5. stored'[k][1] = [text |-> said'[k], status |-> "completed"]
  BY <1>0, <1>1, <1>2, <1>4
<1> QED BY <1>4, <1>5 DEF HasReply

LEMMA CopyTellsStep == ASSUME IInv, Next PROVE CopyTells'
<1>0. TypeOK /\ HeardWhole /\ CopyTells /\ gaps \subseteq gaps'
  BY WhoWritesBus DEF IInv
<1> SUFFICES ASSUME NEW k \in Runs, keeper'[k] \in {"message", "save"}
             PROVE  /\ copy'[k].status = StatusOf(verdict'[k])
                    /\ keeper'[k] = "save" /\ verdict'[k] = "completed" =>
                           k \in gaps' \/ said'[k] = 0 \/ row'[k].status = "deleted" \/ HasReply(k)'
  BY DEF CopyTells
<1>1. keeper[k] \in {"load", "message", "save"}
  BY KeeperMoves
<1>2. verdict'[k] = verdict[k] /\ heard'[k] = heard[k]
  <2>1. ASSUME NEW r \in Runs, Listen(r) PROVE verdict'[k] = verdict[k] /\ heard'[k] = heard[k]
    <3>1. k # r
      BY <1>1, <2>1 DEF Listen
    <3> QED BY <1>0, <2>1, <3>1 DEF Listen, TypeOK, keeperVars
  <2> QED BY <2>1, WhoWritesTasks
<1>3. verdict[k] = "completed" => Completed(k) /\ (k \in gaps \/ heard[k] = said[k]) /\ said'[k] = said[k]
  BY <1>0, <1>1, CompletedStays DEF HeardWhole
<1>4. CASE keeper[k] = "load"
  <2>1. LoadRun(k)
    BY <1>4, KeeperMoves
  <2>2. copy'[k].status = StatusOf(verdict[k]) /\ (keeper'[k] = "save" => ~(heard[k] > 0))
    BY <2>1, LoadedCopy
  <2>3. heard[k] \in Nat
    BY <1>0, LimitsAssumption DEF TypeOK
  <2> QED BY <1>0, <1>2, <1>3, <2>2, <2>3
<1>5. CASE keeper[k] = "message"
  <2>1. copy'[k].status = copy[k].status /\ copy[k].status = StatusOf(verdict[k])
    BY <1>0, <1>5, CopyMoves DEF CopyTells
  <2>2. keeper'[k] = "save" => SaveMessage(k)
    BY <1>5, KeeperMoves
  <2> QED BY <1>2, <2>1, <2>2, SavedMessage
<1>6. CASE keeper[k] = "save"
  <2>1. copy'[k].status = copy[k].status /\ copy[k].status = StatusOf(verdict[k])
    BY <1>0, <1>6, CopyMoves DEF CopyTells
  <2>2. ASSUME verdict[k] = "completed", row'[k].status # "deleted"
        PROVE  k \in gaps' \/ said'[k] = 0 \/ HasReply(k)'
    <3>1. stored'[k] = stored[k]
      BY <1>6, <2>2, StoredMoves
    <3>2. k \in gaps \/ said[k] = 0 \/ HasReply(k)
      BY <1>0, <1>6, <2>2, DeletedStays DEF CopyTells
    <3> QED BY <1>0, <1>3, <2>2, <3>1, <3>2 DEF HasReply
  <2> QED BY <1>2, <2>1, <2>2
<1> QED BY <1>1, <1>4, <1>5, <1>6

LEMMA RowsTellStep == ASSUME IInv, Next PROVE RowsTell'
<1>0. TypeOK /\ NotYetStored /\ HeardWhole /\ CopyTells /\ RowsTell /\ gaps \subseteq gaps'
  BY WhoWritesBus DEF IInv
<1> SUFFICES ASSUME NEW k \in Runs, row'[k].status = "completed"
             PROVE  Completed(k)' /\ (k \in gaps' \/ said'[k] = 0 \/ HasReply(k)')
  BY DEF RowsTell
<1>1. Completed(k) /\ (k \in gaps \/ said[k] = 0 \/ HasReply(k))
  <2>1. CASE row'[k] = row[k]
    BY <1>0, <2>1 DEF RowsTell
  <2>2. CASE row'[k] # row[k]
    <3>1. SaveRun(k) /\ Exists(k) /\ copy[k].status = "completed"
      BY <2>2, RowSteps
    <3>2. keeper[k] = "save" /\ row[k].status # "deleted" /\ verdict[k] = "completed"
      BY <1>0, <3>1, StatusOfIsTerminal DEF SaveRun, Exists, CopyTells
    <3> QED BY <1>0, <3>2 DEF HeardWhole, CopyTells
  <2> QED BY <2>1, <2>2
<1>2. Completed(k)' /\ said'[k] = said[k]
  BY <1>1, CompletedStays
<1>3. CASE stored'[k] = stored[k]
  BY <1>0, <1>1, <1>2, <1>3 DEF HasReply
<1>4. CASE stored'[k] # stored[k]
  <2>1. SaveMessage(k) /\ stored[k] = << >>
    BY <1>4, StoredMoves
  <2>2. ~HasReply(k)
    BY <2>1 DEF HasReply
  <2> QED BY <1>0, <1>1, <1>2, <2>2
<1> QED BY <1>3, <1>4

-----------------------------------------------------------------------------
(* The theorems.                                                           *)

LEMMA StepInv == ASSUME IInv, [Next]_vars PROVE IInv'
<1>1. CASE UNCHANGED vars
  <2> USE DEF vars, dbVars, sendVars, keeperVars, cancelVars, busVars, mapVars, sidecarVars, histVars
  <2>1. TypeOK'
    BY TypeStep
  <2>2. NotBegun' /\ ReceiverOpen' /\ ThreadOrder' /\ TextNumbered'
    BY <1>1 DEF IInv, NotBegun, ReceiverOpen, ThreadOrder, TextNumbered
  <2>3. LinkedReplyIsStored' /\ OneReplyPerRun' /\ CopiesLink' /\ NotYetStored'
    BY <1>1 DEF IInv, LinkedReplyIsStored, OneReplyPerRun, CopiesLink, NotYetStored
  <2>4. EndsTell' /\ HeardWhole' /\ CopyTells' /\ RowsTell'
    BY <1>1 DEF IInv, EndsTell, HeardWhole, CopyTells, RowsTell, Completed, HasReply
  <2> QED BY <2>1, <2>2, <2>3, <2>4 DEF IInv
<1>2. CASE Next
  BY <1>2, TypeStep, NotBegunStep, ReceiverOpenStep, ThreadOrderStep, TextNumberedStep, LinkedStep, StoredStep,
     CopiesLinkStep, EndsTellStep, HeardWholeStep, CopyTellsStep, RowsTellStep DEF IInv
<1> QED BY <1>1, <1>2

\* The inductive invariant: in every state, for any runs, cancels, faults, texts and capacity
\* of the bus, the text a run has said is heard, in its receiver or known to be lost.
THEOREM ChatRunsInv == Spec => []IInv
BY InitInv, StepInv, PTL DEF Spec

\* RepliesOK of the chat_faults run: whatever stale copy of its row a task or a cancel
\* writes back, a row links only a message that is stored, and a run has one at most.
THEOREM RepliesAlwaysOK == Spec => []RepliesOK
<1>1. IInv => RepliesOK
  BY DEF IInv, RepliesOK
<1> QED BY <1>1, ChatRunsInv, PTL

\* A row that says completed is that of a run whose thread completed, and its reply has
\* all of the text unless some was dropped by the bus or the insert failed.
THEOREM CompletedAlwaysWhole == Spec => []CompletedHasWholeReply
<1>1. IInv => CompletedHasWholeReply
  BY DEF IInv, RowsTell, CompletedHasWholeReply, Completed, HasReply
<1> QED BY <1>1, ChatRunsInv, PTL

\* No step reopens a run that has ended: nobody writes back the status a copy was read with.
THEOREM AlwaysSettledForGood == Spec => SettledForGood
<1>1. ASSUME IInv, Next, NEW r \in Runs, row[r].status \in Terminal
      PROVE  row'[r].status \in Terminal \cup {"deleted"}
  <2>1. ~InsertRun(r)
    BY <1>1 DEF InsertRun, IInv, NotBegun, NoRow, Terminal
  <2>2. SaveRun(r) => copy[r].status \in Terminal
    BY <1>1, StatusOfIsTerminal DEF SaveRun, IInv, CopyTells
  <2>3. "failed" \in Terminal /\ "interrupted" \in Terminal
    BY DEF Terminal
  <2>4. CASE row'[r] = row[r]
    BY <1>1, <2>4
  <2> HIDE DEF Terminal
  <2>5. CASE row'[r] # row[r]
    BY <1>1, <2>1, <2>2, <2>3, <2>5, RowSteps
  <2> QED BY <2>4, <2>5
<1>2. IInv /\ [Next]_vars =>
          [\A r \in Runs : row[r].status \in Terminal => row'[r].status \in Terminal \cup {"deleted"}]_vars
  BY <1>1
<1> QED BY <1>2, ChatRunsInv, PTL DEF Spec, SettledForGood
=============================================================================
