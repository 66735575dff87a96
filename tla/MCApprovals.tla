---------------------------- MODULE MCApprovals ----------------------------
(* Two runs: a max-mode run with two parallel tool calls and a chat run.   *)
EXTENDS Approvals

CONSTANTS r1, r2, a1, a2, a3

TwoRuns   == {r1, r2}
OnlyYes   == {TRUE}
Nobody    == {}
FirstMax  == {r1}
ThreeAsks == {a1, a2, a3}
TwoAsks   == {a1, a2}
OneRun    == {r1}
Owners    == [a \in Asks |-> IF a = a3 THEN r2 ELSE r1]
=============================================================================
