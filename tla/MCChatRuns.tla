----------------------------- MODULE MCChatRuns -----------------------------
(* Model values and fault sets for ChatRuns.                               *)
EXTENDS ChatRuns

CONSTANTS r1, r2, c1, c2

OneRun    == {r1}
TwoRuns   == {r1, r2}
OneCancel == {c1}
TwoCancels == {c1, c2}
Calm == {}
=============================================================================
