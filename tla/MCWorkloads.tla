---------------------------- MODULE MCWorkloads ----------------------------
(* Three calls, so that a start can be cut into and begun again, and a stop *)
(* request beside the stops of the idle loop and of starts that fail.       *)
EXTENDS OpenVoice

CONSTANTS j1, j2, j3, s1

ThreeJobs == {j1, j2, j3}
OneStop   == {s1}
TwoVoices == {j1, j2}
=============================================================================
