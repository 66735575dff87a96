---------------------------- MODULE MCSupervisor ----------------------------
(* Instances of Supervisor for TLC.                                        *)
EXTENDS Supervisor

CONSTANTS ping, run, dog, host

NoneOfThem == {}
JustPing   == {ping}
JustRun    == {run}
JustDog    == {dog}
JustHost   == {host}
=============================================================================
