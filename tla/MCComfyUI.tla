----------------------------- MODULE MCComfyUI -----------------------------
(* The ComfyUI workload by itself, with requests but no stop request.      *)
EXTENDS Workloads

CONSTANTS j1, j2

TwoJobs == {j1, j2}
NoStop  == {}
=============================================================================
