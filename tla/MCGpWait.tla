------------------------------ MODULE MCGpWait ------------------------------
(* Instance of GpWait for TLC: two calls around one job id, which one of them *)
(* may submit and both may wait on; the other may find its process run inline. *)
EXTENDS GpWait

CONSTANTS c1, c2, j1, forever

MCClients == {c1, c2}
MCAsync == {c1}
MCJobs == {j1}
MCIntervals == {-1, 3}
MCTimeouts == {0, 2, forever}
=============================================================================
