----------------------------- MODULE MCShimJob -----------------------------
(* Small instance of ShimJob for TLC. *)
EXTENDS ShimJob

CONSTANTS t1, t2, j1, j2

MCTools == {t1, t2}
MCJobs == {j1, j2}
=============================================================================
