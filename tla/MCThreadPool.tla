---------------------------- MODULE MCThreadPool ----------------------------
(***************************************************************************)
(* A pool of workers and a few jobs for TLC; enough node addresses for     *)
(* every job and every NULL to be queued at once, so malloc never fails.   *)
(***************************************************************************)
EXTENDS ThreadPool, TLC

CONSTANTS j1, j2, j3, n1, n2, n3, n4, n5

MCJobs == <<j1, j2, j3>>
MCNodePool == {n1, n2, n3, n4, n5}
=============================================================================
