------------------------- MODULE MCRunnerOwnership -------------------------
(* Two workers, two publishers and three jobs: see MCRunnerOwnership.cfg.  *)
EXTENDS RunnerOwnership
=============================================================================
