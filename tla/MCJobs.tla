------------------------------- MODULE MCJobs -------------------------------
(* Jobs, instantiated for TLC; the configurations give the constants.      *)
EXTENDS Jobs

=============================================================================
