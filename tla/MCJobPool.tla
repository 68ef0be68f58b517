----------------------------- MODULE MCJobPool -----------------------------
(* The job pool on small instances.                                        *)
EXTENDS JobPool

CONSTANTS FirstJob, SecondClient   \* one of Jobs, one of Clients

\* Two instances in one: while FirstJob is new there are two clients and one job, after
\* that one client and two jobs, of which FirstJob is the first to be submitted (jobs are
\* interchangeable).  Only what a client starts on its own account is kept away, nothing
\* that the fairness of the specification promises.
OneOfEach ==
  /\ phase'[FirstJob] = "new" \/ pc'[SecondClient] = "idle"
  /\ phase'[FirstJob] = phase[FirstJob] \/ phase[FirstJob] # "new"
       \/ \A j \in Jobs : phase[j] = "new"
=============================================================================
