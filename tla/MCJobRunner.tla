---------------------------- MODULE MCJobRunner ----------------------------
(* Instances of JobRunner for TLC, in the way scheduled_jobs.py defines jobs. *)
EXTENDS JobRunner

CONSTANTS daily, gen, exp, svc

\* A generator and the service that is to run after it, and not beside it; and a
\* configuration from which the generator is gone.
ServiceKind == (gen :> "wait") @@ (svc :> "nowait")
ServicePost == (gen :> <<svc>>) @@ (svc :> <<>>)
ServiceOrGenerator == (gen :> {svc}) @@ (svc :> {gen})
ServiceConfigs == {Jobs, {svc}}

\* A job without a call, for its pre-job: an export that needs a generator.
ChainKind == [j \in Jobs |-> IF j = daily THEN "none" ELSE "wait"]
ChainPre == (daily :> <<exp>>) @@ (exp :> <<gen>>) @@ (gen :> <<>>)
ChainConfigs == {Jobs}

NoJobs == [j \in Jobs |-> <<>>]
AllConcurrent == [j \in Jobs |-> {}]

Symmetry == Permutations(Procs)
=============================================================================
