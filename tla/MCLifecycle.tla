------------------------------ MODULE MCLifecycle ------------------------------
(* A gateway that is there or may be deployed in each of the ways there are. *)
EXTENDS Lifecycle

Existing == [deploy |-> FALSE, id |-> TRUE, name |-> FALSE, subnetID |-> FALSE,
             prefix |-> FALSE, context |-> TRUE]
Deployed == [Existing EXCEPT !.deploy = TRUE, !.id = FALSE, !.name = TRUE]

\* Into a subnet given by its ID, or by its prefix with and without the Azure
\* context that names its network, and one that ValidateEnv refuses.
AllEnvironments ==
    {Existing, [Deployed EXCEPT !.subnetID = TRUE], [Deployed EXCEPT !.prefix = TRUE],
     [Deployed EXCEPT !.prefix = TRUE, !.context = FALSE], Deployed}
=============================================================================
