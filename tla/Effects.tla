-------------------------------- MODULE Effects --------------------------------
(***************************************************************************)
(* What the controller does to the world, seen from outside the process:   *)
(* the cluster, the gateway, and what the process knows to be on the       *)
(* gateway.  Controller implements this specification: its stores, queues, *)
(* worker and builds, and all their interleavings, amount to these steps.  *)
(***************************************************************************)
CONSTANTS
    Keys, IngressKeys,
    Absent, None, Foreign, GatewayIP,
    Good            \* the configurations that may be put on the gateway

VARIABLES
    spec,           \* what users have stored, for every key
    address,        \* the address in the status of every ingress
    gw,             \* what the gateway holds
    known           \* the configuration that the process knows to be applied

vars == <<spec, address, gw, known>>

Init ==
    /\ address \in [IngressKeys -> {None, GatewayIP}]
    /\ gw = None
    /\ known = None

\* A user stores or deletes an object; a deleted ingress takes its status along.
UserWrites(k) ==
    /\ spec' = [spec EXCEPT ![k] = spec'[k]]
    /\ address' = [i \in IngressKeys |-> IF spec'[i] = Absent THEN None ELSE address[i]]
    /\ UNCHANGED <<gw, known>>

\* The controller writes nothing to the cluster but the gateway's address, into
\* the status of an ingress that exists.
SetAddress(i) ==
    /\ spec[i] # Absent
    /\ address' = [address EXCEPT ![i] = GatewayIP]
    /\ UNCHANGED <<spec, gw, known>>

\* It puts whole configurations on the gateway, never the one that it knows to
\* be there.
Put ==
    /\ gw' \in Good
    /\ gw' # known
    /\ known' = gw'
    /\ UNCHANGED <<spec, address>>

\* The same, reported as a failure: the process learns nothing, or dies.
PutLost ==
    /\ gw' \in Good
    /\ gw' # known
    /\ known' \in {known, None}
    /\ UNCHANGED <<spec, address>>

\* The process ends.
Forget == known' = None /\ UNCHANGED <<spec, address, gw>>

\* Someone edits the gateway in the portal.
Edit == gw' = Foreign /\ UNCHANGED <<spec, address, known>>

Next ==
    \/ \E k \in Keys : UserWrites(k)
    \/ \E i \in IngressKeys : SetAddress(i)
    \/ Put \/ PutLost \/ Forget \/ Edit

Spec == Init /\ [][Next]_vars
=============================================================================
