----------------------------- MODULE SecretProofs ------------------------------
(***************************************************************************)
(* What SecretSync guarantees for any ingresses and secrets, any number of *)
(* changes, and every interleaving of the two handlers and the worker:     *)
(* the types, the events, and the map of references with the certificates. *)
(***************************************************************************)
EXTENDS SecretSync, TLAPS

SecretValues == Contents \cup Malformed \cup {Absent}
StoredIngresses == IngressValues \cup {Absent}

IngressNotes == [key : Ingresses, old : StoredIngresses, new : StoredIngresses]
SecretNotes == [key : Secrets, old : SecretValues, new : SecretValues]

\* The handlers, with what they hold between two steps.
IngressHandlerOK ==
    /\ ih.pc \in {"idle", "loop", "convert", "insert", "send"}
    /\ ih.pc \in {"loop", "convert", "insert"} => ih.ing \in Ingresses /\ ih.rest \in Seq(Secrets)
    /\ ih.pc \in {"convert", "insert"} => ih.rest # << >>

SecretHandlerOK ==
    /\ sh.pc \in {"idle", "deleted", "convert", "send"}
    /\ sh.pc \in {"deleted", "convert"} => sh.key \in Secrets

ClusterOK(c) ==
    /\ DOMAIN c = Keys
    /\ \A i \in Ingresses : c[i] \in StoredIngresses
    /\ \A s \in Secrets : c[s] \in SecretValues

\* TypeOK, and the types of what is queued.
TypeInv ==
    /\ ClusterOK(api) /\ ClusterOK(store)
    /\ ingressQueue \in Seq(IngressNotes) /\ secretQueue \in Seq(SecretNotes)
    /\ IngressHandlerOK /\ SecretHandlerOK
    /\ ingressSecretsMap \in [Ingresses -> SUBSET Secrets]
    /\ certs \in Certificates /\ applied \in Certificates
    /\ leftOut \subseteq Secrets
    /\ wpc \in {"idle", "list", "certificates"} /\ listed \subseteq Secrets

\* The secrets of the ingresses in the store are secrets.
LEMMA ReferencedAreSecrets == ASSUME TypeInv PROVE ReferencedSecrets \subseteq Secrets
<1> SUFFICES ASSUME NEW i \in Ingresses, IsIngressApplicationGateway(store[i])
             PROVE  Uses(store[i]) \subseteq Secrets
  BY Zenon DEF ReferencedSecrets
<1>1. store[i] \in IngressValues
  BY Zenon DEF TypeInv, ClusterOK, StoredIngresses, IsIngressApplicationGateway
<1>2. store[i].tls \in Seq(Secrets)
  BY <1>1, SecretConstants, Zenon
<1> QED BY <1>2 DEF Uses

\* The steps of users, of the two handlers and of the worker.
Users ==
    \/ \E i \in Ingresses : \E v \in IngressValues \cup {Absent} : User(i, v)
    \/ \E s \in Secrets : \E v \in Contents \cup Malformed \cup {Absent} : User(s, v)
IngressHandler == TakeIngress \/ LookUpSecret \/ ConvertForIngress \/ InsertSecret \/ SendIngress
SecretHandler == TakeSecret \/ AfterDelete \/ ConvertSecret \/ SendSecret
Worker == TakeEvent \/ ListIngresses \/ getSslCertificates

\* Every step is one of these, of an informer, or leaves everything alone.
LEMMA StepIs ==
    ASSUME [Next]_vars
    PROVE  \/ Users \/ IngressHandler \/ SecretHandler \/ Worker
           \/ \E k \in Keys : Informer(k)
           \/ UNCHANGED vars
  BY Zenon DEF Next, Users, IngressHandler, SecretHandler, Worker

\* What each of them leaves alone.
LEMMA Frames ==
    /\ Users \/ UNCHANGED vars =>
            UNCHANGED <<store, ingressQueue, secretQueue, ih, sh, ingressSecretsMap, certs, work, wpc,
                        listed, applied, overlap, leftOut>>
    /\ \A k : Informer(k) =>
            UNCHANGED <<api, ih, sh, ingressSecretsMap, certs, work, wpc, listed, applied, overlap, leftOut>>
    /\ IngressHandler => UNCHANGED <<api, store, secretQueue, sh, wpc, listed, applied>>
    /\ SecretHandler =>
            UNCHANGED <<api, store, ingressQueue, ih, ingressSecretsMap, leftOut, wpc, listed, applied>>
    /\ Worker => UNCHANGED <<api, store, ingressQueue, secretQueue, ih, sh, ingressSecretsMap, certs,
                             overlap, leftOut>>
<1>1. Users => \E k, v : User(k, v)
  BY Zenon DEF Users
<1>2. \A k, v : User(k, v) => UNCHANGED <<store, ingressQueue, secretQueue, ih, sh, ingressSecretsMap, certs,
                                          work, wpc, listed, applied, overlap, leftOut>>
  BY Zenon DEF User
<1>3. IngressHandler => \E h : IngressHandlerTo(h)
  BY Zenon DEF IngressHandler, TakeIngress, LookUpSecret, ConvertForIngress, InsertSecret, SendIngress
<1>4. \A h : IngressHandlerTo(h) => UNCHANGED <<api, store, secretQueue, sh, wpc, listed, applied>>
  BY Zenon DEF IngressHandlerTo, OthersUnchanged
<1>5. SecretHandler => \E h : SecretHandlerTo(h)
  BY Zenon DEF SecretHandler, TakeSecret, AfterDelete, ConvertSecret, SendSecret
<1>6. \A h : SecretHandlerTo(h) =>
        UNCHANGED <<api, store, ingressQueue, ih, ingressSecretsMap, leftOut, wpc, listed, applied>>
  BY Zenon DEF SecretHandlerTo, OthersUnchanged
<1>7. Worker => WorkerUnchanged
  BY Zenon DEF Worker, TakeEvent, ListIngresses, getSslCertificates
<1>8. \A k : Informer(k) =>
        UNCHANGED <<api, ih, sh, ingressSecretsMap, certs, work, wpc, listed, applied, overlap, leftOut>>
  BY Zenon DEF Informer
<1>9. WorkerUnchanged => UNCHANGED <<api, store, ingressQueue, secretQueue, ih, sh, ingressSecretsMap, certs,
                                     overlap, leftOut>>
  BY Zenon DEF WorkerUnchanged
<1>10. UNCHANGED vars => UNCHANGED <<store, ingressQueue, secretQueue, ih, sh, ingressSecretsMap, certs,
                                     work, wpc, listed, applied, overlap, leftOut>>
  BY Zenon DEF vars
<1> QED BY <1>1, <1>2, <1>3, <1>4, <1>5, <1>6, <1>7, <1>8, <1>9, <1>10, Zenon

\* A notification that the handler of ingresses passes on to the worker.
IsSent(n) == IsIngressApplicationGateway(n.old) \/ IsIngressApplicationGateway(n.new)

\* What the handler of ingresses does with a notification.
LEMMA IngressIsTaken ==
    ASSUME TakeIngress
    PROVE  /\ ih = Idle /\ ingressQueue # << >> /\ ingressQueue' = Tail(ingressQueue)
           /\ UNCHANGED <<certs, work, leftOut>>
           /\ \/ UNCHANGED ingressSecretsMap
              \/ ingressSecretsMap' = [ingressSecretsMap EXCEPT ![Head(ingressQueue).key] = {}]
           /\ \/ ih' = Idle /\ ~ IsSent(Head(ingressQueue))
              \/ ih' = Sending
              \/ /\ Head(ingressQueue).new # Absent
                 /\ ih' = Looping(Head(ingressQueue).key, Head(ingressQueue).new.tls)
<1>1. /\ ih = Idle /\ ingressQueue # << >> /\ ingressQueue' = Tail(ingressQueue)
      /\ UNCHANGED <<certs, work, leftOut>>
  BY Zenon DEF TakeIngress
<1>2. \/ UNCHANGED ingressSecretsMap
      \/ ingressSecretsMap' = [ingressSecretsMap EXCEPT ![Head(ingressQueue).key] = {}]
  BY Zenon DEF TakeIngress
<1>3. \/ ih' = Idle /\ ~ IsSent(Head(ingressQueue))
      \/ ih' = Sending
      \/ /\ Head(ingressQueue).new # Absent
         /\ ih' = Looping(Head(ingressQueue).key, Head(ingressQueue).new.tls)
  BY Zenon DEF TakeIngress, IngressHandlerTo, IsSent
<1> QED BY <1>1, <1>2, <1>3, Zenon

\* What it does when it looks a secret up.
LEMMA SecretIsLookedUp ==
    ASSUME LookUpSecret
    PROVE  /\ ih.pc = "loop" /\ UNCHANGED <<ingressQueue, ingressSecretsMap, certs, work, leftOut>>
           /\ \/ ih.rest = << >> /\ ih' = Sending
              \/ /\ ih.rest # << >> /\ ContainsPair(ih.ing, Head(ih.rest))
                 /\ ih' = Looping(ih.ing, Tail(ih.rest))
              \/ /\ ih.rest # << >>
                 /\ ih' = [pc |-> "convert", ing |-> ih.ing, rest |-> ih.rest, secret |-> store[Head(ih.rest)]]
              \/ /\ ih.rest # << >> /\ (store[Head(ih.rest)] = Absent \/ ContainsValue(Head(ih.rest)))
                 /\ ih' = [pc |-> "insert", ing |-> ih.ing, rest |-> ih.rest]
  BY Zenon DEF LookUpSecret, IngressHandlerTo

\* After a conversion the handler of ingresses inserts the secret, or leaves it
\* out for good and goes on with the next one.
LEMMA ConvertGoesOn ==
    ASSUME ConvertForIngress
    PROVE  /\ ih.pc = "convert" /\ UNCHANGED <<ingressQueue, ingressSecretsMap, work>>
           /\ \/ /\ ih.secret \in Contents /\ UNCHANGED leftOut
                 /\ certs' = [certs EXCEPT ![Head(ih.rest)] = ih.secret]
                 /\ ih' = [pc |-> "insert", ing |-> ih.ing, rest |-> ih.rest]
              \/ /\ ih.secret \notin Contents /\ leftOut' = leftOut \cup {Head(ih.rest)}
                 /\ UNCHANGED certs
                 /\ ih' = Looping(ih.ing, Tail(ih.rest))
  BY Zenon DEF ConvertForIngress, IngressHandlerTo

-----------------------------------------------------------------------------
(* Types. *)

\* Users and informers.
LEMMA ClusterTypes ==
    ASSUME TypeInv, Users \/ \E k \in Keys : Informer(k)
    PROVE  TypeInv'
<1>1. ASSUME NEW i \in Ingresses, NEW v \in IngressValues \cup {Absent}, User(i, v)
      PROVE  TypeInv'
  <2>1. ClusterOK(api')
    BY <1>1, SecretConstants, Zenon DEF TypeInv, ClusterOK, User, Keys, StoredIngresses
  <2> QED BY <1>1, <2>1, Zenon DEF TypeInv, User, IngressHandlerOK, SecretHandlerOK
<1>2. ASSUME NEW s \in Secrets, NEW v \in Contents \cup Malformed \cup {Absent}, User(s, v)
      PROVE  TypeInv'
  <2>1. ClusterOK(api')
    BY <1>2, SecretConstants, Zenon DEF TypeInv, ClusterOK, User, Keys, SecretValues
  <2> QED BY <1>2, <2>1, Zenon DEF TypeInv, User, IngressHandlerOK, SecretHandlerOK
<1>3. ASSUME NEW k \in Keys, Informer(k)
      PROVE  TypeInv'
  <2>1. ClusterOK(store')
    BY <1>3, Zenon DEF TypeInv, ClusterOK, Informer, Keys
  <2>2. CASE k \in Ingresses
    <3>1. [key |-> k, old |-> store[k], new |-> api[k]] \in IngressNotes
      BY <2>2, Zenon DEF TypeInv, ClusterOK, IngressNotes
    <3>2. /\ ingressQueue' = Append(ingressQueue, [key |-> k, old |-> store[k], new |-> api[k]])
          /\ UNCHANGED secretQueue
      BY <1>3, <2>2, Zenon DEF Informer
    <3>3. ingressQueue' \in Seq(IngressNotes)
      BY <3>1, <3>2 DEF TypeInv
    <3> QED BY <1>3, <2>1, <3>2, <3>3, Zenon DEF TypeInv, Informer, IngressHandlerOK, SecretHandlerOK
  <2>3. CASE k \notin Ingresses
    <3>1. [key |-> k, old |-> store[k], new |-> api[k]] \in SecretNotes
      BY <2>3, Zenon DEF TypeInv, ClusterOK, SecretNotes, Keys
    <3>2. /\ secretQueue' = Append(secretQueue, [key |-> k, old |-> store[k], new |-> api[k]])
          /\ UNCHANGED ingressQueue
      BY <1>3, <2>3, Zenon DEF Informer
    <3>3. secretQueue' \in Seq(SecretNotes)
      BY <3>1, <3>2 DEF TypeInv
    <3> QED BY <1>3, <2>1, <3>2, <3>3, Zenon DEF TypeInv, Informer, IngressHandlerOK, SecretHandlerOK
  <2> QED BY <2>2, <2>3, Zenon
<1> QED BY <1>1, <1>2, <1>3, Zenon DEF Users

\* The handler of ingresses.
LEMMA IngressHandlerTypes == ASSUME TypeInv, IngressHandler PROVE TypeInv'
<1>1. UNCHANGED <<api, store, secretQueue, sh, applied, wpc, listed>>
  BY Frames, Zenon
<1>2. CASE TakeIngress
  <2> DEFINE n == Head(ingressQueue)
  <2>1. n \in IngressNotes /\ ingressQueue' \in Seq(IngressNotes)
    BY <1>2, IngressIsTaken DEF TypeInv
  <2>2. n.new # Absent => n.new.tls \in Seq(Secrets)
    BY <2>1, SecretConstants, Zenon DEF IngressNotes, StoredIngresses
  <2>3. ih' = Idle \/ ih' = Sending \/ (n.new # Absent /\ ih' = Looping(n.key, n.new.tls))
    BY <1>2, IngressIsTaken, Zenon
  <2>4. IngressHandlerOK'
    BY <2>1, <2>2, <2>3 DEF IngressHandlerOK, Idle, Sending, Looping, IngressNotes
  <2>5. ingressSecretsMap' \in [Ingresses -> SUBSET Secrets] /\ UNCHANGED <<certs, leftOut>>
    BY <1>2, <2>1, IngressIsTaken, Zenon DEF TypeInv, IngressNotes
  <2> QED BY <1>1, <2>1, <2>4, <2>5, Zenon DEF TypeInv, SecretHandlerOK
<1>3. CASE LookUpSecret
  <2>1. ih.ing \in Ingresses /\ ih.rest \in Seq(Secrets)
    BY <1>3, Zenon DEF LookUpSecret, TypeInv, IngressHandlerOK
  <2>2. ih.rest # << >> => Tail(ih.rest) \in Seq(Secrets)
    BY <2>1
  <2>3. IngressHandlerOK'
    BY <1>3, <2>1, <2>2, SecretIsLookedUp DEF IngressHandlerOK, Looping, Sending
  <2> QED BY <1>1, <1>3, <2>3, SecretIsLookedUp, Zenon DEF TypeInv, SecretHandlerOK
<1>4. CASE ConvertForIngress \/ InsertSecret
  <2>1. ih.ing \in Ingresses /\ ih.rest \in Seq(Secrets) /\ ih.rest # << >>
    BY <1>4, Zenon DEF ConvertForIngress, InsertSecret, TypeInv, IngressHandlerOK
  <2>2. Head(ih.rest) \in Secrets /\ Tail(ih.rest) \in Seq(Secrets)
    BY <2>1
  <2>3. \/ ih' = Looping(ih.ing, Tail(ih.rest))
        \/ ih' = [pc |-> "insert", ing |-> ih.ing, rest |-> ih.rest]
    BY <1>4, ConvertGoesOn, Zenon DEF InsertSecret, IngressHandlerTo
  <2>4. IngressHandlerOK'
    BY <2>1, <2>2, <2>3 DEF IngressHandlerOK, Looping
  <2>5. /\ certs' \in Certificates
        /\ ingressSecretsMap' \in [Ingresses -> SUBSET Secrets]
        /\ leftOut' \subseteq Secrets
        /\ UNCHANGED ingressQueue
    <3>1. CASE ConvertForIngress
      BY <2>2, <3>1, ConvertGoesOn, Zenon DEF TypeInv, Certificates
    <3>2. CASE InsertSecret
      BY <2>1, <2>2, <3>2, Zenon DEF InsertSecret, TypeInv
    <3> QED BY <1>4, <3>1, <3>2, Zenon
  <2> QED BY <1>1, <2>4, <2>5, Zenon DEF TypeInv, SecretHandlerOK
<1>5. CASE SendIngress
  BY <1>1, <1>5, Zenon DEF SendIngress, IngressHandlerTo, Idle, TypeInv, IngressHandlerOK, SecretHandlerOK
<1> QED BY <1>2, <1>3, <1>4, <1>5, Zenon DEF IngressHandler

\* The handler of secrets.
LEMMA SecretHandlerTypes == ASSUME TypeInv, SecretHandler PROVE TypeInv'
<1>1. UNCHANGED <<api, store, ingressQueue, ih, ingressSecretsMap, applied, wpc, listed, leftOut>>
  BY Frames, Zenon
<1>2. CASE TakeSecret
  <2> DEFINE n == Head(secretQueue)
  <2>a. n \in SecretNotes /\ secretQueue' \in Seq(SecretNotes)
    BY <1>2 DEF TakeSecret, TypeInv
  <2>1. n.key \in Secrets /\ secretQueue' \in Seq(SecretNotes)
    BY <2>a, Zenon DEF SecretNotes
  <2>2. \/ sh' = [pc |-> "deleted", key |-> n.key]
        \/ sh' = [pc |-> "convert", key |-> n.key, secret |-> n.new]
        \/ sh' = Idle
    BY <1>2, Zenon DEF TakeSecret, SecretHandlerTo
  <2>3. SecretHandlerOK'
    BY <2>1, <2>2 DEF SecretHandlerOK, Idle
  <2>4. certs' \in Certificates
    BY <1>2, <2>1, Zenon DEF TakeSecret, TypeInv, Certificates
  <2> QED BY <1>1, <2>1, <2>3, <2>4, Zenon DEF TypeInv, IngressHandlerOK
<1>3. CASE AfterDelete \/ SendSecret
  <2>1. (sh' = Sending \/ sh' = Idle) /\ UNCHANGED <<certs, secretQueue>>
    BY <1>3, Zenon DEF AfterDelete, SendSecret, SecretHandlerTo
  <2>2. SecretHandlerOK'
    BY <2>1 DEF SecretHandlerOK, Sending, Idle
  <2> QED BY <1>1, <2>1, <2>2, Zenon DEF TypeInv, IngressHandlerOK
<1>4. CASE ConvertSecret
  <2>1. (sh' = Sending \/ sh' = Idle) /\ UNCHANGED secretQueue
    BY <1>4, Zenon DEF ConvertSecret, SecretHandlerTo
  <2>2. SecretHandlerOK'
    BY <2>1 DEF SecretHandlerOK, Sending, Idle
  <2>3. sh.key \in Secrets
    BY <1>4, Zenon DEF ConvertSecret, TypeInv, SecretHandlerOK
  <2>4. certs' \in Certificates
    BY <1>4, <2>3, Zenon DEF ConvertSecret, TypeInv, Certificates
  <2> QED BY <1>1, <2>1, <2>2, <2>4, Zenon DEF TypeInv, IngressHandlerOK
<1> QED BY <1>2, <1>3, <1>4, Zenon DEF SecretHandler

\* The worker.
LEMMA WorkerTypes == ASSUME TypeInv, Worker PROVE TypeInv'
<1>1. listed' \subseteq Secrets /\ wpc' \in {"idle", "list", "certificates"}
  BY ReferencedAreSecrets, Zenon DEF Worker, TakeEvent, ListIngresses, getSslCertificates, TypeInv
<1>2. applied' \in Certificates
  BY Zenon DEF Worker, TakeEvent, ListIngresses, getSslCertificates, TypeInv, Certificates
<1> QED BY <1>1, <1>2, Frames, Zenon DEF TypeInv, IngressHandlerOK, SecretHandlerOK

\* Every step keeps the types.
LEMMA TypeInvStep == ASSUME TypeInv, [Next]_vars PROVE TypeInv'
<1>1. CASE UNCHANGED vars
  BY <1>1, Zenon DEF vars, TypeInv, IngressHandlerOK, SecretHandlerOK
<1> QED BY <1>1, ClusterTypes, IngressHandlerTypes, SecretHandlerTypes, WorkerTypes, StepIs, Zenon

\* The types hold at the start.
LEMMA InitTypeInv == Init => TypeInv
<1> SUFFICES ASSUME Init PROVE TypeInv
  BY Zenon
<1>1. ClusterOK(api) /\ ClusterOK(store)
  BY Zenon DEF Init, ClusterOK, Keys, StoredIngresses, SecretValues
<1>2. ingressSecretsMap \in [Ingresses -> SUBSET Secrets] /\ certs \in Certificates
  BY Zenon DEF Init, Certificates
<1> QED BY <1>1, <1>2 DEF Init, TypeInv, IngressHandlerOK, SecretHandlerOK, Idle

\* The two flags.
Flags == work \in BOOLEAN /\ overlap \in BOOLEAN

\* Every step keeps the flags Boolean.
LEMMA FlagsStep == ASSUME Flags, [Next]_vars PROVE Flags'
<1>1. CASE IngressHandler \/ SecretHandler
  <2>1. work' \in BOOLEAN
    BY <1>1, Zenon DEF Flags, IngressHandler, SecretHandler, TakeIngress, LookUpSecret, ConvertForIngress,
                       InsertSecret, SendIngress, TakeSecret, AfterDelete, ConvertSecret, SendSecret
  <2>2. overlap' \in BOOLEAN
    BY <1>1, Zenon DEF Flags, IngressHandler, SecretHandler, TakeIngress, LookUpSecret, ConvertForIngress,
                       InsertSecret, SendIngress, TakeSecret, AfterDelete, ConvertSecret, SendSecret,
                       IngressHandlerTo, SecretHandlerTo
  <2> QED BY <2>1, <2>2, Zenon DEF Flags
<1>2. CASE Worker
  BY <1>2, Zenon DEF Flags, Worker, TakeEvent, ListIngresses, getSslCertificates, WorkerUnchanged
<1>3. CASE Users \/ (\E k \in Keys : Informer(k)) \/ UNCHANGED vars
  BY <1>3, Frames, Zenon DEF Flags
<1> QED BY <1>1, <1>2, <1>3, StepIs, Zenon

\* The inductive invariant about types.
THEOREM SecretTypes == Spec => [](TypeInv /\ Flags)
<1>1. Init => Flags
  BY Zenon DEF Init, Flags
<1> QED BY <1>1, InitTypeInv, TypeInvStep, FlagsStep, PTL DEF Spec

\* Whatever users store and however the handlers interleave, only contents that
\* convert become certificates, in the store of certificates and on the gateway.
THEOREM OnlyCertificatesAreApplied == Spec => []TypeOK
<1>1. TypeInv /\ Flags => TypeOK
  BY Zenon DEF TypeInv, Flags, TypeOK, ClusterOK, StoredIngresses, SecretValues, IngressHandlerOK,
         SecretHandlerOK
<1> QED BY <1>1, SecretTypes, PTL

-----------------------------------------------------------------------------
(* Every change of the certificate store reaches the gateway.                *)

\* The handler of ingresses will send an event.
EventComing ==
    \/ work
    \/ ih.pc # "idle"
    \/ \E n \in DOMAIN ingressQueue : IsSent(ingressQueue[n])

\* The certificate of s will be looked at again.
Coming(s) ==
    \/ EventComing
    \/ wpc = "list"
    \/ wpc = "certificates" /\ s \in listed
    \/ sh.pc = "send"
    \/ sh.pc = "deleted" /\ sh.key = s

\* The inductive invariant behind AppliedIsCached.
AppliedInv ==
    /\ \A s \in ReferencedSecrets : ContainsValue(s) /\ applied[s] # certs[s] => Coming(s)
    /\ wpc = "certificates" => \A s \in ReferencedSecrets : s \in listed \/ EventComing

\* Each step of the handler of secrets belongs to one stage of it.
LEMMA SecretHandlerStage ==
    /\ TakeSecret => sh = Idle
    /\ AfterDelete => sh.pc = "deleted"
    /\ ConvertSecret => sh.pc = "convert"
  BY Zenon DEF TakeSecret, AfterDelete, ConvertSecret

\* Only the worker changes its stage.
LEMMA WorkerStage ==
    /\ TakeEvent => wpc' # wpc /\ wpc' # "certificates"
    /\ getSslCertificates => wpc' # wpc /\ wpc' # "certificates"
  BY Zenon DEF TakeEvent, getSslCertificates

\* An announced event stays announced until the worker takes it.
LEMMA EventStays ==
    ASSUME TypeInv, EventComing, [Next]_vars, ~ TakeEvent
    PROVE  EventComing'
<1>1. CASE \E k \in Keys : Informer(k)
  <2> PICK k \in Keys : Informer(k)
    BY <1>1, Zenon
  <2>1. UNCHANGED <<work, ih>>
    BY Zenon DEF Informer
  <2>2. ASSUME NEW n \in DOMAIN ingressQueue
        PROVE  n \in DOMAIN ingressQueue' /\ ingressQueue'[n] = ingressQueue[n]
    <3>1. \/ UNCHANGED ingressQueue
          \/ k \in Ingresses /\ ingressQueue' = Append(ingressQueue, [key |-> k, old |-> store[k], new |-> api[k]])
      BY Zenon DEF Informer
    <3>2. k \in Ingresses => [key |-> k, old |-> store[k], new |-> api[k]] \in IngressNotes
      BY Zenon DEF TypeInv, ClusterOK, IngressNotes
    <3> QED BY <3>1, <3>2 DEF TypeInv
  <2> QED BY <2>1, <2>2, Zenon DEF EventComing, IsSent, IsIngressApplicationGateway
<1>2. CASE TakeIngress
  <2>1. work' = work /\ ih = Idle /\ ingressQueue # << >> /\ ingressQueue' = Tail(ingressQueue)
    BY <1>2, IngressIsTaken, Zenon
  <2>2. CASE ih'.pc # "idle"
    BY <2>2, Zenon DEF EventComing
  <2>3. CASE ih'.pc = "idle"
    <3>1. ~ IsSent(Head(ingressQueue))
      BY <1>2, <2>3, IngressIsTaken DEF Sending, Looping
    <3>2. ASSUME NEW n \in DOMAIN ingressQueue, IsSent(ingressQueue[n])
          PROVE  n - 1 \in DOMAIN ingressQueue' /\ ingressQueue'[n - 1] = ingressQueue[n]
      <4>1. n # 1
        BY <2>1, <3>1, <3>2 DEF TypeInv
      <4> QED BY <2>1, <4>1 DEF TypeInv
    <3>3. ih.pc = "idle"
      BY <2>1, Zenon DEF Idle
    <3> QED BY <2>1, <3>2, <3>3, Zenon DEF EventComing, IsSent
  <2> QED BY <2>2, <2>3, Zenon
<1>3. CASE LookUpSecret \/ ConvertForIngress \/ InsertSecret
  <2>1. LookUpSecret \/ ConvertForIngress => ih'.pc # "idle"
    BY SecretIsLookedUp, ConvertGoesOn DEF Looping, Sending
  <2>2. InsertSecret => ih'.pc # "idle"
    BY DEF InsertSecret, IngressHandlerTo, Looping
  <2> QED BY <1>3, <2>1, <2>2, Zenon DEF EventComing
<1>4. CASE SendIngress \/ SendSecret
  BY <1>4, Zenon DEF SendIngress, SendSecret, EventComing
<1>5. CASE \/ TakeSecret \/ AfterDelete \/ ConvertSecret \/ ListIngresses \/ getSslCertificates
           \/ Users \/ UNCHANGED vars
  <2>1. UNCHANGED <<ih, ingressQueue>>
    BY <1>5, Frames, Zenon DEF SecretHandler, Worker
  <2>2. work' = work
    <3>1. TakeSecret \/ AfterDelete \/ ConvertSecret \/ ListIngresses \/ getSslCertificates => work' = work
      BY Zenon DEF TakeSecret, AfterDelete, ConvertSecret, ListIngresses, getSslCertificates
    <3> QED BY <1>5, <3>1, Frames, Zenon
  <2> QED BY <2>1, <2>2, Zenon DEF EventComing, IsSent
<1> QED BY <1>1, <1>2, <1>3, <1>4, <1>5, StepIs, Zenon DEF IngressHandler, SecretHandler, Worker

\* A secret that becomes referenced is announced.
LEMMA NewReferenceIsSent ==
    ASSUME TypeInv, [Next]_vars,
           NEW s \in ReferencedSecrets', s \notin ReferencedSecrets
    PROVE  EventComing' /\ UNCHANGED <<wpc, listed>>
<1>1. PICK i \in Ingresses : IsIngressApplicationGateway(store'[i]) /\ s \in Uses(store'[i])
  BY Zenon DEF ReferencedSecrets, IsIngressApplicationGateway, Uses
<1>2. store'[i] # store[i]
  BY <1>1, Zenon DEF ReferencedSecrets
<1>3. PICK k \in Keys : Informer(k)
  BY <1>2, StepIs, Frames, Zenon
<1>4. k = i /\ store'[i] = api[i]
  BY <1>2, <1>3, Zenon DEF Informer, TypeInv, ClusterOK, Keys
<1>5. ingressQueue' = Append(ingressQueue, [key |-> k, old |-> store[k], new |-> api[k]])
  BY <1>3, <1>4, Zenon DEF Informer
<1>6. [key |-> k, old |-> store[k], new |-> api[k]] \in IngressNotes
  BY <1>4, Zenon DEF TypeInv, ClusterOK, IngressNotes
<1>7. /\ Len(ingressQueue) + 1 \in DOMAIN ingressQueue'
      /\ ingressQueue'[Len(ingressQueue) + 1] = [key |-> k, old |-> store[k], new |-> api[k]]
  BY <1>5, <1>6 DEF TypeInv
<1>8. IsSent([key |-> k, old |-> store[k], new |-> api[k]])
  BY <1>1, <1>4, Zenon DEF IsSent, IsIngressApplicationGateway
<1>9. EventComing'
  BY <1>7, <1>8, Zenon DEF EventComing, IsSent
<1> QED BY <1>3, <1>9, Frames, Zenon

\* What a step may do to the certificates, the map and the secrets' handler.
LEMMA AppliedStep ==
    ASSUME TypeInv, AppliedInv, [Next]_vars
    PROVE  AppliedInv'
<1>1. ASSUME NEW s \in ReferencedSecrets', wpc' = "certificates"
      PROVE  s \in listed' \/ EventComing'
  <2>1. CASE s \notin ReferencedSecrets
    BY <2>1, NewReferenceIsSent, Zenon
  <2>2. CASE s \in ReferencedSecrets /\ ListIngresses
    BY <2>2, Zenon DEF ListIngresses
  <2>3. CASE s \in ReferencedSecrets /\ ~ ListIngresses
    <3>1. ~ TakeEvent /\ UNCHANGED <<wpc, listed>>
      <4>1. ~ TakeEvent /\ ~ getSslCertificates
        BY <1>1, WorkerStage, Zenon
      <4> QED BY <2>3, <4>1, StepIs, Frames, Zenon DEF Worker
    <3> QED BY <1>1, <2>3, <3>1, EventStays, Zenon DEF AppliedInv
  <2> QED BY <2>1, <2>2, <2>3, Zenon
<1>2. ASSUME NEW s \in ReferencedSecrets', ContainsValue(s)', applied'[s] # certs'[s]
      PROVE  Coming(s)'
  <2>1. CASE s \notin ReferencedSecrets \/ EventComing'
    BY <2>1, NewReferenceIsSent, Zenon DEF Coming
  <2> SUFFICES ASSUME s \in ReferencedSecrets, ~ EventComing'
               PROVE  Coming(s)'
    BY <2>1, Zenon
  <2>2. s \in Secrets
    BY ReferencedAreSecrets, Zenon
  <2>3. CASE TakeEvent \/ ListIngresses
    BY <2>3, Zenon DEF TakeEvent, ListIngresses, Coming
  <2>4. CASE getSslCertificates
    <3>1. s \notin listed
      BY <1>2, <2>2, <2>4, Zenon DEF getSslCertificates, WorkerUnchanged
    <3>2. EventComing /\ ~ TakeEvent
      BY <2>4, <3>1, Zenon DEF AppliedInv, getSslCertificates, TakeEvent
    <3> QED BY <3>2, EventStays, Zenon
  <2>5. CASE IngressHandler
    <3>1. ~ (ConvertForIngress \/ InsertSecret \/ SendIngress)
      <4>1. ih'.pc = "idle" /\ ~ work'
        BY Zenon DEF EventComing
      <4>2. ASSUME ConvertForIngress PROVE FALSE
        BY <4>1, <4>2, ConvertGoesOn DEF Looping
      <4>3. ASSUME InsertSecret PROVE FALSE
        <5>1. ih' = Looping(ih.ing, Tail(ih.rest))
          BY <4>3, Zenon DEF InsertSecret, IngressHandlerTo
        <5> QED BY <4>1, <5>1, Zenon DEF Looping
      <4>4. ~ SendIngress
        BY <4>1, Zenon DEF SendIngress
      <4> QED BY <4>2, <4>3, <4>4, Zenon
    <3>2. UNCHANGED <<applied, certs, wpc, listed, sh>> /\ ~ TakeEvent
      BY <2>5, <3>1, Frames, IngressIsTaken, SecretIsLookedUp, WorkerStage, Zenon DEF IngressHandler
    <3>3. ContainsValue(s)
      <4>1. \/ UNCHANGED ingressSecretsMap
            \/ ingressSecretsMap' = [ingressSecretsMap EXCEPT ![Head(ingressQueue).key] = {}]
        BY <2>5, <3>1, IngressIsTaken, SecretIsLookedUp, Zenon DEF IngressHandler
      <4> QED BY <1>2, <4>1, Zenon DEF ContainsValue, TypeInv
    <3>4. Coming(s) /\ ~ EventComing
      BY <1>2, <3>2, <3>3, EventStays, Zenon DEF AppliedInv
    <3> QED BY <3>2, <3>4, Zenon DEF Coming
  <2>6. CASE SecretHandler
    <3>1. ~ SendSecret
      BY Zenon DEF SendSecret, EventComing
    <3>2. UNCHANGED <<applied, ingressSecretsMap, wpc, listed>> /\ ~ TakeEvent
      BY <2>6, Frames, WorkerStage, Zenon
    <3>3. ContainsValue(s)
      BY <1>2, <3>2, Zenon DEF ContainsValue
    <3>4. CASE UNCHANGED certs
      <4>1. Coming(s) /\ ~ EventComing
        BY <1>2, <3>2, <3>3, <3>4, EventStays, Zenon DEF AppliedInv
      <4>2. CASE sh.pc = "deleted" /\ sh.key = s
        <5>1. AfterDelete
          BY <2>6, <3>1, <4>2, SecretHandlerStage DEF Idle, SecretHandler
        <5>2. sh' = Sending
          BY <3>3, <3>2, <4>2, <5>1, Zenon DEF AfterDelete, SecretHandlerTo
        <5> QED BY <5>2, Zenon DEF Sending, Coming
      <4>3. CASE sh.pc = "send"
        BY <2>6, <3>1, <4>3, SecretHandlerStage DEF Idle, SecretHandler
      <4> QED BY <3>2, <4>1, <4>2, <4>3, Zenon DEF Coming
    <3>5. CASE certs' # certs /\ ConvertSecret
      BY <3>5 DEF ConvertSecret, SecretHandlerTo, Sending, Coming
    <3>6. CASE certs' # certs /\ TakeSecret
      <4>1. sh' = [pc |-> "deleted", key |-> Head(secretQueue).key]
        BY <3>6, Zenon DEF TakeSecret, SecretHandlerTo
      <4>2. CASE s = Head(secretQueue).key
        BY <4>1, <4>2, Zenon DEF Coming
      <4>3. CASE s # Head(secretQueue).key
        <5>1. certs'[s] = certs[s]
          BY <2>2, <3>6, <4>3, Zenon DEF TakeSecret, TypeInv, Certificates
        <5>2. Coming(s) /\ ~ EventComing
          BY <1>2, <3>2, <3>3, <5>1, EventStays, Zenon DEF AppliedInv
        <5>3. sh.pc = "idle"
          BY <3>6, Zenon DEF TakeSecret, Idle
        <5> QED BY <3>2, <5>2, <5>3, Zenon DEF Coming
      <4> QED BY <4>2, <4>3, Zenon
    <3>7. AfterDelete => UNCHANGED certs
      BY Zenon DEF AfterDelete
    <3> QED BY <2>6, <3>1, <3>4, <3>5, <3>6, <3>7, Zenon DEF SecretHandler
  <2>7. CASE Users \/ (\E k \in Keys : Informer(k)) \/ UNCHANGED vars
    <3>1. UNCHANGED <<applied, certs, ingressSecretsMap, wpc, listed, sh, work>>
      BY <2>7, Frames, Zenon
    <3>2. ContainsValue(s)
      BY <1>2, <3>1, Zenon DEF ContainsValue
    <3>3. ~ EventComing
      BY <3>1, EventStays, WorkerStage, Zenon
    <3>4. Coming(s)
      BY <1>2, <3>1, <3>2, Zenon DEF AppliedInv
    <3> QED BY <3>1, <3>3, <3>4, Zenon DEF Coming
  <2> QED BY <2>3, <2>4, <2>5, <2>6, <2>7, StepIs, Zenon DEF Worker
<1> QED BY <1>1, <1>2, Zenon DEF AppliedInv

\* Whichever secrets are created, changed and deleted, and however the two
\* handlers and the worker interleave, a certificate that changed in the store of
\* certificates reaches the gateway once all is dealt with.
THEOREM NoCertificateChangeIsLost == Spec => []AppliedIsCached
<1>1. Init => AppliedInv
  BY Zenon DEF Init, AppliedInv, ContainsValue
<1>2. AppliedInv => AppliedIsCached
  BY DEF AppliedInv, AppliedIsCached, Coming, EventComing, Quiet, Idle
<1> QED BY <1>1, <1>2, AppliedStep, SecretTypes, PTL DEF Spec

-----------------------------------------------------------------------------
(* The map of references knows the secrets of every ingress, and handlers    *)
(* that do not overlap keep the certificates current.                        *)

\* What a queue holds.
Elements(q) == {q[n] : n \in DOMAIN q}

\* A sequence is its head and its tail.
LEMMA HeadAndTail ==
    ASSUME NEW S, NEW q \in Seq(S), q # << >>
    PROVE  Elements(q) \subseteq {Head(q)} \cup Elements(Tail(q))
<1> SUFFICES ASSUME NEW n \in DOMAIN q, n # 1 PROVE q[n] \in Elements(Tail(q))
  BY DEF Elements
<1>1. n - 1 \in DOMAIN Tail(q) /\ Tail(q)[n - 1] = q[n]
  OBVIOUS
<1> QED BY <1>1, Zenon DEF Elements

\* There is a notification about k in the queue q.
Queued(q, k) == \E n \in DOMAIN q : q[n].key = k

\* The last notification queued about an object brings what the store holds.
LastIsStored(q, c) ==
    \A n \in DOMAIN q : (\A m \in DOMAIN q : m > n => q[m].key # q[n].key) => q[n].new = c[q[n].key]

\* A notification is queued when the store changes.
LEMMA QueueAppend ==
    ASSUME NEW N, NEW q \in Seq(N), NEW note \in N, NEW c, NEW d, LastIsStored(q, c),
           note.new = d[note.key],
           \A n \in DOMAIN q : q[n].key # note.key => d[q[n].key] = c[q[n].key]
    PROVE  /\ LastIsStored(Append(q, note), d)
           /\ \A k : Queued(Append(q, note), k) <=> Queued(q, k) \/ k = note.key
<1> DEFINE r == Append(q, note)
           last == Len(q) + 1
<1>1. /\ last \in DOMAIN r /\ r[last] = note
      /\ \A n \in DOMAIN r : n = last \/ (n < last /\ n \in DOMAIN q /\ r[n] = q[n])
      /\ \A n \in DOMAIN q : n < last /\ n \in DOMAIN r /\ r[n] = q[n]
  OBVIOUS
<1> HIDE DEF r, last
<1>2. ASSUME NEW n \in DOMAIN r, \A m \in DOMAIN r : m > n => r[m].key # r[n].key
      PROVE  r[n].new = d[r[n].key]
  <2>1. CASE n = last
    BY <1>1, <2>1, Zenon
  <2>2. CASE n # last
    <3>1. n \in DOMAIN q /\ r[n] = q[n] /\ last > n
      BY <1>1, <2>2, Zenon DEF last
    <3>2. q[n].key # note.key
      BY <1>1, <1>2, <3>1, Zenon
    <3>3. \A m \in DOMAIN q : m > n => q[m].key # q[n].key
      BY <1>1, <1>2, <3>1, Zenon
    <3> QED BY <3>1, <3>2, <3>3, Zenon DEF LastIsStored
  <2> QED BY <2>1, <2>2, Zenon
<1>3. LastIsStored(r, d)
  BY <1>2, Zenon DEF LastIsStored, r
<1>4. ASSUME NEW k PROVE Queued(r, k) <=> Queued(q, k) \/ k = note.key
  BY <1>1, Zenon DEF Queued
<1> QED BY <1>3, <1>4, Zenon DEF r

\* A notification is taken while the store stays as it is.
LEMMA QueueTail ==
    ASSUME NEW N, NEW q \in Seq(N), q # << >>, NEW c, LastIsStored(q, c)
    PROVE  /\ LastIsStored(Tail(q), c)
           /\ \A k : Queued(q, k) <=> Queued(Tail(q), k) \/ k = Head(q).key
           /\ ~ Queued(Tail(q), Head(q).key) => Head(q).new = c[Head(q).key]
<1> DEFINE r == Tail(q)
           note == Head(q)
<1>1. /\ 1 \in DOMAIN q /\ q[1] = note
      /\ DOMAIN q \subseteq Nat
      /\ \A n \in DOMAIN r : n \in Nat /\ n + 1 \in DOMAIN q /\ r[n] = q[n + 1]
      /\ \A n \in DOMAIN q : n = 1 \/ (n > 1 /\ n - 1 \in DOMAIN r /\ r[n - 1] = q[n])
  OBVIOUS
<1> HIDE DEF r, note
<1>2. ASSUME NEW n \in DOMAIN r, \A m \in DOMAIN r : m > n => r[m].key # r[n].key
      PROVE  r[n].new = c[r[n].key]
  <2>1. n \in Nat /\ n + 1 \in DOMAIN q /\ r[n] = q[n + 1]
    BY <1>1, Zenon
  <2>2. ASSUME NEW m \in DOMAIN q, m > n + 1
        PROVE  q[m].key # q[n + 1].key
    <3>1. m \in Nat /\ m # 1 /\ m - 1 > n
      BY <1>1, <2>1, <2>2
    <3>2. m - 1 \in DOMAIN r /\ r[m - 1] = q[m]
      BY <1>1, <3>1, Zenon
    <3> QED BY <1>2, <2>1, <3>1, <3>2, Zenon
  <2> QED BY <2>1, <2>2, Zenon DEF LastIsStored
<1>3. LastIsStored(r, c)
  BY <1>2, Zenon DEF LastIsStored, r
<1>4. ASSUME NEW k PROVE Queued(q, k) <=> Queued(r, k) \/ k = note.key
  BY <1>1 DEF Queued
<1>5. ASSUME ~ Queued(r, note.key) PROVE note.new = c[note.key]
  <2>1. ASSUME NEW m \in DOMAIN q, m > 1 PROVE q[m].key # q[1].key
    <3>1. m - 1 \in DOMAIN r /\ r[m - 1] = q[m]
      BY <1>1, <2>1
    <3> QED BY <1>1, <1>5, <3>1, Zenon DEF Queued
  <2> QED BY <1>1, <2>1, Zenon DEF LastIsStored
<1> QED BY <1>3, <1>4, <1>5, Zenon DEF r, note

\* Notifications of ingresses are about ingresses, those of secrets about secrets.
LEMMA QueuedKeys ==
    ASSUME TypeInv
    PROVE  /\ \A n \in DOMAIN ingressQueue : ingressQueue[n].key \in Ingresses
           /\ \A n \in DOMAIN secretQueue : secretQueue[n].key \in Secrets
<1>1. ASSUME NEW n \in DOMAIN ingressQueue PROVE ingressQueue[n] \in IngressNotes
  BY DEF TypeInv
<1>2. ASSUME NEW n \in DOMAIN secretQueue PROVE secretQueue[n] \in SecretNotes
  BY DEF TypeInv
<1> QED BY <1>1, <1>2, Zenon DEF IngressNotes, SecretNotes

QueueInv == LastIsStored(ingressQueue, store) /\ LastIsStored(secretQueue, store)

\* What an informer does to the queues and the store.
LEMMA InformerQueues ==
    ASSUME TypeInv, QueueInv, NEW k \in Keys, Informer(k)
    PROVE  /\ QueueInv'
           /\ \A j \in Keys : j # k => store'[j] = store[j]
           /\ \A i \in Ingresses : Queued(ingressQueue, i)' <=> Queued(ingressQueue, i) \/ i = k
           /\ \A s \in Secrets : Queued(secretQueue, s)' <=> Queued(secretQueue, s) \/ s = k
<1> DEFINE note == [key |-> k, old |-> store[k], new |-> api[k]]
<1>1. store'[k] = api[k] /\ \A j \in Keys : j # k => store'[j] = store[j]
  BY Zenon DEF Informer, TypeInv, ClusterOK
<1>2. note.key = k /\ note.new = store'[k]
  BY <1>1, Zenon
<1>3. CASE k \in Ingresses
  <2>0. LastIsStored(ingressQueue, store)
    BY Zenon DEF QueueInv
  <2>1. note \in IngressNotes
    BY <1>3, Zenon DEF TypeInv, ClusterOK, IngressNotes
  <2>2. ingressQueue' = Append(ingressQueue, note) /\ UNCHANGED secretQueue
    BY <1>3, Zenon DEF Informer
  <2>3. ingressQueue \in Seq(IngressNotes)
    BY Zenon DEF TypeInv
  <2>4. \A n \in DOMAIN ingressQueue : ingressQueue[n].key # k =>
            store'[ingressQueue[n].key] = store[ingressQueue[n].key]
    BY <1>1, QueuedKeys, Zenon DEF Keys
  <2>5. k \notin Secrets
    BY <1>3, SecretConstants, Zenon
  <2> HIDE DEF note
  <2>6. /\ LastIsStored(Append(ingressQueue, note), store')
        /\ \A i : Queued(Append(ingressQueue, note), i) <=> Queued(ingressQueue, i) \/ i = k
    BY <1>2, <2>0, <2>1, <2>3, <2>4, QueueAppend
  <2>7. LastIsStored(secretQueue, store')
    BY <1>1, <2>5, QueuedKeys, Zenon DEF QueueInv, LastIsStored, Keys
  <2> QED BY <1>1, <2>2, <2>5, <2>6, <2>7, Zenon DEF QueueInv
<1>4. CASE k \notin Ingresses
  <2>0. LastIsStored(secretQueue, store)
    BY Zenon DEF QueueInv
  <2>1. note \in SecretNotes
    BY <1>4, Zenon DEF TypeInv, ClusterOK, SecretNotes, Keys
  <2>2. secretQueue' = Append(secretQueue, note) /\ UNCHANGED ingressQueue
    BY <1>4, Zenon DEF Informer
  <2>3. secretQueue \in Seq(SecretNotes)
    BY Zenon DEF TypeInv
  <2>4. \A n \in DOMAIN secretQueue : secretQueue[n].key # k =>
            store'[secretQueue[n].key] = store[secretQueue[n].key]
    BY <1>1, QueuedKeys, Zenon DEF Keys
  <2> HIDE DEF note
  <2>5. /\ LastIsStored(Append(secretQueue, note), store')
        /\ \A s : Queued(Append(secretQueue, note), s) <=> Queued(secretQueue, s) \/ s = k
    BY <1>2, <2>0, <2>1, <2>3, <2>4, QueueAppend
  <2>6. LastIsStored(ingressQueue, store')
    BY <1>1, <1>4, QueuedKeys, Zenon DEF QueueInv, LastIsStored, Keys
  <2> QED BY <1>1, <1>4, <2>2, <2>5, <2>6, Zenon DEF QueueInv
<1> QED BY <1>3, <1>4, Zenon

\* What taking a notification does to a queue.
LEMMA IngressTaken ==
    ASSUME TypeInv, QueueInv, TakeIngress
    PROVE  /\ QueueInv' /\ Head(ingressQueue) \in IngressNotes
           /\ \A i : Queued(ingressQueue, i) <=> Queued(ingressQueue', i) \/ i = Head(ingressQueue).key
           /\ ~ Queued(ingressQueue', Head(ingressQueue).key)
                  => Head(ingressQueue).new = store[Head(ingressQueue).key]
<1>1. /\ ingressQueue \in Seq(IngressNotes) /\ ingressQueue # << >>
      /\ ingressQueue' = Tail(ingressQueue) /\ UNCHANGED <<store, secretQueue>>
  BY IngressIsTaken, Frames, Zenon DEF TypeInv, IngressHandler
<1>2. LastIsStored(ingressQueue, store)
  BY Zenon DEF QueueInv
<1> QED BY <1>1, <1>2, QueueTail DEF QueueInv

\* The secret handler takes a notification, as the ingress handler does.
LEMMA SecretTaken ==
    ASSUME TypeInv, QueueInv, TakeSecret
    PROVE  /\ QueueInv' /\ Head(secretQueue) \in SecretNotes
           /\ \A s : Queued(secretQueue, s) <=> Queued(secretQueue', s) \/ s = Head(secretQueue).key
           /\ ~ Queued(secretQueue', Head(secretQueue).key)
                  => Head(secretQueue).new = store[Head(secretQueue).key]
<1>1. /\ secretQueue \in Seq(SecretNotes) /\ secretQueue # << >>
      /\ secretQueue' = Tail(secretQueue) /\ UNCHANGED <<store, ingressQueue>>
  <2>1. secretQueue # << >> /\ secretQueue' = Tail(secretQueue)
    BY Zenon DEF TakeSecret
  <2> QED BY <2>1, Frames, Zenon DEF TypeInv, SecretHandler
<1>2. LastIsStored(secretQueue, store)
  BY Zenon DEF QueueInv
<1> QED BY <1>1, <1>2, QueueTail DEF QueueInv

\* Every step keeps QueueInv.
LEMMA QueueStep == ASSUME TypeInv, QueueInv, [Next]_vars PROVE QueueInv'
<1>1. CASE \/ LookUpSecret \/ ConvertForIngress \/ InsertSecret \/ SendIngress
           \/ AfterDelete \/ ConvertSecret \/ SendSecret
           \/ Worker \/ Users \/ UNCHANGED vars
  <2>1. UNCHANGED store
    BY <1>1, Frames, Zenon DEF IngressHandler, SecretHandler
  <2>2. LookUpSecret \/ ConvertForIngress \/ InsertSecret \/ SendIngress => UNCHANGED ingressQueue
    BY Zenon DEF LookUpSecret, ConvertForIngress, InsertSecret, SendIngress
  <2>3. AfterDelete \/ ConvertSecret \/ SendSecret => UNCHANGED secretQueue
    BY Zenon DEF AfterDelete, ConvertSecret, SendSecret
  <2>4. UNCHANGED <<ingressQueue, secretQueue>>
    BY <1>1, <2>2, <2>3, Frames, Zenon DEF IngressHandler, SecretHandler
  <2> QED BY <2>1, <2>4, Zenon DEF QueueInv
<1> QED BY <1>1, InformerQueues, IngressTaken, SecretTaken, StepIs, Zenon DEF IngressHandler, SecretHandler

-----------------------------------------------------------------------------
(* The map. *)

\* What the handler of ingresses still has to insert for ingress i.
Remaining(i) ==
    IF ih.pc \in {"loop", "convert", "insert"} /\ ih.ing = i THEN Elements(ih.rest) ELSE {}

\* An ingress without pending notification has its secrets in the map, or the
\* handler is about to insert them.
Inserted(i) ==
    ~ Queued(ingressQueue, i) /\ IsIngressApplicationGateway(store[i])
        => Uses(store[i]) \subseteq ingressSecretsMap[i] \cup leftOut \cup Remaining(i)

MapInv == \A i \in Ingresses : Inserted(i)

\* An informer's step keeps MapInv: what changed is queued.
LEMMA MapInformer ==
    ASSUME TypeInv, QueueInv, MapInv, NEW k \in Keys, Informer(k)
    PROVE  MapInv'
<1>1. UNCHANGED <<ih, ingressSecretsMap, leftOut>>
  BY Zenon DEF Informer
<1>2. ASSUME NEW i \in Ingresses PROVE Inserted(i)'
  <2>1. i = k => Queued(ingressQueue, i)'
    BY InformerQueues, Zenon
  <2>2. i # k => store'[i] = store[i] /\ (Queued(ingressQueue, i) => Queued(ingressQueue, i)')
    BY InformerQueues, Zenon DEF Keys
  <2> QED BY <1>1, <2>1, <2>2 DEF MapInv, Inserted, IsIngressApplicationGateway, Uses, Remaining
<1> QED BY <1>2, Zenon DEF MapInv

\* Taking an ingress leaves its secrets to be looked up.
LEMMA MapTakeIngress ==
    ASSUME TypeInv, QueueInv, MapInv, TakeIngress
    PROVE  MapInv'
<1> DEFINE note == Head(ingressQueue)
<1>1. ingressQueue' = Tail(ingressQueue) /\ UNCHANGED <<store, leftOut>>
  BY IngressIsTaken, Frames, Zenon DEF IngressHandler
<1>4. /\ note.key \in Ingresses
      /\ \A i : Queued(ingressQueue, i) <=> Queued(ingressQueue', i) \/ i = note.key
      /\ ~ Queued(ingressQueue', note.key) => note.new = store[note.key]
  BY IngressTaken, Zenon DEF IngressNotes
<1> HIDE DEF note
<1>5. ASSUME NEW i \in Ingresses, ~ Queued(ingressQueue', i), IsIngressApplicationGateway(store[i])
      PROVE  Uses(store[i]) \subseteq ingressSecretsMap'[i] \cup leftOut \cup Remaining(i)'
  <2>2. CASE i = note.key
    <3>1. note.new = store[i]
      BY <1>4, <1>5, <2>2, Zenon
    <3>2. note.new # Absent /\ IsIngressApplicationGateway(note.new)
      BY <1>5, <3>1, Zenon DEF IsIngressApplicationGateway
    <3>3. ih' = IF note.new.tls = << >> THEN Sending ELSE Looping(i, note.new.tls)
      BY <2>2, <3>2, Zenon DEF TakeIngress, note, IngressHandlerTo
    <3>4. CASE note.new.tls = << >>
      BY <3>1, <3>4 DEF Uses
    <3>5. CASE note.new.tls # << >>
      BY <3>1, <3>3, <3>5, Zenon DEF Uses, Remaining, Elements, Looping
    <3> QED BY <3>4, <3>5, Zenon
  <2>3. CASE i # note.key
    <3>1. ~ Queued(ingressQueue, i)
      BY <1>4, <1>5, <2>3, Zenon
    <3>2. Uses(store[i]) \subseteq ingressSecretsMap[i] \cup leftOut
      BY <1>5, <3>1, IngressIsTaken DEF MapInv, Inserted, Remaining, Idle
    <3>3. ingressSecretsMap'[i] = ingressSecretsMap[i]
      BY <2>3, IngressIsTaken, Zenon DEF note, TypeInv
    <3> QED BY <3>2, <3>3, Zenon
  <2> QED BY <2>2, <2>3, Zenon
<1>6. ASSUME NEW i \in Ingresses PROVE Inserted(i)'
  BY <1>1, <1>5, Zenon DEF Inserted, IsIngressApplicationGateway, Uses, Queued
<1> QED BY <1>6, Zenon DEF MapInv

\* A secret the loop is done with is in the map or left out.
LEMMA MapInsert ==
    ASSUME TypeInv, MapInv, LookUpSecret \/ ConvertForIngress \/ InsertSecret
    PROVE  MapInv'
<1>1. UNCHANGED <<store, ingressQueue>>
  BY Frames, SecretIsLookedUp, ConvertGoesOn, Zenon DEF InsertSecret, IngressHandler
<1>2. ih.pc \in {"loop", "convert", "insert"} /\ ih.ing \in Ingresses /\ ih.rest \in Seq(Secrets)
  BY Zenon DEF LookUpSecret, ConvertForIngress, InsertSecret, TypeInv, IngressHandlerOK
<1>3. ASSUME NEW i \in Ingresses
      PROVE  ingressSecretsMap[i] \cup leftOut \cup Remaining(i)
                 \subseteq ingressSecretsMap'[i] \cup leftOut' \cup Remaining(i)'
  <2>1. ingressSecretsMap[i] \subseteq ingressSecretsMap'[i] /\ leftOut \subseteq leftOut'
    BY SecretIsLookedUp, ConvertGoesOn, Zenon DEF InsertSecret, TypeInv
  <2>2. CASE i # ih.ing \/ ih.rest = << >>
    BY <2>1, <2>2 DEF Remaining, Elements
  <2>3. CASE i = ih.ing /\ ih.rest # << >>
    <3>1. Elements(ih.rest) \subseteq {Head(ih.rest)} \cup Elements(Tail(ih.rest))
      BY <1>2, <2>3, HeadAndTail, Zenon
    <3>2. \/ ih'.pc \in {"convert", "insert"} /\ ih'.ing = i /\ ih'.rest = ih.rest
          \/ /\ ih' = Looping(i, Tail(ih.rest))
             /\ Head(ih.rest) \in ingressSecretsMap'[i] \cup leftOut'
      <4>1. CASE LookUpSecret
        BY <2>3, <4>1, SecretIsLookedUp DEF ContainsPair
      <4>2. CASE ConvertForIngress
        BY <2>3, <4>2, ConvertGoesOn
      <4>3. CASE InsertSecret
        BY <2>3, <4>3, Zenon DEF InsertSecret, IngressHandlerTo, TypeInv
      <4> QED BY <4>1, <4>2, <4>3, Zenon
    <3>3. CASE ih'.pc \in {"convert", "insert"} /\ ih'.ing = i /\ ih'.rest = ih.rest
      BY <2>1, <2>3, <3>3, Zenon DEF Remaining, Elements
    <3>4. CASE /\ ih' = Looping(i, Tail(ih.rest))
               /\ Head(ih.rest) \in ingressSecretsMap'[i] \cup leftOut'
      <4>1. Remaining(i)' = Elements(Tail(ih.rest))
        BY <3>4, Zenon DEF Remaining, Looping, Elements
      <4>2. Remaining(i) = Elements(ih.rest)
        BY <1>2, <2>3, Zenon DEF Remaining
      <4> QED BY <2>1, <3>1, <3>4, <4>1, <4>2, Zenon
    <3> QED BY <3>2, <3>3, <3>4, Zenon
  <2> QED BY <2>2, <2>3, Zenon
<1>5. ASSUME NEW i \in Ingresses PROVE Inserted(i)'
  <2>1. Queued(ingressQueue, i)' = Queued(ingressQueue, i) /\ store'[i] = store[i]
    BY <1>1, Zenon DEF Queued
  <2> QED BY <1>3, <2>1, Zenon DEF MapInv, Inserted, IsIngressApplicationGateway, Uses
<1> QED BY <1>5, Zenon DEF MapInv

\* The other steps change neither the queue nor what the map is compared with.
LEMMA MapStep == ASSUME TypeInv, QueueInv, MapInv, [Next]_vars PROVE MapInv'
<1>1. CASE SendIngress \/ SecretHandler \/ Worker \/ Users \/ UNCHANGED vars
  <2>1. /\ UNCHANGED <<store, ingressQueue, ingressSecretsMap, leftOut>>
        /\ UNCHANGED ih \/ ih.pc = "send"
    <3>1. SendIngress => ih.pc = "send" /\ UNCHANGED <<ingressQueue, ingressSecretsMap, leftOut>>
      BY Zenon DEF SendIngress
    <3> QED BY <1>1, <3>1, Frames, Zenon DEF IngressHandler
  <2>3. ASSUME NEW i \in Ingresses PROVE Inserted(i)'
    <3>1. Remaining(i) \subseteq Remaining(i)' /\ Queued(ingressQueue, i)' = Queued(ingressQueue, i)
      BY <2>1, Zenon DEF Remaining, Elements, Queued
    <3> QED BY <2>1, <3>1, Zenon DEF MapInv, Inserted, IsIngressApplicationGateway, Uses
  <2> QED BY <2>3, Zenon DEF MapInv
<1> QED BY <1>1, MapInformer, MapTakeIngress, MapInsert, StepIs, Zenon DEF IngressHandler

\* However many times an ingress is created, changed and deleted while the
\* handlers run, the map ends up with every secret of every ingress, but for
\* those that did not convert.
THEOREM MapKnowsEverySecret == Spec => []MapIsComplete
<1>1. Init => QueueInv /\ MapInv
  BY DEF Init, QueueInv, MapInv, LastIsStored, Inserted, IsIngressApplicationGateway, Keys
<1>2. MapInv => MapIsComplete
  BY DEF MapInv, Inserted, MapIsComplete, Quiet, Queued, Remaining, Idle
<1> QED BY <1>1, <1>2, QueueStep, MapStep, SecretTypes, PTL DEF Spec

-----------------------------------------------------------------------------
(* The certificates, as long as the handlers do not overlap. *)

\* The secret is in the map, or the handler of ingresses is about to put it there.
InUse(s) == ContainsValue(s) \/ (ih.pc = "insert" /\ Head(ih.rest) = s)

Converting(s) == sh.pc = "convert" /\ sh.key = s

\* The certificate of a secret in use is current, or a notification or the
\* handler of secrets will see to it; a handler that converts holds what the
\* store holds, or a notification is queued; and there is no certificate of a
\* secret that is gone.
UpToDate(s) ==
    /\ store[s] = Absent => certs[s] = Absent \/ Queued(secretQueue, s)
    /\ InUse(s) => IsCurrent(s) \/ Queued(secretQueue, s) \/ Converting(s)
    /\ ih.pc = "convert" /\ Head(ih.rest) = s => ih.secret = store[s] \/ Queued(secretQueue, s)
    /\ Converting(s) => sh.secret = store[s] \/ Queued(secretQueue, s)

SerialInv == ~ overlap => (ih = Idle \/ sh = Idle) /\ \A s \in Secrets : UpToDate(s)

\* An informer's step keeps SerialInv: a changed secret is queued.
LEMMA SerialInformer ==
    ASSUME TypeInv, QueueInv, SerialInv, NEW k \in Keys, Informer(k)
    PROVE  SerialInv'
<1>1. UNCHANGED <<ih, sh, ingressSecretsMap, certs, overlap>>
  BY Zenon DEF Informer
<1>2. ASSUME ~ overlap, NEW s \in Secrets PROVE UpToDate(s)'
  <2>1. UpToDate(s)
    BY <1>2, Zenon DEF SerialInv
  <2>2. s = k => Queued(secretQueue, s)'
    BY InformerQueues, Zenon
  <2>3. s # k => store'[s] = store[s] /\ (Queued(secretQueue, s) => Queued(secretQueue, s)')
    BY InformerQueues, Zenon DEF Keys
  <2> QED BY <1>1, <2>1, <2>2, <2>3, Zenon DEF UpToDate, InUse, ContainsValue, Converting, IsCurrent
<1> QED BY <1>1, <1>2, Zenon DEF SerialInv

\* A step of the handler of ingresses that overlaps with nothing.
LEMMA SerialIngressHandler ==
    ASSUME TypeInv, SerialInv, IngressHandler
    PROVE  SerialInv'
<1>1. ASSUME ~ overlap' PROVE ~ overlap /\ sh = Idle
  BY <1>1, Zenon DEF IngressHandler, TakeIngress, LookUpSecret, ConvertForIngress, InsertSecret,
                     SendIngress, IngressHandlerTo
<1>2. UNCHANGED <<sh, store, secretQueue>>
  BY Frames, Zenon
<1>3. ASSUME sh = Idle, NEW s \in Secrets, UpToDate(s) PROVE UpToDate(s)'
  <2>0. sh.pc = "idle" /\ ~ Converting(s) /\ ~ Converting(s)'
    BY <1>2, <1>3, Zenon DEF Idle, Converting
  \* What is left to show of a step that converts nothing.
  <2>a. ASSUME UNCHANGED certs, InUse(s)' => InUse(s) \/ store[s] = Absent,
               ih'.pc = "convert" /\ Head(ih'.rest) = s => ih'.secret = store[s]
        PROVE  UpToDate(s)'
    <3>1. store[s] = Absent => IsCurrent(s) \/ Queued(secretQueue, s)
      BY <1>3, Zenon DEF UpToDate, IsCurrent
    <3> QED BY <1>2, <1>3, <2>0, <2>a, <3>1, Zenon DEF UpToDate, IsCurrent
  <2>1. CASE TakeIngress
    <3>1. UNCHANGED certs /\ (ContainsValue(s)' => ContainsValue(s))
      BY <2>1, IngressIsTaken, Zenon DEF ContainsValue, TypeInv
    <3>2. ih' = Idle \/ ih' = Sending \/ \E i, r : ih' = Looping(i, r)
      BY <2>1, IngressIsTaken, Zenon
    <3>3. ih'.pc \notin {"convert", "insert"}
      BY <3>2 DEF Idle, Sending, Looping
    <3> QED BY <2>a, <3>1, <3>3, Zenon DEF InUse
  <2>2. CASE LookUpSecret
    <3>1. UNCHANGED <<certs, ingressSecretsMap>> /\ (ContainsValue(s)' <=> ContainsValue(s))
      BY <2>2, SecretIsLookedUp, Zenon DEF ContainsValue
    <3>2. CASE \/ ih' = Sending \/ \E r : ih' = Looping(ih.ing, r)
      <4>1. ih'.pc \notin {"convert", "insert"}
        BY <3>2 DEF Sending, Looping
      <4> QED BY <2>a, <3>1, <4>1, Zenon DEF InUse
    <3>3. CASE ih' = [pc |-> "convert", ing |-> ih.ing, rest |-> ih.rest, secret |-> store[Head(ih.rest)]]
      <4>1. ih'.pc = "convert" /\ ih'.rest = ih.rest /\ ih'.secret = store[Head(ih.rest)]
        BY <3>3, Zenon
      <4> QED BY <2>a, <3>1, <4>1, Zenon DEF InUse
    <3>4. CASE /\ ih' = [pc |-> "insert", ing |-> ih.ing, rest |-> ih.rest]
               /\ store[Head(ih.rest)] = Absent \/ ContainsValue(Head(ih.rest))
      <4>1. ih'.pc = "insert" /\ ih'.rest = ih.rest
        BY <3>4, Zenon
      <4> QED BY <2>a, <3>1, <3>4, <4>1, Zenon DEF InUse
    <3> QED BY <2>2, <3>2, <3>3, <3>4, SecretIsLookedUp, Zenon
  <2>3. CASE ConvertForIngress
    <3>1. ContainsValue(s)' <=> ContainsValue(s)
      BY <2>3, ConvertGoesOn, Zenon DEF ContainsValue
    <3>2. CASE ih.secret \notin Contents
      <4>1. ih' = Looping(ih.ing, Tail(ih.rest)) /\ UNCHANGED certs
        BY <2>3, <3>2, ConvertGoesOn, Zenon
      <4>2. ih'.pc = "loop"
        BY <4>1, Zenon DEF Looping
      <4> QED BY <2>a, <3>1, <4>1, <4>2, Zenon DEF InUse
    <3>3. CASE ih.secret \in Contents
      <4>1. /\ certs' = [certs EXCEPT ![Head(ih.rest)] = ih.secret]
            /\ ih' = [pc |-> "insert", ing |-> ih.ing, rest |-> ih.rest]
        BY <2>3, <3>3, ConvertGoesOn, Zenon
      <4>2. ih'.pc = "insert" /\ ih'.rest = ih.rest
        BY <4>1, Zenon
      <4>3. CASE s = Head(ih.rest)
        <5>1. certs'[s] = ih.secret
          BY <4>1, <4>3, Zenon DEF TypeInv, Certificates
        <5>2. ih.secret = store[s] \/ Queued(secretQueue, s)
          BY <1>3, <2>3, <4>3, ConvertGoesOn, Zenon DEF UpToDate
        <5> QED BY <1>2, <2>0, <3>3, <4>2, <5>1, <5>2, SecretConstants, Zenon DEF UpToDate, IsCurrent
      <4>4. CASE s # Head(ih.rest)
        <5>1. certs'[s] = certs[s]
          BY <4>1, <4>4, Zenon DEF TypeInv, Certificates
        <5>2. InUse(s)' => InUse(s)
          BY <3>1, <4>2, <4>4, Zenon DEF InUse
        <5> QED BY <1>2, <1>3, <2>0, <4>2, <5>1, <5>2, Zenon DEF UpToDate, IsCurrent
      <4> QED BY <4>3, <4>4, Zenon
    <3> QED BY <3>2, <3>3, Zenon
  <2>4. CASE InsertSecret
    <3>1. UNCHANGED certs /\ ih' = Looping(ih.ing, Tail(ih.rest)) /\ ih.pc = "insert"
      BY <2>4, Zenon DEF InsertSecret, IngressHandlerTo
    <3>2. ih'.pc = "loop"
      BY <3>1, Zenon DEF Looping
    <3>3. ContainsValue(s)' => ContainsValue(s) \/ s = Head(ih.rest)
      BY <2>4, Zenon DEF InsertSecret, ContainsValue, TypeInv
    <3> QED BY <2>a, <3>1, <3>2, <3>3, Zenon DEF InUse
  <2>5. CASE SendIngress
    <3>1. UNCHANGED <<certs, ingressSecretsMap>> /\ ih'.pc = "idle"
      BY <2>5, Zenon DEF SendIngress, IngressHandlerTo, Idle
    <3> QED BY <2>a, <3>1, Zenon DEF InUse, ContainsValue
  <2> QED BY <2>1, <2>2, <2>3, <2>4, <2>5, Zenon DEF IngressHandler
<1> QED BY <1>1, <1>2, <1>3, Zenon DEF SerialInv

\* A step of the handler of secrets that overlaps with nothing.
LEMMA SerialSecretHandler ==
    ASSUME TypeInv, QueueInv, SerialInv, SecretHandler
    PROVE  SerialInv'
<1>1. ASSUME ~ overlap' PROVE ~ overlap /\ ih = Idle
  BY <1>1, Zenon DEF SecretHandler, TakeSecret, AfterDelete, ConvertSecret, SendSecret, SecretHandlerTo
<1>2. UNCHANGED <<ih, store, ingressSecretsMap>>
  BY Frames, Zenon
<1>3. ASSUME ih = Idle, NEW s \in Secrets, UpToDate(s) PROVE UpToDate(s)'
  <2>0. /\ ih.pc = "idle" /\ ih'.pc = "idle"
        /\ InUse(s)' <=> ContainsValue(s)
        /\ InUse(s) <=> ContainsValue(s)
    BY <1>2, <1>3, Zenon DEF Idle, InUse, ContainsValue
  <2>1. CASE TakeSecret
    <3> DEFINE n == Head(secretQueue)
    <3>1. ~ Converting(s)
      BY <2>1, Zenon DEF TakeSecret, Idle, Converting
    <3>2. /\ \A t : Queued(secretQueue, t) <=> Queued(secretQueue', t) \/ t = n.key
          /\ ~ Queued(secretQueue', n.key) => n.new = store[n.key]
      BY <2>1, SecretTaken, Zenon
    <3>3. \/ /\ n.new = Absent /\ certs' = [certs EXCEPT ![n.key] = Absent]
             /\ sh' = [pc |-> "deleted", key |-> n.key]
          \/ /\ n.new # Absent /\ certs' = certs /\ ContainsValue(n.key)
             /\ sh' = [pc |-> "convert", key |-> n.key, secret |-> n.new]
          \/ n.new # Absent /\ certs' = certs /\ ~ ContainsValue(n.key) /\ sh' = Idle
      BY <2>1, Zenon DEF TakeSecret, SecretHandlerTo
    <3> HIDE DEF n
    <3>4. CASE s # n.key
      <4>1. certs'[s] = certs[s] /\ ~ Converting(s)'
        BY <3>3, <3>4 DEF Converting, Idle, TypeInv, Certificates
      <4>2. Queued(secretQueue, s) <=> Queued(secretQueue', s)
        BY <3>2, <3>4, Zenon
      <4> QED BY <1>2, <1>3, <2>0, <3>1, <4>1, <4>2, Zenon DEF UpToDate, IsCurrent, Queued
    <3>5. CASE s = n.key /\ ~ Queued(secretQueue', s)
      <4>1. n.new = store[s]
        BY <3>2, <3>5, Zenon
      <4>2. CASE n.new = Absent
        <5>1. certs'[s] = Absent /\ ~ Converting(s)'
          BY <3>3, <3>5, <4>2 DEF Converting, TypeInv, Certificates
        <5> QED BY <1>2, <2>0, <4>1, <4>2, <5>1, Zenon DEF UpToDate, IsCurrent
      <4>3. CASE n.new # Absent
        <5>1. /\ Converting(s)' => sh'.secret = n.new
              /\ ContainsValue(s) => Converting(s)'
          BY <3>3, <3>5, <4>3 DEF Converting, Idle
        <5> QED BY <1>2, <2>0, <4>1, <4>3, <5>1, Zenon DEF UpToDate
      <4> QED BY <4>2, <4>3, Zenon
    <3>6. CASE s = n.key /\ Queued(secretQueue', s)
      BY <2>0, <3>6, Zenon DEF UpToDate, Queued
    <3> QED BY <3>4, <3>5, <3>6, Zenon
  <2>2. CASE AfterDelete \/ SendSecret
    <3>1. UNCHANGED <<certs, secretQueue>> /\ ~ Converting(s)
      BY <2>2, Zenon DEF AfterDelete, SendSecret, Converting
    <3>2. sh' = Sending \/ sh' = Idle
      BY <2>2, Zenon DEF AfterDelete, SendSecret, SecretHandlerTo
    <3>3. ~ Converting(s)'
      BY <3>2 DEF Converting, Sending, Idle
    <3> QED BY <1>2, <1>3, <2>0, <3>1, <3>3, Zenon DEF UpToDate, IsCurrent
  <2>3. CASE ConvertSecret
    <3>1. sh.pc = "convert" /\ UNCHANGED secretQueue /\ (sh' = Sending \/ sh' = Idle)
      BY <2>3, Zenon DEF ConvertSecret, SecretHandlerTo
    <3>2. ~ Converting(s)'
      BY <3>1 DEF Converting, Sending, Idle
    <3>3. CASE Queued(secretQueue, s)
      BY <2>0, <3>1, <3>2, <3>3, Zenon DEF UpToDate, Queued
    <3>4. CASE ~ Queued(secretQueue, s) /\ s # sh.key
      <4>1. certs'[s] = certs[s] /\ ~ Converting(s)
        BY <2>3, <3>4, Zenon DEF ConvertSecret, Converting, TypeInv, Certificates
      <4> QED BY <1>2, <1>3, <2>0, <3>1, <3>2, <4>1, Zenon DEF UpToDate, IsCurrent
    <3>5. CASE ~ Queued(secretQueue, s) /\ s = sh.key
      <4>1. sh.secret = store[s]
        BY <1>3, <3>1, <3>5, Zenon DEF UpToDate, Converting
      <4>2. CASE sh.secret \in Contents
        <5>1. certs'[s] = store[s] /\ store[s] # Absent
          BY <2>3, <3>5, <4>1, <4>2, SecretConstants, Zenon DEF ConvertSecret, TypeInv, Certificates
        <5> QED BY <1>2, <2>0, <3>2, <5>1, Zenon DEF UpToDate, IsCurrent
      <4>3. CASE sh.secret \notin Contents
        <5>1. certs' = certs
          BY <2>3, <4>3, Zenon DEF ConvertSecret
        <5>2. store[s] \in Malformed \cup {Absent}
          BY <4>1, <4>3, Zenon DEF TypeInv, ClusterOK, SecretValues
        <5>3. store[s] = Absent => certs[s] = Absent
          BY <1>3, <3>5, Zenon DEF UpToDate
        <5> QED BY <1>2, <2>0, <3>2, <5>1, <5>2, <5>3, Zenon DEF UpToDate, IsCurrent
      <4> QED BY <4>2, <4>3, Zenon
    <3> QED BY <3>3, <3>4, <3>5, Zenon
  <2> QED BY <2>1, <2>2, <2>3, Zenon DEF SecretHandler
<1> QED BY <1>1, <1>2, <1>3, Zenon DEF SerialInv

\* Every step keeps SerialInv.
LEMMA SerialStep == ASSUME TypeInv, QueueInv, SerialInv, [Next]_vars PROVE SerialInv'
<1>1. CASE Worker \/ Users \/ UNCHANGED vars
  <2>1. UNCHANGED <<store, secretQueue, ingressSecretsMap, certs, ih, sh, overlap>>
    BY <1>1, Frames, Zenon
  <2> QED BY <2>1, Zenon DEF SerialInv, UpToDate, InUse, ContainsValue, Converting, IsCurrent, Queued
<1> QED BY <1>1, SerialInformer, SerialIngressHandler, SerialSecretHandler, StepIs, Zenon

\* As long as no handler of a secret has run while the handler of an ingress
\* was under way, the certificates end up current: neither can then convert a
\* secret that the other has replaced already, or miss one that the other is
\* about to put into the map.
THEOREM SerialHandlersKeepCertificatesCurrent == Spec => []CertificatesCurrentIfSerial
<1>1. Init => QueueInv /\ MapInv /\ SerialInv
  BY DEF Init, QueueInv, MapInv, LastIsStored, Inserted, IsIngressApplicationGateway, Keys,
         SerialInv, UpToDate, InUse, ContainsValue, Converting, Idle
<1>2. TypeInv /\ MapInv /\ SerialInv => CertificatesCurrentIfSerial
  <2> SUFFICES ASSUME TypeInv, MapInv, SerialInv, ~ overlap, Quiet,
                      NEW s \in ReferencedSecrets, s \notin leftOut
               PROVE  IsCurrent(s)
    BY Zenon DEF CertificatesCurrentIfSerial
  <2>1. PICK i \in Ingresses : IsIngressApplicationGateway(store[i]) /\ s \in Uses(store[i])
    BY Zenon DEF ReferencedSecrets
  <2>2. s \in Secrets /\ s \in ingressSecretsMap[i]
    BY <2>1, ReferencedAreSecrets DEF MapInv, Inserted, Quiet, Queued, Remaining, Idle
  <2> QED BY <2>2 DEF SerialInv, UpToDate, InUse, ContainsValue, Converting, Quiet, Queued, Idle
<1> QED BY <1>1, <1>2, QueueStep, MapStep, SerialStep, SecretTypes, PTL DEF Spec

=============================================================================
